--------------------------- MODULE Programs_proofs ---------------------------
(*****************************************************************************)
(* Proofs about the two command-line programs that are modelled: the builder *)
(* of lab 13 (ArchBuilder), then the cache exercises of lab 11 (CacheLab).   *)
(* They share nothing but this module.                                       *)
(*                                                                           *)
(* The builder, for every set of puzzles, slots, nodes, groups and services: *)
(* first that an accepted puzzle can be drawn, solved and read, whatever its *)
(* layout, palette and texts; then that nothing else is ever published.      *)
(*                                                                           *)
(* The cache exercises, for every number of programs and products: CacheInv  *)
(* is inductive.  It says where a program may be; whose debt a dirty key, a   *)
(* partial record or a changed setting of Redis is; and, of a program that   *)
(* runs alone, what it has behind it.                                        *)
(*****************************************************************************)
EXTENDS ArchBuilder, CacheLab, FiniteSetTheorems, SequenceTheorems, WellFoundedInduction, TLAPS

(* Groups and their ancestors *)

LEMMA ChainFacts ==
    ASSUME NEW groups, NEW g
    PROVE  /\ Chain(groups, g) \subseteq DOMAIN groups
           /\ Closed(groups, g, Chain(groups, g))
           /\ \A S \in SUBSET DOMAIN groups : Closed(groups, g, S) => Chain(groups, g) \subseteq S
<1>1. Chain(groups, g) \subseteq DOMAIN groups
  BY DEF Chain
<1>2. \A S \in SUBSET DOMAIN groups : Closed(groups, g, S) => Chain(groups, g) \subseteq S
  BY DEF Chain
<1>3. ASSUME NEW x \in ({g} \cup {groups[h].parent : h \in Chain(groups, g)}) \cap DOMAIN groups,
             NEW S \in SUBSET DOMAIN groups, Closed(groups, g, S)
      PROVE  x \in S
  BY <1>2, <1>3 DEF Closed
<1>4. Closed(groups, g, Chain(groups, g))
  BY <1>3 DEF Closed, Chain
<1> QED BY <1>1, <1>2, <1>4

LEMMA ChainStep ==
    ASSUME NEW groups, NEW g \in DOMAIN groups
    PROVE  Chain(groups, g) = {g} \cup Chain(groups, groups[g].parent)
<1> DEFINE p == groups[g].parent
           S == {g} \cup Chain(groups, p)
<1>1. Closed(groups, g, S) /\ S \subseteq DOMAIN groups
  <2>1. Closed(groups, p, Chain(groups, p)) /\ Chain(groups, p) \subseteq DOMAIN groups
    BY ChainFacts
  <2> QED BY <2>1 DEF Closed
<1>2. Chain(groups, g) \subseteq S
  BY <1>1, ChainFacts
<1>3. Closed(groups, g, Chain(groups, g)) /\ Chain(groups, g) \subseteq DOMAIN groups
  BY ChainFacts
<1>4. g \in Chain(groups, g)
  BY <1>3 DEF Closed
<1>5. Closed(groups, p, Chain(groups, g))
  BY <1>3, <1>4 DEF Closed
<1>6. Chain(groups, p) \subseteq Chain(groups, g)
  BY <1>3, <1>5, ChainFacts
<1> QED BY <1>2, <1>4, <1>6

LEMMA ChainUnknown ==
    ASSUME NEW groups, NEW g, g \notin DOMAIN groups
    PROVE  Chain(groups, g) = {}
<1>1. Closed(groups, g, {})
  BY DEF Closed
<1> QED BY <1>1, ChainFacts

\* An ancestor's ancestors are one's own.
LEMMA ChainTransitive ==
    ASSUME NEW groups, NEW g, NEW h \in Chain(groups, g)
    PROVE  Chain(groups, h) \subseteq Chain(groups, g)
<1>1. Closed(groups, g, Chain(groups, g)) /\ Chain(groups, g) \subseteq DOMAIN groups
  BY ChainFacts
<1>2. Closed(groups, h, Chain(groups, g))
  BY <1>1 DEF Closed
<1> QED BY <1>1, <1>2, ChainFacts

\* Of two ancestors one is an ancestor of the other.
LEMMA ChainLinear ==
    ASSUME NEW groups, NEW g, NEW x \in Chain(groups, g), NEW y \in Chain(groups, g)
    PROVE  y \in Chain(groups, x) \/ x \in Chain(groups, y)
<1> DEFINE S == {z \in Chain(groups, g) : z \in Chain(groups, x) \/ x \in Chain(groups, z)}
<1>1. Closed(groups, g, Chain(groups, g)) /\ Chain(groups, g) \subseteq DOMAIN groups
  BY ChainFacts
<1>2. Closed(groups, x, Chain(groups, x)) /\ x \in Chain(groups, x)
  BY <1>1, ChainStep, ChainFacts
<1>3. ASSUME NEW z \in S, groups[z].parent \in DOMAIN groups PROVE groups[z].parent \in S
  <2>1. groups[z].parent \in Chain(groups, g)
    BY <1>1, <1>3 DEF Closed
  <2>2. CASE z \in Chain(groups, x)
    BY <1>2, <1>3, <2>1, <2>2 DEF Closed
  <2>3. CASE x \in Chain(groups, z)
    <3>1. x = z \/ x \in Chain(groups, groups[z].parent)
      BY <2>3, <1>1, ChainStep
    <3> QED BY <1>2, <1>3, <2>1, <3>1 DEF Closed
  <2> QED BY <2>2, <2>3
<1>4. g \in DOMAIN groups => g \in S
  BY <1>1 DEF Closed
<1>5. Closed(groups, g, S) /\ S \in SUBSET DOMAIN groups
  BY <1>1, <1>3, <1>4 DEF Closed
<1> QED BY <1>5, ChainFacts

\* Without a cycle two groups are not each the other's ancestor.
LEMMA ChainAntisymmetric ==
    ASSUME NEW groups, Acyclic(groups), NEW g \in DOMAIN groups, NEW h \in Chain(groups, g), g \in Chain(groups, h)
    PROVE  g = h
<1> SUFFICES ASSUME g # h PROVE FALSE
  OBVIOUS
<1>1. h \in Chain(groups, groups[g].parent)
  BY ChainStep
<1>2. g \in Chain(groups, groups[g].parent)
  BY <1>1, ChainTransitive
<1> QED BY <1>2 DEF Acyclic

\* A set of groups has one whose parent is not in it.
LEMMA Topmost ==
    ASSUME NEW groups, IsFiniteSet(DOMAIN groups), Acyclic(groups),
           NEW S \in SUBSET DOMAIN groups, S # {}
    PROVE  \E g \in S : groups[g].parent \notin S
<1> DEFINE T == {Chain(groups, g) : g \in S}
           R == StrictSubsetOrdering(DOMAIN groups)
<1>1. IsWellFoundedOn(R, SUBSET DOMAIN groups)
  BY FS_StrictSubsetOrderingWellFounded, FS_FiniteSubsetsOfFinite
<1>2. T \subseteq SUBSET DOMAIN groups /\ T # {}
  BY ChainFacts
<1>3. \E x \in T : \A y \in T : ~ (<<y, x>> \in R)
  <2> HIDE DEF T, R
  <2> QED BY <1>1, <1>2, WFMin
<1>4. PICK g \in S : \A h \in S : ~ (<<Chain(groups, h), Chain(groups, g)>> \in R)
  BY <1>3
<1>5. SUFFICES ASSUME groups[g].parent \in S PROVE FALSE
  OBVIOUS
<1>6. Chain(groups, groups[g].parent) \subseteq Chain(groups, g) /\ g \in Chain(groups, g)
  BY ChainStep
<1>7. g \notin Chain(groups, groups[g].parent)
  BY DEF Acyclic
<1>8. <<Chain(groups, groups[g].parent), Chain(groups, g)>> \in R
  BY <1>6, <1>7, ChainFacts DEF StrictSubsetOrdering
<1> QED BY <1>4, <1>5, <1>8

-----------------------------------------------------------------------------
(* Geometry *)

\* What the form of a layout says of its groups.
WellFormed(L) ==
    /\ IsFiniteSet(DOMAIN L.groups) /\ None \notin DOMAIN L.groups
    /\ \A g \in DOMAIN L.groups : L.groups[g].cell \in [c : Nat, r : Nat, w : Nat \ {0}, h : Nat \ {0}]
    /\ \A x \in DOMAIN L.items : L.items[x].cell \in [c : Nat, r : Nat]

\* One rectangle in another, to the hundredth.
Within(a, b) == a.c >= b.c /\ a.c + a.w <= b.c + b.w /\ a.r >= b.r /\ a.r + a.h <= b.r + b.h

\* A node takes ninety hundredths of a column and ninety-three of a row: the builder compares
\* with a tolerance that is less than a hundredth.
Holds(b, cell) == cell.c + 5 >= b.c /\ cell.c + 95 <= b.c + b.w /\ cell.r >= b.r /\ cell.r + 93 <= b.r + b.h

Boxes == [c : Nat, r : Nat, w : Nat \ {0}, h : Nat \ {0}]

LEMMA WithinIsInside ==
    ASSUME NEW a \in Boxes, NEW b \in Boxes, Within(a, b)
    PROVE  /\ Inside(GroupRect(a), GroupRect(b))
           /\ \A z \in Boxes : Overlap(GroupRect(a), GroupRect(z), 25) => Overlap(GroupRect(b), GroupRect(z), 25)
           /\ \A z \in Boxes : Overlap(GroupRect(z), GroupRect(a), 25) => Overlap(GroupRect(z), GroupRect(b), 25)
BY DEF Boxes, Within, Inside, GroupRect, Overlap

LEMMA NodeWithin ==
    ASSUME NEW a \in [c : Nat, r : Nat], NEW b \in Boxes, Inside(NodeBox(a), GroupRect(b))
    PROVE  /\ Holds(b, a)
           /\ \A z \in Boxes : Overlap(NodeBox(a), GroupRect(z), 25) => Overlap(GroupRect(b), GroupRect(z), 25)
<1>1. Holds(b, a)
  BY DEF Boxes, Holds, Inside, GroupRect, NodeBox
<1>2. \A z \in Boxes : Overlap(NodeBox(a), GroupRect(z), 25) => Overlap(GroupRect(b), GroupRect(z), 25)
  BY <1>1 DEF Boxes, Holds, Overlap, GroupRect, NodeBox
<1> QED BY <1>1, <1>2

\* A group lies within all groups around it.
LEMMA GroupsWithin ==
    ASSUME NEW L, WellFormed(L), GroupsOk(L), NEW g \in DOMAIN L.groups
    PROVE  \A h \in Chain(L.groups, g) : Within(L.groups[g].cell, L.groups[h].cell)
<1> DEFINE G == L.groups
           S == {h \in DOMAIN G : Within(G[g].cell, G[h].cell)}
<1>1. \A h \in DOMAIN G : G[h].cell \in Boxes
  BY DEF WellFormed, Boxes
<1>2. g \in S
  BY <1>1 DEF Within, Boxes
<1>3. ASSUME NEW h \in S, G[h].parent \in DOMAIN G PROVE G[h].parent \in S
  <2>1. Fits(G[h].cell, G[G[h].parent].cell)
    BY <1>3 DEF GroupsOk, Known
  <2>2. G[h].cell \in Boxes /\ G[g].cell \in Boxes /\ G[G[h].parent].cell \in Boxes
    BY <1>1, <1>3
  <2>3. Within(G[g].cell, G[h].cell)
    BY <1>3
  <2>4. Within(G[g].cell, G[G[h].parent].cell)
    BY <2>1, <2>2, <2>3 DEF Fits, Within, Boxes
  <2> QED BY <1>3, <2>4
<1>4. Closed(G, g, S)
  BY <1>2, <1>3 DEF Closed
<1> QED BY <1>4, ChainFacts

Plain(L) == {g \in DOMAIN L.groups : \A h \in Chain(L.groups, g) : ~Crossing(L.groups[h])}

\* A group that is in the chain of one and not of the other, and whose parent, if it has one,
\* is in both: all that the two chains share is above it.
LEMMA ForkBelow ==
    ASSUME NEW G, IsFiniteSet(DOMAIN G), Acyclic(G), NEW g \in DOMAIN G, NEW h \in DOMAIN G, g \notin Chain(G, h),
           \A x \in DOMAIN G : G[x].parent = None \/ Known(G, G[x].parent)
    PROVE  \E x \in Chain(G, g) \ Chain(G, h) :
              /\ G[x].parent = None \/ G[x].parent \in Chain(G, g) \cap Chain(G, h)
              /\ Chain(G, g) \cap Chain(G, h) \subseteq Chain(G, G[x].parent)
<1> DEFINE A == Chain(G, g)
           B == Chain(G, h)
<1>1. A \subseteq DOMAIN G /\ Closed(G, g, A) /\ g \in A
  BY ChainFacts, ChainStep
<1>2. PICK x \in A \ B : G[x].parent \notin A \ B
  BY <1>1, Topmost
<1>3. G[x].parent = None \/ G[x].parent \in A \cap B
  BY <1>1, <1>2 DEF Closed, Known
<1>4. ASSUME NEW c \in A \cap B PROVE c \in Chain(G, G[x].parent)
  <2>1. x \notin Chain(G, c)
    BY <1>2, <1>4, ChainTransitive
  <2>2. c \in Chain(G, x)
    BY <1>2, <1>4, <2>1, ChainLinear
  <2>3. c # x
    BY <1>2, <1>4
  <2> QED BY <1>1, <1>2, <2>2, <2>3, ChainStep
<1> QED BY <1>2, <1>3, <1>4

\* Siblings suffice: two groups of which neither is around the other are apart, however deep.
LEMMA UnrelatedApart ==
    ASSUME NEW L, WellFormed(L), GroupsOk(L), NEW g \in Plain(L), NEW h \in Plain(L),
           g \notin Chain(L.groups, h), h \notin Chain(L.groups, g)
    PROVE  ~Overlap(GroupRect(L.groups[g].cell), GroupRect(L.groups[h].cell), 25)
<1> DEFINE G == L.groups
           C == Chain(G, g) \cap Chain(G, h)
<1>1. /\ IsFiniteSet(DOMAIN G) /\ Acyclic(G) /\ None \notin DOMAIN G
      /\ \A x \in DOMAIN G : G[x].parent = None \/ Known(G, G[x].parent)
  BY DEF WellFormed, GroupsOk
<1>2. g \in DOMAIN G /\ h \in DOMAIN G
  BY DEF Plain
<1>3. PICK x \in Chain(G, g) \ Chain(G, h) :
         (G[x].parent = None \/ G[x].parent \in C) /\ C \subseteq Chain(G, G[x].parent)
  BY <1>1, <1>2, ForkBelow
<1>4. PICK y \in Chain(G, h) \ Chain(G, g) :
         (G[y].parent = None \/ G[y].parent \in C) /\ C \subseteq Chain(G, G[y].parent)
  BY <1>1, <1>2, ForkBelow
<1>5. G[x].parent = G[y].parent
  <2>1. CASE C = {}
    BY <1>3, <1>4, <2>1
  <2>2. CASE C # {}
    <3>1. G[x].parent \in C /\ G[y].parent \in C
      BY <1>1, <1>3, <1>4, <2>2, ChainUnknown
    <3>2. G[x].parent \in Chain(G, G[y].parent) /\ G[y].parent \in Chain(G, G[x].parent)
      BY <1>3, <1>4, <3>1
    <3>3. G[x].parent \in DOMAIN G
      BY <3>1, ChainFacts
    <3> QED BY <1>1, <3>2, <3>3, ChainAntisymmetric
  <2> QED BY <2>1, <2>2
<1>6. x \in DOMAIN G /\ y \in DOMAIN G /\ x # y
  BY <1>3, <1>4, ChainFacts
<1>7. ~Crossing(G[x]) /\ ~Crossing(G[y])
  BY <1>3, <1>4 DEF Plain
<1>8. ~Overlap(GroupRect(G[x].cell), GroupRect(G[y].cell), 25)
  BY <1>5, <1>6, <1>7 DEF GroupsOk, SiblingsApart
<1>9. Within(G[g].cell, G[x].cell) /\ Within(G[h].cell, G[y].cell)
  BY <1>2, <1>3, <1>4, GroupsWithin
<1>10. G[g].cell \in Boxes /\ G[h].cell \in Boxes /\ G[x].cell \in Boxes /\ G[y].cell \in Boxes
  BY <1>2, <1>6 DEF WellFormed, Boxes
<1> QED BY <1>8, <1>9, <1>10, WithinIsInside

\* An accepted layout nests: the builder checks parents, siblings and items one by one, and
\* with three tolerances.
LEMMA AcceptedNests ==
    ASSUME NEW L, WellFormed(L), GeometryOk(L)
    PROVE  Nested(L)
<1> DEFINE G == L.groups
           rect(g) == GroupRect(G[g].cell)
<1>1. GroupsOk(L)
  BY DEF GeometryOk
<1>2. \A g \in DOMAIN G : G[g].cell \in Boxes
  BY DEF WellFormed, Boxes
<1>3. ASSUME NEW g \in Plain(L), NEW h \in Plain(L), Overlap(rect(g), rect(h), 25)
      PROVE  g \in Chain(G, h) \/ h \in Chain(G, g)
  BY <1>1, <1>3, UnrelatedApart
<1>4. ASSUME NEW g \in DOMAIN G, NEW h \in Chain(G, g) PROVE Inside(rect(g), rect(h))
  <2>1. Within(G[g].cell, G[h].cell)
    BY <1>1, GroupsWithin
  <2>2. h \in DOMAIN G
    BY ChainFacts
  <2> QED BY <1>2, <2>1, <2>2, WithinIsInside
<1>5. ASSUME NEW x \in DOMAIN L.items, L.items[x].group \in Plain(L), NEW h \in Plain(L),
             Overlap(NodeBox(L.items[x].cell), rect(h), 25)
      PROVE  h \in Chain(G, L.items[x].group) \/ L.items[x].group \in Chain(G, h)
  <2> DEFINE g == L.items[x].group
  <2>1. g \in DOMAIN G /\ h \in DOMAIN G
    BY <1>5 DEF Plain
  <2>2. g \in Chain(G, g)
    BY <2>1, ChainStep
  <2>3. Inside(NodeBox(L.items[x].cell), rect(g))
    BY <2>1, <2>2 DEF GeometryOk, ItemOk
  <2>4. L.items[x].cell \in [c : Nat, r : Nat]
    BY DEF WellFormed
  <2>5. Overlap(rect(g), rect(h), 25)
    BY <1>2, <1>5, <2>1, <2>3, <2>4, NodeWithin
  <2> QED BY <1>3, <1>5, <2>5
<1>6. ASSUME NEW x \in DOMAIN L.items, NEW h \in Chain(G, L.items[x].group)
      PROVE  Inside(NodeBox(L.items[x].cell), rect(h))
  <2>1. h \in DOMAIN G
    BY ChainFacts
  <2> QED BY <2>1 DEF GeometryOk, ItemOk
<1> QED BY <1>3, <1>4, <1>5, <1>6 DEF Nested, Plain

-----------------------------------------------------------------------------
(* Palette *)

\* A sequence of different elements has none twice.
LEMMA DistinctInjective ==
    ASSUME NEW s, NEW n \in Nat, DOMAIN s = 1..n, Len(s) = n, s = [i \in 1..n |-> s[i]], Distinct(s)
    PROVE  \A i, j \in 1..n : s[i] = s[j] => i = j
<1>1. IsFiniteSet(1..n) /\ Cardinality(1..n) = n
  BY FS_Interval
<1>2. s \in Surjection(1..n, Elements(s))
  BY DEF Surjection, Elements
<1>3. Cardinality(Elements(s)) = Cardinality(1..n)
  BY <1>1 DEF Distinct
<1>4. s \in Injection(1..n, Elements(s))
  BY <1>1, <1>2, <1>3, FS_Surjection
<1> QED BY <1>4 DEF Injection, IsInjective

LEMMA NeedFacts ==
    ASSUME NEW t, NEW service
    PROVE  /\ Need(t, service) \in Nat
           /\ Need(t, service) = 0 <=> \A s \in Slots : t.accept[s] # service
<1> DEFINE S == {s \in Slots : t.accept[s] = service}
<1>1. IsFiniteSet(S)
  BY ItemsAssumption, FS_Subset
<1>2. Cardinality(S) \in Nat
  BY <1>1, FS_CardinalityType
<1>3. Cardinality(S) = 0 <=> S = {}
  BY <1>1, FS_EmptySet
<1> QED BY <1>2, <1>3 DEF Need

\* What the palette of a puzzle says once its defaults are filled in.
LEMMA AcceptedSolvable ==
    ASSUME NEW p, Formed(p), PaletteOk(p.tiling)
    PROVE  Solvable(Normalized(p).tiling)
<1> DEFINE t == p.tiling
           q == Normalized(p).tiling
           n == Len(t.palette)
           services == [i \in DOMAIN t.palette |-> t.palette[i].service]
<1>1. n \in Nat /\ DOMAIN t.palette = 1..n
  BY DEF Formed
<1>2. \A i \in 1..n : t.palette[i] \in Elements(t.palette)
  BY <1>1 DEF Elements
<1>3. \A i, j \in 1..n : t.palette[i].service = t.palette[j].service => i = j
  <2>1. DOMAIN services = 1..n /\ services = [i \in 1..n |-> services[i]]
    BY <1>1
  <2>2. Len(services) = n
    BY <1>1
  <2>3. Distinct(services)
    BY DEF PaletteOk
  <2>4. \A i, j \in 1..n : services[i] = services[j] => i = j
    <3> HIDE DEF services
    <3> QED BY <1>1, <2>1, <2>2, <2>3, DistinctInjective
  <2> QED BY <1>1, <2>4
<1>4. /\ DOMAIN q.palette = 1..n
      /\ \A s \in Slots : q.accept[s] = t.accept[s]
      /\ \A i \in 1..n : q.palette[i].service = t.palette[i].service /\ q.palette[i].uses = Uses(t.palette[i])
  BY <1>1 DEF Normalized
<1>5. \A s \in Slots : \E i \in 1..n : t.palette[i].service = t.accept[s]
  BY <1>1 DEF PaletteOk, Elements
<1>6. PICK f \in [Slots -> 1..n] : \A s \in Slots : t.palette[f[s]].service = t.accept[s]
  <2>1. [s \in Slots |-> CHOOSE i \in 1..n : t.palette[i].service = t.accept[s]] \in [Slots -> 1..n]
    BY <1>5
  <2> QED BY <1>5, <2>1
<1>7. ASSUME NEW i \in 1..n
      PROVE  LET left == q.palette[i].uses - Cardinality({s \in Slots : f[s] = i})
             IN  IF \E s \in Slots : q.accept[s] = q.palette[i].service THEN left = 0 ELSE left = 1
  <2> DEFINE tile == t.palette[i]
  <2>1. {s \in Slots : f[s] = i} = {s \in Slots : t.accept[s] = tile.service}
    BY <1>3, <1>6, <1>7
  <2>2. Cardinality({s \in Slots : f[s] = i}) = Need(t, tile.service)
    BY <2>1 DEF Need
  <2>3. Need(t, tile.service) \in Nat /\ (Wrong(t, tile) <=> \A s \in Slots : t.accept[s] # tile.service)
    BY NeedFacts DEF Wrong
  <2>4. TileOk(t, tile)
    BY <1>2, <1>7 DEF PaletteOk
  <2>5. CASE Wrong(t, tile)
    <3>1. Uses(tile) = 1 /\ Need(t, tile.service) = 0
      BY <2>4, <2>5 DEF TileOk, Wrong
    <3> QED BY <1>4, <1>7, <2>2, <2>3, <2>5, <3>1
  <2>6. CASE ~Wrong(t, tile)
    <3>1. Uses(tile) = Need(t, tile.service)
      BY <2>4, <2>6 DEF TileOk
    <3> QED BY <1>4, <1>7, <2>2, <2>3, <2>6, <3>1
  <2> QED BY <2>5, <2>6
<1>8. Solvable(q)
  <2> HIDE DEF q
  <2>1. f \in [Slots -> DOMAIN q.palette]
    BY <1>4
  <2>2. \A s \in Slots : q.palette[f[s]].service = q.accept[s]
    BY <1>4, <1>6
  <2>3. \A i \in DOMAIN q.palette :
           LET left == q.palette[i].uses - Cardinality({s \in Slots : f[s] = i})
           IN  IF \E s \in Slots : q.accept[s] = q.palette[i].service THEN left = 0 ELSE left = 1
    BY <1>4, <1>7
  <2> QED BY <2>1, <2>2, <2>3, Zenon DEF Solvable
<1> QED BY <1>8

-----------------------------------------------------------------------------
(* Texts *)

\* The gaps are counted in one loop and the numbers in another, and the translation is
\* compared with both.
LEMMA AcceptedAsksOnce ==
    ASSUME NEW p, Formed(p), RequirementsOk(p.text), NumbersOk(p.text), OverlayOk(p)
    PROVE  AskedOnce(p.text)
<1> DEFINE x == p.text
           R == x.requirements
           n == Len(R)
           numbers == [i \in DOMAIN R |-> R[i].n]
<1>1. n \in Nat /\ DOMAIN R = 1..n
  BY DEF Formed
<1>2. \A i, j \in 1..n : R[i].n = R[j].n => i = j
  <2>1. DOMAIN numbers = 1..n /\ numbers = [i \in 1..n |-> numbers[i]] /\ Len(numbers) = n
    BY <1>1
  <2>2. Distinct(numbers)
    BY DEF NumbersOk
  <2>3. \A i, j \in 1..n : numbers[i] = numbers[j] => i = j
    <3> HIDE DEF numbers
    <3> QED BY <1>1, <2>1, <2>2, DistinctInjective
  <2> QED BY <1>1, <2>3
<1>3. ASSUME NEW s \in Slots
      PROVE  \E i \in 1..n : /\ R[i].n = x.number[s] /\ R[i].gaps = <<s>>
                             /\ \A j \in 1..n : j # i => R[j].gaps # <<s>>
  <2> DEFINE S == {i \in DOMAIN R : R[i].gaps = <<s>>}
  <2>1. Cardinality(S) = 1
    BY DEF RequirementsOk
  <2>2. IsFiniteSet(S)
    <3>1. IsFiniteSet(1..n)
      BY <1>1, FS_Interval
    <3> QED BY <1>1, <3>1, FS_Subset
  <2>3. PICK i : S = {i}
    BY <2>1, <2>2, FS_Singleton
  <2>4. i \in 1..n /\ R[i].gaps = <<s>> /\ \A j \in 1..n : j # i => R[j].gaps # <<s>>
    BY <1>1, <2>3
  <2>5. R[i].slot # None /\ R[i].gaps = <<R[i].slot>> /\ x.number[R[i].slot] = R[i].n
    <3>1. IF R[i].slot = None THEN R[i].gaps = <<>>
          ELSE R[i].slot \in Slots /\ R[i].gaps = <<R[i].slot>> /\ x.number[R[i].slot] = R[i].n
      BY <1>1, <2>4 DEF RequirementsOk
    <3>2. R[i].gaps # <<>>
      BY <2>4
    <3> QED BY <3>1, <3>2
  <2>6. R[i].slot = s
    BY <2>4, <2>5
  <2> QED BY <2>4, <2>5, <2>6
<1>4. ASSUME NEW s \in Slots, NEW i \in 1..n, R[i].gaps = <<s>>, R[i].n \in DOMAIN x.english.gaps
      PROVE  x.english.gaps[R[i].n] = <<s>>
  <2>1. PICK j \in 1..n : R[j].n = R[i].n /\ x.english.gaps[R[i].n] = R[j].gaps
    BY <1>1, <1>4 DEF OverlayOk
  <2> QED BY <1>2, <1>4, <2>1
<1>5. ASSUME NEW s \in Slots, NEW j \in 1..n, R[j].gaps # <<s>> PROVE s \notin Elements(R[j].gaps)
  <2>1. CASE R[j].slot = None
    BY <1>1, <2>1 DEF RequirementsOk, Elements
  <2>2. CASE R[j].slot # None
    <3>1. R[j].gaps = <<R[j].slot>>
      BY <1>1, <2>2 DEF RequirementsOk
    <3> QED BY <1>5, <3>1 DEF Elements
  <2> QED BY <2>1, <2>2
<1>6. ASSUME NEW s \in Slots
      PROVE  \E i \in DOMAIN R :
                /\ R[i].n = x.number[s] /\ R[i].gaps = <<s>>
                /\ R[i].n \in DOMAIN x.english.gaps => x.english.gaps[R[i].n] = <<s>>
                /\ \A j \in DOMAIN R : j # i => R[j].n # R[i].n /\ s \notin Elements(R[j].gaps)
  <2>1. PICK i \in 1..n : /\ R[i].n = x.number[s] /\ R[i].gaps = <<s>>
                          /\ \A j \in 1..n : j # i => R[j].gaps # <<s>>
    BY <1>3
  <2>2. \A j \in 1..n : j # i => R[j].n # R[i].n /\ s \notin Elements(R[j].gaps)
    BY <1>2, <1>5, <2>1
  <2> QED BY <1>1, <1>4, <2>1, <2>2
<1> QED BY <1>6 DEF AskedOnce

-----------------------------------------------------------------------------
(* What is published *)

Sound(p) == Nested(p.layout) /\ Solvable(p.tiling) /\ AskedOnce(p.text)

\* No file that passes validate, whatever is in it, makes an exercise that cannot be drawn,
\* solved or read once normalize has filled in its defaults: the loops of the builder, each of
\* which looks at one thing, suffice together.
THEOREM AcceptedPuzzlesWork == \A p : Accepted(p) => Sound(Normalized(p))
<1> SUFFICES ASSUME NEW p, Accepted(p) PROVE Sound(Normalized(p))
  OBVIOUS
<1>1. Formed(p)
  BY DEF Accepted
<1>2. Nested(p.layout)
  <2>1. WellFormed(p.layout)
    <3>1. IsFiniteSet(DOMAIN p.layout.groups) /\ None \notin DOMAIN p.layout.groups
      BY <1>1 DEF Formed
    <3>2. \A g \in DOMAIN p.layout.groups :
             p.layout.groups[g].cell \in [c : Nat, r : Nat, w : Nat \ {0}, h : Nat \ {0}]
      BY <1>1 DEF Formed
    <3>3. \A x \in DOMAIN p.layout.items : p.layout.items[x].cell \in [c : Nat, r : Nat]
      BY <1>1 DEF Formed
    <3> QED BY <3>1, <3>2, <3>3 DEF WellFormed
  <2>2. GeometryOk(p.layout)
    BY DEF Accepted
  <2> QED BY <2>1, <2>2, AcceptedNests
<1>3. Solvable(Normalized(p).tiling)
  BY <1>1, AcceptedSolvable DEF Accepted
<1>4. AskedOnce(p.text)
  BY <1>1, AcceptedAsksOnce DEF Accepted
<1>5. /\ Normalized(p).layout = p.layout
      /\ Normalized(p).text.number = p.text.number
      /\ Normalized(p).text.requirements = p.text.requirements
      /\ Normalized(p).text.english = p.text.english
  BY DEF Normalized
<1>6. AskedOnce(Normalized(p).text)
  BY <1>4, <1>5 DEF AskedOnce
<1> QED BY <1>2, <1>3, <1>5, <1>6 DEF Sound

RunShape ==
    run \in [pc : Ends \cup Reading \cup Writing, number : 0..MaxRuns, published : BOOLEAN,
             left : SUBSET (Files \cup Registry), bad : BOOLEAN, loaded : {run.loaded}, sprite : {run.sprite}]

\* What a run has read is right as long as it has found no error.  Once it has chosen what to
\* write, that can be drawn and solved, and its icons have been read.
Readings ==
    /\ run.pc \in {"validate", "load"} /\ ~run.bad => \A p \in run.loaded : Accepted(p)
    /\ run.pc \in {"unlink", "icons"} => run.loaded = {} /\ run.left \subseteq Registry
    /\ run.pc \in Writing => Used(run.loaded) \subseteq run.sprite /\ \A p \in run.loaded : Sound(p)

\* How far a run has come in writing the site.
Progress ==
    /\ run.pc \in {"data", "index"} => app = {run.number}
    /\ run.pc = "index" => data.run = run.number
    /\ \A n \in app : n <= run.number
    /\ data # None => data.run <= run.number

SiteInv ==
    /\ TypeOK /\ ErrorsWriteNothing /\ NewestFirst /\ IconsAreDrawn
    /\ RunShape /\ Readings /\ Progress
    /\ DrawingsNest /\ ExercisesWork

LEMMA SiteInit == Init => SiteInv
<1> SUFFICES ASSUME Init PROVE SiteInv
  OBVIOUS
<1>1. 0 \in 0..MaxRuns /\ 0 \in 0..MaxEdits
  BY BoundsAssumption
<1>2. TypeOK /\ RunShape
  BY <1>1 DEF Init, TypeOK, RunShape, Idle, Ends, Reading, Writing
<1>3. ErrorsWriteNothing /\ NewestFirst /\ IconsAreDrawn /\ Readings /\ Progress
  BY DEF Init, ErrorsWriteNothing, NewestFirst, IconsAreDrawn, Readings, Progress, Idle, Reading, Writing
<1>4. DrawingsNest /\ ExercisesWork
  BY DEF Init, DrawingsNest, ExercisesWork, Published
<1> QED BY <1>2, <1>3, <1>4 DEF SiteInv

\* How a run ends.
LEMMA HowRunsEnd ==
    ASSUME RunShape, NEW answer \in Ends, End(answer)
    PROVE  /\ RunShape' /\ run'.pc = answer /\ run'.number = run.number
           /\ run'.left = {} /\ run'.loaded = {}
BY DEF RunShape, End, Idle, Ends

\* What was published stays right as long as it stays.
LEMMA PublishedStays ==
    ASSUME DrawingsNest, ExercisesWork, IconsAreDrawn, data' = data
    PROVE  DrawingsNest' /\ ExercisesWork' /\ IconsAreDrawn'
BY DEF DrawingsNest, ExercisesWork, IconsAreDrawn, Published, Used, Icons

\* A run that reads leaves the page alone, and so does one that ends before it writes.
LEMMA ReadingStep ==
    ASSUME SiteInv, UNCHANGED <<app, data, index, before>>, run.pc \in Reading,
           run'.pc \in Reading \cup {"error", "broken"}, run'.number = run.number
    PROVE  ErrorsWriteNothing' /\ NewestFirst' /\ Progress'
<1>1. ErrorsWriteNothing'
  BY DEF SiteInv, ErrorsWriteNothing
<1>2. NewestFirst'
  BY DEF SiteInv, NewestFirst, Reading
<1>3. Progress'
  BY DEF SiteInv, Progress, Reading
<1> QED BY <1>1, <1>2, <1>3

\* No part of the site is newer than the last run.
LEMMA RunIsNewest ==
    ASSUME SiteInv
    PROVE  run.number >= index /\ (data # None => run.number >= data.run /\ data.run \in Nat)
<1>1. /\ app # {} /\ app \subseteq 0..MaxRuns /\ index \in 0..MaxRuns /\ run.number \in 0..MaxRuns
      /\ (data # None => data.run \in 0..MaxRuns) /\ MaxRuns \in Nat
  BY BoundsAssumption DEF SiteInv, TypeOK
<1>2. PICK n \in app : TRUE
  BY <1>1
<1>3. n \in 0..MaxRuns
  BY <1>1, <1>2
<1>4. n >= index /\ n <= run.number /\ (data # None => data.run <= run.number)
  BY <1>2 DEF SiteInv, NewestFirst, Progress
<1> QED BY <1>1, <1>3, <1>4

LEMMA SiteStep == SiteInv /\ [Next]_vars => SiteInv'
<1> SUFFICES ASSUME SiteInv, [Next]_vars PROVE SiteInv'
  OBVIOUS
<1> USE BoundsAssumption DEF SiteInv
<1>1. ASSUME NEW f \in Files, Edit(f) PROVE SiteInv'
  <2>1. UNCHANGED <<site, run, before>> /\ edits' \in 0..MaxEdits /\ DOMAIN puzzle' = Files
    BY <1>1 DEF Edit, TypeOK
  <2>2. TypeOK' /\ RunShape' /\ Readings'
    BY <2>1 DEF TypeOK, RunShape, Readings, site
  <2>3. ErrorsWriteNothing' /\ NewestFirst' /\ Progress'
    BY <2>1 DEF ErrorsWriteNothing, NewestFirst, Progress, site
  <2> QED BY <2>1, <2>2, <2>3, PublishedStays DEF site
<1>2. ASSUME NEW f \in Files, ReadFile(f) PROVE SiteInv'
  <2>1. UNCHANGED <<puzzle, site, before, edits>>
    BY <1>2 DEF ReadFile
  <2>2. /\ run.pc \in {"validate", "load"} /\ run'.pc = run.pc /\ run'.number = run.number
        /\ run'.bad = (run.bad \/ ~Accepted(puzzle[f])) /\ run'.loaded = run.loaded \cup {puzzle[f]}
        /\ RunShape'
    BY <1>2 DEF ReadFile, RunShape
  <2>3. TypeOK'
    BY <2>1, <2>2 DEF TypeOK, site, Reading, Writing
  <2>4. Readings'
    BY <2>1, <2>2 DEF Readings, site, Writing
  <2> QED BY <2>1, <2>2, <2>3, <2>4, PublishedStays, ReadingStep DEF site, Reading
<1>3. ASSUME NEW all \in BOOLEAN, NEW published \in BOOLEAN, Start(all, published) PROVE SiteInv'
  <2>1. UNCHANGED <<puzzle, site, edits>> /\ before' = <<app, data, index>>
    BY <1>3 DEF Start
  <2>2. /\ run'.pc \in {"validate", "load"} /\ run'.loaded = {} /\ run'.number \in 0..MaxRuns
        /\ run'.number = run.number + 1 /\ RunShape'
    <3>1. run.number + 1 \in 0..MaxRuns /\ Files \in SUBSET (Files \cup Registry)
      BY <1>3 DEF Start, RunShape
    <3>2. run' = [pc |-> IF all THEN "validate" ELSE "load", number |-> run.number + 1,
                  published |-> published, left |-> Files, bad |-> FALSE, loaded |-> {}, sprite |-> {}]
      BY <1>3 DEF Start, Idle
    <3>3. /\ run'.pc \in {"validate", "load"} /\ run'.loaded = {} /\ run'.number \in 0..MaxRuns
          /\ run'.number = run.number + 1
      BY <3>1, <3>2
    <3>4. RunShape'
      BY <3>1, <3>2 DEF RunShape, Reading
    <3> QED BY <3>3, <3>4
  <2>3. TypeOK' /\ Readings'
    BY <2>1, <2>2 DEF TypeOK, RunShape, Readings, site, Reading, Writing
  <2>4. ErrorsWriteNothing' /\ NewestFirst' /\ Progress'
    <3>1. run.number \in 0..MaxRuns /\ app \subseteq 0..MaxRuns /\ (data # None => data.run \in 0..MaxRuns)
      BY DEF TypeOK
    <3>2. ErrorsWriteNothing' /\ NewestFirst'
      BY <2>1, <2>2 DEF ErrorsWriteNothing, NewestFirst, site
    <3>3. Progress'
      BY <2>1, <2>2, <3>1 DEF Progress, site
    <3> QED BY <3>2, <3>3
  <2> QED BY <2>1, <2>2, <2>3, <2>4, PublishedStays DEF site
<1>4. CASE Validated
  <2>1. UNCHANGED <<puzzle, site, before, edits>>
    BY <1>4 DEF Validated
  <2>2. /\ run.pc = "validate" /\ run'.pc \in {"error", "extract"} /\ run'.number = run.number
        /\ RunShape'
    <3>1. CASE run.bad
      BY <1>4, <3>1, HowRunsEnd DEF Validated, Ends
    <3>2. CASE ~run.bad
      BY <1>4, <3>2 DEF Validated, RunShape, Reading
    <3> QED BY <3>1, <3>2
  <2>3. TypeOK' /\ Readings'
    BY <2>1, <2>2 DEF TypeOK, RunShape, Readings, site, Ends, Reading, Writing
  <2> QED BY <2>1, <2>2, <2>3, PublishedStays, ReadingStep DEF site, Reading
<1>5. ASSUME NEW f \in Files, ReadIcons(f) PROVE SiteInv'
  <2>1. UNCHANGED <<puzzle, site, before, edits>>
    BY <1>5 DEF ReadIcons
  <2>2. run.pc = "extract" /\ run'.pc = "extract" /\ run'.number = run.number /\ RunShape'
    BY <1>5 DEF ReadIcons, RunShape
  <2>3. TypeOK' /\ Readings'
    BY <2>1, <2>2 DEF TypeOK, Readings, site, Reading, Writing
  <2> QED BY <2>1, <2>2, <2>3, PublishedStays, ReadingStep DEF site, Reading
<1>6. CASE Extract
  <2>1. UNCHANGED <<puzzle, site, before, edits>>
    BY <1>6 DEF Extract
  <2>2. /\ run.pc = "extract" /\ run'.pc \in {"error", "unlink"} /\ run'.number = run.number
        /\ run'.left \subseteq Registry /\ run'.loaded = {} /\ RunShape'
    <3> DEFINE wanted == Wanted(run.loaded)
    <3> HIDE DEF wanted
    <3>1. CASE wanted \subseteq Registry
      <4>1. run.pc = "extract" /\ run' = [run EXCEPT !.pc = "unlink", !.left = wanted, !.loaded = {}]
        BY <1>6, <3>1 DEF Extract, wanted
      <4> QED BY <3>1, <4>1 DEF RunShape, Reading
    <3>2. CASE ~ (wanted \subseteq Registry)
      BY <1>6, <3>2, HowRunsEnd DEF Extract, wanted, Ends
    <3> QED BY <3>1, <3>2
  <2>3. TypeOK' /\ Readings'
    BY <2>1, <2>2 DEF TypeOK, RunShape, Readings, site, Ends, Reading, Writing
  <2> QED BY <2>1, <2>2, <2>3, PublishedStays, ReadingStep DEF site, Reading
<1>7. CASE Unlink
  <2>1. UNCHANGED <<puzzle, manifest, app, data, index, before, edits>> /\ svgs' \subseteq Registry
    BY <1>7 DEF Unlink, TypeOK
  <2>2. /\ run.pc = "unlink" /\ run'.pc \in {"unlink", "icons"} /\ run'.number = run.number
        /\ run'.left = run.left /\ run'.loaded = run.loaded /\ RunShape'
    BY <1>7 DEF Unlink, RunShape, Reading
  <2>3. TypeOK' /\ Readings'
    BY <2>1, <2>2 DEF TypeOK, RunShape, Readings, Reading, Writing
  <2> QED BY <2>1, <2>2, <2>3, PublishedStays, ReadingStep DEF Reading
<1>8. CASE WriteIcon
  <2>1. UNCHANGED <<puzzle, manifest, app, data, index, run, before, edits>> /\ svgs' \subseteq Registry
    <3>1. UNCHANGED <<puzzle, manifest, app, data, index, run, before, edits>> /\ run.pc = "icons"
      BY <1>8 DEF WriteIcon
    <3>2. PICK i \in run.left : i \notin svgs
      BY <1>8 DEF WriteIcon
    <3>3. (CHOOSE j \in run.left : j \notin svgs) \in run.left
      BY <3>2
    <3> QED BY <1>8, <3>1, <3>3 DEF WriteIcon, TypeOK, Readings
  <2>2. TypeOK' /\ RunShape' /\ Readings'
    BY <2>1 DEF TypeOK, RunShape, Readings
  <2>3. ErrorsWriteNothing' /\ NewestFirst' /\ Progress'
    BY <2>1 DEF ErrorsWriteNothing, NewestFirst, Progress
  <2> QED BY <2>1, <2>2, <2>3, PublishedStays
<1>9. CASE WriteManifest
  <2>1. /\ UNCHANGED <<puzzle, svgs, app, data, index, before, edits>> /\ run.pc = "icons"
        /\ manifest' \subseteq Registry
    BY <1>9 DEF WriteManifest, Readings
  <2>2. run'.pc = "load" /\ run'.number = run.number /\ run'.loaded = run.loaded /\ RunShape'
    BY <1>9 DEF WriteManifest, RunShape, Reading
  <2>3. TypeOK' /\ Readings'
    BY <2>1, <2>2 DEF TypeOK, RunShape, Readings, Reading, Writing
  <2> QED BY <2>1, <2>2, <2>3, PublishedStays, ReadingStep DEF Reading
<1>10. CASE Loaded
  <2>1. UNCHANGED <<puzzle, site, before, edits>> /\ run.pc = "load" /\ run.left = {}
    BY <1>10 DEF Loaded
  <2>2. CASE ~run.bad /\ Used(Chosen) \subseteq svgs /\ Begin
    <3>1. /\ run'.pc = "app" /\ run'.loaded = Chosen /\ run'.sprite = Used(Chosen) \cap svgs
          /\ run'.number = run.number /\ run'.left = {} /\ run'.bad = run.bad /\ RunShape'
      BY <2>1, <2>2 DEF Begin, RunShape, Writing
    <3>2. \A p \in Chosen : Sound(p)
      BY <2>1, <2>2, AcceptedPuzzlesWork DEF Chosen, Readings
    <3>3. TypeOK'
      BY <2>1, <2>2, <3>1 DEF TypeOK, RunShape, site, Reading, Writing
    <3>4. Readings'
      <4>1. Used(run.loaded)' = Used(Chosen)
        BY <3>1 DEF Used, Icons
      <4> QED BY <2>2, <3>1, <3>2, <4>1 DEF Readings, Writing
    <3>5. ErrorsWriteNothing' /\ NewestFirst' /\ Progress'
      BY <2>1, <3>1 DEF ErrorsWriteNothing, NewestFirst, Progress, site, Reading
    <3> QED BY <2>1, <3>1, <3>3, <3>4, <3>5, PublishedStays DEF site
  <2>3. CASE \E answer \in {"error", "broken"} : End(answer)
    <3>1. run'.pc \in {"error", "broken"} /\ run'.number = run.number /\ RunShape'
      BY <2>3, HowRunsEnd DEF Ends
    <3>2. TypeOK' /\ Readings'
      BY <2>1, <3>1 DEF TypeOK, RunShape, Readings, site, Ends, Reading, Writing
    <3> QED BY <2>1, <3>1, <3>2, PublishedStays, ReadingStep DEF site, Reading
  <2>4. (~run.bad /\ Used(Chosen) \subseteq svgs /\ Begin) \/ End("error") \/ End("broken")
    BY <1>10 DEF Loaded
  <2> QED BY <2>2, <2>3, <2>4
<1>11. CASE WriteApp
  <2>1. /\ UNCHANGED <<puzzle, svgs, manifest, data, index, before, edits>> /\ run.pc = "app"
        /\ app' \in {app \cup {run.number}, {run.number}}
    BY <1>11 DEF WriteApp
  <2>2. /\ run'.pc \in {"app", "data"} /\ run'.number = run.number /\ run'.left = run.left
        /\ run'.bad = run.bad /\ run'.loaded = run.loaded /\ run'.sprite = run.sprite
        /\ (run'.pc = "data" => app' = {run.number}) /\ RunShape'
    BY <1>11 DEF WriteApp, RunShape, Writing
  <2>3. TypeOK' /\ ErrorsWriteNothing'
    BY <2>1, <2>2 DEF TypeOK, RunShape, ErrorsWriteNothing, Reading, Writing
  <2>4. Readings'
    BY <2>1, <2>2 DEF Readings, Writing, Used, Icons
  <2>5. NewestFirst' /\ Progress'
    <3>1. run.number >= index /\ (data # None => run.number >= data.run /\ data.run \in Nat)
      BY RunIsNewest
    <3>2. \A n \in app' : n \in app \/ n = run.number
      BY <2>1
    <3>3. run.number \in Nat
      BY DEF TypeOK
    <3>4. NewestFirst'
      BY <2>1, <2>2, <3>1, <3>2 DEF NewestFirst
    <3>5. Progress'
      BY <2>1, <2>2, <3>2, <3>3 DEF Progress
    <3> QED BY <3>4, <3>5
  <2> QED BY <2>1, <2>2, <2>3, <2>4, <2>5, PublishedStays
<1>12. CASE WriteData
  <2>1. /\ UNCHANGED <<puzzle, svgs, manifest, app, index, before, edits>> /\ run.pc = "data"
        /\ data' = [run |-> run.number, puzzles |-> run.loaded, sprite |-> run.sprite]
    BY <1>12 DEF WriteData
  <2>2. /\ run'.pc = "index" /\ run'.number = run.number /\ run'.left = run.left
        /\ run'.bad = run.bad /\ run'.loaded = run.loaded /\ run'.sprite = run.sprite /\ RunShape'
    BY <1>12 DEF WriteData, RunShape, Writing
  <2>3. TypeOK'
    <3>1. run.number \in 0..MaxRuns
      BY DEF TypeOK
    <3> QED BY <2>1, <2>2, <3>1 DEF TypeOK, Writing
  <2>4. Readings' /\ IconsAreDrawn'
    BY <2>1, <2>2 DEF Readings, IconsAreDrawn, Writing, Used, Icons
  <2>5. ErrorsWriteNothing' /\ NewestFirst' /\ Progress'
    <3>1. app = {run.number} /\ run.number >= index /\ run.number \in Nat
      BY <2>1 DEF TypeOK, NewestFirst, Progress
    <3>2. data'.run = run.number
      BY <2>1
    <3> QED BY <2>1, <2>2, <3>1, <3>2 DEF ErrorsWriteNothing, NewestFirst, Progress, Reading
  <2>6. DrawingsNest' /\ ExercisesWork'
    <3>1. \A p \in Published' : Sound(p)
      BY <2>1 DEF Published, Readings, Writing
    <3> QED BY <3>1 DEF DrawingsNest, ExercisesWork, Sound
  <2> QED BY <2>2, <2>3, <2>4, <2>5, <2>6
<1>13. CASE WriteIndex
  <2>1. /\ UNCHANGED <<puzzle, svgs, manifest, app, data, before, edits>> /\ run.pc = "index"
        /\ index' = run.number
    BY <1>13 DEF WriteIndex
  <2>2. run'.pc = "ok" /\ run'.number = run.number /\ RunShape'
    BY <1>13, HowRunsEnd DEF WriteIndex, Ends
  <2>3. TypeOK' /\ Readings'
    BY <2>1, <2>2 DEF TypeOK, RunShape, Readings, Ends, Reading, Writing
  <2>4. ErrorsWriteNothing' /\ NewestFirst' /\ Progress'
    <3>1. app = {run.number} /\ run.number \in Nat /\ data.run = run.number
      BY <2>1 DEF TypeOK, Progress
    <3> QED BY <2>1, <2>2, <3>1 DEF ErrorsWriteNothing, NewestFirst, Progress, Reading
  <2> QED BY <2>1, <2>2, <2>3, <2>4, PublishedStays
<1>14. CASE Break
  <2>1. /\ UNCHANGED <<puzzle, svgs, manifest, app, before, edits>>
        /\ data' \in {data, None} /\ index' \in {index, 0}
    BY <1>14 DEF Break
  <2>2. run'.pc = "broken" /\ run'.number = run.number /\ RunShape'
    BY <1>14, HowRunsEnd DEF Break, Ends
  <2>3. TypeOK' /\ Readings'
    BY <2>1, <2>2 DEF TypeOK, RunShape, Readings, Ends, Reading, Writing
  <2>4. ErrorsWriteNothing' /\ NewestFirst' /\ Progress'
    <3>1. app \subseteq Nat /\ (data # None => data.run \in Nat)
      BY DEF TypeOK
    <3>2. ErrorsWriteNothing' /\ Progress'
      BY <2>1, <2>2 DEF ErrorsWriteNothing, Progress, Reading
    <3>3. NewestFirst'
      BY <2>1, <2>2, <3>1 DEF NewestFirst
    <3> QED BY <3>2, <3>3
  <2>5. DrawingsNest' /\ ExercisesWork' /\ IconsAreDrawn'
    <3>1. CASE data' = data
      BY <3>1, PublishedStays
    <3>2. CASE data' = None
      BY <3>2 DEF DrawingsNest, ExercisesWork, IconsAreDrawn, Published
    <3> QED BY <2>1, <3>1, <3>2
  <2> QED BY <2>2, <2>3, <2>4, <2>5
<1>15. CASE UNCHANGED vars
  <2>1. TypeOK' /\ RunShape' /\ Readings'
    BY <1>15 DEF TypeOK, RunShape, Readings, vars, site
  <2>2. ErrorsWriteNothing' /\ NewestFirst' /\ Progress'
    BY <1>15 DEF ErrorsWriteNothing, NewestFirst, Progress, vars, site
  <2> QED BY <1>15, <2>1, <2>2, PublishedStays DEF vars, site
<1> QED
  BY <1>1, <1>2, <1>3, <1>4, <1>5, <1>6, <1>7, <1>8, <1>9, <1>10, <1>11, <1>12, <1>13, <1>14, <1>15 DEF Next

\* Until a run has found no error, and when it ends with one, the site is as it found it.  One
\* that succeeds leaves a site of its own; where one broke off, no script is older than the
\* data and no data older than the page.  All that is published shows its icons: whatever is
\* edited meanwhile, and wherever runs and extractions break off.
THEOREM ErrorsStopTheBuild == Spec => []SiteIsWhole
<1>1. SiteInv => SiteIsWhole
  BY DEF SiteInv, SiteIsWhole
<1> QED BY <1>1, SiteInit, SiteStep, PTL DEF Spec

\* Every diagram on the site nests, whatever its groups.
THEOREM PublishedDrawingsNest == Spec => []DrawingsNest
<1>1. SiteInv => DrawingsNest
  BY DEF SiteInv
<1> QED BY <1>1, SiteInit, SiteStep, PTL DEF Spec

\* Every exercise on the site can be solved and asks for each slot once, whatever its palette.
THEOREM PublishedExercisesWork == Spec => []ExercisesWork
<1>1. SiteInv => ExercisesWork
  BY DEF SiteInv
<1> QED BY <1>1, SiteInit, SiteStep, PTL DEF Spec

-----------------------------------------------------------------------------
(* The cache exercises: their calls *)

LEMMA Script ==
    /\ Len(Main) = 13 /\ DOMAIN Main = 1..13
    /\ Main[1] = Once(<<"flushall">>) /\ Main[2] = Each(Get, {Aside}) /\ Main[3] = Each(Get, {Aside})
    /\ Main[4] = Each(GetTimed, {Timed}) /\ Main[5] = Each(GetTimed, {Timed}) /\ Main[6] = Each(Put, {Aside})
    /\ Main[7] = Each(WriteLater, Later) /\ Main[8] = Once(<<"smembers">>) /\ Main[9] = Each(Flush, {})
    /\ Main[10] = Once(Evicting) /\ Main[11] = Once(<<"flushall">>)
    /\ Main[12] = Each(Get, Products) /\ Main[13] = Each(Get, Products)
BY DEF Main

LEMMA Operations ==
    /\ Len(Get) = 3 /\ Get[1] = "get" /\ Get[2] = "fetch" /\ Get[3] = "set"
    /\ Len(GetTimed) = 3 /\ GetTimed[1] = "get" /\ GetTimed[2] = "fetch" /\ GetTimed[3] = "setex"
    /\ Len(Put) = 2 /\ Put[1] = "put" /\ Put[2] = "set"
    /\ Len(WriteLater) = 2 /\ WriteLater[1] = "setpart" /\ WriteLater[2] = "mark"
    /\ Len(Flush) = 3 /\ Flush[1] = "getdirty" /\ Flush[2] = "send" /\ Flush[3] = "unmark"
    /\ Len(Evicting) = 5 /\ Evicting[1] = "flushall" /\ Evicting[2] = "lru" /\ Evicting[3] = "1mb"
    /\ Evicting[4] = "10mb" /\ Evicting[5] = "noeviction"
<1>1. Len(Get) = 3 /\ Get[1] = "get" /\ Get[2] = "fetch" /\ Get[3] = "set"
  BY DEF Get
<1>2. Len(GetTimed) = 3 /\ GetTimed[1] = "get" /\ GetTimed[2] = "fetch" /\ GetTimed[3] = "setex"
  BY DEF GetTimed
<1>3. Len(Put) = 2 /\ Put[1] = "put" /\ Put[2] = "set"
  BY DEF Put
<1>4. Len(WriteLater) = 2 /\ WriteLater[1] = "setpart" /\ WriteLater[2] = "mark"
  BY DEF WriteLater
<1>5. Len(Flush) = 3 /\ Flush[1] = "getdirty" /\ Flush[2] = "send" /\ Flush[3] = "unmark"
  BY DEF Flush
<1>6. /\ Len(Evicting) = 5 /\ Evicting[1] = "flushall" /\ Evicting[2] = "lru" /\ Evicting[3] = "1mb"
      /\ Evicting[4] = "10mb" /\ Evicting[5] = "noeviction"
  BY DEF Evicting
<1> QED BY <1>1, <1>2, <1>3, <1>4, <1>5, <1>6

LEMMA Calls ==
    /\ Stages = 1..13
    /\ \A n \in {2, 3, 12, 13} : Main[n].calls = Get
    /\ Main[4].calls = GetTimed /\ Main[5].calls = GetTimed /\ Main[6].calls = Put
    /\ Main[7].calls = WriteLater /\ Main[9].calls = Flush /\ Main[10].calls = Evicting
    /\ Len(Main[8].calls) = 1 /\ Main[8].calls[1] = "smembers"
    /\ \A n \in {1, 11} : Len(Main[n].calls) = 1 /\ Main[n].calls[1] = "flushall"
    /\ Main[1].products = {} /\ Main[2].products = {Aside} /\ Main[3].products = {Aside}
    /\ Main[4].products = {Timed} /\ Main[5].products = {Timed} /\ Main[6].products = {Aside}
    /\ Main[7].products = Later /\ Main[8].products = {} /\ Main[9].products = {}
    /\ Main[10].products = {} /\ Main[11].products = {}
    /\ Main[12].products = Products /\ Main[13].products = Products
BY Script DEF Stages, Once, Each

(* The invariant *)

\* Where a program can be that is idle or running.
Valid(q) ==
    /\ q.stage \in 1..13 /\ q.call \in 1..Len(Main[q.stage].calls)
    /\ q.stage # 9 => q.left \subseteq Main[q.stage].products
    /\ q.stage = 9 => q.left \subseteq Later
    /\ q.stage \in (2..7) \cup {9, 12, 13} => q.left # {}

\* A program that has not ended is at a call of its script.
Walks == \A c \in Programs :
    /\ state[c] = "idle" => pc[c] = Position(1)
    /\ state[c] = "running" => Valid(pc[c])

\* Programs run one at a time, as long as none was started early.
Alone == ~crowded => \A c \in Running : c = last

\* The next call is a SET of the record that is held.
AtSet(c) ==
    /\ state[c] = "running"
    /\ \/ pc[c].stage \in {2, 3, 4, 5, 12, 13} /\ pc[c].call = 3
       \/ pc[c].stage = 6 /\ pc[c].call = 2

\* What is about to be set is a whole record, and only exercise 2 gives a key a TTL.
Fresh ==
    /\ \A c \in Programs : AtSet(c) => held[c] \in {"seed", "new"}
    /\ timed \subseteq {Timed}

\* Program c has broken off, or is not past stage m.
Owing(c, m) ==
    /\ crowded \/ c = last
    /\ state[c] = "error" \/ (state[c] = "running" /\ pc[c].stage <= m)

\* The memory is set back one call before the policy.
OwingMemory(c) == Owing(c, 10) /\ (state[c] = "error" \/ pc[c].stage < 10 \/ pc[c].call <= 4)

\* What a FLUSHALL removes.
Messy == dirty # {} \/ \E p \in Products : cache[p] = "part"

\* Whatever there is to clean up, a program has it ahead, or broke off.
Debts ==
    /\ Messy => \E c \in Programs : Owing(c, 11)
    /\ policy = "lru" => \E c \in Programs : Owing(c, 10)
    /\ memory = "1mb" => \E c \in Programs : OwingMemory(c)

\* The backend has answered the PUT of exercise 3.
PastPut(q) == q.stage > 6 \/ (q.stage = 6 /\ q.call = 2)

\* What was written stays, whatever the others do.
Written ==
    /\ \A c \in Programs : state[c] \in {"running", "ok"} /\ PastPut(pc[c]) => stored[Aside] = "new"
    /\ \A c \in Programs : state[c] = "ok" /\ ~crowded /\ ~evicted => \A x \in Later : stored[x] = "new"

\* What a program that runs alone has behind it, past its first FLUSHALL.
NothingDirty(c) ==
    pc[c].stage \notin 7..10 \/ (pc[c].stage = 10 /\ pc[c].call > 1) => dirty = {}

\* A product of exercise 4 is not read before the benchmark.
PartsOnly(c) == pc[c].stage \in 2..11 => \A x \in Later : cache[x] \in {"none", "part"}

\* What it holds on its way between Redis and the backend is what the backend has.
Holding(c) ==
    /\ AtSet(c) => held[c] = stored[Product(c)]
    /\ pc[c].stage = 9 /\ pc[c].call = 2 => held[c] = "part"
    /\ pc[c].stage = 9 /\ pc[c].call = 3 => stored[Product(c)] = "new" \/ cache[Product(c)] = "none"

\* A dirty key has its part; the products already written are dirty, and those to flush still are.
Marked(c) ==
    /\ \A x \in dirty : cache[x] = "part"
    /\ pc[c].stage = 7 => Later \ pc[c].left \subseteq dirty
    /\ pc[c].stage = 7 /\ pc[c].call = 2 => cache[Product(c)] = "part"
    /\ pc[c].stage = 8 => Later \subseteq dirty
    /\ pc[c].stage = 9 => pc[c].left \subseteq dirty

\* Those already flushed are in the backend.
Sent(c) ==
    /\ pc[c].stage = 9 => \A x \in Later \ pc[c].left : stored[x] = "new"
    /\ pc[c].stage = 9 /\ pc[c].call = 3 => stored[Product(c)] = "new"
    /\ pc[c].stage > 9 => \A x \in Later : stored[x] = "new"

\* An eviction may take a part or the dirty keys before they are flushed.
Orderly(c) == NothingDirty(c) /\ PartsOnly(c) /\ Holding(c) /\ (~evicted => Marked(c) /\ Sent(c))

\* The inductive invariant.
CacheInv ==
    /\ CacheTypeOK /\ Walks /\ Alone /\ Fresh /\ Debts /\ Written
    /\ ~crowded /\ Cleared => Orderly(last)
    /\ CacheIsCurrent

(* Positions *)

\* Call k of stage n, one of l, is w.
Here(n, k, w, l) ==
    \/ n \in {2, 3, 12, 13} /\ l = 3
       /\ \/ k = 1 /\ w = "get"
          \/ k = 2 /\ w = "fetch"
          \/ k = 3 /\ w = "set"
    \/ n \in {4, 5} /\ l = 3
       /\ \/ k = 1 /\ w = "get"
          \/ k = 2 /\ w = "fetch"
          \/ k = 3 /\ w = "setex"
    \/ n = 6 /\ l = 2
       /\ \/ k = 1 /\ w = "put"
          \/ k = 2 /\ w = "set"
    \/ n = 7 /\ l = 2
       /\ \/ k = 1 /\ w = "setpart"
          \/ k = 2 /\ w = "mark"
    \/ n = 8 /\ l = 1 /\ k = 1 /\ w = "smembers"
    \/ n = 9 /\ l = 3
       /\ \/ k = 1 /\ w = "getdirty"
          \/ k = 2 /\ w = "send"
          \/ k = 3 /\ w = "unmark"
    \/ n = 10 /\ l = 5
       /\ \/ k = 1 /\ w = "flushall"
          \/ k = 2 /\ w = "lru"
          \/ k = 3 /\ w = "1mb"
          \/ k = 4 /\ w = "10mb"
          \/ k = 5 /\ w = "noeviction"
    \/ n \in {1, 11} /\ l = 1 /\ k = 1 /\ w = "flushall"

\* The calls of the stages.
LEMMA Doing ==
    ASSUME NEW n \in 1..13, NEW k \in 1..Len(Main[n].calls),
           NEW w, w = Main[n].calls[k], NEW l, l = Len(Main[n].calls)
    PROVE  Here(n, k, w, l)
<1>1. CASE n \in {2, 3, 12, 13}
  <2>1. Main[n].calls = Get
    BY <1>1, Calls
  <2>2. l = 3 /\ k \in 1..3 /\ w = Get[k]
    BY <2>1, Operations
  <2> QED BY <1>1, <2>2, Operations DEF Here
<1>2. CASE n \in {4, 5}
  <2>1. Main[n].calls = GetTimed
    BY <1>2, Calls
  <2>2. l = 3 /\ k \in 1..3 /\ w = GetTimed[k]
    BY <2>1, Operations
  <2> QED BY <1>2, <2>2, Operations DEF Here
<1>3. CASE n = 6
  <2>1. Main[n].calls = Put
    BY <1>3, Calls
  <2>2. l = 2 /\ k \in 1..2 /\ w = Put[k]
    BY <2>1, Operations
  <2> QED BY <1>3, <2>2, Operations DEF Here
<1>4. CASE n = 7
  <2>1. Main[n].calls = WriteLater
    BY <1>4, Calls
  <2>2. l = 2 /\ k \in 1..2 /\ w = WriteLater[k]
    BY <2>1, Operations
  <2> QED BY <1>4, <2>2, Operations DEF Here
<1>5. CASE n = 9
  <2>1. Main[n].calls = Flush
    BY <1>5, Calls
  <2>2. l = 3 /\ k \in 1..3 /\ w = Flush[k]
    BY <2>1, Operations
  <2> QED BY <1>5, <2>2, Operations DEF Here
<1>6. CASE n = 10
  <2>1. Main[n].calls = Evicting
    BY <1>6, Calls
  <2>2. l = 5 /\ k \in 1..5 /\ w = Evicting[k]
    BY <2>1, Operations
  <2> QED BY <1>6, <2>2, Operations DEF Here
<1>7. CASE n = 8
  BY <1>7, Calls DEF Here
<1>8. CASE n \in {1, 11}
  <2>1. l = 1 /\ Main[n].calls[1] = "flushall"
    BY <1>8, Calls
  <2> QED BY <1>8, <2>1 DEF Here
<1> QED BY <1>1, <1>2, <1>3, <1>4, <1>5, <1>6, <1>7, <1>8

\* The beginning of a stage is a position a program can be at, except where it flushes.
LEMMA Beginnings ==
    /\ \A n \in 1..13 : Position(n) = [stage |-> n, call |-> 1, left |-> Main[n].products]
    /\ \A n \in (1..13) \ {9} : Valid(Position(n)) /\ Position(n) \in Positions
    /\ Position(14) = [stage |-> 14, call |-> 1, left |-> {}] /\ Position(14) \in Positions
<1>1. \A n \in 1..13 : Position(n) = [stage |-> n, call |-> 1, left |-> Main[n].products]
  BY Calls DEF Position
<1>2. Position(14) = [stage |-> 14, call |-> 1, left |-> {}]
  BY Calls DEF Position
<1>3. ASSUME NEW n \in (1..13) \ {9} PROVE Valid(Position(n)) /\ Position(n) \in Positions
  <2>1. Position(n).stage = n /\ Position(n).call = 1 /\ Position(n).left = Main[n].products
    BY <1>1
  <2>2. Len(Main[n].calls) \in {1, 2, 3, 5}
    <3>1. n \in {2, 3, 12, 13} => Len(Main[n].calls) = 3
      BY Calls, Operations
    <3>2. Len(Main[4].calls) = 3 /\ Len(Main[5].calls) = 3
      BY Calls, Operations
    <3>3. /\ n = 6 => Len(Main[n].calls) = 2
          /\ n = 7 => Len(Main[n].calls) = 2
      BY Calls, Operations
    <3>4. n \in {1, 8, 11} => Len(Main[n].calls) = 1
      BY Calls
    <3>5. n = 10 => Len(Main[n].calls) = 5
      BY Calls, Operations
    <3> QED BY <3>1, <3>2, <3>3, <3>4, <3>5
  <2>3. Main[n].products \subseteq Products /\ (n \in (2..7) \cup {12, 13} => Main[n].products # {})
    <3>1. CASE n \in {1, 8, 10, 11}
      <4>1. Main[n].products = {}
        BY <3>1, Calls
      <4> QED BY <3>1, <4>1
    <3>2. CASE n \in 2..6
      <4>1. Main[n].products \in {{Aside}, {Timed}}
        BY <3>2, Calls
      <4> QED BY <4>1, ProductsAssumption
    <3>3. CASE n = 7
      BY <3>3, Calls, ProductsAssumption
    <3>4. CASE n \in {12, 13}
      <4>1. Main[n].products = Products
        BY <3>4, Calls
      <4> QED BY <4>1, ProductsAssumption
    <3> QED BY <3>1, <3>2, <3>3, <3>4
  <2>4. Valid(Position(n))
    <3>1. Position(n).stage \in 1..13 /\ Position(n).call \in 1..Len(Main[Position(n).stage].calls)
      BY <2>1, <2>2
    <3> QED BY <2>1, <2>3, <3>1 DEF Valid
  <2> QED BY <1>1, <2>3, <2>4 DEF Positions
<1> QED BY <1>1, <1>2, <1>3 DEF Positions

\* A set of products has a smallest one: the natural numbers are well-founded.
LEMMA Smallest ==
    ASSUME NEW S \in SUBSET Products, S # {}
    PROVE  \E p \in S : \A q \in S : p <= q
<1>1. S \subseteq Nat
  BY ProductsAssumption
<1>2. PICK p \in S : \A q \in S : <<q, p>> \notin OpToRel(<, Nat)
  BY <1>1, NatLessThanWellFounded, WFMin, Zenon
<1>3. \A q \in S : ~(q < p)
  BY <1>1, <1>2 DEF OpToRel
<1> QED BY <1>1, <1>3

\* Where a program is when all is done for a product.
LEMMA Afterwards ==
    ASSUME NEW c \in Programs, pc[c] \in Positions, Valid(pc[c])
    PROVE  LET q == After(c)
               n == pc[c].stage
               left == pc[c].left
           IN  /\ left # {} => Product(c) \in left
               /\ \/ /\ q.stage = n /\ q.call = 1 /\ q.left = left \ {Product(c)}
                     /\ left # {} /\ q.left # {} /\ q \in Positions
                  \/ q = Position(n + 1) /\ left \subseteq {Product(c)}
<1> DEFINE left == pc[c].left
           p == Product(c)
           rest == {x \in left : \E y \in left : y < x}
<1>1. left \subseteq Nat /\ left \subseteq Products
  BY ProductsAssumption DEF Positions
<1>2. left # {} => p \in left /\ \A x \in left : p <= x
  BY <1>1, Smallest DEF Product
<1>3. left # {} => rest = left \ {p}
  BY <1>1, <1>2
<1>4. left = {} => rest = {}
  OBVIOUS
<1>5. CASE rest = {}
  <2>1. After(c) = Position(pc[c].stage + 1)
    BY <1>5 DEF After
  <2> QED BY <1>2, <1>3, <1>5, <2>1
<1>6. CASE rest # {}
  <2>1. After(c) = [pc[c] EXCEPT !.call = 1, !.left = rest]
    BY <1>6 DEF After
  <2>2. left # {} /\ rest = left \ {p}
    BY <1>3, <1>4, <1>6
  <2> HIDE DEF rest, p
  <2>3. rest \in SUBSET Products
    BY <1>1, <2>2
  <2>4. After(c).stage = pc[c].stage /\ After(c).call = 1 /\ After(c).left = rest /\ After(c) \in Positions
    <3>1. PICK a \in Nat, b \in Nat, d \in SUBSET Products : pc[c] = [stage |-> a, call |-> b, left |-> d]
      BY DEF Positions
    <3>2. After(c) = [[stage |-> a, call |-> b, left |-> d] EXCEPT !.call = 1, !.left = rest]
      BY <2>1, <3>1, Zenon
    <3>3. After(c) = [stage |-> a, call |-> 1, left |-> rest]
      BY <3>2
    <3> QED BY <2>3, <3>1, <3>3 DEF Positions
  <2> QED BY <1>2, <1>6, <2>2, <2>4 DEF p
<1> QED BY <1>5, <1>6

\* The next call is for the same product.
LEMMA NextCall ==
    ASSUME NEW c \in Programs, pc[c] \in Positions, Valid(pc[c]),
           pc[c].call < Len(Main[pc[c].stage].calls)
    PROVE  /\ Following(c) \in Positions /\ Valid(Following(c))
           /\ Following(c).stage = pc[c].stage /\ Following(c).call = pc[c].call + 1
           /\ Following(c).left = pc[c].left
<1> DEFINE q == Following(c)
           l == Len(Main[pc[c].stage].calls)
<1>1. PICK a \in Nat, b \in Nat, d \in SUBSET Products : pc[c] = [stage |-> a, call |-> b, left |-> d]
  BY DEF Positions
<1>2. a = pc[c].stage /\ b = pc[c].call /\ d = pc[c].left
  BY <1>1
<1>3. b \in 1..l /\ b # l
  BY <1>2 DEF Valid
<1>4. q = [pc[c] EXCEPT !.call = @ + 1]
  BY <1>2, <1>3 DEF Following, Stage
<1>5. q = [[stage |-> a, call |-> b, left |-> d] EXCEPT !.call = @ + 1]
  BY <1>1, <1>4, Zenon
<1>6. q = [stage |-> a, call |-> b + 1, left |-> d]
  BY <1>5
<1>7. q.stage = pc[c].stage /\ q.call = pc[c].call + 1 /\ q.left = pc[c].left /\ q \in Positions
  BY <1>2, <1>6 DEF Positions
<1>8. q.call \in 1..l
  BY <1>2, <1>3, <1>7
<1> HIDE DEF q
<1>9. Valid(q)
  BY <1>7, <1>8 DEF Valid
<1> QED BY <1>7, <1>9 DEF q

\* Where a program goes from a call: to the next one, to the next product or to the next stage.
LEMMA Onwards ==
    ASSUME NEW c \in Programs, pc[c] \in Positions, Valid(pc[c]), pc[c].stage # 8,
           NEW q \in {Following(c), After(c)}
    PROVE  LET n == pc[c].stage
               left == pc[c].left
           IN  /\ q \in Positions /\ (q.stage = 14 \/ Valid(q))
               /\ left # {} => Product(c) \in left
               /\ \/ /\ q.stage = n /\ q.call = pc[c].call + 1 /\ q.left = left
                     /\ q = Following(c) /\ pc[c].call < Len(Main[n].calls)
                  \/ /\ q.stage = n /\ q.call = 1 /\ q.left = left \ {Product(c)} /\ left # {}
                     /\ q = After(c) \/ pc[c].call = Len(Main[n].calls)
                  \/ /\ q.stage = n + 1 /\ q.call = 1 /\ left \subseteq {Product(c)}
                     /\ q.left = IF n = 13 THEN {} ELSE Main[n + 1].products
                     /\ q = After(c) \/ pc[c].call = Len(Main[n].calls)
<1> DEFINE n == pc[c].stage
           k == pc[c].call
           left == pc[c].left
<1>1. n \in 1..13 /\ k \in 1..Len(Main[n].calls) /\ left \subseteq Products
  BY DEF Valid, Positions
<1>2. left # {} => Product(c) \in left
  BY Afterwards
<1>3. CASE q = Following(c) /\ k # Len(Main[n].calls)
  <2>1. k < Len(Main[n].calls)
    BY <1>1, <1>3
  <2> QED BY <1>2, <1>3, <2>1, NextCall
<1>4. CASE q = After(c) /\ (q # Following(c) \/ k = Len(Main[n].calls))
  <2>1. CASE q.stage = n /\ q.call = 1 /\ q.left = left \ {Product(c)} /\ left # {} /\ q.left # {} /\ q \in Positions
    <3>1. 1 \in 1..Len(Main[n].calls)
      BY <1>1
    <3>2. Valid(q)
      BY <2>1, <3>1 DEF Valid
    <3> QED BY <1>2, <1>4, <2>1, <3>2
  <2>2. CASE q = Position(n + 1) /\ left \subseteq {Product(c)}
    <3>1. n + 1 \in (1..13) \ {9} \/ n = 13
      BY <1>1
    <3>2. n # 13 => q.stage = n + 1 /\ q.call = 1 /\ q.left = Main[n + 1].products /\ Valid(q) /\ q \in Positions
      BY <2>2, <3>1, Beginnings
    <3>3. n = 13 => q.stage = 14 /\ q.call = 1 /\ q.left = {} /\ q \in Positions
      BY <2>2, Beginnings
    <3>4. CASE n = 13
      BY <1>2, <1>4, <2>2, <3>3, <3>4
    <3>5. CASE n # 13
      BY <1>2, <1>4, <2>2, <3>2, <3>5
    <3> QED BY <3>4, <3>5
  <2> QED BY <1>4, <2>1, <2>2, Afterwards
<1>5. k = Len(Main[n].calls) => Following(c) = After(c)
  BY DEF Following, Stage
<1> QED BY <1>3, <1>4, <1>5

(* What a step of a program leaves as it was *)

\* The program itself goes on; the others stay where they are.
LEMMA Returns ==
    ASSUME CacheInv, NEW c \in Programs, state[c] = "running", NEW q \in Positions,
           q.stage = 14 \/ Valid(q), NEW r \in Records, Return(c, q, r)
    PROVE  /\ pc'[c] = q /\ held'[c] = r
           /\ state'[c] = IF q.stage = 14 THEN "ok" ELSE "running"
           /\ \A d \in Programs \ {c} : pc'[d] = pc[d] /\ held'[d] = held[d] /\ state'[d] = state[d]
           /\ pc' \in [Programs -> Positions] /\ held' \in [Programs -> Records]
           /\ state' \in [Programs -> {"idle", "running", "ok", "error"}]
           /\ \A d \in Programs : state'[d] = "ok" <=> pc'[d].stage \notin Stages
           /\ UNCHANGED <<last, crowded, evicted>>
           /\ Walks' /\ Alone'
<1>1. pc' = [pc EXCEPT ![c] = q] /\ held' = [held EXCEPT ![c] = r] /\ UNCHANGED <<last, crowded, evicted>>
  BY DEF Return, history
<1>2. q.stage \in Stages <=> q.stage # 14
  BY Calls DEF Valid
<1>3. state' = [state EXCEPT ![c] = IF q.stage = 14 THEN "ok" ELSE "running"]
  BY <1>2 DEF Return
<1>4. /\ pc \in [Programs -> Positions] /\ held \in [Programs -> Records]
      /\ state \in [Programs -> {"idle", "running", "ok", "error"}]
      /\ \A d \in Programs : state[d] = "ok" <=> pc[d].stage \notin Stages
  BY DEF CacheInv, CacheTypeOK
<1>5. /\ pc'[c] = q /\ held'[c] = r
      /\ state'[c] = IF q.stage = 14 THEN "ok" ELSE "running"
      /\ \A d \in Programs \ {c} : pc'[d] = pc[d] /\ held'[d] = held[d] /\ state'[d] = state[d]
      /\ pc' \in [Programs -> Positions] /\ held' \in [Programs -> Records]
      /\ state' \in [Programs -> {"idle", "running", "ok", "error"}]
  BY <1>1, <1>3, <1>4
<1>6. ASSUME NEW d \in Programs PROVE state'[d] = "ok" <=> pc'[d].stage \notin Stages
  BY <1>2, <1>4, <1>5
<1>7. Walks'
  <2>1. ASSUME NEW d \in Programs
        PROVE  (state'[d] = "idle" => pc'[d] = Position(1)) /\ (state'[d] = "running" => Valid(pc'[d]))
    BY <1>5 DEF CacheInv, Walks
  <2> QED BY <2>1 DEF Walks, Valid, Position
<1>8. Alone'
  BY <1>1, <1>5 DEF CacheInv, Alone, Running
<1> QED BY <1>1, <1>5, <1>6, <1>7, <1>8

\* What is to be cleaned up is still ahead of a program that has not come to its cleaning.
LEMMA DebtsStay ==
    ASSUME CacheInv, NEW c \in Programs, state[c] = "running", NEW q \in Positions,
           q.stage = 14 \/ Valid(q), NEW r \in Records, Return(c, q, r),
           UNCHANGED <<policy, memory>>,
           \/ pc[c].stage <= 9 /\ (q.stage <= 9 \/ (q.stage = 10 /\ q.call = 1))
           \/ pc[c].stage >= 12 /\ (Messy' => Messy)
    PROVE  Debts'
<1>1. /\ pc'[c] = q /\ state'[c] = IF q.stage = 14 THEN "ok" ELSE "running"
      /\ \A d \in Programs \ {c} : pc'[d] = pc[d] /\ state'[d] = state[d]
      /\ UNCHANGED <<last, crowded, policy, memory>>
  BY Returns
<1>2. crowded \/ c = last
  BY DEF CacheInv, Alone, Running
<1>3. q.stage \in Nat /\ q.call \in Nat
  BY DEF Positions
<1>4. CASE pc[c].stage <= 9 /\ (q.stage <= 9 \/ (q.stage = 10 /\ q.call = 1))
  <2>1. q.stage <= 10 /\ (q.stage < 10 \/ q.call <= 4) /\ q.stage # 14
    BY <1>3, <1>4
  <2>2. Owing(c, 11)' /\ Owing(c, 10)' /\ OwingMemory(c)'
    BY <1>1, <1>2, <1>3, <2>1 DEF Owing, OwingMemory
  <2> QED BY <2>2 DEF Debts
<1>5. CASE pc[c].stage >= 12 /\ (Messy' => Messy)
  <2>1. pc[c].stage \in Nat
    BY DEF CacheInv, CacheTypeOK, Positions
  <2>2. ~Owing(c, 10) /\ ~Owing(c, 11)
    BY <1>5, <2>1 DEF Owing
  <2>3. ASSUME NEW d \in Programs, NEW m \in {10, 11}, Owing(d, m)
        PROVE  d # c /\ Owing(d, m)'
    BY <1>1, <2>2, <2>3 DEF Owing
  <2>4. ASSUME NEW d \in Programs, OwingMemory(d) PROVE OwingMemory(d)'
    BY <1>1, <2>3, <2>4 DEF OwingMemory
  <2> QED BY <1>1, <1>5, <2>3, <2>4 DEF Debts, CacheInv
<1> QED BY <1>4, <1>5

\* What was written is still written.
LEMMA WritesStay ==
    ASSUME CacheInv, NEW c \in Programs, state[c] = "running", NEW q \in Positions,
           q.stage = 14 \/ Valid(q), NEW r \in Records, Return(c, q, r),
           stored[Aside] = "new" => stored'[Aside] = "new",
           ~crowded => \A x \in Later : stored[x] = "new" => stored'[x] = "new",
           PastPut(q) => PastPut(pc[c]) \/ stored'[Aside] = "new",
           q.stage = 14 => pc[c].stage = 13
    PROVE  Written'
<1>1. /\ pc'[c] = q /\ state'[c] = IF q.stage = 14 THEN "ok" ELSE "running"
      /\ \A d \in Programs \ {c} : pc'[d] = pc[d] /\ state'[d] = state[d]
      /\ UNCHANGED <<last, crowded, evicted>>
  BY Returns
<1>2. ASSUME NEW d \in Programs, state'[d] \in {"running", "ok"}, PastPut(pc'[d])
      PROVE  stored'[Aside] = "new"
  <2>1. CASE d = c
    <3>1. PastPut(pc[c]) => stored[Aside] = "new"
      BY DEF CacheInv, Written
    <3> QED BY <1>1, <1>2, <2>1, <3>1
  <2>2. CASE d # c
    BY <1>1, <1>2, <2>2 DEF CacheInv, Written
  <2> QED BY <2>1, <2>2
<1>3. ASSUME NEW d \in Programs, state'[d] = "ok", ~crowded, ~evicted, NEW x \in Later
      PROVE  stored'[x] = "new"
  <2>1. CASE d = c
    <3>1. q.stage = 14 /\ pc[c].stage = 13
      BY <1>1, <1>3, <2>1
    <3>2. c = last /\ last \in Programs
      BY <1>3 DEF CacheInv, Alone, Running
    <3>3. Cleared
      BY <3>1, <3>2, NobodyAssumption DEF Cleared
    <3>4. Sent(c)
      BY <1>3, <3>2, <3>3 DEF CacheInv, Orderly
    <3> QED BY <1>3, <3>1, <3>4 DEF Sent
  <2>2. CASE d # c
    BY <1>1, <1>3, <2>2 DEF CacheInv, Written
  <2> QED BY <2>1, <2>2
<1> QED BY <1>1, <1>2, <1>3 DEF Written, PastPut

\* The same the other way round: where a program is whose next call is w.
LEMMA Calling ==
    ASSUME NEW n \in 1..13, NEW k, NEW w, NEW l, Here(n, k, w, l)
    PROVE  /\ w = "get" => n \in {2, 3, 4, 5, 12, 13} /\ k = 1 /\ l = 3
           /\ w = "fetch" => n \in {2, 3, 4, 5, 12, 13} /\ k = 2 /\ l = 3
           /\ w = "set" <=> (n \in {2, 3, 12, 13} /\ k = 3 /\ l = 3) \/ (n = 6 /\ k = 2 /\ l = 2)
           /\ w = "setex" => n \in {4, 5} /\ k = 3 /\ l = 3
           /\ w = "put" => n = 6 /\ k = 1 /\ l = 2
           /\ w = "setpart" => n = 7 /\ k = 1 /\ l = 2
           /\ w = "mark" <=> n = 7 /\ k = 2 /\ l = 2
           /\ w = "smembers" => n = 8 /\ k = 1 /\ l = 1
           /\ w = "getdirty" => n = 9 /\ k = 1 /\ l = 3
           /\ w = "send" => n = 9 /\ k = 2 /\ l = 3
           /\ w = "unmark" => n = 9 /\ k = 3 /\ l = 3
           /\ w = "flushall" => n \in {1, 10, 11} /\ k = 1 /\ l = (IF n = 10 THEN 5 ELSE 1)
           /\ w = "lru" => n = 10 /\ k = 2 /\ l = 5
           /\ w = "1mb" => n = 10 /\ k = 3 /\ l = 5
           /\ w = "10mb" => n = 10 /\ k = 4 /\ l = 5
           /\ w = "noeviction" => n = 10 /\ k = 5 /\ l = 5
           /\ n \in {2, 3, 4, 5, 9, 12, 13} => l = 3
           /\ n \in {6, 7} => l = 2
BY DEF Here

\* The calls at which a record is about to be cached or marked.
LEMMA Halfway ==
    ASSUME NEW q, Valid(q)
    PROVE  /\ Main[q.stage].calls[q.call] = "set" <=>
                (q.stage \in {2, 3, 12, 13} /\ q.call = 3) \/ (q.stage = 6 /\ q.call = 2)
           /\ Main[q.stage].calls[q.call] = "mark" <=> q.stage = 7 /\ q.call = 2
<1> DEFINE n == q.stage
           k == q.call
           w == Main[n].calls[k]
           l == Len(Main[n].calls)
<1>1. n \in 1..13 /\ k \in 1..l
  BY DEF Valid
<1> HIDE DEF n, k
<1> HIDE DEF w, l
<1>2. w = Main[n].calls[k] /\ l = Len(Main[n].calls)
  BY DEF w, l
<1>3. /\ w = "set" <=> (n \in {2, 3, 12, 13} /\ k = 3) \/ (n = 6 /\ k = 2)
      /\ w = "mark" <=> n = 7 /\ k = 2
  <2>1. Here(n, k, w, l)
    BY <1>1, <1>2, Doing
  <2> QED BY <1>1, <2>1, Calling
<1> QED BY <1>3 DEF w, n, k

\* Where a running program is, by its next call, and which product it is at.
LEMMA Where ==
    ASSUME CacheInv, NEW c \in Programs, state[c] = "running"
    PROVE  LET n == pc[c].stage
               k == pc[c].call
               l == Len(Main[n].calls)
           IN  /\ pc[c] \in Positions /\ Valid(pc[c]) /\ n \in 1..13 /\ k \in 1..l
               /\ At(c, "get") => n \in {2, 3, 4, 5, 12, 13} /\ k = 1 /\ l = 3
               /\ At(c, "fetch") => n \in {2, 3, 4, 5, 12, 13} /\ k = 2 /\ l = 3
               /\ At(c, "set") => (n \in {2, 3, 12, 13} /\ k = 3 /\ l = 3) \/ (n = 6 /\ k = 2 /\ l = 2)
               /\ At(c, "setex") => n \in {4, 5} /\ k = 3 /\ l = 3
               /\ At(c, "put") => n = 6 /\ k = 1 /\ l = 2
               /\ At(c, "setpart") => n = 7 /\ k = 1 /\ l = 2
               /\ At(c, "mark") => n = 7 /\ k = 2 /\ l = 2
               /\ At(c, "smembers") => n = 8 /\ k = 1 /\ l = 1
               /\ At(c, "getdirty") => n = 9 /\ k = 1 /\ l = 3
               /\ At(c, "send") => n = 9 /\ k = 2 /\ l = 3
               /\ At(c, "unmark") => n = 9 /\ k = 3 /\ l = 3
               /\ At(c, "flushall") => n \in {1, 10, 11} /\ k = 1 /\ l = (IF n = 10 THEN 5 ELSE 1)
               /\ At(c, "lru") => n = 10 /\ k = 2 /\ l = 5
               /\ At(c, "1mb") => n = 10 /\ k = 3 /\ l = 5
               /\ At(c, "10mb") => n = 10 /\ k = 4 /\ l = 5
               /\ At(c, "noeviction") => n = 10 /\ k = 5 /\ l = 5
               /\ n \in (2..7) \cup {9, 12, 13} =>
                     pc[c].left # {} /\ Product(c) \in pc[c].left /\ Product(c) \in Products
               /\ n \in {2, 3, 6} => Product(c) = Aside
               /\ n \in {4, 5} => Product(c) = Timed
               /\ n \in {7, 9} => pc[c].left \subseteq Later /\ Product(c) \in Later
               /\ n \in {1, 8, 10, 11} => pc[c].left = {}
               /\ ~crowded => c = last /\ (n > 1 => Cleared /\ Orderly(c))
<1> DEFINE n == pc[c].stage
           k == pc[c].call
           w == Main[n].calls[k]
           l == Len(Main[n].calls)
<1>1. pc[c] \in Positions /\ Valid(pc[c])
  BY DEF CacheInv, CacheTypeOK, Walks
<1>2. n \in 1..13 /\ k \in 1..l
  BY <1>1 DEF Valid
<1>3. pc[c].left # {} => Product(c) \in pc[c].left
  BY <1>1, Afterwards
<1>4. n # 9 => pc[c].left \subseteq Main[n].products
  BY <1>1 DEF Valid
<1>5. n = 9 => pc[c].left \subseteq Later
  BY <1>1 DEF Valid
<1>6. n \in (2..7) \cup {9, 12, 13} => pc[c].left # {}
  BY <1>1 DEF Valid
<1>7. pc[c].left \subseteq Products
  BY <1>1 DEF Positions
<1>8. /\ n \in {2, 3, 6} => Main[n].products = {Aside}
      /\ n \in {4, 5} => Main[n].products = {Timed}
      /\ n = 7 => Main[n].products = Later
      /\ n \in {1, 8, 10, 11} => Main[n].products = {}
  BY Calls
<1>9. ~crowded => c = last /\ (n > 1 => Cleared /\ Orderly(c))
  <2>1. ~crowded => c = last
    BY DEF CacheInv, Alone, Running
  <2>2. ~crowded /\ n > 1 => Cleared
    BY <2>1, NobodyAssumption DEF Cleared
  <2> QED BY <2>1, <2>2 DEF CacheInv
<1>10. \A name : At(c, name) => w = name
  BY DEF At, Stage
<1> DEFINE p == Product(c)
<1> HIDE DEF w, l, p
<1>11. w = Main[n].calls[k] /\ l = Len(Main[n].calls)
  BY DEF w, l
<1>15. Here(n, k, w, l)
  BY <1>2, <1>11, Doing
<1>12. /\ At(c, "get") => n \in {2, 3, 4, 5, 12, 13} /\ k = 1 /\ l = 3
       /\ At(c, "fetch") => n \in {2, 3, 4, 5, 12, 13} /\ k = 2 /\ l = 3
       /\ At(c, "set") => (n \in {2, 3, 12, 13} /\ k = 3 /\ l = 3) \/ (n = 6 /\ k = 2 /\ l = 2)
       /\ At(c, "setex") => n \in {4, 5} /\ k = 3 /\ l = 3
       /\ At(c, "put") => n = 6 /\ k = 1 /\ l = 2
       /\ At(c, "setpart") => n = 7 /\ k = 1 /\ l = 2
       /\ At(c, "mark") => n = 7 /\ k = 2 /\ l = 2
  BY <1>2, <1>10, <1>15, Calling
<1>13. /\ At(c, "smembers") => n = 8 /\ k = 1 /\ l = 1
       /\ At(c, "getdirty") => n = 9 /\ k = 1 /\ l = 3
       /\ At(c, "send") => n = 9 /\ k = 2 /\ l = 3
       /\ At(c, "unmark") => n = 9 /\ k = 3 /\ l = 3
       /\ At(c, "flushall") => n \in {1, 10, 11} /\ k = 1 /\ l = (IF n = 10 THEN 5 ELSE 1)
       /\ At(c, "lru") => n = 10 /\ k = 2 /\ l = 5
       /\ At(c, "1mb") => n = 10 /\ k = 3 /\ l = 5
       /\ At(c, "10mb") => n = 10 /\ k = 4 /\ l = 5
       /\ At(c, "noeviction") => n = 10 /\ k = 5 /\ l = 5
  BY <1>2, <1>10, <1>15, Calling
<1>14. /\ n \in (2..7) \cup {9, 12, 13} => pc[c].left # {} /\ p \in pc[c].left /\ p \in Products
       /\ n \in {2, 3, 6} => p = Aside
       /\ n \in {4, 5} => p = Timed
       /\ n \in {7, 9} => pc[c].left \subseteq Later /\ p \in Later
       /\ n \in {1, 8, 10, 11} => pc[c].left = {}
  <2>1. n \in (2..7) \cup {9, 12, 13} => pc[c].left # {} /\ p \in pc[c].left /\ p \in Products
    BY <1>3, <1>6, <1>7 DEF p
  <2>2. n \in {2, 3, 6} => p \in {Aside}
    BY <1>2, <1>4, <1>8, <2>1
  <2>3. n \in {4, 5} => p \in {Timed}
    BY <1>2, <1>4, <1>8, <2>1
  <2>4. n \in {7, 9} => pc[c].left \subseteq Later
    BY <1>2, <1>4, <1>5, <1>8
  <2>5. n \in {1, 8, 10, 11} => pc[c].left = {}
    BY <1>2, <1>4, <1>8
  <2> QED BY <2>1, <2>2, <2>3, <2>4, <2>5
<1> QED BY <1>1, <1>2, <1>9, <1>12, <1>13, <1>14 DEF l, p

LEMMA SameProduct ==
    ASSUME NEW c \in Programs, pc'[c].left = pc[c].left
    PROVE  Product(c)' = Product(c)
BY DEF Product

\* What there is to show of a step of a program.
LEMMA Together ==
    ASSUME CacheInv, NEW c \in Programs, state[c] = "running", NEW q \in Positions,
           q.stage = 14 \/ Valid(q), NEW r \in Records, Return(c, q, r),
           stored' \in [Products -> {"seed", "new"}], cache' \in [Products -> Records],
           timed' \subseteq {p \in Products : cache'[p] # "none"}, dirty' \subseteq Later,
           policy' \in {"noeviction", "lru"}, memory' \in {"1mb", "10mb"},
           AtSet(c)' => r \in {"seed", "new"}, timed' \subseteq {Timed},
           Debts', Written', ~crowded => Orderly(c)', CacheIsCurrent'
    PROVE  CacheInv'
<1>1. /\ pc'[c] = q /\ held'[c] = r
      /\ \A d \in Programs \ {c} : pc'[d] = pc[d] /\ held'[d] = held[d] /\ state'[d] = state[d]
      /\ UNCHANGED <<last, crowded, evicted>>
      /\ Walks' /\ Alone'
  BY Returns
<1>2. CacheTypeOK'
  <2>1. /\ pc' \in [Programs -> Positions] /\ held' \in [Programs -> Records]
        /\ state' \in [Programs -> {"idle", "running", "ok", "error"}]
        /\ \A d \in Programs : state'[d] = "ok" <=> pc'[d].stage \notin Stages
    BY Returns
  <2> QED BY <1>1, <2>1 DEF CacheTypeOK, CacheInv
<1>3. Fresh'
  <2>1. ASSUME NEW d \in Programs, AtSet(d)' PROVE held'[d] \in {"seed", "new"}
    <3>1. CASE d = c
      BY <1>1, <2>1, <3>1
    <3>2. CASE d # c
      <4>1. AtSet(d)
        BY <1>1, <2>1, <3>2 DEF AtSet
      <4> QED BY <1>1, <3>2, <4>1 DEF CacheInv, Fresh
    <3> QED BY <3>1, <3>2
  <2> QED BY <2>1 DEF Fresh
<1>4. ~crowded' /\ Cleared' => Orderly(last)'
  BY <1>1, Where
<1> QED BY <1>1, <1>2, <1>3, <1>4 DEF CacheInv

\* A record that differed from the backend's only on its way to the cache is there by now.
LEMMA CurrentStays ==
    ASSUME CacheInv, NEW c \in Programs, state[c] = "running", NEW q \in Positions,
           q.stage = 14 \/ Valid(q), NEW r \in Records, Return(c, q, r),
           pc[c].stage > 1 \/ \A p \in Products : Current(p)',
           ~crowded /\ Cleared => \A p \in Products :
              \/ Current(p) /\ cache'[p] = cache[p] /\ stored'[p] = stored[p]
              \/ p \in dirty /\ p \in dirty'
              \/ Current(p)' \/ p \in dirty'
              \/ (At(c, "set")' \/ At(c, "mark")') /\ Product(c)' = p
              \/ evicted
    PROVE  CacheIsCurrent'
<1>1. UNCHANGED <<last, crowded, evicted>>
  BY Returns
<1>2. SUFFICES ASSUME ~crowded, NEW p \in Products
               PROVE  \/ Current(p)'
                      \/ (At(c, "set")' \/ At(c, "mark")') /\ Product(c)' = p
                      \/ p \in dirty' \/ evicted'
  BY <1>1, Where DEF CacheIsCurrent
<1>3. CASE pc[c].stage > 1
  BY <1>1, <1>2, <1>3, Where DEF Current
<1> QED BY <1>2, <1>3

(* The steps of a program *)

LEMMA GetCachedStep ==
    ASSUME CacheInv, NEW c \in Programs, GetCached(c)
    PROVE  CacheInv'
<1> DEFINE n == pc[c].stage
           p == Product(c)
           q == IF cache[p] = "none" THEN Following(c) ELSE After(c)
<1>1. state[c] = "running" /\ At(c, "get") /\ Return(c, q, cache[p]) /\ UNCHANGED <<stored, redis>>
  BY DEF GetCached, At
<1>2. n \in {2, 3, 4, 5, 12, 13} /\ pc[c].call = 1 /\ Len(Main[n].calls) = 3 /\ p \in Products
  BY <1>1, Where
<1>3. /\ q \in Positions /\ (q.stage = 14 \/ Valid(q))
      /\ \/ q.stage = n /\ q.call \in {1, 2}
         \/ q.stage = n + 1 /\ q.call = 1
  BY <1>1, <1>2, Where, Onwards
<1>4. cache[p] \in Records
  BY <1>2 DEF CacheInv, CacheTypeOK
<1> HIDE DEF n, p, q
<1>5. /\ pc'[c] = q /\ UNCHANGED <<last, crowded, evicted>>
      /\ UNCHANGED <<stored, cache, timed, dirty, policy, memory>>
  BY <1>1, <1>3, <1>4, Returns DEF redis
<1>6. ~AtSet(c)'
  BY <1>2, <1>3, <1>5 DEF AtSet
<1>7. Debts'
  BY <1>1, <1>2, <1>3, <1>4, <1>5, DebtsStay DEF n, Messy
<1>8. Written'
  BY <1>1, <1>2, <1>3, <1>4, <1>5, WritesStay DEF n, PastPut
<1>9. ASSUME ~crowded PROVE Orderly(c)'
  <2>1. Orderly(c)
    BY <1>1, <1>2, <1>9, Where DEF n
  <2>2. dirty = {}
    BY <1>2, <2>1 DEF Orderly, NothingDirty, n
  <2>3. q.stage \in {2, 3, 4, 5, 6, 12, 13, 14} /\ (q.stage <= 6 <=> n <= 5)
    BY <1>2, <1>3
  <2> QED BY <1>2, <1>5, <1>6, <2>1, <2>2, <2>3 DEF Orderly, NothingDirty, PartsOnly, Holding, Marked, Sent, n
<1>10. CacheIsCurrent'
  <2>1. ~At(c, "set") /\ ~At(c, "mark")
    BY <1>1 DEF At
  <2> QED BY <1>1, <1>2, <1>3, <1>4, <1>5, <2>1, Where, CurrentStays DEF CacheInv, CacheIsCurrent, n
<1> QED BY <1>1, <1>3, <1>4, <1>5, <1>6, <1>7, <1>8, <1>9, <1>10, Together DEF CacheInv, CacheTypeOK, Fresh

LEMMA FetchStep ==
    ASSUME CacheInv, NEW c \in Programs, Fetch(c)
    PROVE  CacheInv'
<1> DEFINE n == pc[c].stage
           p == Product(c)
           q == Following(c)
<1>1. state[c] = "running" /\ At(c, "fetch") /\ Return(c, q, stored[p]) /\ UNCHANGED <<stored, redis>>
  BY DEF Fetch, At
<1>2. n \in {2, 3, 4, 5, 12, 13} /\ pc[c].call = 2 /\ Len(Main[n].calls) = 3 /\ p \in Products
  BY <1>1, Where
<1>4. q \in Positions /\ Valid(q) /\ q.stage = n /\ q.call = 3 /\ q.left = pc[c].left
  <2>1. pc[c] \in Positions /\ Valid(pc[c])
    BY <1>1, Where
  <2>2. pc[c].call < Len(Main[n].calls)
    BY <1>2
  <2>3. /\ q \in Positions /\ Valid(q)
        /\ q.stage = n /\ q.call = pc[c].call + 1 /\ q.left = pc[c].left
    BY <2>1, <2>2, NextCall
  <2> QED BY <1>2, <2>3
<1>5. stored[p] \in {"seed", "new"} /\ stored[p] \in Records
  BY <1>2 DEF CacheInv, CacheTypeOK, Records
<1> HIDE DEF n, p, q
<1>6. /\ pc'[c] = q /\ held'[c] = stored[p] /\ UNCHANGED <<last, crowded, evicted>>
      /\ UNCHANGED <<stored, cache, timed, dirty, policy, memory>>
  BY <1>1, <1>4, <1>5, Returns DEF redis
<1>7. Product(c)' = p
  BY <1>4, <1>6, SameProduct DEF p
<1>8. Debts'
  BY <1>1, <1>2, <1>4, <1>5, <1>6, DebtsStay DEF n, Messy
<1>9. Written'
  BY <1>1, <1>2, <1>4, <1>5, <1>6, WritesStay DEF n, PastPut
<1>10. ASSUME ~crowded PROVE Orderly(c)'
  <2>1. Orderly(c)
    BY <1>1, <1>2, <1>10, Where DEF n
  <2>2. dirty = {}
    BY <1>2, <2>1 DEF Orderly, NothingDirty, n
  <2> QED BY <1>2, <1>4, <1>6, <1>7, <2>1, <2>2 DEF Orderly, NothingDirty, PartsOnly, Holding, Marked, Sent, n
<1>11. CacheIsCurrent'
  <2>1. ~At(c, "set") /\ ~At(c, "mark")
    BY <1>1 DEF At
  <2> QED BY <1>1, <1>2, <1>4, <1>5, <1>6, <2>1, Where, CurrentStays DEF CacheInv, CacheIsCurrent, n
<1> QED BY <1>1, <1>4, <1>5, <1>6, <1>8, <1>9, <1>10, <1>11, Together DEF CacheInv, CacheTypeOK, Fresh

LEMMA SetStep ==
    ASSUME CacheInv, NEW c \in Programs, Set(c)
    PROVE  CacheInv'
<1> DEFINE n == pc[c].stage
           p == Product(c)
           q == Following(c)
<1>1. /\ state[c] = "running" /\ (At(c, "set") \/ At(c, "setex")) /\ Return(c, q, held[c])
      /\ cache' = [cache EXCEPT ![p] = held[c]]
      /\ timed' = IF At(c, "setex") THEN timed \cup {p} ELSE timed \ {p}
      /\ UNCHANGED <<stored, dirty, policy, memory>>
  BY DEF Set, At, Stored, Proceed
<1>2. /\ n \in {2, 3, 4, 5, 6, 12, 13} /\ pc[c].call = Len(Main[n].calls) /\ p \in Products
      /\ n <= 6 => p \in {Aside, Timed}
      /\ At(c, "setex") => p = Timed
      /\ AtSet(c)
  <2>1. \/ n \in {2, 3, 12, 13} /\ pc[c].call = 3 /\ Len(Main[n].calls) = 3 /\ At(c, "set")
        \/ n = 6 /\ pc[c].call = 2 /\ Len(Main[n].calls) = 2 /\ At(c, "set")
        \/ n \in {4, 5} /\ pc[c].call = 3 /\ Len(Main[n].calls) = 3 /\ At(c, "setex")
    BY <1>1, Where
  <2>2. /\ p \in Products
        /\ n \in {2, 3, 6} => p = Aside
        /\ n \in {4, 5} => p = Timed
    BY <1>1, <2>1, Where
  <2>3. At(c, "setex") => ~At(c, "set")
    BY DEF At
  <2>4. AtSet(c)
    BY <1>1, <2>1 DEF AtSet
  <2>5. At(c, "setex") => p = Timed
    BY <2>1, <2>2, <2>3
  <2>6. n <= 6 => p \in {Aside, Timed}
    BY <2>1, <2>2
  <2>7. n \in {2, 3, 4, 5, 6, 12, 13} /\ pc[c].call = Len(Main[n].calls)
    BY <2>1
  <2> QED BY <2>2, <2>4, <2>5, <2>6, <2>7
<1>3. /\ q \in Positions /\ (q.stage = 14 \/ Valid(q)) /\ q.call = 1
      /\ \/ q.stage = n
         \/ q.stage = n + 1 /\ (n = 6 => q.left = Later)
  <2>1. Main[7].products = Later
    BY Calls
  <2> QED BY <1>1, <1>2, <2>1, Where, Onwards
<1>4. held[c] \in {"seed", "new"} /\ held[c] \in Records
  BY <1>2 DEF CacheInv, Fresh, Records
<1> HIDE DEF n, p, q
<1>5. pc'[c] = q /\ UNCHANGED <<last, crowded, evicted>>
  BY <1>1, <1>3, <1>4, Returns
<1>6. /\ cache' \in [Products -> Records] /\ timed' \subseteq {Timed}
      /\ timed' \subseteq {x \in Products : cache'[x] # "none"}
      /\ cache'[p] = held[c] /\ \A x \in Products \ {p} : cache'[x] = cache[x]
  BY <1>1, <1>2, <1>4 DEF CacheInv, CacheTypeOK, Fresh
<1>7. Messy' => Messy
  BY <1>1, <1>4, <1>6 DEF Messy
<1>8. ~AtSet(c)'
  BY <1>2, <1>3, <1>5 DEF AtSet
<1>9. Debts'
  BY <1>1, <1>2, <1>3, <1>4, <1>7, DebtsStay DEF n
<1>10. Written'
  <2>1. PastPut(q) => PastPut(pc[c])
    BY <1>2, <1>3 DEF PastPut, AtSet, n
  <2>2. q.stage = 14 => n = 13
    BY <1>2, <1>3
  <2> QED BY <1>1, <1>3, <1>4, <2>1, <2>2, WritesStay DEF n
<1>11. ASSUME ~crowded PROVE Orderly(c)'
  <2>1. Orderly(c)
    BY <1>1, <1>2, <1>11, Where DEF n
  <2>2. dirty = {} /\ dirty' = {}
    BY <1>1, <1>2, <2>1 DEF Orderly, NothingDirty, n
  <2>3. /\ q.stage \in {2, 3, 4, 5, 6, 7, 12, 13, 14} /\ (q.stage <= 7 <=> n <= 6)
        /\ q.stage = 7 => q.left = Later
    BY <1>2, <1>3
  <2>4. PartsOnly(c)'
    <3>1. n <= 6 => \A x \in Later : cache'[x] \in {"none", "part"}
      BY <1>2, <1>6, <2>1, ProductsAssumption DEF Orderly, PartsOnly, n
    <3> QED BY <1>5, <2>3, <3>1 DEF PartsOnly
  <2> QED BY <1>1, <1>2, <1>3, <1>5, <1>8, <2>1, <2>2, <2>3, <2>4
          DEF Orderly, NothingDirty, Holding, Marked, Sent, n
<1>12. CacheIsCurrent'
  <2>1. ASSUME ~crowded, Cleared, NEW x \in Products
        PROVE  \/ Current(x) /\ cache'[x] = cache[x] /\ stored'[x] = stored[x]
               \/ x \in dirty /\ x \in dirty'
               \/ Current(x)' \/ evicted
    <3>1. CASE x = p
      <4>1. held[c] = stored[p]
        BY <1>1, <1>2, <2>1, Where DEF Orderly, Holding, n, p
      <4> QED BY <1>1, <1>6, <3>1, <4>1 DEF Current
    <3>2. CASE x # p
      <4>1. c = last
        BY <1>1, <2>1, Where
      <4> QED BY <1>1, <1>6, <2>1, <3>2, <4>1 DEF CacheInv, CacheIsCurrent, p
    <3> QED BY <3>1, <3>2
  <2> QED BY <1>1, <1>2, <1>3, <1>4, <2>1, CurrentStays DEF n
<1> QED BY <1>1, <1>3, <1>4, <1>6, <1>8, <1>9, <1>10, <1>11, <1>12, Together DEF CacheInv, CacheTypeOK

LEMMA PutThroughStep ==
    ASSUME CacheInv, NEW c \in Programs, PutThrough(c)
    PROVE  CacheInv'
<1> DEFINE n == pc[c].stage
           q == Following(c)
<1>1. /\ state[c] = "running" /\ At(c, "put") /\ Return(c, q, "new")
      /\ stored' = [stored EXCEPT ![Product(c)] = "new"]
      /\ UNCHANGED <<cache, timed, dirty, policy, memory>>
  BY DEF PutThrough, At, redis
<1>2. n = 6 /\ pc[c].call = 1 /\ Len(Main[n].calls) = 2 /\ Product(c) = Aside
  BY <1>1, Where
<1>3. q \in Positions /\ Valid(q) /\ q.stage = 6 /\ q.call = 2 /\ q.left = pc[c].left
  <2>1. pc[c] \in Positions /\ Valid(pc[c])
    BY <1>1, Where
  <2>2. pc[c].call < Len(Main[n].calls)
    BY <1>2
  <2>3. /\ q \in Positions /\ Valid(q)
        /\ q.stage = n /\ q.call = pc[c].call + 1 /\ q.left = pc[c].left
    BY <2>1, <2>2, NextCall
  <2> QED BY <1>2, <2>3
<1>4. "new" \in Records
  BY DEF Records
<1> HIDE DEF n, q
<1>5. /\ pc'[c] = q /\ held'[c] = "new" /\ state'[c] = "running"
      /\ UNCHANGED <<last, crowded, evicted>>
  BY <1>1, <1>3, <1>4, Returns
<1>6. Product(c)' = Aside
  BY <1>2, <1>3, <1>5, SameProduct
<1>7. /\ stored' \in [Products -> {"seed", "new"}] /\ stored'[Aside] = "new"
      /\ \A x \in Products \ {Aside} : stored'[x] = stored[x]
  BY <1>1, <1>2, ProductsAssumption DEF CacheInv, CacheTypeOK
<1>8. Debts'
  BY <1>1, <1>2, <1>3, <1>4, DebtsStay DEF n
<1>9. Written'
  <2>1. \A x \in Later : stored'[x] = stored[x]
    BY <1>7, ProductsAssumption
  <2> QED BY <1>1, <1>3, <1>4, <1>7, <2>1, WritesStay
<1>10. ASSUME ~crowded PROVE Orderly(c)'
  <2>1. Orderly(c)
    BY <1>1, <1>2, <1>10, Where DEF n
  <2>2. dirty = {} /\ dirty' = {}
    BY <1>1, <1>2, <2>1 DEF Orderly, NothingDirty, n
  <2> QED BY <1>1, <1>2, <1>3, <1>5, <1>6, <1>7, <2>1, <2>2
          DEF Orderly, NothingDirty, PartsOnly, Holding, Marked, Sent, n
<1>11. CacheIsCurrent'
  <2>1. ~At(c, "set") /\ ~At(c, "mark")
    BY <1>1 DEF At
  <2>2. At(c, "set")'
    BY <1>3, <1>5, Halfway DEF At, Stage
  <2>3. ASSUME ~crowded, Cleared, NEW x \in Products
        PROVE  \/ Current(x) /\ cache'[x] = cache[x] /\ stored'[x] = stored[x]
               \/ x \in dirty /\ x \in dirty'
               \/ At(c, "set")' /\ Product(c)' = x
               \/ evicted
    <3>1. c = last
      BY <1>1, <2>3, Where
    <3> QED BY <1>1, <1>6, <1>7, <2>1, <2>2, <2>3, <3>1 DEF CacheInv, CacheIsCurrent
  <2> QED BY <1>1, <1>2, <1>3, <1>4, <2>3, CurrentStays DEF n
<1> QED BY <1>1, <1>3, <1>4, <1>7, <1>8, <1>9, <1>10, <1>11, Together DEF CacheInv, CacheTypeOK, Fresh

LEMMA SetPartStep ==
    ASSUME CacheInv, NEW c \in Programs, SetPart(c)
    PROVE  CacheInv'
<1> DEFINE n == pc[c].stage
           p == Product(c)
           q == Following(c)
<1>1. /\ state[c] = "running" /\ At(c, "setpart") /\ Return(c, q, held[c])
      /\ cache' = [cache EXCEPT ![p] = "part"]
      /\ timed' = IF At(c, "setex") THEN timed \cup {p} ELSE timed \ {p}
      /\ UNCHANGED <<stored, dirty, policy, memory>>
  BY DEF SetPart, At, Stored, Proceed
<1>2. /\ n = 7 /\ pc[c].call = 1 /\ Len(Main[n].calls) = 2
      /\ p \in Later /\ p \in Products /\ ~At(c, "setex") /\ ~At(c, "set") /\ ~At(c, "mark")
  <2>1. n = 7 /\ pc[c].call = 1 /\ Len(Main[n].calls) = 2 /\ p \in Later /\ p \in Products
    BY <1>1, Where
  <2> QED BY <1>1, <2>1 DEF At
<1>3. q \in Positions /\ Valid(q) /\ q.stage = 7 /\ q.call = 2 /\ q.left = pc[c].left
  <2>1. pc[c] \in Positions /\ Valid(pc[c])
    BY <1>1, Where
  <2>2. pc[c].call < Len(Main[n].calls)
    BY <1>2
  <2>3. /\ q \in Positions /\ Valid(q)
        /\ q.stage = n /\ q.call = pc[c].call + 1 /\ q.left = pc[c].left
    BY <2>1, <2>2, NextCall
  <2> QED BY <1>2, <2>3
<1>4. held[c] \in Records
  BY DEF CacheInv, CacheTypeOK
<1> HIDE DEF n, p, q
<1>5. /\ pc'[c] = q /\ state'[c] = "running" /\ UNCHANGED <<last, crowded, evicted>>
  BY <1>1, <1>3, <1>4, Returns
<1>6. Product(c)' = p
  BY <1>3, <1>5, SameProduct DEF p
<1>7. /\ cache' \in [Products -> Records] /\ timed' \subseteq {Timed}
      /\ timed' \subseteq {x \in Products : cache'[x] # "none"}
      /\ cache'[p] = "part" /\ \A x \in Products \ {p} : cache'[x] = cache[x]
  BY <1>1, <1>2 DEF CacheInv, CacheTypeOK, Fresh, Records
<1>8. ~AtSet(c)'
  BY <1>3, <1>5 DEF AtSet
<1>9. Debts'
  BY <1>1, <1>2, <1>3, <1>4, DebtsStay DEF n
<1>10. Written'
  BY <1>1, <1>2, <1>3, <1>4, WritesStay DEF n, PastPut
<1>11. ASSUME ~crowded PROVE Orderly(c)'
  <2>1. Orderly(c)
    BY <1>1, <1>2, <1>11, Where DEF n
  <2>2. PartsOnly(c)'
    BY <1>2, <1>3, <1>5, <1>7, <2>1, ProductsAssumption DEF Orderly, PartsOnly, n
  <2>3. ASSUME ~evicted PROVE Marked(c)'
    <3>1. Marked(c)
      BY <2>1, <2>3 DEF Orderly
    <3>2. \A x \in dirty' : cache'[x] = "part"
      BY <1>1, <1>7, <3>1, ProductsAssumption DEF Marked, CacheInv, CacheTypeOK
    <3> QED BY <1>1, <1>2, <1>3, <1>5, <1>6, <1>7, <3>1, <3>2 DEF Marked, n
  <2> QED BY <1>3, <1>5, <1>8, <2>2, <2>3 DEF Orderly, NothingDirty, Holding, Sent
<1>12. CacheIsCurrent'
  <2>1. At(c, "mark")'
    BY <1>3, <1>5, Halfway DEF At, Stage
  <2>2. ASSUME ~crowded, Cleared, NEW x \in Products
        PROVE  \/ Current(x) /\ cache'[x] = cache[x] /\ stored'[x] = stored[x]
               \/ x \in dirty /\ x \in dirty'
               \/ At(c, "mark")' /\ Product(c)' = x
               \/ evicted
    <3>1. c = last
      BY <1>1, <2>2, Where
    <3> QED BY <1>1, <1>2, <1>6, <1>7, <2>1, <2>2, <3>1 DEF CacheInv, CacheIsCurrent
  <2> QED BY <1>1, <1>2, <1>3, <1>4, <2>2, CurrentStays DEF n
<1> QED BY <1>1, <1>3, <1>4, <1>7, <1>8, <1>9, <1>10, <1>11, <1>12, Together DEF CacheInv, CacheTypeOK

LEMMA MarkStep ==
    ASSUME CacheInv, NEW c \in Programs, Mark(c)
    PROVE  CacheInv'
<1> DEFINE n == pc[c].stage
           p == Product(c)
           q == Following(c)
           left == pc[c].left
<1>1. /\ state[c] = "running" /\ At(c, "mark") /\ Return(c, q, held[c])
      /\ dirty' = dirty \cup {p}
      /\ UNCHANGED <<stored, cache, timed, policy, memory>>
  BY DEF Mark, At, Proceed
<1>2. n = 7 /\ pc[c].call = 2 /\ Len(Main[n].calls) = 2 /\ p \in Later /\ left # {}
  BY <1>1, Where
<1>3. /\ q \in Positions /\ (q.stage = 14 \/ Valid(q)) /\ q.call = 1
      /\ \/ q.stage = 7 /\ q.left = left \ {p}
         \/ q.stage = 8 /\ left \subseteq {p}
  <2>1. pc[c] \in Positions /\ Valid(pc[c]) /\ n # 8
    BY <1>1, <1>2, Where
  <2>2. /\ q \in Positions /\ (q.stage = 14 \/ Valid(q))
        /\ \/ pc[c].call < Len(Main[n].calls)
           \/ q.stage = n /\ q.call = 1 /\ q.left = left \ {p}
           \/ q.stage = n + 1 /\ q.call = 1 /\ left \subseteq {p}
    BY <2>1, Onwards
  <2> QED BY <1>2, <2>2
<1>4. held[c] \in Records
  BY DEF CacheInv, CacheTypeOK
<1> HIDE DEF n, p, q, left
<1>5. pc'[c] = q /\ UNCHANGED <<last, crowded, evicted>>
  BY <1>1, <1>3, <1>4, Returns
<1>6. ~AtSet(c)'
  BY <1>3, <1>5 DEF AtSet
<1>7. Debts'
  BY <1>1, <1>2, <1>3, <1>4, DebtsStay DEF n
<1>8. Written'
  BY <1>1, <1>2, <1>3, <1>4, WritesStay DEF n, PastPut
<1>9. ASSUME ~crowded PROVE Orderly(c)'
  <2>1. Orderly(c)
    BY <1>1, <1>2, <1>9, Where DEF n
  <2>2. PartsOnly(c)'
    BY <1>1, <1>2, <1>3, <1>5, <2>1 DEF Orderly, PartsOnly, n
  <2>3. ASSUME ~evicted PROVE Marked(c)'
    <3>1. Marked(c)
      BY <2>1, <2>3 DEF Orderly
    <3>2. cache[p] = "part" /\ Later \ left \subseteq dirty
      BY <1>2, <3>1 DEF Marked, n, p, left
    <3> QED BY <1>1, <1>3, <1>5, <3>1, <3>2 DEF Marked
  <2> QED BY <1>3, <1>5, <1>6, <2>2, <2>3 DEF Orderly, NothingDirty, Holding, Sent
<1>10. CacheIsCurrent'
  <2>1. ~At(c, "set")
    BY <1>1 DEF At
  <2>2. ASSUME ~crowded, Cleared, NEW x \in Products
        PROVE  \/ Current(x) /\ cache'[x] = cache[x] /\ stored'[x] = stored[x]
               \/ x \in dirty'
               \/ evicted
    <3>1. c = last
      BY <1>1, <2>2, Where
    <3> QED BY <1>1, <2>1, <2>2, <3>1 DEF CacheInv, CacheIsCurrent, p
  <2> QED BY <1>1, <1>2, <1>3, <1>4, <2>2, CurrentStays DEF n
<1> QED BY <1>1, <1>2, <1>3, <1>4, <1>6, <1>7, <1>8, <1>9, <1>10, Together DEF CacheInv, CacheTypeOK, Fresh

LEMMA MembersStep ==
    ASSUME CacheInv, NEW c \in Programs, Members(c)
    PROVE  CacheInv'
<1> DEFINE n == pc[c].stage
           q == IF dirty = {} THEN Position(n + 2) ELSE [Position(n + 1) EXCEPT !.left = dirty]
<1>1. /\ state[c] = "running" /\ At(c, "smembers") /\ Return(c, q, held[c])
      /\ UNCHANGED <<stored, cache, timed, dirty, policy, memory>>
  BY DEF Members, At, redis
<1>2. n = 8
  BY <1>1, Where
<1>3. dirty \subseteq Later /\ Later \subseteq Products
  BY ProductsAssumption DEF CacheInv, CacheTypeOK
<1>4. /\ q \in Positions /\ Valid(q) /\ q.call = 1
      /\ \/ q.stage = 9 /\ q.left = dirty
         \/ q.stage = 10 /\ dirty = {}
  <2>1. CASE dirty = {}
    <3>1. q = Position(10)
      BY <1>2, <2>1
    <3>2. Position(10).stage = 10 /\ Position(10).call = 1 /\ Valid(Position(10)) /\ Position(10) \in Positions
      BY Beginnings
    <3> HIDE DEF q
    <3> QED BY <2>1, <3>1, <3>2
  <2>2. CASE dirty # {}
    <3>1. q = [Position(9) EXCEPT !.left = dirty]
      BY <1>2, <2>2
    <3>2. Position(9) = [stage |-> 9, call |-> 1, left |-> Main[9].products]
      BY Beginnings
    <3> HIDE DEF q
    <3>3. q = [[stage |-> 9, call |-> 1, left |-> Main[9].products] EXCEPT !.left = dirty]
      BY <3>1, <3>2, Zenon
    <3>4. q = [stage |-> 9, call |-> 1, left |-> dirty]
      BY <3>3
    <3>5. q.stage = 9 /\ q.call = 1 /\ q.left = dirty /\ q \in Positions
      BY <1>3, <3>4 DEF Positions
    <3>6. Len(Main[9].calls) = 3
      BY Calls, Operations
    <3>7. Valid(q)
      BY <1>3, <2>2, <3>5, <3>6 DEF Valid
    <3> QED BY <3>5, <3>7
  <2> QED BY <2>1, <2>2
<1>5. held[c] \in Records
  BY DEF CacheInv, CacheTypeOK
<1> HIDE DEF n, q
<1>6. pc'[c] = q /\ UNCHANGED <<last, crowded, evicted>>
  BY <1>1, <1>4, <1>5, Returns
<1>7. ~AtSet(c)'
  BY <1>4, <1>6 DEF AtSet
<1>8. Debts'
  BY <1>1, <1>2, <1>4, <1>5, DebtsStay DEF n
<1>9. Written'
  BY <1>1, <1>2, <1>4, <1>5, WritesStay DEF n, PastPut
<1>10. ASSUME ~crowded PROVE Orderly(c)'
  <2>1. Orderly(c)
    BY <1>1, <1>2, <1>10, Where DEF n
  <2>2. ~evicted => Later \subseteq dirty
    BY <1>2, <2>1 DEF Orderly, Marked, n
  <2>3. PartsOnly(c)'
    BY <1>1, <1>2, <1>4, <1>6, <2>1 DEF Orderly, PartsOnly, n
  <2>4. ASSUME ~evicted PROVE Marked(c)' /\ Sent(c)'
    <3>1. q.stage = 9 /\ q.left = dirty
      BY <1>4, <2>2, <2>4, ProductsAssumption
    <3> QED BY <1>1, <1>4, <1>6, <2>1, <2>2, <2>4, <3>1 DEF Orderly, Marked, Sent
  <2> QED BY <1>4, <1>6, <1>7, <2>3, <2>4 DEF Orderly, NothingDirty, Holding
<1>11. CacheIsCurrent'
  <2>1. ~At(c, "set") /\ ~At(c, "mark")
    BY <1>1 DEF At
  <2>2. ASSUME ~crowded, Cleared, NEW x \in Products
        PROVE  \/ Current(x) /\ cache'[x] = cache[x] /\ stored'[x] = stored[x]
               \/ x \in dirty /\ x \in dirty'
               \/ evicted
    <3>1. c = last
      BY <1>1, <2>2, Where
    <3> QED BY <1>1, <2>1, <2>2, <3>1 DEF CacheInv, CacheIsCurrent
  <2> QED BY <1>1, <1>2, <1>4, <1>5, <2>2, CurrentStays DEF n
<1> QED BY <1>1, <1>4, <1>5, <1>7, <1>8, <1>9, <1>10, <1>11, Together DEF CacheInv, CacheTypeOK, Fresh

LEMMA GetDirtyStep ==
    ASSUME CacheInv, NEW c \in Programs, GetDirty(c)
    PROVE  CacheInv'
<1> DEFINE n == pc[c].stage
           p == Product(c)
           q == IF cache[p] = "none" THEN [pc[c] EXCEPT !.call = @ + 2] ELSE Following(c)
<1>1. /\ state[c] = "running" /\ At(c, "getdirty") /\ Return(c, q, cache[p])
      /\ UNCHANGED <<stored, cache, timed, dirty, policy, memory>>
  BY DEF GetDirty, At, redis
<1>2. /\ n = 9 /\ pc[c].call = 1 /\ Len(Main[n].calls) = 3
      /\ pc[c].left \subseteq Later /\ p \in pc[c].left /\ p \in Products
  BY <1>1, Where
<1>3. /\ q \in Positions /\ Valid(q) /\ q.stage = 9 /\ q.left = pc[c].left
      /\ q.call = IF cache[p] = "none" THEN 3 ELSE 2
  <2>1. pc[c] \in Positions /\ Valid(pc[c])
    BY <1>1, Where
  <2>2. CASE cache[p] = "none"
    <3>1. q = [pc[c] EXCEPT !.call = @ + 2]
      BY <2>2
    <3>2. PICK a \in Nat, b \in Nat, d \in SUBSET Products : pc[c] = [stage |-> a, call |-> b, left |-> d]
      BY <2>1 DEF Positions
    <3>3. a = 9 /\ b = 1 /\ d = pc[c].left
      BY <1>2, <3>2
    <3> HIDE DEF q
    <3>4. q = [[stage |-> a, call |-> b, left |-> d] EXCEPT !.call = @ + 2]
      BY <3>1, <3>2, Zenon
    <3>5. q = [stage |-> 9, call |-> 3, left |-> d]
      BY <3>3, <3>4
    <3>6. q.stage = 9 /\ q.call = 3 /\ q.left = pc[c].left /\ q \in Positions
      BY <3>3, <3>5 DEF Positions
    <3>7. q.call \in 1..Len(Main[q.stage].calls) /\ q.left # {} /\ q.left \subseteq Later
      <4>1. Len(Main[q.stage].calls) = 3
        BY <1>2, <3>6
      <4>2. q.left # {} /\ q.left \subseteq Later
        BY <1>2, <3>6
      <4> QED BY <3>6, <4>1, <4>2
    <3>8. Valid(q)
      BY <3>6, <3>7 DEF Valid
    <3> QED BY <2>2, <3>6, <3>8
  <2>3. CASE cache[p] # "none"
    <3>1. pc[c].call < Len(Main[n].calls)
      BY <1>2
    <3>2. /\ q \in Positions /\ Valid(q)
          /\ q.stage = n /\ q.call = pc[c].call + 1 /\ q.left = pc[c].left
      BY <2>1, <2>3, <3>1, NextCall
    <3> QED BY <1>2, <2>3, <3>2
  <2> QED BY <2>2, <2>3
<1>4. cache[p] \in Records
  BY <1>2 DEF CacheInv, CacheTypeOK
<1> HIDE DEF n, p, q
<1>5. pc'[c] = q /\ held'[c] = cache[p] /\ UNCHANGED <<last, crowded, evicted>>
  BY <1>1, <1>3, <1>4, Returns
<1>6. Product(c)' = p
  BY <1>3, <1>5, SameProduct DEF p
<1>7. ~AtSet(c)'
  BY <1>3, <1>5 DEF AtSet
<1>8. Debts'
  BY <1>1, <1>2, <1>3, <1>4, DebtsStay DEF n
<1>9. Written'
  BY <1>1, <1>2, <1>3, <1>4, WritesStay DEF n, PastPut
<1>10. ASSUME ~crowded PROVE Orderly(c)'
  <2>1. Orderly(c)
    BY <1>1, <1>2, <1>10, Where DEF n
  <2>2. PartsOnly(c)'
    BY <1>1, <1>2, <1>3, <1>5, <2>1 DEF Orderly, PartsOnly, n
  <2>3. cache[p] \in {"none", "part"}
    BY <1>2, <2>1 DEF Orderly, PartsOnly, n
  <2>4. Holding(c)'
    BY <1>1, <1>3, <1>5, <1>6, <1>7, <2>3 DEF Holding
  <2>5. ASSUME ~evicted PROVE Marked(c)' /\ Sent(c)'
    <3>1. Marked(c) /\ Sent(c)
      BY <2>1, <2>5 DEF Orderly
    <3>2. cache[p] = "part"
      BY <1>2, <3>1 DEF Marked, n
    <3> QED BY <1>1, <1>2, <1>3, <1>5, <3>1, <3>2 DEF Marked, Sent, n
  <2> QED BY <1>3, <1>5, <2>2, <2>4, <2>5 DEF Orderly, NothingDirty
<1>11. CacheIsCurrent'
  <2>1. ~At(c, "set") /\ ~At(c, "mark")
    BY <1>1 DEF At
  <2>2. ASSUME ~crowded, Cleared, NEW x \in Products
        PROVE  \/ Current(x) /\ cache'[x] = cache[x] /\ stored'[x] = stored[x]
               \/ x \in dirty /\ x \in dirty'
               \/ evicted
    <3>1. c = last
      BY <1>1, <2>2, Where
    <3> QED BY <1>1, <2>1, <2>2, <3>1 DEF CacheInv, CacheIsCurrent
  <2> QED BY <1>1, <1>2, <1>3, <1>4, <2>2, CurrentStays DEF n
<1> QED BY <1>1, <1>3, <1>4, <1>7, <1>8, <1>9, <1>10, <1>11, Together DEF CacheInv, CacheTypeOK, Fresh

LEMMA SendStep ==
    ASSUME CacheInv, NEW c \in Programs, Send(c)
    PROVE  CacheInv'
<1> DEFINE n == pc[c].stage
           p == Product(c)
           q == Following(c)
<1>1. /\ state[c] = "running" /\ At(c, "send") /\ Return(c, q, held[c])
      /\ stored' = [stored EXCEPT ![p] = IF held[c] = "seed" THEN "seed" ELSE "new"]
      /\ UNCHANGED <<cache, timed, dirty, policy, memory>>
  BY DEF Send, At, Proceed, redis
<1>2. /\ n = 9 /\ pc[c].call = 2 /\ Len(Main[n].calls) = 3
      /\ pc[c].left \subseteq Later /\ p \in pc[c].left /\ p \in Products
  BY <1>1, Where
<1>3. q \in Positions /\ Valid(q) /\ q.stage = 9 /\ q.call = 3 /\ q.left = pc[c].left
  <2>1. pc[c] \in Positions /\ Valid(pc[c])
    BY <1>1, Where
  <2>2. pc[c].call < Len(Main[n].calls)
    BY <1>2
  <2>3. /\ q \in Positions /\ Valid(q)
        /\ q.stage = n /\ q.call = pc[c].call + 1 /\ q.left = pc[c].left
    BY <2>1, <2>2, NextCall
  <2> QED BY <1>2, <2>3
<1>4. held[c] \in Records
  BY DEF CacheInv, CacheTypeOK
<1> HIDE DEF n, p, q
<1>5. pc'[c] = q /\ UNCHANGED <<last, crowded, evicted>>
  BY <1>1, <1>3, <1>4, Returns
<1>6. Product(c)' = p
  BY <1>3, <1>5, SameProduct DEF p
<1>7. /\ stored' \in [Products -> {"seed", "new"}] /\ p # Aside
      /\ stored'[p] = IF held[c] = "seed" THEN "seed" ELSE "new"
      /\ \A x \in Products \ {p} : stored'[x] = stored[x]
  BY <1>1, <1>2, ProductsAssumption DEF CacheInv, CacheTypeOK
<1>8. ~AtSet(c)'
  BY <1>3, <1>5 DEF AtSet
<1>9. Debts'
  BY <1>1, <1>2, <1>3, <1>4, DebtsStay DEF n
<1>10. ~crowded => Orderly(c) /\ held[c] = "part" /\ stored'[p] = "new"
  <2>1. ~crowded => Orderly(c)
    BY <1>1, <1>2, Where DEF n
  <2> QED BY <1>2, <1>7, <2>1 DEF Orderly, Holding, n
<1>11. Written'
  <2>1. stored'[Aside] = stored[Aside]
    BY <1>7, ProductsAssumption
  <2>2. ~crowded => \A x \in Later : stored[x] = "new" => stored'[x] = "new"
    BY <1>7, <1>10, ProductsAssumption
  <2> QED BY <1>1, <1>2, <1>3, <1>4, <2>1, <2>2, WritesStay DEF n, PastPut
<1>12. ASSUME ~crowded PROVE Orderly(c)'
  <2>1. PartsOnly(c)'
    BY <1>1, <1>2, <1>3, <1>5, <1>10, <1>12 DEF Orderly, PartsOnly, n
  <2>2. Holding(c)'
    BY <1>3, <1>5, <1>6, <1>8, <1>10, <1>12 DEF Holding
  <2>3. ASSUME ~evicted PROVE Marked(c)' /\ Sent(c)'
    <3>1. Marked(c) /\ Sent(c)
      BY <1>10, <1>12, <2>3 DEF Orderly
    <3>2. Marked(c)'
      BY <1>1, <1>2, <1>3, <1>5, <3>1 DEF Marked, n
    <3>3. \A x \in Later \ q.left : stored'[x] = "new"
      BY <1>2, <1>3, <1>7, <3>1, ProductsAssumption DEF Sent, n
    <3> QED BY <1>3, <1>5, <1>6, <1>10, <1>12, <3>2, <3>3 DEF Sent
  <2> QED BY <1>3, <1>5, <2>1, <2>2, <2>3 DEF Orderly, NothingDirty
<1>13. CacheIsCurrent'
  <2>1. ~At(c, "set") /\ ~At(c, "mark")
    BY <1>1 DEF At
  <2>2. ASSUME ~crowded, Cleared, NEW x \in Products
        PROVE  \/ Current(x) /\ cache'[x] = cache[x] /\ stored'[x] = stored[x]
               \/ x \in dirty /\ x \in dirty'
               \/ evicted
    <3>1. c = last
      BY <1>1, <2>2, Where
    <3>2. ~evicted => p \in dirty
      BY <1>2, <1>10, <2>2 DEF Orderly, Marked, n
    <3> QED BY <1>1, <1>7, <2>1, <2>2, <3>1, <3>2 DEF CacheInv, CacheIsCurrent
  <2> QED BY <1>1, <1>2, <1>3, <1>4, <2>2, CurrentStays DEF n
<1> QED BY <1>1, <1>3, <1>4, <1>7, <1>8, <1>9, <1>11, <1>12, <1>13, Together DEF CacheInv, CacheTypeOK, Fresh

LEMMA UnmarkStep ==
    ASSUME CacheInv, NEW c \in Programs, Unmark(c)
    PROVE  CacheInv'
<1> DEFINE n == pc[c].stage
           p == Product(c)
           q == Following(c)
           left == pc[c].left
<1>1. /\ state[c] = "running" /\ At(c, "unmark") /\ Return(c, q, held[c])
      /\ dirty' = dirty \ {p}
      /\ UNCHANGED <<stored, cache, timed, policy, memory>>
  BY DEF Unmark, At, Proceed
<1>2. /\ n = 9 /\ pc[c].call = 3 /\ Len(Main[n].calls) = 3
      /\ left \subseteq Later /\ p \in left /\ p \in Products
  BY <1>1, Where
<1>3. /\ q \in Positions /\ (q.stage = 14 \/ Valid(q)) /\ q.call = 1
      /\ \/ q.stage = 9 /\ q.left = left \ {p}
         \/ q.stage = 10 /\ left \subseteq {p}
  <2>1. pc[c] \in Positions /\ Valid(pc[c]) /\ n # 8
    BY <1>1, <1>2, Where
  <2>2. /\ q \in Positions /\ (q.stage = 14 \/ Valid(q))
        /\ \/ pc[c].call < Len(Main[n].calls)
           \/ q.stage = n /\ q.call = 1 /\ q.left = left \ {p}
           \/ q.stage = n + 1 /\ q.call = 1 /\ left \subseteq {p}
    BY <2>1, Onwards
  <2> QED BY <1>2, <2>2
<1>4. held[c] \in Records
  BY DEF CacheInv, CacheTypeOK
<1> HIDE DEF n, p, q, left
<1>5. pc'[c] = q /\ UNCHANGED <<last, crowded, evicted>>
  BY <1>1, <1>3, <1>4, Returns
<1>6. ~AtSet(c)'
  BY <1>3, <1>5 DEF AtSet
<1>7. Debts'
  BY <1>1, <1>2, <1>3, <1>4, DebtsStay DEF n
<1>8. Written'
  BY <1>1, <1>2, <1>3, <1>4, WritesStay DEF n, PastPut
<1>9. ASSUME ~crowded PROVE Orderly(c)'
  <2>1. Orderly(c)
    BY <1>1, <1>2, <1>9, Where DEF n
  <2>2. PartsOnly(c)'
    BY <1>1, <1>2, <1>3, <1>5, <2>1 DEF Orderly, PartsOnly, n
  <2>3. ASSUME ~evicted PROVE Marked(c)' /\ Sent(c)'
    <3>1. Marked(c) /\ Sent(c)
      BY <2>1, <2>3 DEF Orderly
    <3>2. stored[p] = "new" /\ left \subseteq dirty /\ \A x \in Later \ left : stored[x] = "new"
      BY <1>2, <3>1 DEF Marked, Sent, n, p, left
    <3>3. Marked(c)'
      BY <1>1, <1>3, <1>5, <3>1, <3>2 DEF Marked
    <3>4. \A x \in Later \ (left \ {p}) : stored'[x] = "new"
      BY <1>1, <3>2
    <3> QED BY <1>3, <1>5, <3>3, <3>4 DEF Sent
  <2> QED BY <1>3, <1>5, <1>6, <2>2, <2>3 DEF Orderly, NothingDirty, Holding
<1>10. CacheIsCurrent'
  <2>1. ~At(c, "set") /\ ~At(c, "mark")
    BY <1>1 DEF At
  <2>2. ASSUME ~crowded, Cleared, NEW x \in Products
        PROVE  \/ Current(x) /\ cache'[x] = cache[x] /\ stored'[x] = stored[x]
               \/ x \in dirty /\ x \in dirty'
               \/ Current(x)'
               \/ evicted
    <3>1. c = last
      BY <1>1, <2>2, Where
    <3>2. Orderly(c)
      BY <1>1, <1>2, <2>2, Where DEF n
    <3>3. cache[p] \in {"none", "part"}
      BY <1>2, <3>2 DEF Orderly, PartsOnly, n
    <3>4. stored[p] = "new" \/ cache[p] = "none"
      BY <1>2, <3>2 DEF Orderly, Holding, n, p
    <3>5. CASE x = p
      BY <1>1, <3>3, <3>4, <3>5 DEF Current
    <3>6. CASE x # p
      BY <1>1, <2>1, <2>2, <3>1, <3>6 DEF CacheInv, CacheIsCurrent
    <3> QED BY <3>5, <3>6
  <2> QED BY <1>1, <1>2, <1>3, <1>4, <2>2, CurrentStays DEF n
<1> QED BY <1>1, <1>3, <1>4, <1>6, <1>7, <1>8, <1>9, <1>10, Together DEF CacheInv, CacheTypeOK, Fresh

\* FLUSHALL: the debts that are left are those of the configuration.
LEMMA FlushAllStep ==
    ASSUME CacheInv, NEW c \in Programs, FlushAll(c)
    PROVE  CacheInv'
<1> DEFINE n == pc[c].stage
           q == Following(c)
<1>1. /\ state[c] = "running" /\ At(c, "flushall") /\ Return(c, q, held[c])
      /\ cache' = [x \in Products |-> "none"] /\ timed' = {} /\ dirty' = {}
      /\ UNCHANGED <<stored, policy, memory>>
  BY DEF FlushAll, At, Proceed
<1>2. /\ n \in {1, 10, 11} /\ pc[c].call = 1 /\ pc[c].left = {}
      /\ Len(Main[n].calls) = IF n = 10 THEN 5 ELSE 1
  BY <1>1, Where
<1>3. /\ q \in Positions /\ Valid(q)
      /\ n = 10 => q.stage = 10 /\ q.call = 2
      /\ n # 10 => q.stage = n + 1 /\ q.call = 1
  <2>1. pc[c] \in Positions /\ Valid(pc[c]) /\ n # 8
    BY <1>1, <1>2, Where
  <2>2. CASE n = 10
    <3>1. pc[c].call < Len(Main[n].calls)
      BY <1>2, <2>2
    <3>2. /\ q \in Positions /\ Valid(q) /\ q.stage = n /\ q.call = pc[c].call + 1
      BY <2>1, <3>1, NextCall
    <3> QED BY <1>2, <2>2, <3>2
  <2>3. CASE n # 10
    <3>1. pc[c].call = Len(Main[n].calls)
      BY <1>2, <2>3
    <3>2. /\ q \in Positions /\ (q.stage = 14 \/ Valid(q))
          /\ q.stage = n + 1 /\ q.call = 1
      BY <1>2, <2>1, <3>1, Onwards
    <3> QED BY <1>2, <2>3, <3>2
  <2> QED BY <2>2, <2>3
<1>4. held[c] \in Records
  BY DEF CacheInv, CacheTypeOK
<1> HIDE DEF n, q
<1>5. /\ pc'[c] = q /\ state'[c] = "running" /\ UNCHANGED <<last, crowded, evicted>>
      /\ \A d \in Programs \ {c} : pc'[d] = pc[d] /\ state'[d] = state[d]
  <2>1. q.stage # 14
    BY <1>2, <1>3
  <2> QED BY <1>1, <1>3, <1>4, <2>1, Returns
<1>6. ~AtSet(c)'
  BY <1>2, <1>3, <1>5 DEF AtSet
<1>7. Debts'
  <2>1. ~Messy'
    BY <1>1 DEF Messy
  <2>2. ASSUME NEW d \in Programs, Owing(d, 10) PROVE Owing(d, 10)'
    <3>1. CASE d = c
      <4>1. n \in {1, 10}
        BY <1>1, <1>2, <2>2, <3>1 DEF Owing, n
      <4>2. q.stage <= 10
        BY <1>3, <4>1
      <4> QED BY <1>5, <2>2, <3>1, <4>2 DEF Owing
    <3>2. CASE d # c
      BY <1>5, <2>2, <3>2 DEF Owing
    <3> QED BY <3>1, <3>2
  <2>3. ASSUME NEW d \in Programs, OwingMemory(d) PROVE OwingMemory(d)'
    BY <1>2, <1>3, <1>5, <2>2, <2>3 DEF OwingMemory, Owing, n
  <2> QED BY <1>1, <2>1, <2>2, <2>3 DEF Debts, CacheInv
<1>8. Written'
  <2>1. PastPut(q) => PastPut(pc[c])
    BY <1>2, <1>3 DEF PastPut, n
  <2>2. q.stage # 14
    BY <1>2, <1>3
  <2> QED BY <1>1, <1>3, <1>4, <2>1, <2>2, WritesStay
<1>9. \A x \in Products : cache'[x] = "none"
  BY <1>1
<1>10. ASSUME ~crowded PROVE Orderly(c)'
  <2>1. n # 1 => Orderly(c)
    BY <1>1, <1>2, <1>10, Where DEF n
  <2>2. q.stage \in {2, 10, 12} /\ q.call \in {1, 2} /\ (q.stage = 2 <=> n = 1)
    BY <1>2, <1>3
  <2>3. PartsOnly(c)'
    BY <1>9, ProductsAssumption DEF PartsOnly
  <2>4. ~evicted => Sent(c)'
    BY <1>1, <1>2, <1>5, <2>1, <2>2 DEF Sent, Orderly, n
  <2> QED BY <1>1, <1>5, <1>6, <2>2, <2>3, <2>4 DEF Orderly, NothingDirty, Holding, Marked
<1>11. CacheIsCurrent'
  <2>1. \A x \in Products : Current(x)'
    BY <1>9 DEF Current
  <2> QED BY <1>1, <1>3, <1>4, <2>1, CurrentStays
<1>12. cache' \in [Products -> Records]
  BY <1>1 DEF Records
<1> QED BY <1>1, <1>3, <1>4, <1>6, <1>7, <1>8, <1>10, <1>11, <1>12, Together DEF CacheInv, CacheTypeOK

LEMMA ConfigStep ==
    ASSUME CacheInv, NEW c \in Programs, SetPolicy(c) \/ SetMemory(c)
    PROVE  CacheInv'
<1> DEFINE n == pc[c].stage
           k == pc[c].call
           q == Following(c)
<1>1. /\ state[c] = "running" /\ Return(c, q, held[c])
      /\ UNCHANGED <<stored, cache, timed, dirty>>
      /\ \/ At(c, "lru") /\ policy' = "lru" /\ memory' = memory
         \/ At(c, "noeviction") /\ policy' = "noeviction" /\ memory' = memory
         \/ At(c, "1mb") /\ memory' = "1mb" /\ policy' = policy
         \/ At(c, "10mb") /\ memory' = "10mb" /\ policy' = policy
  BY DEF SetPolicy, SetMemory, At, Proceed
<1>2. /\ n = 10 /\ Len(Main[n].calls) = 5 /\ pc[c].left = {}
      /\ \/ k = 2 /\ policy' = "lru" /\ memory' = memory
         \/ k = 5 /\ policy' = "noeviction" /\ memory' = memory
         \/ k = 3 /\ memory' = "1mb" /\ policy' = policy
         \/ k = 4 /\ memory' = "10mb" /\ policy' = policy
  BY <1>1, Where
<1>3. /\ q \in Positions /\ Valid(q)
      /\ k < 5 => q.stage = 10 /\ q.call = k + 1
      /\ k = 5 => q.stage = 11 /\ q.call = 1
  <2>1. pc[c] \in Positions /\ Valid(pc[c]) /\ n # 8
    BY <1>1, <1>2, Where
  <2>2. CASE k # 5
    <3>1. pc[c].call < Len(Main[n].calls)
      BY <1>2, <2>2
    <3>2. /\ q \in Positions /\ Valid(q) /\ q.stage = n /\ q.call = pc[c].call + 1
      BY <2>1, <3>1, NextCall
    <3> QED BY <1>2, <2>2, <3>2
  <2>3. CASE k = 5
    <3>1. pc[c].call = Len(Main[n].calls)
      BY <1>2, <2>3
    <3>2. /\ q \in Positions /\ (q.stage = 14 \/ Valid(q))
          /\ \/ pc[c].call < Len(Main[n].calls)
             \/ pc[c].left # {}
             \/ q.stage = n + 1 /\ q.call = 1
      BY <2>1, Onwards
    <3> QED BY <1>2, <2>3, <3>1, <3>2
  <2> QED BY <2>2, <2>3
<1>4. held[c] \in Records
  BY DEF CacheInv, CacheTypeOK
<1> HIDE DEF n, k, q
<1>5. /\ pc'[c] = q /\ state'[c] = "running" /\ UNCHANGED <<last, crowded, evicted>>
      /\ \A d \in Programs \ {c} : pc'[d] = pc[d] /\ state'[d] = state[d]
  <2>1. q.stage # 14
    BY <1>2, <1>3
  <2> QED BY <1>1, <1>3, <1>4, <2>1, Returns
<1>6. ~AtSet(c)'
  BY <1>2, <1>3, <1>5 DEF AtSet
<1>7. crowded \/ c = last
  BY <1>1, Where
<1>8. Debts'
  <2>1. Owing(c, 11)' /\ (k # 5 => Owing(c, 10)') /\ (k = 3 => OwingMemory(c)')
    BY <1>2, <1>3, <1>5, <1>7 DEF Owing, OwingMemory
  <2>2. ASSUME policy' = "lru" PROVE \E d \in Programs : Owing(d, 10)'
    BY <1>2, <2>1, <2>2
  <2>3. ASSUME memory' = "1mb" PROVE \E d \in Programs : OwingMemory(d)'
    <3>1. CASE k = 3
      BY <2>1, <3>1
    <3>2. CASE k # 3
      <4>1. memory = "1mb"
        BY <1>2, <2>3, <3>2
      <4>2. PICK d \in Programs : OwingMemory(d)
        BY <4>1 DEF CacheInv, Debts
      <4>3. OwingMemory(d)'
        <5>1. CASE d = c
          <6>1. k \in {2, 4}
            BY <1>1, <1>2, <2>3, <3>2, <4>2, <5>1 DEF OwingMemory, n, k
          <6>2. k = 2
            BY <1>2, <2>3, <6>1
          <6> QED BY <1>3, <1>5, <1>7, <5>1, <6>2 DEF OwingMemory, Owing
        <5>2. CASE d # c
          BY <1>5, <4>2, <5>2 DEF OwingMemory, Owing
        <5> QED BY <5>1, <5>2
      <4> QED BY <4>3
    <3> QED BY <3>1, <3>2
  <2> QED BY <2>1, <2>2, <2>3 DEF Debts
<1>9. Written'
  <2>1. PastPut(pc[c])
    BY <1>2 DEF PastPut, n
  <2>2. q.stage # 14
    BY <1>2, <1>3
  <2> QED BY <1>1, <1>3, <1>4, <2>1, <2>2, WritesStay
<1>10. ASSUME ~crowded PROVE Orderly(c)'
  <2>1. Orderly(c)
    BY <1>1, <1>2, <1>10, Where DEF n
  <2>2. q.stage \in {10, 11} /\ (q.stage = 11 => k = 5)
    BY <1>2, <1>3
  <2>3. PartsOnly(c)'
    BY <1>1, <1>2, <1>5, <2>1, <2>2 DEF PartsOnly, Orderly, n
  <2>4. dirty' = {}
    BY <1>1, <1>2, <2>1 DEF Orderly, NothingDirty, n, k
  <2> QED BY <1>1, <1>2, <1>5, <1>6, <2>1, <2>2, <2>3, <2>4
          DEF Orderly, NothingDirty, Holding, Marked, Sent, n
<1>11. CacheIsCurrent'
  <2>1. ~At(c, "set") /\ ~At(c, "mark")
    BY <1>1 DEF At
  <2>2. ASSUME ~crowded, Cleared, NEW x \in Products
        PROVE  \/ Current(x) /\ cache'[x] = cache[x] /\ stored'[x] = stored[x]
               \/ x \in dirty /\ x \in dirty'
               \/ evicted
    <3>1. c = last
      BY <1>1, <2>2, Where
    <3> QED BY <1>1, <2>1, <2>2, <3>1 DEF CacheInv, CacheIsCurrent
  <2> QED BY <1>1, <1>2, <1>3, <1>4, <2>2, CurrentStays DEF n
<1> QED BY <1>1, <1>3, <1>4, <1>6, <1>8, <1>9, <1>10, <1>11, Together DEF CacheInv, CacheTypeOK, Fresh

(* Programs that start and fail, and Redis *)

LEMMA LaunchStep ==
    ASSUME CacheInv, NEW c \in Programs, Launch(c)
    PROVE  CacheInv'
<1>1. /\ state[c] = "idle" /\ state' = [state EXCEPT ![c] = "running"] /\ last' = c
      /\ crowded' = (crowded \/ Running # {})
      /\ UNCHANGED <<stored, cache, timed, dirty, policy, memory, pc, held, evicted>>
  BY DEF Launch, redis
<1>2. pc[c].stage = 1 /\ pc[c].call = 1 /\ Valid(pc[c])
  <2>1. pc[c] = Position(1)
    BY <1>1 DEF CacheInv, Walks
  <2> QED BY <2>1, Beginnings
<1>3. /\ state'[c] = "running" /\ \A d \in Programs \ {c} : state'[d] = state[d]
      /\ state' \in [Programs -> {"idle", "running", "ok", "error"}]
      /\ crowded' \in BOOLEAN /\ (~crowded' => ~crowded /\ Running = {})
  BY <1>1 DEF CacheInv, CacheTypeOK
<1>4. CacheTypeOK'
  <2>1. 1 \in Stages
    BY Calls
  <2>2. \A d \in Programs : state'[d] = "ok" <=> pc'[d].stage \notin Stages
    BY <1>1, <1>2, <1>3, <2>1 DEF CacheInv, CacheTypeOK
  <2> QED BY <1>1, <1>3, <2>2 DEF CacheInv, CacheTypeOK
<1>5. Walks'
  BY <1>1, <1>2, <1>3 DEF CacheInv, Walks
<1>6. Alone'
  BY <1>1, <1>3 DEF Alone, Running
<1>7. Fresh'
  <2>1. ASSUME NEW d \in Programs, AtSet(d)' PROVE held'[d] \in {"seed", "new"}
    <3>1. d # c /\ AtSet(d)
      BY <1>1, <1>2, <1>3, <2>1 DEF AtSet
    <3> QED BY <1>1, <3>1 DEF CacheInv, Fresh
  <2> QED BY <1>1, <2>1 DEF CacheInv, Fresh
<1>8. Debts'
  <2>1. Owing(c, 11)' /\ Owing(c, 10)' /\ OwingMemory(c)'
    BY <1>1, <1>2, <1>3 DEF Owing, OwingMemory
  <2> QED BY <2>1 DEF Debts
<1>9. Written'
  BY <1>1, <1>2, <1>3 DEF CacheInv, Written, PastPut
<1>10. ~Cleared'
  BY <1>1, <1>2 DEF Cleared
<1> QED BY <1>4, <1>5, <1>6, <1>7, <1>8, <1>9, <1>10 DEF CacheInv, CacheIsCurrent

LEMMA FailStep ==
    ASSUME CacheInv, NEW c \in Programs, Fail(c)
    PROVE  CacheInv'
<1>1. /\ state[c] = "running" /\ state' = [state EXCEPT ![c] = "error"]
      /\ UNCHANGED <<stored, cache, timed, dirty, policy, memory, pc, held, last, crowded, evicted>>
  BY DEF Fail, redis, history
<1>2. /\ state'[c] = "error" /\ \A d \in Programs \ {c} : state'[d] = state[d]
      /\ state' \in [Programs -> {"idle", "running", "ok", "error"}]
  BY <1>1 DEF CacheInv, CacheTypeOK
<1>3. crowded \/ c = last
  BY <1>1, Where
<1>4. CacheTypeOK'
  <2>1. \A d \in Programs : state'[d] = "ok" <=> pc'[d].stage \notin Stages
    BY <1>1, <1>2 DEF CacheInv, CacheTypeOK
  <2> QED BY <1>1, <1>2, <2>1 DEF CacheInv, CacheTypeOK
<1>5. Walks'
  BY <1>1, <1>2 DEF CacheInv, Walks
<1>6. Alone'
  BY <1>1, <1>2 DEF CacheInv, Alone, Running
<1>7. Fresh'
  BY <1>1, <1>2 DEF CacheInv, Fresh, AtSet
<1>8. Debts'
  <2>1. ASSUME NEW d \in Programs, NEW m \in {10, 11}, Owing(d, m) PROVE Owing(d, m)'
    BY <1>1, <1>2, <1>3, <2>1 DEF Owing
  <2>2. ASSUME NEW d \in Programs, OwingMemory(d) PROVE OwingMemory(d)'
    BY <1>1, <1>2, <2>1, <2>2 DEF OwingMemory
  <2> QED BY <1>1, <2>1, <2>2 DEF CacheInv, Debts, Messy
<1>9. Written'
  BY <1>1, <1>2 DEF CacheInv, Written, PastPut
<1>10. ~crowded' => ~Cleared'
  BY <1>1, <1>2, <1>3 DEF Cleared
<1> QED BY <1>4, <1>5, <1>6, <1>7, <1>8, <1>9, <1>10 DEF CacheInv, CacheIsCurrent

\* Nothing becomes of the programs when a key goes; what they are to find does.
LEMMA KeysGo ==
    ASSUME CacheInv, UNCHANGED <<stored, policy, memory, pc, held, state, last, crowded>>,
           NEW gone \in SUBSET Products,
           cache' = [x \in Products |-> IF x \in gone THEN "none" ELSE cache[x]],
           timed' = timed \ gone, dirty' \subseteq dirty, evicted' \in BOOLEAN,
           \/ evicted'
           \/ evicted' = evicted /\ dirty' = dirty /\ gone \subseteq timed
    PROVE  CacheInv'
<1>1. cache \in [Products -> Records] /\ dirty \subseteq Later /\ Later \subseteq Products
  BY ProductsAssumption DEF CacheInv, CacheTypeOK
<1>2. \A x \in Products : cache'[x] = IF x \in gone THEN "none" ELSE cache[x]
  OBVIOUS
<1>3. CacheTypeOK'
  <2>1. cache' \in [Products -> Records]
    BY <1>1, <1>2 DEF Records
  <2>2. timed' \subseteq {x \in Products : cache'[x] # "none"}
    BY <1>2 DEF CacheInv, CacheTypeOK
  <2> HIDE DEF Stages
  <2> QED BY <1>1, <2>1, <2>2 DEF CacheInv, CacheTypeOK
<1>4. Walks' /\ Alone' /\ Fresh' /\ Written'
  BY DEF CacheInv, Walks, Alone, Running, Fresh, AtSet, Written, PastPut
<1>5. Debts'
  <2>1. Messy' => Messy
    BY <1>2 DEF Messy
  <2>2. \A d \in Programs : (Owing(d, 10) => Owing(d, 10)') /\ (Owing(d, 11) => Owing(d, 11)')
                            /\ (OwingMemory(d) => OwingMemory(d)')
    BY DEF Owing, OwingMemory
  <2> QED BY <2>1, <2>2 DEF CacheInv, Debts
<1>6. ASSUME ~crowded, Cleared PROVE Orderly(last)'
  <2>1. Orderly(last)
    BY <1>6 DEF CacheInv
  <2>2. Product(last)' = Product(last)
    BY DEF Product
  <2>3. NothingDirty(last)' /\ PartsOnly(last)'
    BY <1>1, <1>2, <2>1 DEF Orderly, NothingDirty, PartsOnly
  <2>4. Holding(last)'
    <3>1. AtSet(last)' = AtSet(last)
      BY DEF AtSet
    <3>2. pc[last].stage = 9 /\ pc[last].call = 3 /\ Cleared => Product(last) \in Products
      <4>1. ASSUME pc[last].stage = 9 PROVE state[last] = "running" /\ last \in Programs
        <5>1. last \in Programs /\ state[last] \in {"running", "ok"}
          BY <1>6 DEF Cleared, CacheInv, CacheTypeOK
        <5>2. 9 \in Stages
          BY Calls
        <5> QED BY <4>1, <5>1, <5>2 DEF CacheInv, CacheTypeOK
      <4> QED BY <4>1, Where
    <3> QED BY <1>2, <1>6, <2>1, <2>2, <3>1, <3>2 DEF Orderly, Holding
  <2>5. ASSUME ~evicted' PROVE Marked(last)' /\ Sent(last)'
    <3>1. ~evicted /\ gone \subseteq {Timed} /\ dirty' = dirty
      BY <2>5 DEF CacheInv, Fresh
    <3>2. \A x \in Later : cache'[x] = cache[x]
      BY <1>2, <3>1, ProductsAssumption
    <3>3. Marked(last) /\ Sent(last)
      BY <2>1, <3>1 DEF Orderly
    <3>4. pc[last].stage = 7 => Product(last) \in Later
      <4>1. ASSUME pc[last].stage = 7 PROVE state[last] = "running" /\ last \in Programs
        <5>1. last \in Programs /\ state[last] \in {"running", "ok"}
          BY <1>6 DEF Cleared, CacheInv, CacheTypeOK
        <5>2. 7 \in Stages
          BY Calls
        <5> QED BY <4>1, <5>1, <5>2 DEF CacheInv, CacheTypeOK
      <4> QED BY <4>1, Where
    <3> QED BY <1>1, <2>2, <3>1, <3>2, <3>3, <3>4 DEF Marked, Sent
  <2> QED BY <2>3, <2>4, <2>5 DEF Orderly
<1>7. Cleared' = Cleared
  BY DEF Cleared
<1>8. CacheIsCurrent'
  <2>1. SUFFICES ASSUME ~crowded, Cleared, ~evicted', NEW x \in Products
                 PROVE  \/ Current(x)'
                        \/ (At(last, "set")' \/ At(last, "mark")') /\ Product(last)' = x
                        \/ x \in dirty'
    BY <1>7 DEF CacheIsCurrent
  <2>2. Product(last)' = Product(last)
    BY DEF Product
  <2>3. At(last, "set")' = At(last, "set") /\ At(last, "mark")' = At(last, "mark")
    BY DEF At, Stage
  <2>4. ~evicted /\ dirty' = dirty
    BY <2>1
  <2>5. Current(x) => Current(x)'
    BY <1>2 DEF Current
  <2> QED BY <2>1, <2>2, <2>3, <2>4, <2>5 DEF CacheInv, CacheIsCurrent
<1> QED BY <1>3, <1>4, <1>5, <1>6, <1>7, <1>8 DEF CacheInv

LEMMA ExpireStep ==
    ASSUME CacheInv, NEW p \in Products, Expire(p)
    PROVE  CacheInv'
<1>1. /\ UNCHANGED <<stored, dirty, policy, memory, pc, held, state, last, crowded, evicted>>
      /\ p \in timed /\ timed' = timed \ {p} /\ cache' = [cache EXCEPT ![p] = "none"]
  BY DEF Expire, history
<1>2. cache' = [x \in Products |-> IF x \in {p} THEN "none" ELSE cache[x]]
  BY <1>1 DEF CacheInv, CacheTypeOK
<1>3. evicted \in BOOLEAN
  BY DEF CacheInv, CacheTypeOK
<1> QED BY <1>1, <1>2, <1>3, KeysGo

LEMMA EvictStep ==
    ASSUME CacheInv, Evict
    PROVE  CacheInv'
<1>1. UNCHANGED <<stored, policy, memory, pc, held, state, last, crowded>> /\ evicted' = TRUE
  BY DEF Evict
<1>2. CASE \E p \in Products : /\ cache' = [cache EXCEPT ![p] = "none"]
                               /\ timed' = timed \ {p} /\ UNCHANGED dirty
  <2>1. PICK p \in Products : /\ cache' = [cache EXCEPT ![p] = "none"]
                              /\ timed' = timed \ {p} /\ UNCHANGED dirty
    BY <1>2
  <2>2. cache' = [x \in Products |-> IF x \in {p} THEN "none" ELSE cache[x]]
    BY <2>1 DEF CacheInv, CacheTypeOK
  <2> QED BY <1>1, <2>1, <2>2, KeysGo
<1>3. CASE dirty' = {} /\ UNCHANGED <<cache, timed>>
  <2>1. cache' = [x \in Products |-> IF x \in {} THEN "none" ELSE cache[x]]
    BY <1>3 DEF CacheInv, CacheTypeOK
  <2>2. timed' = timed \ {} /\ dirty' \subseteq dirty /\ evicted' \in BOOLEAN
    BY <1>1, <1>3
  <2>3. {} \in SUBSET Products
    OBVIOUS
  <2> QED BY <1>1, <2>1, <2>2, <2>3, KeysGo
<1> QED BY <1>2, <1>3 DEF Evict

(* The theorems *)

LEMMA CacheInitial == CacheInit => CacheInv
<1> SUFFICES ASSUME CacheInit PROVE CacheInv
  OBVIOUS
<1>1. \A c \in Programs : state[c] = "idle" /\ pc[c] = Position(1) /\ held[c] = "none"
  BY DEF CacheInit
<1>2. Position(1).stage = 1 /\ Position(1) \in Positions /\ 1 \in Stages
  BY Beginnings, Calls
<1>3. CacheTypeOK
  <2>1. \A c \in Programs : pc[c].stage \in Stages
    BY <1>1, <1>2
  <2>2. /\ pc \in [Programs -> Positions] /\ held \in [Programs -> Records]
        /\ state \in [Programs -> {"idle", "running", "ok", "error"}]
    BY <1>2 DEF CacheInit, Records
  <2>3. /\ stored \in [Products -> {"seed", "new"}] /\ cache \in [Products -> Records]
    BY DEF CacheInit, Records
  <2> HIDE DEF Stages
  <2> QED BY <1>1, <2>1, <2>2, <2>3 DEF CacheInit, CacheTypeOK
<1>4. Walks /\ Alone /\ Fresh
  BY <1>1 DEF Walks, Alone, Running, Fresh, AtSet, CacheInit
<1>5. Debts
  BY DEF CacheInit, Debts, Messy
<1>6. Written
  BY <1>1 DEF Written
<1>7. ~Cleared
  BY DEF CacheInit, Cleared
<1> QED BY <1>3, <1>4, <1>5, <1>6, <1>7 DEF CacheInv, CacheIsCurrent

LEMMA CacheStep == CacheInv /\ [CacheNext]_cacheVars => CacheInv'
<1> SUFFICES ASSUME CacheInv, [CacheNext]_cacheVars PROVE CacheInv'
  OBVIOUS
<1>1. ASSUME NEW c \in Programs, Launch(c) \/ Fail(c) PROVE CacheInv'
  BY <1>1, LaunchStep, FailStep
<1>2. ASSUME NEW c \in Programs, GetCached(c) \/ Fetch(c) \/ Set(c) \/ PutThrough(c) PROVE CacheInv'
  BY <1>2, GetCachedStep, FetchStep, SetStep, PutThroughStep
<1>3. ASSUME NEW c \in Programs, SetPart(c) \/ Mark(c) \/ Members(c) \/ GetDirty(c) \/ Send(c) \/ Unmark(c)
      PROVE  CacheInv'
  BY <1>3, SetPartStep, MarkStep, MembersStep, GetDirtyStep, SendStep, UnmarkStep
<1>4. ASSUME NEW c \in Programs, FlushAll(c) \/ SetPolicy(c) \/ SetMemory(c) PROVE CacheInv'
  BY <1>4, FlushAllStep, ConfigStep
<1>5. ASSUME NEW p \in Products, Expire(p) PROVE CacheInv'
  BY <1>5, ExpireStep
<1>6. CASE Evict
  BY <1>6, EvictStep
<1>7. CASE UNCHANGED cacheVars
  <2>1. UNCHANGED <<stored, policy, memory, pc, held, state, last, crowded, evicted, cache, timed, dirty>>
    BY <1>7 DEF cacheVars, redis, history
  <2>2. cache' = [x \in Products |-> IF x \in {} THEN "none" ELSE cache[x]] /\ evicted \in BOOLEAN
    BY <2>1 DEF CacheInv, CacheTypeOK
  <2>3. timed' = timed \ {} /\ {} \subseteq timed /\ {} \in SUBSET Products
    BY <2>1
  <2> QED BY <2>1, <2>2, <2>3, KeysGo
<1> QED BY <1>1, <1>2, <1>3, <1>4, <1>5, <1>6, <1>7 DEF CacheNext

\* Whatever the programs do, once they are all at their end, or the one that ran alone is,
\* nothing of theirs is left in Redis but whole records: no dirty key, no partial record, and
\* the memory and the policy it had.  A debt is always owed by a program that has its cleaning
\* ahead, or that broke off.
THEOREM ProgramsLeaveNoTrace == CacheSpec => []LeavesNoTrace
<1>1. CacheInv => LeavesNoTrace
  <2> SUFFICES ASSUME CacheInv PROVE EndsClean
    BY DEF LeavesNoTrace, CacheInv
  <2>1. SUFFICES ASSUME (\A c \in Programs : state[c] \in {"idle", "ok"})
                        \/ (~crowded /\ last # Nobody /\ state[last] = "ok")
                 PROVE  ~Messy /\ policy # "lru" /\ memory # "1mb"
    BY DEF EndsClean, Messy, CacheInv, CacheTypeOK
  <2>2. \A c \in Programs, m \in {10, 11} : ~Owing(c, m)
    BY <2>1 DEF Owing
  <2> QED BY <2>2 DEF CacheInv, Debts, OwingMemory
<1> QED BY <1>1, CacheInitial, CacheStep, PTL DEF CacheSpec

\* What a program wrote through is in the backend once it ends, and so is what it wrote back,
\* where programs ran one after the other and no key was evicted.
THEOREM ProgramsWritesArrive == CacheSpec => []WritesArrive
<1>1. CacheInv => WritesArrive
  <2> SUFFICES ASSUME CacheInv, NEW c \in Programs, state[c] = "ok"
               PROVE  /\ stored[Aside] = "new"
                      /\ ~crowded /\ ~evicted => \A p \in Later : stored[p] = "new"
    BY DEF WritesArrive
  <2>1. PastPut(pc[c])
    <3>1. pc[c].stage \in Nat \ {0} /\ pc[c].stage \notin 1..13
      BY Calls DEF CacheInv, CacheTypeOK, Positions
    <3> QED BY <3>1 DEF PastPut
  <2> QED BY <2>1 DEF CacheInv, Written
<1> QED BY <1>1, CacheInitial, CacheStep, PTL DEF CacheSpec

\* Where programs run one after the other, a cached record that differs from the backend's is
\* on its way to the cache, marked as dirty, or what an eviction left.
THEOREM ProgramsCacheIsCurrent == CacheSpec => []CacheIsCurrent
<1>1. CacheInv => CacheIsCurrent
  BY DEF CacheInv
<1> QED BY <1>1, CacheInitial, CacheStep, PTL DEF CacheSpec
=============================================================================
