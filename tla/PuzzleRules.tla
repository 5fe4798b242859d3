---------------------------- MODULE PuzzleRules ----------------------------
(*****************************************************************************)
(* What the builder of lab 13 (arch-builder/tools/build.py) accepts as a     *)
(* puzzle of the architecture exercise, and what it publishes of it.  Cells  *)
(* and rows are in hundredths, the precision the builder allows, and SVG     *)
(* units in fiftieths, so that all of the geometry is in whole numbers.      *)
(* A puzzle is a record of                                                   *)
(*   layout  cols, rows, groups (parent, kind, cell) and items, the slots    *)
(*           and nodes (group, cell)                                         *)
(*   tiling  the answer and the near miss of each slot, and the palette, with *)
(*           uses 0 and role None where the file gives none                  *)
(*   text    numbers of slots and nodes (0 without one), requirements with   *)
(*           the slots their gaps name, allowed, the answers that may be     *)
(*           mentioned, named, the answers the texts name and where, clean:  *)
(*           no article before a gap, cues and sources found, lengths kept;  *)
(*           english, the translation: gaps by requirement, the ids it       *)
(*           translates, its reasons against a tile, named, clean            *)
(*   flow    the arrows, with step 0 where they have none                    *)
(*   icons, status                                                           *)
(*****************************************************************************)
EXTENDS Integers, Sequences, FiniteSets

CONSTANTS
    Slots,      \* p.slots
    Nodes,      \* p.nodes
    Registry,   \* the services of icons/registry.json
    None

ASSUME ItemsAssumption == IsFiniteSet(Slots) /\ Slots \cap Nodes = {} /\ None \notin Slots

Elements(s) == {s[i] : i \in DOMAIN s}
Distinct(s) == Cardinality(Elements(s)) = Len(s)

-----------------------------------------------------------------------------
(* Geometry *)

CW == 6000      \* 120 units, a hundredth of them is 60; and 56 of CH, 112 units

NodeBox(cell) == [x0 |-> 60 * cell.c + 300, y0 |-> 56 * cell.r,
                  x1 |-> 60 * cell.c + 5700, y1 |-> 56 * cell.r + 5200]

GroupRect(cell) == [x0 |-> 60 * cell.c, y0 |-> 56 * cell.r,
                    x1 |-> 60 * (cell.c + cell.w), y1 |-> 56 * (cell.r + cell.h)]

Inside(a, b) ==
    a.x0 >= b.x0 - 25 /\ a.y0 >= b.y0 - 25 /\ a.x1 <= b.x1 + 25 /\ a.y1 <= b.y1 + 25

Overlap(a, b, eps) ==
    a.x0 < b.x1 - eps /\ b.x0 < a.x1 - eps /\ a.y0 < b.y1 - eps /\ b.y0 < a.y1 - eps

\* CROSSING: zones, security and scaling groups may cross their siblings.
Crossing(g) == g.kind = "zone"

Known(groups, g) == g \in DOMAIN groups

\* S holds g, and with a group its parent.
Closed(groups, g, S) == ({g} \cup {groups[h].parent : h \in S}) \cap DOMAIN groups \subseteq S

\* chain: g and its ancestors, the least such set.
Chain(groups, g) ==
    {h \in DOMAIN groups : \A S \in SUBSET DOMAIN groups : Closed(groups, g, S) => h \in S}

Acyclic(groups) ==
    \A g \in DOMAIN groups : g \notin Chain(groups, groups[g].parent)

\* MARGIN_X, MARGIN_TOP, MARGIN_BOTTOM
Fits(a, b) ==
    /\ a.c >= b.c + 6 /\ a.c + a.w <= b.c + b.w - 6
    /\ a.r >= b.r + 22 /\ a.r + a.h <= b.r + b.h - 6

\* Faulty variant: groups of one kind only may not overlap.
SiblingsApart_SameKind(groups) ==
    \A g, h \in DOMAIN groups :
        g # h /\ groups[g].parent = groups[h].parent /\ groups[g].kind = groups[h].kind
        /\ ~Crossing(groups[g]) =>
            ~Overlap(GroupRect(groups[g].cell), GroupRect(groups[h].cell), 25)

SiblingsApart(groups) ==
    \A g, h \in DOMAIN groups :
        g # h /\ groups[g].parent = groups[h].parent /\ ~Crossing(groups[g]) /\ ~Crossing(groups[h]) =>
            ~Overlap(GroupRect(groups[g].cell), GroupRect(groups[h].cell), 25)

GroupsOk(L) ==
    LET groups == L.groups
        grid == [x0 |-> 0, y0 |-> 0, x1 |-> L.cols * CW, y1 |-> 56 * L.rows]
    IN  /\ \A g \in DOMAIN groups :
              /\ Inside(GroupRect(groups[g].cell), grid)
              /\ groups[g].parent = None \/ Known(groups, groups[g].parent)
              /\ Known(groups, groups[g].parent) => Fits(groups[g].cell, groups[groups[g].parent].cell)
        /\ Acyclic(groups)
        /\ SiblingsApart(groups)

\* A slot or a node is inside its group and all around it, and inside no other.  One that
\* crosses the border of another only draws a warning.
ItemOk(L, item) ==
    LET cell == item.cell
        around == Chain(L.groups, item.group)
    IN  /\ cell.c \in 0..100 * (L.cols - 1) /\ cell.r \in 0..L.rows - 100
        /\ item.group = None \/ Known(L.groups, item.group)
        /\ \A g \in DOMAIN L.groups :
              LET in == Inside(NodeBox(cell), GroupRect(L.groups[g].cell))
              IN  IF g \in around THEN in ELSE Crossing(L.groups[g]) \/ ~in

GeometryOk(L) ==
    /\ GroupsOk(L)
    /\ \A x \in DOMAIN L.items : ItemOk(L, L.items[x])
    /\ \A x, y \in DOMAIN L.items : x # y =>
          ~Overlap(NodeBox(L.items[x].cell), NodeBox(L.items[y].cell), 100)

-----------------------------------------------------------------------------
(* Palette, requirements, arrows *)

Need(t, service) == Cardinality({s \in Slots : t.accept[s] = service})

Wrong(t, tile) == Need(t, tile.service) = 0

\* A tile is used once where the file does not say.
Uses(tile) == IF tile.uses = 0 THEN 1 ELSE tile.uses

\* Faulty variant: any tile of a service that answers will do.
TileOk_AnyUses(t, tile) ==
    IF Wrong(t, tile) THEN tile.role # None /\ Uses(tile) = 1 ELSE tile.role \in {None, "answer"}

TileOk(t, tile) ==
    IF Wrong(t, tile)
    THEN /\ tile.role # None /\ Uses(tile) = 1
         /\ tile.role \in {"near-miss", "distractor"} => tile.why # {}
         /\ tile.why \subseteq Slots \cup {"*"}
    ELSE tile.role \in {None, "answer"} /\ Uses(tile) = Need(t, tile.service)

\* The near miss of a slot is a wrong tile that says why.
NearMissOk(t, s) ==
    t.near[s] = None \/
    \E tile \in Elements(t.palette) :
        /\ tile.service = t.near[s] /\ Wrong(t, tile)
        /\ tile.role = "near-miss" /\ {s, "*"} \cap tile.why # {}

PaletteOk(t) ==
    LET wrong == {tile \in Elements(t.palette) : Wrong(t, tile)}
    IN  /\ Distinct([i \in DOMAIN t.palette |-> t.palette[i].service])
        /\ \A s \in Slots : \E tile \in Elements(t.palette) : tile.service = t.accept[s]
        /\ \A tile \in Elements(t.palette) : TileOk(t, tile)
        /\ \A s \in Slots : NearMissOk(t, s)
        /\ 4 * Cardinality(wrong) >= 3 * Cardinality(Slots)

\* A requirement of a slot has one gap, for it, and its number.  Each slot is asked for once.
RequirementsOk(x) ==
    /\ \A i \in DOMAIN x.requirements :
          LET r == x.requirements[i]
          IN  IF r.slot = None THEN r.gaps = <<>>
              ELSE r.slot \in Slots /\ r.gaps = <<r.slot>> /\ x.number[r.slot] = r.n
    /\ \A s \in Slots : Cardinality({i \in DOMAIN x.requirements : x.requirements[i].gaps = <<s>>}) = 1

\* The numbers of the diagram are the numbers of the requirements, each once.
NumbersOk(x) ==
    LET asked == [i \in DOMAIN x.requirements |-> x.requirements[i].n]
        ofNode == {n \in Nodes : x.number[n] # 0}
    IN  /\ Distinct(asked)
        /\ \A a, b \in Slots \cup ofNode : a # b => x.number[a] # x.number[b]
        /\ {x.number[a] : a \in Slots \cup ofNode} = Elements(asked)

\* Arrows join two items, and their steps count from 1.
FlowOk(edges) ==
    LET steps == {edges[i].step : i \in DOMAIN edges} \ {0}
    IN  /\ \A i \in DOMAIN edges : edges[i].from # edges[i].to /\ {edges[i].from, edges[i].to} \subseteq Slots \cup Nodes
        /\ \A i, j \in DOMAIN edges : i # j /\ edges[i].step # 0 => edges[i].step # edges[j].step
        /\ steps = 1..Cardinality(steps)

\* used_ids: what the nodes and the tiles show.
Icons(p) == {p.tiling.palette[i].service : i \in DOMAIN p.tiling.palette} \cup p.icons

\* leaks: no text names an answer, but for those allowed and the label of a slot it answers.
NoLeaks(t, allowed, named) ==
    \A m \in named :
        LET slots == {s \in Slots : t.accept[s] = m.answer}
        IN  slots # {} /\ m.answer \in Registry \ allowed => m.where \in slots

\* validate_overlay: a translated requirement keeps the gaps, and what else is translated is there.
OverlayOk(p) ==
    LET x == p.text
        e == x.english
    IN  /\ \A n \in DOMAIN e.gaps :
              \E i \in DOMAIN x.requirements : x.requirements[i].n = n /\ e.gaps[n] = x.requirements[i].gaps
        /\ e.ids \subseteq Slots \cup Nodes \cup DOMAIN p.layout.groups
        /\ \A r \in e.reasons :
              r.slot \in Slots \cup {"*"} /\ \E tile \in Elements(p.tiling.palette) : tile.service = r.service
        /\ NoLeaks(p.tiling, x.allowed, e.named) /\ e.clean

Roles == {"answer", "near-miss", "distractor", "filler"}

\* schema_errors: the form, that is checked first and without which nothing else is.
Formed(p) ==
    /\ p.layout.cols \in 3..12 /\ p.layout.rows \in 200..1000
    /\ IsFiniteSet(DOMAIN p.layout.groups) /\ None \notin DOMAIN p.layout.groups
    /\ \A g \in DOMAIN p.layout.groups :
          p.layout.groups[g].cell \in [c : Nat, r : Nat, w : Nat \ {0}, h : Nat \ {0}]
    /\ DOMAIN p.layout.items = Slots \cup Nodes
    /\ \A x \in Slots \cup Nodes : p.layout.items[x].cell \in [c : Nat, r : Nat]
    /\ Cardinality(Slots) \in 2..9
    /\ p.tiling.palette \in Seq(Elements(p.tiling.palette)) /\ Len(p.tiling.palette) \in 3..24
    /\ \A tile \in Elements(p.tiling.palette) : tile.uses \in 0..4 /\ tile.role \in Roles \cup {None}
    /\ p.text.requirements \in Seq(Elements(p.text.requirements)) /\ Len(p.text.requirements) >= 2
    /\ \A r \in Elements(p.text.requirements) : r.n \in Nat \ {0}
    /\ \A s \in Slots : p.text.number[s] \in Nat \ {0}
    /\ \A n \in Nodes : p.text.number[n] \in Nat
    /\ \A i \in DOMAIN p.flow : p.flow[i].step \in Nat

\* validate, validate_overlay
Accepted(p) ==
    /\ Formed(p)
    /\ GeometryOk(p.layout) /\ PaletteOk(p.tiling) /\ FlowOk(p.flow)
    /\ RequirementsOk(p.text) /\ NumbersOk(p.text)
    /\ Icons(p) \subseteq Registry
    /\ NoLeaks(p.tiling, p.text.allowed, p.text.named) /\ p.text.clean
    /\ OverlayOk(p)

\* normalize: what a file leaves out gets its default, and what may be mentioned stays behind.
Normalized(p) ==
    LET t == p.tiling
        x == p.text
        given(tile) ==
            [service |-> tile.service, uses |-> Uses(tile), why |-> tile.why,
             role |-> IF tile.role # None THEN tile.role
                      ELSE IF Wrong(t, tile) THEN "distractor" ELSE "answer"]
    IN  [layout |-> p.layout, flow |-> p.flow, icons |-> p.icons, status |-> p.status,
         tiling |-> [accept |-> t.accept, near |-> t.near,
                     palette |-> [i \in DOMAIN t.palette |-> given(t.palette[i])]],
         text |-> [number |-> x.number, requirements |-> x.requirements, english |-> x.english,
                  named |-> x.named, clean |-> x.clean]]

-----------------------------------------------------------------------------
(* What the exercise relies on *)

\* A drawing can be read: groups are one inside the other or apart, but for those that may
\* cross, and a slot lies in the groups around it and overlaps none that is neither one of
\* them nor inside its own.
Nested(L) ==
    LET plain == {g \in DOMAIN L.groups : \A h \in Chain(L.groups, g) : ~Crossing(L.groups[h])}
        rect(g) == GroupRect(L.groups[g].cell)
    IN  /\ \A g, h \in plain : Overlap(rect(g), rect(h), 25) =>
              g \in Chain(L.groups, h) \/ h \in Chain(L.groups, g)
        /\ \A g \in DOMAIN L.groups : \A h \in Chain(L.groups, g) : Inside(rect(g), rect(h))
        /\ \A x \in DOMAIN L.items : \A h \in Chain(L.groups, L.items[x].group) :
              Inside(NodeBox(L.items[x].cell), rect(h))
        /\ \A x \in DOMAIN L.items : L.items[x].group \in plain =>
              \A h \in plain : Overlap(NodeBox(L.items[x].cell), rect(h), 25) =>
                  h \in Chain(L.groups, L.items[x].group) \/ L.items[x].group \in Chain(L.groups, h)

\* The tiles fill all slots rightly, and none of those that answer is left over.
Solvable(t) ==
    \E f \in [Slots -> DOMAIN t.palette] :
        /\ \A s \in Slots : t.palette[f[s]].service = t.accept[s]
        /\ \A i \in DOMAIN t.palette :
              LET left == t.palette[i].uses - Cardinality({s \in Slots : f[s] = i})
              IN  IF \E s \in Slots : t.accept[s] = t.palette[i].service THEN left = 0 ELSE left = 1

\* A slot is asked for by the requirement that has its number, in both languages, and by no other.
AskedOnce(x) ==
    \A s \in Slots : \E i \in DOMAIN x.requirements :
        LET r == x.requirements[i]
        IN  /\ r.n = x.number[s] /\ r.gaps = <<s>>
            /\ r.n \in DOMAIN x.english.gaps => x.english.gaps[r.n] = <<s>>
            /\ \A j \in DOMAIN x.requirements : j # i =>
                  x.requirements[j].n # r.n /\ s \notin Elements(x.requirements[j].gaps)
=============================================================================
