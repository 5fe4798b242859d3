--------------------------- MODULE MCArchBuilder ---------------------------
\* Instances of ArchBuilder: two slots, a node, three groups, and the parts an author may
\* put together well or badly.
EXTENDS ArchBuilder, TLC

MCSlots == {"s1", "s2"}
MCNodes == {"n1"}
MCRegistry == {"a", "b", "c", "d", "e", "users"}

Cell(c, r) == [c |-> c, r |-> r]
Box(c, r, w, h) == [c |-> c, r |-> r, w |-> w, h |-> h]
Item(cell, group) == [cell |-> cell, group |-> group]
Group(parent, kind, cell) == [parent |-> parent, kind |-> kind, cell |-> cell]

Layout(p2, p3, kind3, cell2, cell3, s1, s2) ==
    [cols |-> 5, rows |-> 400,
     groups |-> [g \in {"g1", "g2", "g3"} |->
        CASE g = "g1" -> Group(None, "vpc", Box(0, 0, 400, 400))
          [] g = "g2" -> Group(p2, "subnet", cell2)
          [] g = "g3" -> Group(p3, kind3, cell3)],
     items |-> [x \in {"s1", "s2", "n1"} |->
        CASE x = "s1" -> s1 [] x = "s2" -> s2 [] x = "n1" -> Item(Cell(400, 0), None)]]

GoodLayout ==
    Layout("g1", "g1", "private", Box(6, 22, 150, 150), Box(156, 22, 150, 150),
           Item(Cell(30, 47), "g2"), Item(Cell(250, 200), "g1"))

\* A child that fits by a hundredth or does not, siblings that touch or overlap, parents in
\* a cycle, slots on a border, in the wrong group or one over the other.
MCLayouts ==
    {Layout(p2, p3, kind3, cell2, cell3, Item(c1, g1), Item(Cell(250, 150), "g1")) :
        p2 \in {None, "g1", "g3"}, p3 \in {"g1", "g2", "g9"},
        kind3 \in {"private", "zone"},
        cell2 \in {Box(6, 22, 150, 150), Box(5, 22, 150, 150), Box(6, 22, 250, 300)},
        cell3 \in {Box(156, 22, 150, 150), Box(100, 100, 150, 150), Box(12, 44, 130, 120)},
        c1 \in {Cell(30, 47), Cell(150, 47), Cell(250, 100)}, g1 \in {"g1", "g2", "g3"}}
    \cup {[GoodLayout EXCEPT !.groups["g3"].cell.w = 0], [GoodLayout EXCEPT !.rows = 199],
          [GoodLayout EXCEPT !.cols = 13]}

Tile(service, uses, role, why) == [service |-> service, uses |-> uses, role |-> role, why |-> why]

MCTilings ==
    {[accept |-> [s \in MCSlots |-> IF s = "s1" THEN a1 ELSE a2],
      near |-> [s \in MCSlots |-> IF s = "s1" THEN near ELSE None],
      palette |-> <<a, c>> \o b \o d] :
        a1 \in {"a", "b"}, a2 \in {"a", "b"}, near \in {None, "c"},
        a \in {Tile("a", n, role, {}) : n \in {0, 1, 2}, role \in {None, "filler"}},
        b \in {<<>>, <<Tile("b", 1, None, {})>>, <<Tile("b", 1, "distractor", {"*"})>>},
        c \in {Tile("c", 1, "near-miss", why) : why \in {{}, {"s1"}, {"s7"}}} \cup {Tile("c", 2, "near-miss", {"s1"})},
        d \in {<<Tile("d", 1, "filler", {})>>, <<Tile("a", 1, None, {})>>, <<Tile("e", 1, "filler", {})>>, <<Tile("z", 1, "filler", {})>>}}

Requirement(n, slot, gaps) == [n |-> n, slot |-> slot, gaps |-> gaps]

Gaps == {<<>>, <<"s1">>, <<"s2">>, <<"s1", "s2">>}

English(gaps, ids, reasons, named, clean) ==
    [gaps |-> gaps, ids |-> ids, reasons |-> reasons, named |-> named, clean |-> clean]

Untranslated == English(<<>>, {}, {}, {}, TRUE)
Same == English(<<<<"s1">>, <<"s2">>>>, {"s1", "g1"}, {[service |-> "c", slot |-> "*"]}, {}, TRUE)

Text(n1, requirements, english, allowed, named) ==
    [number |-> [x \in {"s1", "s2", "n1"} |-> CASE x = "s1" -> n1 [] x = "s2" -> 2 [] x = "n1" -> 3],
     requirements |-> requirements, english |-> english, allowed |-> allowed, named |-> named, clean |-> TRUE]

Asked == <<Requirement(1, "s1", <<"s1">>), Requirement(2, "s2", <<"s2">>), Requirement(3, None, <<>>)>>

Names == {[where |-> "s1", answer |-> "a"], [where |-> "title", answer |-> "a"], [where |-> "s2", answer |-> "c"]}

\* Gaps and numbers that go together or not; translations that keep them or not; texts that
\* name answers, where they may or not.
MCTexts ==
    {Text(n1, <<Requirement(1, t1, g1), Requirement(2, t2, g2), Requirement(n3, None, g3)>>, e, {}, {}) :
        n1 \in {1, 2}, t1 \in {None, "s1"}, g1 \in Gaps, t2 \in {"s2", "s1"}, g2 \in Gaps,
        n3 \in {2, 3}, g3 \in {<<>>, <<"s1">>}, e \in {Untranslated, Same}}
    \cup {Text(1, Asked, e, {}, {}) :
            e \in {[Same EXCEPT !.gaps = <<<<"s2">>, <<"s1">>>>], [Same EXCEPT !.gaps = <<<<"s1">>, <<"s2">>, <<>>, <<>>>>],
                   [Same EXCEPT !.ids = {"s3"}], [Same EXCEPT !.clean = FALSE],
                   [Same EXCEPT !.reasons = {[service |-> "z", slot |-> "*"]}],
                   [Same EXCEPT !.reasons = {[service |-> "c", slot |-> "s3"]}]}
                  \cup {[Same EXCEPT !.named = {m}] : m \in Names}}
    \cup {Text(n, Asked, Same, allowed, named) : n \in {0, 1}, allowed \in {{}, {"a"}}, named \in SUBSET Names}
    \cup {[Text(1, Asked, Same, {}, {}) EXCEPT !.clean = FALSE]}

Edge(from, to, step) == [from |-> from, to |-> to, step |-> step]

MCFlows ==
    {<<Edge("s1", to, step), Edge(from, "n1", last)>> :
        to \in {"s2", "s1", "g1"}, from \in {"s2", "n1"}, step \in {0, 1, 2}, last \in {1, 2, 3}}

MCBase ==
    [layout |-> GoodLayout,
     tiling |-> [accept |-> [s1 |-> "a", s2 |-> "b"], near |-> [s1 |-> "c", s2 |-> None],
                 palette |-> <<Tile("a", 0, None, {}), Tile("b", 1, None, {}),
                               Tile("c", 1, "near-miss", {"s1"}), Tile("d", 1, "filler", {})>>],
     text |-> Text(1, Asked, Same, {}, {}),
     flow |-> <<Edge("s1", "s2", 1), Edge("s2", "n1", 2)>>,
     icons |-> {"users"}, status |-> "draft"]

\* What a file may hold that is followed for three runs: a puzzle with another icon, with one
\* that is not in the registry, with fewer icons, one that is wrong, one that is published.
Fewer(i) == SelectSeq(MCBase.tiling.palette, LAMBDA tile : tile.service # "d") \o i

Common ==
    {MCBase, [MCBase EXCEPT !.status = "published"], [MCBase EXCEPT !.layout.cols = 13]}
    \cup {[MCBase EXCEPT !.tiling.palette = Fewer(i)] :
            i \in {<<>>, <<Tile("e", 1, "filler", {})>>, <<Tile("z", 1, "filler", {})>>}}

\* Any other is followed to the end of the first run.  The edit comes during that run, or
\* while a second one reads the files after a first that succeeded.
BuildBound ==
    LET common == \A f \in Files : puzzle[f] \in Common
    IN  \/ run.number <= 1
        \/ edits = 0 /\ run.number = 2 /\ before[3] = 1 /\ run.pc \in {"validate", "extract", "load"}
        \/ edits = 1 /\ common

Symmetry == Permutations(Files)

ASSUME BaseAssumption == Accepted(MCBase)
=============================================================================
