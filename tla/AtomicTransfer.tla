--------------------------- MODULE AtomicTransfer ---------------------------
(***************************************************************************)
(* What the transfer of lab 10 promises (visualizer/server.py): the         *)
(* enrollment moves and both counters follow, in one step, or nothing        *)
(* happens.                                                                  *)
(***************************************************************************)
EXTENDS Integers

CONSTANTS Students, Courses

VARIABLES
    rows,       \* the enrollments, pairs of a student and a course
    enrolled    \* the counter of each course

vars == <<rows, enrolled>>

\* What a counter gains when a student goes from one course to another.
Gain(c, from, to) == (IF c = to THEN 1 ELSE 0) - (IF c = from THEN 1 ELSE 0)

Transfer(s, from, to) ==
    /\ <<s, from>> \in rows
    /\ to # from => <<s, to>> \notin rows
    /\ rows' = (rows \ {<<s, from>>}) \cup {<<s, to>>}
    /\ enrolled' = [c \in Courses |-> enrolled[c] + Gain(c, from, to)]

Next == \E s \in Students, from, to \in Courses : Transfer(s, from, to)
=============================================================================
