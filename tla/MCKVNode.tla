------------------------------ MODULE MCKVNode ------------------------------
(* Small instances of KVNode: three nodes, one key. *)
EXTENDS KVNode, TLC

CONSTANTS k1

MCKeyOf == [w \in Writes |-> k1]
MCReadKeyOf == [r \in Reads |-> k1]

\* Safety runs: the PUT requests are interchangeable.
WriteSymmetry == Permutations(Writes)

\* Writes go to node 1, one of them perhaps to node 2.  A read is made at node 2, which does not crash, once it has
\* acknowledged a write; nothing else depends on a read, so a run is not followed past its
\* answer, nor past the first probe that is answered.
CrashBound ==
    /\ \A w \in Writes : put[w].rec.node # 3
    /\ \A v, w \in Writes : v # w => put[v].rec.node # 2 \/ put[w].rec.node # 2
    /\ \A r \in Reads :
          \/ get[r].pc = "idle"
          \/ /\ get[r].pc = "probing" /\ Cardinality(get[r].seen) <= 1
             /\ get[r].node = 2 /\ \E w \in get[r].floor : put[w].rec.node = 2
=============================================================================
