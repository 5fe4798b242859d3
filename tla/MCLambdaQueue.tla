--------------------------- MODULE MCLambdaQueue ---------------------------
(* A small instance of LambdaQueue. *)
EXTENDS LambdaQueue

CONSTANTS o1, o2, m1, m2, d1, d2, dm1, dm2

\* A payment and an invalid message for the queue; by hand come the same order once
\* more, and a record that crashes the function.
MCOrderOf == [m \in Messages |-> IF m = dm2 THEN o2 ELSE o1]
MCKind == [m \in Messages |-> IF m = m2 THEN "invalid" ELSE IF m = dm2 THEN "crash" ELSE "good"]
MCDirectMsg == [d \in Direct |-> IF d = d1 THEN dm1 ELSE dm2]
=============================================================================
