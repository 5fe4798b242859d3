--------------------------- MODULE MCOrderWorker ---------------------------
(* A small instance of OrderWorker. *)
EXTENDS OrderWorker

CONSTANTS good, poison, unreadable

MCKind == [o \in Orders |-> IF o = good THEN "good" ELSE IF o = poison THEN "poison" ELSE "unreadable"]
=============================================================================
