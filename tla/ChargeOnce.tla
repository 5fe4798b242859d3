----------------------------- MODULE ChargeOnce -----------------------------
(***************************************************************************)
(* What an idempotent payment consumer promises, however often a message   *)
(* is delivered: an order is charged at most once and a charge is never    *)
(* taken back.  The processor of lab 15 with IDEMPOTENCY=on and the        *)
(* payment worker of lab 14 with --idempotent both implement it.           *)
(***************************************************************************)
EXTENDS Naturals

CONSTANT Orders

VARIABLE charges    \* charges[o]: times the customer of order o was charged

Init == charges = [o \in Orders |-> 0]

Charge(o) ==
    /\ charges[o] = 0
    /\ charges' = [charges EXCEPT ![o] = 1]

Next == \E o \in Orders : Charge(o)

Spec == Init /\ [][Next]_charges
=============================================================================
