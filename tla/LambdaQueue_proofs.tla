------------------------- MODULE LambdaQueue_proofs -------------------------
(***************************************************************************)
(* Proofs about LambdaQueue for any number of messages, environments and   *)
(* callers, any limits and any number of faults: type correctness, one call *)
(* at a time per environment, that the processor charges an order once,      *)
(* hence implements ChargeOnce, that a deleted message was charged, that the *)
(* queue's accounts balance, and that good payments are received once.       *)
(***************************************************************************)
EXTENDS LambdaQueue, FiniteSetTheorems, TLAPS

USE MessagesAssumption, EnvsAssumption, CallersAssumption, BodyAssumption,
    DirectAssumption, LimitsAssumption, IdempotentAssumption, BoundsAssumption

-----------------------------------------------------------------------------
(* Type correctness *)

LEMMA IdleTypes == Idle \in CallType /\ NoRun \in RunType
BY DEF Idle, NoRun, CallType, RunType

\* What an invocation returns is a state of its caller.
LEMMA ReturnedType ==
    ASSUME TypeOK, NEW c \in Callers, NEW failed \in SUBSET Messages
    PROVE  /\ Returned(c, failed) \in CallType
           /\ Returned(c, failed).pc # "run" /\ Returned(c, failed).env = None
           /\ Returned(c, failed).batch = call[c].batch
           /\ Returned(c, failed).failed = failed
<1>1. call[c] \in CallType
  BY DEF TypeOK
<1> QED
  BY <1>1 DEF Returned, CallType

\* The failures an invocation leads to are messages.
LEMMA VerdictType ==
    ASSUME TypeOK, NEW c \in Callers, NEW failed \in SUBSET Messages,
           NEW error \in BOOLEAN
    PROVE  Verdict(c, failed, error) \in SUBSET Messages
BY DEF Verdict, TypeOK, CallType

LEMMA ChargeType ==
    ASSUME TypeOK, NEW m \in Messages, Charge(m)
    PROVE  charges' \in [Orders -> Nat] /\ recorded' \subseteq Orders
<1>1. OrderOf[m] \in Orders
  OBVIOUS
<1>2. CASE Recorded(OrderOf[m])
  BY <1>2 DEF Charge, TypeOK, tableVars
<1>3. CASE ~Recorded(OrderOf[m])
  BY <1>1, <1>3 DEF Charge, TypeOK
<1> QED
  BY <1>2, <1>3

\* One step of the queue's lock, a client or a timeout.
LEMMA QueueTypes ==
    ASSUME TypeOK,
           \/ \E m \in Messages : Send(m) \/ BecomeVisible(m)
           \/ Purge
    PROVE  TypeOK'
<1>1. ASSUME NEW m \in Messages, Send(m) PROVE TypeOK'
  <2>1. Cardinality({n \in Messages : sentAt[n] > 0}) \in Nat
    BY FS_CardinalityType, FS_Subset
  <2> QED
    BY <1>1, <2>1 DEF Send, TypeOK, poolVars, tableVars
<1>2. ASSUME NEW m \in Messages, BecomeVisible(m) PROVE TypeOK'
  BY <1>2 DEF BecomeVisible, TypeOK, poolVars, tableVars
<1>3. ASSUME Purge PROVE TypeOK'
  BY <1>3 DEF Purge, TypeOK, poolVars, tableVars
<1> QED
  BY <1>1, <1>2, <1>3

\* One step of the pool or of a call.
LEMMA InvokeTypes ==
    ASSUME TypeOK, NEW c \in Callers, InvokeStep(c)
    PROVE  TypeOK'
<1>0. call[c] \in CallType
  BY DEF TypeOK
<1>1. ASSUME Acquire(c) PROVE TypeOK'
  <2>1. PICK e \in up \ busy :
          /\ Reserve(c, e)
          /\ run' = [run EXCEPT ![e] = [NoRun EXCEPT !.by = c, !.todo = call[c].batch]]
    BY <1>1 DEF Acquire
  <2>2. e \in Envs /\ [call[c] EXCEPT !.pc = "run", !.env = e] \in CallType
    BY <1>0 DEF TypeOK, CallType
  <2>6. [call[c] EXCEPT !.pc = "run", !.env = e].pc = "run" /\ [call[c] EXCEPT !.pc = "run", !.env = e].env = e
    BY <1>0 DEF CallType
  <2>3. [NoRun EXCEPT !.by = c, !.todo = call[c].batch] \in RunType
    BY <1>0, IdleTypes DEF RunType, CallType
  <2>4. /\ call' \in [Callers -> CallType] /\ busy' \subseteq Envs
        /\ \A d \in Callers : call'[d].pc = "run" <=> call'[d].env # None
    BY <2>1, <2>2, <2>6 DEF Reserve, TypeOK
  <2>5. run' \in [Envs -> RunType]
    BY <2>1, <2>2, <2>3 DEF TypeOK
  <2> QED
    BY <1>1, <2>4, <2>5 DEF Acquire, TypeOK, queueVars, tableVars
<1>8. ASSUME NEW row \in CallType, row.pc # "run", row.env = None,
             call' = [call EXCEPT ![c] = row]
      PROVE  /\ call' \in [Callers -> CallType]
             /\ \A d \in Callers : call'[d].pc = "run" <=> call'[d].env # None
  BY <1>8 DEF TypeOK
<1>2. ASSUME NotAcquired(c) PROVE TypeOK'
  <2> DEFINE row == Returned(c, call[c].batch)
  <2>1. row \in CallType /\ row.pc # "run" /\ row.env = None
    BY <1>0, ReturnedType DEF CallType
  <2>2. call' = [call EXCEPT ![c] = row]
    BY <1>2 DEF NotAcquired
  <2>3. /\ call' \in [Callers -> CallType]
        /\ \A d \in Callers : call'[d].pc = "run" <=> call'[d].env # None
    <3> HIDE DEF row
    <3> QED
      BY <1>8, <2>1, <2>2
  <2> QED
    BY <1>2, <2>3 DEF NotAcquired, TypeOK, queueVars, poolVars, tableVars
<1>3. ASSUME Answer(c) PROVE TypeOK'
  <2> DEFINE e == call[c].env
  <2> DEFINE row == Returned(c, Verdict(c, run[e].failed, FALSE))
  <2>1. e \in Envs
    BY <1>0, <1>3 DEF Answer, CallType, TypeOK
  <2>2. row \in CallType /\ row.pc # "run" /\ row.env = None
    <3>1. run[e].failed \in SUBSET Messages
      BY <2>1 DEF TypeOK, RunType
    <3>2. Verdict(c, run[e].failed, FALSE) \in SUBSET Messages
      BY <3>1, VerdictType
    <3> QED
      BY <3>2, ReturnedType
  <2>3. run' \in [Envs -> RunType]
    BY <1>3, <2>1, IdleTypes DEF Answer, TypeOK
  <2>4. call' = [call EXCEPT ![c] = row]
    BY <1>3 DEF Answer
  <2>5. /\ call' \in [Callers -> CallType]
        /\ \A d \in Callers : call'[d].pc = "run" <=> call'[d].env # None
    <3> HIDE DEF row
    <3> QED
      BY <1>8, <2>2, <2>4
  <2> QED
    BY <1>3, <2>3, <2>5 DEF Answer, Release, TypeOK, queueVars, tableVars
<1>4. ASSUME ConnectionError(c) PROVE TypeOK'
  <2> DEFINE row == Returned(c, Verdict(c, {}, TRUE))
  <2>1. row \in CallType /\ row.pc # "run" /\ row.env = None
    BY VerdictType, ReturnedType
  <2>2. call' = [call EXCEPT ![c] = row]
    BY <1>4 DEF ConnectionError
  <2>3. /\ call' \in [Callers -> CallType]
        /\ \A d \in Callers : call'[d].pc = "run" <=> call'[d].env # None
    <3> HIDE DEF row
    <3> QED
      BY <1>8, <2>1, <2>2
  <2> QED
    BY <1>4, <2>3 DEF ConnectionError, Release, TypeOK, queueVars, tableVars
<1> QED
  BY <1>1, <1>2, <1>3, <1>4 DEF InvokeStep

\* The parts of TypeOK an invocation that ends with an error disturbs.
LEMMA RunErrorTypes ==
    ASSUME TypeOK, NEW c \in Callers, NEW e \in Envs, RunError(c, e)
    PROVE  /\ call' \in [Callers -> CallType]
           /\ \A d \in Callers : call'[d].pc = "run" <=> call'[d].env # None
           /\ late' \subseteq Messages
           /\ run' \in [Envs -> RunType]
           /\ busy' \subseteq Envs
<1> DEFINE row == Returned(c, Verdict(c, run[e].failed, TRUE))
<1>1. run[e] \in RunType
  BY DEF TypeOK
<1>2. row \in CallType /\ row.pc # "run" /\ row.env = None
  <2>1. Verdict(c, run[e].failed, TRUE) \in SUBSET Messages
    BY <1>1, VerdictType DEF RunType
  <2> QED
    BY <2>1, ReturnedType
<1>3. call' = [call EXCEPT ![c] = row]
  BY DEF RunError
<1>4. /\ call' \in [Callers -> CallType]
      /\ \A d \in Callers : call'[d].pc = "run" <=> call'[d].env # None
  <2> HIDE DEF row
  <2> QED
    BY <1>2, <1>3 DEF TypeOK
<1>5. late' \subseteq Messages
  BY <1>1 DEF RunError, Orphaned, TypeOK, RunType
<1>6. run' \in [Envs -> RunType] /\ busy' \subseteq Envs
  BY IdleTypes DEF RunError, Release, TypeOK
<1> QED
  BY <1>4, <1>5, <1>6

\* A call that runs is made to an environment.
LEMMA RunningEnv ==
    ASSUME TypeOK, NEW c \in Callers, call[c].pc = "run"
    PROVE  call[c].env \in Envs
BY DEF TypeOK, CallType

\* A failure of the function or of a container.
LEMMA FailureTypes ==
    ASSUME TypeOK, Failure
    PROVE  TypeOK'
<1>1. ASSUME NEW c \in Callers, Unhandled(c) PROVE TypeOK'
  <2>1. call[c].env \in Envs
    BY <1>1, RunningEnv DEF Unhandled, RunError
  <2>2. RunError(c, call[c].env)
    BY <1>1 DEF Unhandled
  <2>3. /\ UNCHANGED <<queueVars, up, tableVars, purges>>
        /\ faults' \in 0..MaxFaults
    BY <1>1 DEF Unhandled, RunError, TypeOK
  <2> QED
    BY <2>1, <2>2, <2>3, RunErrorTypes DEF TypeOK, queueVars, tableVars
<1>2. ASSUME NEW e \in Envs, Stop(e) PROVE TypeOK'
  <2>1. late' \subseteq Messages
    BY <1>2 DEF Stop, Orphaned, TypeOK, RunType
  <2> QED
    BY <1>2, <2>1, IdleTypes DEF Stop, TypeOK, queueVars, tableVars
<1>3. ASSUME NEW e \in Envs, Start(e) PROVE TypeOK'
  BY <1>3 DEF Start, TypeOK, queueVars, tableVars
<1> QED
  BY <1>1, <1>2, <1>3 DEF Failure

\* One step of the function.
LEMMA RecordTypes ==
    ASSUME TypeOK, NEW e \in Envs, RecordStep(e)
    PROVE  TypeOK'
<1>0. run[e] \in RunType
  BY DEF TypeOK
<1>1. ASSUME NEW m \in Messages, RejectRecord(e, m) PROVE TypeOK'
  <2>1. [run[e] EXCEPT !.todo = run[e].todo \ {m}, !.failed = Rejected(e, m)] \in RunType
    BY <1>0 DEF RunType, Rejected
  <2> QED
    BY <1>1, <2>1 DEF RejectRecord, TypeOK, queueVars, poolVars, tableVars
<1>2. ASSUME NEW m \in Messages, CrashOnRecord(e, m) PROVE TypeOK'
  <2>1. run[e].by \in Callers
    BY <1>0, <1>2 DEF CrashOnRecord, RunType
  <2>2. RunError(run[e].by, e)
    BY <1>2 DEF CrashOnRecord
  <2>3. UNCHANGED <<queueVars, up, tableVars, purges, faults>>
    BY <1>2 DEF CrashOnRecord, RunError
  <2> QED
    BY <2>1, <2>2, <2>3, RunErrorTypes DEF TypeOK, queueVars, tableVars
<1>3. ASSUME NEW m \in Messages, StartCharge(e, m) PROVE TypeOK'
  <2>1. [run[e] EXCEPT !.writing = m] \in RunType
    BY <1>0 DEF RunType
  <2> QED
    BY <1>3, <2>1 DEF StartCharge, TypeOK, queueVars, poolVars, tableVars
<1>4. ASSUME FinishCharge(e) PROVE TypeOK'
  <2>1. run[e].writing \in Messages
    BY <1>0, <1>4 DEF FinishCharge, RunType
  <2>2. charges' \in [Orders -> Nat] /\ recorded' \subseteq Orders
    BY <1>4, <2>1, ChargeType DEF FinishCharge
  <2>3. [run[e] EXCEPT !.todo = run[e].todo \ {run[e].writing}, !.writing = None] \in RunType
    BY <1>0 DEF RunType
  <2> QED
    BY <1>4, <2>2, <2>3 DEF FinishCharge, TypeOK, queueVars, poolVars
<1> QED
  BY <1>1, <1>2, <1>3, <1>4 DEF RecordStep

\* A late write, a delivery by hand, and the poller.
LEMMA OtherTypes ==
    ASSUME TypeOK,
           \/ \E m \in Messages : LateCharge(m)
           \/ \E d \in Direct : Deliver(d)
           \/ PollerStep
    PROVE  TypeOK'
<1>0. poller \in Callers /\ Direct \subseteq Callers /\ call[poller] \in CallType
  BY DEF Callers, TypeOK
<1>1. ASSUME NEW m \in Messages, LateCharge(m) PROVE TypeOK'
  <2>1. charges' \in [Orders -> Nat] /\ recorded' \subseteq Orders
    BY <1>1, ChargeType DEF LateCharge, TypeOK, tableVars
  <2> QED
    BY <1>1, <2>1 DEF LateCharge, TypeOK, queueVars, poolVars
<1>2. ASSUME NEW d \in Direct, Deliver(d) PROVE TypeOK'
  <2> DEFINE row == [call[d] EXCEPT !.pc = "acquire", !.batch = {DirectMsg[d]}]
  <2>1. call[d] \in CallType /\ d \in Callers /\ call[d].env = None
    BY <1>0, <1>2 DEF TypeOK, Deliver
  <2>2. row \in CallType /\ row.pc # "run" /\ row.env = None
    BY <2>1 DEF CallType
  <2>3. /\ call' \in [Callers -> CallType]
        /\ \A c \in Callers : call'[c].pc = "run" <=> call'[c].env # None
    BY <1>2, <2>1, <2>2 DEF Deliver, TypeOK
  <2> QED
    BY <1>2, <2>3 DEF Deliver, TypeOK, queueVars, poolVars, tableVars
<1>3. ASSUME Receive PROVE TypeOK'
  <2> DEFINE row == [call[poller] EXCEPT !.pc = "acquire", !.batch = Batch]
  <2>1. Batch \subseteq Messages
    BY DEF Batch, TypeOK
  <2>2. call[poller].env = None
    BY <1>0, <1>3 DEF Receive, TypeOK
  <2>3. row \in CallType /\ row.pc # "run" /\ row.env = None
    BY <1>0, <2>1, <2>2 DEF CallType
  <2>4. /\ call' \in [Callers -> CallType]
        /\ \A c \in Callers : call'[c].pc = "run" <=> call'[c].env # None
    BY <1>0, <1>3, <2>3 DEF Receive, TypeOK
  <2>5. receives' \in [Messages -> Nat] /\ hidden' \subseteq Messages
    BY <1>3, <2>1 DEF Receive, TypeOK
  <2> QED
    BY <1>3, <2>4, <2>5 DEF Receive, TypeOK, poolVars, tableVars
<1>4. ASSUME NEW m \in Messages, Settle(m) PROVE TypeOK'
  <2> DEFINE row == IF call[poller].batch = {m} THEN Idle
                    ELSE [call[poller] EXCEPT !.batch = call[poller].batch \ {m}]
  <2>1. call[poller].env = None
    BY <1>0, <1>4 DEF Settle, TypeOK
  <2>2. row \in CallType /\ row.pc # "run" /\ row.env = None
    BY <1>0, <1>4, <2>1, IdleTypes DEF Settle, CallType, Idle
  <2>3. /\ call' \in [Callers -> CallType]
        /\ \A c \in Callers : call'[c].pc = "run" <=> call'[c].env # None
    BY <1>0, <1>4, <2>2 DEF Settle, TypeOK
  <2>4. /\ queue' \subseteq Messages /\ hidden' \subseteq Messages /\ dead' \subseteq Messages
        /\ deleted' \in Nat /\ acked' \subseteq Messages /\ receives' = receives
    BY <1>4 DEF Settle, Fail, Delete, TypeOK
  <2> QED
    BY <1>4, <2>3, <2>4 DEF Settle, TypeOK, poolVars, tableVars
<1> QED
  BY <1>1, <1>2, <1>3, <1>4 DEF PollerStep

LEMMA TypeInit == Init => TypeOK
BY IdleTypes DEF Init, TypeOK, Idle

LEMMA TypeNext == TypeOK /\ [Next]_vars => TypeOK'
<1> SUFFICES ASSUME TypeOK, [Next]_vars PROVE TypeOK'
  OBVIOUS
<1>1. CASE Next
  BY <1>1, QueueTypes, InvokeTypes, FailureTypes, RecordTypes, OtherTypes
     DEF Next, Operator
<1>2. CASE UNCHANGED vars
  BY <1>2 DEF vars, queueVars, poolVars, tableVars, TypeOK
<1> QED
  BY <1>1, <1>2

\* TypeOK holds in every reachable state: gateway.py and processor/app.py keep
\* every variable in its range.
THEOREM TypeCorrect == Spec => []TypeOK
BY TypeInit, TypeNext, PTL DEF Spec

-----------------------------------------------------------------------------
(* The payments table *)

\* Only a write that DynamoDB carries out changes the payments table.
LEMMA TableChanges ==
    ASSUME TypeOK, Next
    PROVE  UNCHANGED tableVars \/ \E m \in Messages : Charge(m)
<1>1. ASSUME NEW e \in Envs, FinishCharge(e) PROVE \E m \in Messages : Charge(m)
  <2>1. run[e].writing \in Messages
    BY <1>1 DEF FinishCharge, TypeOK, RunType
  <2> QED
    BY <1>1, <2>1 DEF FinishCharge
<1>2. ASSUME NEW e \in Envs, RecordStep(e)
      PROVE  UNCHANGED tableVars \/ \E m \in Messages : Charge(m)
  BY <1>1, <1>2 DEF RecordStep, RejectRecord, CrashOnRecord, RunError, StartCharge
<1>3. ASSUME NEW m \in Messages, LateCharge(m)
      PROVE  UNCHANGED tableVars \/ \E n \in Messages : Charge(n)
  BY <1>3 DEF LateCharge
<1>4. ASSUME Operator \/ PollerStep PROVE UNCHANGED tableVars
  BY <1>4 DEF Operator, PollerStep, Purge, Send, Deliver, Receive, Settle
<1>5. ASSUME NEW c \in Callers, InvokeStep(c) PROVE UNCHANGED tableVars
  BY <1>5 DEF InvokeStep, Acquire, NotAcquired, Answer, ConnectionError
<1>6. ASSUME Failure PROVE UNCHANGED tableVars
  BY <1>6 DEF Failure, Unhandled, RunError, Stop, Start
<1>7. ASSUME NEW m \in Messages, BecomeVisible(m) PROVE UNCHANGED tableVars
  BY <1>7 DEF BecomeVisible
<1> QED
  BY <1>2, <1>3, <1>4, <1>5, <1>6, <1>7 DEF Next

\* The transaction of _charge keeps the record and the charge together, and with
\* the record it charges an order that was not charged.
LEMMA ChargeStep ==
    ASSUME TypeOK, RecordedIffCharged, NEW m \in Messages, Charge(m)
    PROVE  /\ RecordedIffCharged'
           /\ Idempotent => Ledger!Charge(OrderOf[m]) \/ UNCHANGED charges
           /\ \A o \in Orders : charges[o] > 0 => charges'[o] > 0
           /\ charges'[OrderOf[m]] > 0
<1>0. OrderOf[m] \in Orders /\ charges \in [Orders -> Nat]
  BY DEF TypeOK
<1>1. CASE Recorded(OrderOf[m])
  BY <1>0, <1>1 DEF Charge, Recorded, RecordedIffCharged, tableVars
<1>2. CASE ~Recorded(OrderOf[m]) /\ Idempotent
  <2>1. charges[OrderOf[m]] = 0 /\ OrderOf[m] \notin recorded
    BY <1>0, <1>2 DEF Recorded, RecordedIffCharged
  <2>2. charges' = [charges EXCEPT ![OrderOf[m]] = @ + 1]
        /\ recorded' = recorded \cup {OrderOf[m]}
    BY <1>2 DEF Charge
  <2> QED
    BY <1>0, <1>2, <2>1, <2>2 DEF RecordedIffCharged, Ledger!Charge
<1>3. CASE ~Recorded(OrderOf[m]) /\ ~Idempotent
  BY <1>0, <1>3 DEF Charge, RecordedIffCharged
<1> QED
  BY <1>1, <1>2, <1>3

LEMMA LedgerInit == Init => RecordedIffCharged /\ Ledger!Init
BY DEF Init, RecordedIffCharged, Ledger!Init

LEMMA LedgerNext ==
    ASSUME TypeOK, RecordedIffCharged, [Next]_vars
    PROVE  /\ RecordedIffCharged'
           /\ Idempotent => [Ledger!Next]_charges
           /\ \A o \in Orders : charges[o] > 0 => charges'[o] > 0
<1>1. CASE UNCHANGED tableVars
  BY <1>1 DEF tableVars, RecordedIffCharged
<1>2. ASSUME NEW m \in Messages, Charge(m)
      PROVE  /\ RecordedIffCharged'
             /\ Idempotent => [Ledger!Next]_charges
             /\ \A o \in Orders : charges[o] > 0 => charges'[o] > 0
  <2>1. OrderOf[m] \in Orders
    OBVIOUS
  <2> QED
    BY <1>2, <2>1, ChargeStep DEF Ledger!Next
<1>3. CASE UNCHANGED vars
  BY <1>1, <1>3 DEF vars, tableVars
<1> QED
  BY <1>1, <1>2, <1>3, TableChanges

\* The transaction keeps the idempotency record and the charge of every order
\* together (processor/app.py:84-98).
THEOREM RecordAndChargeTogether == Spec => []RecordedIffCharged
<1>1. TypeOK /\ RecordedIffCharged /\ [Next]_vars => RecordedIffCharged'
  BY LedgerNext
<1> QED
  BY <1>1, LedgerInit, TypeCorrect, PTL DEF Spec

\* With IDEMPOTENCY=on the processor implements ChargeOnce, whatever the queue, the
\* pool and the failures do: an order is charged at most once.
THEOREM ProcessorChargesOnce == Idempotent => (Spec => Implements)
<1> SUFFICES ASSUME Idempotent PROVE Spec => Implements
  OBVIOUS
<1>1. TypeOK /\ RecordedIffCharged /\ [Next]_vars => [Ledger!Next]_charges
  BY LedgerNext
<1> QED
  BY <1>1, LedgerInit, TypeCorrect, RecordAndChargeTogether, PTL
     DEF Spec, Implements, Ledger!Spec

-----------------------------------------------------------------------------
(* The pool *)

\* Reserving an idle environment gives it one call, the caller's.
LEMMA AcquireKeepsPool ==
    ASSUME TypeOK, OneCallPerEnvironment, NEW c \in Callers, Acquire(c)
    PROVE  OneCallPerEnvironment'
<1>1. PICK e \in up \ busy :
          /\ Reserve(c, e)
          /\ run' = [run EXCEPT ![e] = [NoRun EXCEPT !.by = c, !.todo = call[c].batch]]
  BY DEF Acquire
<1>2. e \in Envs /\ e \notin busy /\ call[c].env = None /\ call[c] \in CallType
  BY <1>1 DEF TypeOK, Acquire
<1>3. \A d \in Callers : call'[d].env = IF d = c THEN e ELSE call[d].env
  BY <1>1, <1>2 DEF Reserve, TypeOK, CallType
<1>4. \A f \in Envs : run'[f].by = IF f = e THEN c ELSE run[f].by
  BY <1>1, <1>2 DEF NoRun, TypeOK
<1>5. busy' = busy \cup {e}
  BY <1>1 DEF Reserve
<1>6. \A d \in Callers : call[d].env # e
  BY <1>2 DEF OneCallPerEnvironment
<1>7. \A f \in Envs : run[f].by \in Callers \cup {None}
  BY DEF TypeOK, RunType
<1>8. \A f \in Envs : run[f].by # c
  BY <1>2, <1>7 DEF OneCallPerEnvironment, Callers
<1> QED
  BY <1>2, <1>3, <1>4, <1>5, <1>6, <1>7, <1>8 DEF OneCallPerEnvironment

\* A call that gives its environment back leaves the pool in order, when no run
\* is left behind for it.
LEMMA ReleaseKeepsPool ==
    ASSUME TypeOK, OneCallPerEnvironment, NEW c \in Callers, NEW e \in Envs,
           call[c].env = e, Release(e),
           \A d \in Callers : call'[d].env = IF d = c THEN None ELSE call[d].env,
           \A f \in Envs : run'[f].by = IF f = e THEN None ELSE run[f].by
    PROVE  OneCallPerEnvironment'
<1>1. \A f \in Envs : run[f].by \in Callers \cup {None}
  BY DEF TypeOK, RunType
<1>2. \A f \in Envs : f # e => run[f].by # c
  BY <1>1 DEF OneCallPerEnvironment, Callers
<1> QED
  BY <1>1, <1>2 DEF OneCallPerEnvironment, Release

\* A step that moves no call and no reservation leaves the pool in order.
LEMMA SameCallsKeepPool ==
    ASSUME TypeOK, OneCallPerEnvironment, busy' = busy,
           \A d \in Callers : call'[d].env = call[d].env,
           \A f \in Envs : run'[f].by \in {None, run[f].by}
    PROVE  OneCallPerEnvironment'
<1>1. \A f \in Envs : run[f].by \in Callers \cup {None}
  BY DEF TypeOK, RunType
<1> QED
  BY <1>1 DEF OneCallPerEnvironment

\* What a call to RunError does, in the terms of ReleaseKeepsPool.
LEMMA RunErrorReleases ==
    ASSUME TypeOK, NEW c \in Callers, NEW e \in Envs, RunError(c, e)
    PROVE  /\ call[c].env = e /\ Release(e)
           /\ \A d \in Callers : call'[d].env = IF d = c THEN None ELSE call[d].env
           /\ \A f \in Envs : run'[f].by = IF f = e THEN None ELSE run[f].by
<1>1. run[e] \in RunType
  BY DEF TypeOK
<1>2. Returned(c, Verdict(c, run[e].failed, TRUE)).env = None
  <2>1. Verdict(c, run[e].failed, TRUE) \in SUBSET Messages
    BY <1>1, VerdictType DEF RunType
  <2> QED
    BY <2>1, ReturnedType
<1> QED
  BY <1>2 DEF RunError, TypeOK, NoRun

LEMMA PoolInvoke ==
    ASSUME TypeOK, OneCallPerEnvironment, NEW c \in Callers, InvokeStep(c)
    PROVE  OneCallPerEnvironment'
<1>1. ASSUME NotAcquired(c) PROVE OneCallPerEnvironment'
  <2>1. Returned(c, call[c].batch).env = None
    BY ReturnedType DEF TypeOK, CallType
  <2>2. call[c].env = None
    BY <1>1 DEF NotAcquired, TypeOK
  <2>3. \A d \in Callers : call'[d].env = call[d].env
    BY <1>1, <2>1, <2>2 DEF NotAcquired, TypeOK
  <2> QED
    BY <1>1, <2>3, SameCallsKeepPool DEF NotAcquired, poolVars
<1>2. ASSUME Answer(c) PROVE OneCallPerEnvironment'
  <2> DEFINE e == call[c].env
  <2>1. e \in Envs
    BY <1>2, RunningEnv DEF Answer
  <2>2. run[e].failed \in SUBSET Messages
    BY <2>1 DEF TypeOK, RunType
  <2>3. Returned(c, Verdict(c, run[e].failed, FALSE)).env = None
    <3>1. Verdict(c, run[e].failed, FALSE) \in SUBSET Messages
      BY <2>2, VerdictType
    <3> QED
      BY <3>1, ReturnedType
  <2>4. \A d \in Callers : call'[d].env = IF d = c THEN None ELSE call[d].env
    BY <1>2, <2>3 DEF Answer, TypeOK
  <2>5. \A f \in Envs : run'[f].by = IF f = e THEN None ELSE run[f].by
    BY <1>2, <2>1 DEF Answer, TypeOK, NoRun
  <2>6. Release(e)
    BY <1>2 DEF Answer
  <2> QED
    BY <2>1, <2>4, <2>5, <2>6, ReleaseKeepsPool
<1>3. ASSUME ConnectionError(c) PROVE OneCallPerEnvironment'
  <2> DEFINE e == call[c].env
  <2>1. e \in Envs
    BY <1>3, RunningEnv DEF ConnectionError
  <2>2. Returned(c, Verdict(c, {}, TRUE)).env = None
    BY VerdictType, ReturnedType
  <2>3. \A d \in Callers : call'[d].env = IF d = c THEN None ELSE call[d].env
    BY <1>3, <2>2 DEF ConnectionError, TypeOK
  <2>4. run[e].by = None
    <3>1. run[e].by \in Callers \cup {None}
      BY <2>1 DEF TypeOK, RunType
    <3> QED
      BY <1>3, <2>1, <3>1 DEF ConnectionError, OneCallPerEnvironment
  <2>5. \A f \in Envs : run'[f].by = IF f = e THEN None ELSE run[f].by
    BY <1>3, <2>4 DEF ConnectionError
  <2>6. Release(e)
    BY <1>3 DEF ConnectionError
  <2> QED
    BY <2>1, <2>3, <2>5, <2>6, ReleaseKeepsPool
<1> QED
  BY <1>1, <1>2, <1>3, AcquireKeepsPool DEF InvokeStep

LEMMA PoolFailure ==
    ASSUME TypeOK, OneCallPerEnvironment, Failure
    PROVE  OneCallPerEnvironment'
<1>1. ASSUME NEW c \in Callers, Unhandled(c) PROVE OneCallPerEnvironment'
  <2>1. call[c].env \in Envs /\ RunError(c, call[c].env)
    BY <1>1, RunningEnv DEF Unhandled, RunError
  <2> QED
    BY <2>1, RunErrorReleases, ReleaseKeepsPool
<1>2. ASSUME NEW e \in Envs, Stop(e) \/ Start(e) PROVE OneCallPerEnvironment'
  <2>1. \A f \in Envs : run'[f].by \in {None, run[f].by}
    BY <1>2 DEF Stop, Start, TypeOK, NoRun
  <2> QED
    BY <1>2, <2>1, SameCallsKeepPool DEF Stop, Start
<1> QED
  BY <1>1, <1>2 DEF Failure

LEMMA PoolRecord ==
    ASSUME TypeOK, OneCallPerEnvironment, NEW e \in Envs, RecordStep(e)
    PROVE  OneCallPerEnvironment'
<1>0. run[e] \in RunType
  BY DEF TypeOK
<1>1. ASSUME NEW m \in Messages, CrashOnRecord(e, m) PROVE OneCallPerEnvironment'
  <2>1. run[e].by \in Callers
    BY <1>0, <1>1 DEF CrashOnRecord, RunType
  <2> QED
    BY <1>1, <2>1, RunErrorReleases, ReleaseKeepsPool DEF CrashOnRecord
<1>2. ASSUME NEW m \in Messages, RejectRecord(e, m) \/ StartCharge(e, m) \/ FinishCharge(e)
      PROVE  OneCallPerEnvironment'
  <2>1. \A f \in Envs : run'[f].by = run[f].by
    <3>1. ASSUME RejectRecord(e, m) PROVE \A f \in Envs : run'[f].by = run[f].by
      BY <1>0, <3>1 DEF RejectRecord, TypeOK, RunType
    <3>2. ASSUME StartCharge(e, m) PROVE \A f \in Envs : run'[f].by = run[f].by
      BY <1>0, <3>2 DEF StartCharge, TypeOK, RunType
    <3>3. ASSUME FinishCharge(e) PROVE \A f \in Envs : run'[f].by = run[f].by
      BY <1>0, <3>3 DEF FinishCharge, TypeOK, RunType
    <3> QED
      BY <1>2, <3>1, <3>2, <3>3
  <2>2. call' = call /\ busy' = busy
    BY <1>2 DEF RejectRecord, StartCharge, FinishCharge, poolVars
  <2> QED
    BY <2>1, <2>2, SameCallsKeepPool
<1>3. ASSUME FinishCharge(e) PROVE OneCallPerEnvironment'
  <2>1. run[e].writing \in Messages
    BY <1>0, <1>3 DEF FinishCharge, RunType
  <2> QED
    BY <1>2, <1>3, <2>1
<1> QED
  BY <1>1, <1>2, <1>3 DEF RecordStep

LEMMA PoolOther ==
    ASSUME TypeOK, OneCallPerEnvironment,
           \/ Operator \/ PollerStep
           \/ \E m \in Messages : BecomeVisible(m) \/ LateCharge(m)
    PROVE  OneCallPerEnvironment'
<1>0. poller \in Callers /\ Direct \subseteq Callers /\ \A c \in Callers : call[c] \in CallType
  BY DEF Callers, TypeOK
<1>1. ASSUME Purge \/ \E m \in Messages : Send(m) \/ BecomeVisible(m) \/ LateCharge(m)
      PROVE  OneCallPerEnvironment'
  BY <1>1 DEF Purge, Send, BecomeVisible, LateCharge, poolVars, OneCallPerEnvironment
<1>2. ASSUME NEW d \in Direct, Deliver(d) PROVE OneCallPerEnvironment'
  <2>1. \A c \in Callers : call'[c].env = call[c].env
    BY <1>0, <1>2 DEF Deliver, TypeOK, CallType
  <2> QED
    BY <1>2, <2>1, SameCallsKeepPool DEF Deliver, poolVars
<1>3. ASSUME PollerStep PROVE OneCallPerEnvironment'
  <2>1. ASSUME Receive PROVE \A c \in Callers : call'[c].env = call[c].env
    BY <1>0, <2>1 DEF Receive, TypeOK, CallType
  <2>2. ASSUME NEW m \in Messages, Settle(m) PROVE \A c \in Callers : call'[c].env = call[c].env
    <3>1. call[poller].env = None
      BY <1>0, <2>2 DEF Settle, TypeOK
    <3> QED
      BY <1>0, <2>2, <3>1 DEF Settle, TypeOK, CallType, Idle
  <2>3. run' = run /\ busy' = busy
    BY <1>3 DEF PollerStep, Receive, Settle, poolVars
  <2> QED
    BY <1>3, <2>1, <2>2, <2>3, SameCallsKeepPool DEF PollerStep
<1> QED
  BY <1>1, <1>2, <1>3 DEF Operator

\* Whatever fails, two calls never share an environment and none stays reserved
\* without a call (EnvironmentPool, invoke).
THEOREM PoolIsExclusive == Spec => []OneCallPerEnvironment
<1>1. Init => OneCallPerEnvironment
  BY DEF Init, OneCallPerEnvironment, Idle, NoRun
<1>2. TypeOK /\ OneCallPerEnvironment /\ [Next]_vars => OneCallPerEnvironment'
  <2> SUFFICES ASSUME TypeOK, OneCallPerEnvironment, [Next]_vars
               PROVE  OneCallPerEnvironment'
    OBVIOUS
  <2>1. CASE Next
    BY <2>1, PoolInvoke, PoolFailure, PoolRecord, PoolOther DEF Next
  <2>2. CASE UNCHANGED vars
    BY <2>2 DEF vars, poolVars, OneCallPerEnvironment
  <2> QED
    BY <2>1, <2>2
<1> QED
  BY <1>1, <1>2, TypeCorrect, PTL DEF Spec

-----------------------------------------------------------------------------
(* From the function's loop to the deletion of a message *)

\* What makes up one step of the argument: nothing charged is taken back, and the
\* three other invariants hold.
LEMMA ChargedStays ==
    ASSUME TypeOK, RecordedIffCharged, [Next]_vars, NEW m \in Messages, Charged(m)
    PROVE  Charged(m)'
BY LedgerNext DEF Charged

\* A run that goes on with the same records of the same batch stays in order.
LEMMA SameRunsKeepWork ==
    ASSUME TypeOK, WorkDone, WritesArePayments,
           \A m \in Messages : Charged(m) => Charged(m)',
           \A f \in Envs : \/ run'[f] = NoRun
                          \/ /\ run'[f] = run[f]
                             /\ run[f].by # None => call'[run[f].by].batch = call[run[f].by].batch
    PROVE  WorkDone' /\ WritesArePayments'
<1>1. \A f \in Envs : run[f] \in RunType
  BY DEF TypeOK
<1>2. \A c \in Callers : call[c].batch \subseteq Messages
  BY DEF TypeOK, CallType
<1>3. NoRun.by = None /\ NoRun.writing = None
  BY DEF NoRun
<1>4. WorkDone'
  <2> SUFFICES ASSUME NEW f \in Envs, run'[f].by # None,
                      NEW m \in call'[run'[f].by].batch \ (run'[f].todo \cup run'[f].failed)
               PROVE  Charged(m)'
    BY DEF WorkDone
  <2>1. run'[f] = run[f] /\ call'[run[f].by].batch = call[run[f].by].batch
    BY <1>3
  <2>2. m \in Messages /\ Charged(m)
    BY <1>1, <1>2, <2>1 DEF WorkDone, RunType
  <2> QED
    BY <2>2
<1>5. WritesArePayments'
  BY <1>1, <1>3 DEF WritesArePayments
<1> QED
  BY <1>4, <1>5

\* A caller without an environment has no run.
LEMMA NoEnvNoRun ==
    ASSUME TypeOK, OneCallPerEnvironment, NEW c \in Callers, call[c].pc # "run"
    PROVE  \A f \in Envs : run[f].by # c
<1>1. c # None /\ call[c].env = None
  BY DEF Callers, TypeOK
<1> QED
  BY <1>1 DEF OneCallPerEnvironment

\* The poller's verdict stays right while the poller is not settling a batch anew.
LEMMA SamePollerKeepsSettled ==
    ASSUME TypeOK, SettledRight, \A m \in Messages : Charged(m) => Charged(m)',
           call'[poller] = call[poller] \/ call'[poller].pc # "settle"
    PROVE  SettledRight'
<1>1. call[poller].batch \subseteq Messages
  BY DEF TypeOK, CallType, Callers
<1> QED
  BY <1>1 DEF SettledRight

\* A call that returns with a right verdict.
LEMMA ReturnKeepsInv ==
    ASSUME TypeOK, WorkDone, WritesArePayments, SettledRight, OneCallPerEnvironment,
           \A m \in Messages : Charged(m) => Charged(m)',
           NEW c \in Callers, NEW failed \in SUBSET Messages,
           call' = [call EXCEPT ![c] = Returned(c, failed)],
           \A f \in Envs : run'[f] \in {NoRun, run[f]},
           \A m \in call[c].batch \ failed : Charged(m)
    PROVE  WorkDone' /\ WritesArePayments' /\ SettledRight'
<1>1. \A d \in Callers : call'[d].batch = call[d].batch
  BY ReturnedType DEF TypeOK
<1>2. \A f \in Envs : run[f].by \in Callers \cup {None}
  BY DEF TypeOK, RunType
<1>3. WorkDone' /\ WritesArePayments'
  BY <1>1, <1>2, SameRunsKeepWork
<1>4. CASE c = poller
  <2>1. call'[poller].batch = call[c].batch /\ call'[poller].failed = failed
    BY <1>4, ReturnedType DEF TypeOK
  <2>2. call[c].batch \subseteq Messages
    BY DEF TypeOK, CallType
  <2> QED
    BY <1>3, <2>1, <2>2 DEF SettledRight
<1>5. CASE c # poller
  <2>1. call'[poller] = call[poller]
    BY <1>5 DEF TypeOK, Callers
  <2> QED
    BY <1>3, <2>1, SamePollerKeepsSettled
<1> QED
  BY <1>4, <1>5

LEMMA RunErrorKeepsInv ==
    ASSUME TypeOK, WorkDone, WritesArePayments, SettledRight, OneCallPerEnvironment,
           \A m \in Messages : Charged(m) => Charged(m)',
           NEW c \in Callers, NEW e \in Envs, RunError(c, e)
    PROVE  WorkDone' /\ WritesArePayments' /\ SettledRight'
<1>1. call' = [call EXCEPT ![c] = Returned(c, call[c].batch)]
  BY DEF RunError, Verdict
<1>2. \A f \in Envs : run'[f] \in {NoRun, run[f]}
  BY DEF RunError, TypeOK
<1>3. call[c].batch \in SUBSET Messages
  BY DEF TypeOK, CallType
<1> QED
  BY <1>1, <1>2, <1>3, ReturnKeepsInv

LEMMA InvokeKeepsInv ==
    ASSUME TypeOK, WorkDone, WritesArePayments, SettledRight, OneCallPerEnvironment,
           \A m \in Messages : Charged(m) => Charged(m)',
           NEW c \in Callers, InvokeStep(c)
    PROVE  WorkDone' /\ WritesArePayments' /\ SettledRight'
<1>0. call[c].batch \in SUBSET Messages /\ \A f \in Envs : run[f] \in RunType
  BY DEF TypeOK, CallType
<1>1. ASSUME Acquire(c) PROVE WorkDone' /\ WritesArePayments' /\ SettledRight'
  <2>1. PICK e \in up \ busy :
          /\ Reserve(c, e)
          /\ run' = [run EXCEPT ![e] = [NoRun EXCEPT !.by = c, !.todo = call[c].batch]]
    BY <1>1 DEF Acquire
  <2>2. e \in Envs
    BY DEF TypeOK
  <2>3. \A d \in Callers : call'[d].batch = call[d].batch
    BY <2>1, <2>2 DEF Reserve, TypeOK, CallType
  <2>4. /\ run'[e].by = c /\ run'[e].todo = call[c].batch /\ run'[e].writing = None
        /\ \A f \in Envs \ {e} : run'[f] = run[f]
    BY <2>1, <2>2 DEF TypeOK, NoRun
  <2>5. \A f \in Envs : run[f].by \in Callers \cup {None}
    BY <1>0 DEF RunType
  <2>6. WorkDone'
    <3> SUFFICES ASSUME NEW f \in Envs, run'[f].by # None,
                        NEW m \in call'[run'[f].by].batch \ (run'[f].todo \cup run'[f].failed)
                 PROVE  Charged(m)'
      BY DEF WorkDone
    <3>1. f # e
      BY <2>3, <2>4
    <3>2. m \in call[run[f].by].batch \ (run[f].todo \cup run[f].failed) /\ run[f].by \in Callers
      BY <2>3, <2>4, <2>5, <3>1
    <3>3. m \in Messages
      BY <3>2 DEF TypeOK, CallType
    <3> QED
      BY <2>4, <3>1, <3>2, <3>3 DEF WorkDone
  <2>7. WritesArePayments'
    BY <1>0, <2>4 DEF WritesArePayments
  <2>8. SettledRight'
    <3>1. call'[poller] = call[poller] \/ call'[poller].pc = "run"
      BY <2>1 DEF Reserve, TypeOK, CallType, Callers
    <3> QED
      BY <3>1, SamePollerKeepsSettled
  <2> QED
    BY <2>6, <2>7, <2>8
<1>2. ASSUME NotAcquired(c) PROVE WorkDone' /\ WritesArePayments' /\ SettledRight'
  BY <1>0, <1>2, ReturnKeepsInv DEF NotAcquired
<1>3. ASSUME Answer(c) PROVE WorkDone' /\ WritesArePayments' /\ SettledRight'
  <2> DEFINE e == call[c].env
  <2>1. e \in Envs /\ run[e].by = c /\ run[e].todo = {} /\ c # None
    BY <1>3, RunningEnv DEF Answer, Callers
  <2>2. \A m \in call[c].batch \ run[e].failed : Charged(m)
    BY <2>1 DEF WorkDone
  <2>3. call' = [call EXCEPT ![c] = Returned(c, run[e].failed)]
    BY <1>3 DEF Answer, Verdict
  <2>4. \A f \in Envs : run'[f] \in {NoRun, run[f]}
    BY <1>3, <2>1 DEF Answer, TypeOK
  <2>5. run[e].failed \in SUBSET Messages
    BY <1>0, <2>1 DEF RunType
  <2> QED
    BY <2>2, <2>3, <2>4, <2>5, ReturnKeepsInv
<1>4. ASSUME ConnectionError(c) PROVE WorkDone' /\ WritesArePayments' /\ SettledRight'
  <2>1. call' = [call EXCEPT ![c] = Returned(c, call[c].batch)] /\ run' = run
    BY <1>4 DEF ConnectionError, Verdict
  <2> QED
    BY <1>0, <2>1, ReturnKeepsInv
<1> QED
  BY <1>1, <1>2, <1>3, <1>4 DEF InvokeStep

LEMMA RecordKeepsInv ==
    ASSUME TypeOK, WorkDone, WritesArePayments, SettledRight, OneCallPerEnvironment,
           RecordedIffCharged,
           \A m \in Messages : Charged(m) => Charged(m)',
           NEW e \in Envs, RecordStep(e)
    PROVE  WorkDone' /\ WritesArePayments' /\ SettledRight'
<1>0. run[e] \in RunType /\ \A f \in Envs : run[f].by \in Callers \cup {None}
  BY DEF TypeOK, RunType
<1>1. ASSUME NEW m \in Messages, CrashOnRecord(e, m)
      PROVE  WorkDone' /\ WritesArePayments' /\ SettledRight'
  <2>1. run[e].by \in Callers /\ RunError(run[e].by, e)
    BY <1>0, <1>1 DEF CrashOnRecord
  <2> QED
    BY <2>1, RunErrorKeepsInv
\* The records an environment is done with grow by those that may be called done.
<1>2. ASSUME call' = call, NEW row \in RunType, run' = [run EXCEPT ![e] = row],
             row.by = run[e].by,
             row.writing # None => Kind[row.writing] = "good",
             \A m \in Messages : m \notin row.todo \cup row.failed =>
                                  Charged(m)' \/ m \notin run[e].todo \cup run[e].failed
      PROVE  WorkDone' /\ WritesArePayments' /\ SettledRight'
  <2>1. run'[e] = row /\ \A f \in Envs \ {e} : run'[f] = run[f]
    BY <1>2 DEF TypeOK
  <2>2. \A c \in Callers : call[c].batch \subseteq Messages
    BY DEF TypeOK, CallType
  <2>3. WorkDone'
    <3> SUFFICES ASSUME NEW f \in Envs, run'[f].by # None,
                        NEW m \in call'[run'[f].by].batch \ (run'[f].todo \cup run'[f].failed)
                 PROVE  Charged(m)'
      BY DEF WorkDone
    <3>1. run'[f].by = run[f].by
      BY <1>2, <2>1
    <3>2. m \in call[run[f].by].batch /\ run[f].by \in Callers
      BY <1>0, <1>2, <3>1
    <3>3. m \in Messages
      BY <2>2, <3>2
    <3>4. Charged(m)' \/ m \notin run[f].todo \cup run[f].failed
      BY <1>2, <2>1, <3>3
    <3>5. m \notin run[f].todo \cup run[f].failed => Charged(m)
      BY <1>0, <3>1, <3>2 DEF WorkDone
    <3> QED
      BY <3>3, <3>4, <3>5
  <2>4. WritesArePayments'
    BY <1>2, <2>1 DEF WritesArePayments
  <2>5. SettledRight'
    BY <1>2, SamePollerKeepsSettled
  <2> QED
    BY <2>3, <2>4, <2>5
<1>3. ASSUME NEW m \in Messages, RejectRecord(e, m)
      PROVE  WorkDone' /\ WritesArePayments' /\ SettledRight'
  <2> DEFINE row == [run[e] EXCEPT !.todo = run[e].todo \ {m}, !.failed = Rejected(e, m)]
  <2>1. /\ row \in RunType /\ row.by = run[e].by /\ row.writing = None
        /\ row.todo = run[e].todo \ {m} /\ row.failed = run[e].failed \cup {m}
    BY <1>0, <1>3 DEF RunType, Rejected, RejectRecord
  <2>2. call' = call /\ run' = [run EXCEPT ![e] = row]
    BY <1>3 DEF RejectRecord
  <2> HIDE DEF row
  <2> QED
    BY <1>2, <2>1, <2>2
<1>4. ASSUME NEW m \in Messages, StartCharge(e, m)
      PROVE  WorkDone' /\ WritesArePayments' /\ SettledRight'
  <2> DEFINE row == [run[e] EXCEPT !.writing = m]
  <2>1. /\ row \in RunType /\ row.by = run[e].by /\ row.writing = m
        /\ row.todo = run[e].todo /\ row.failed = run[e].failed
    BY <1>0 DEF RunType
  <2>2. call' = call /\ run' = [run EXCEPT ![e] = row] /\ Kind[m] = "good"
    BY <1>4 DEF StartCharge
  <2> HIDE DEF row
  <2> QED
    BY <1>2, <2>1, <2>2
<1>5. ASSUME FinishCharge(e)
      PROVE  WorkDone' /\ WritesArePayments' /\ SettledRight'
  <2>0. PICK w \in Messages : w = run[e].writing
    BY <1>0, <1>5 DEF FinishCharge, RunType
  <2> DEFINE row == [run[e] EXCEPT !.todo = run[e].todo \ {w}, !.writing = None]
  <2>1. /\ row \in RunType /\ row.by = run[e].by /\ row.writing = None
        /\ row.todo = run[e].todo \ {w} /\ row.failed = run[e].failed
    BY <1>0 DEF RunType
  <2>2. call' = call /\ run' = [run EXCEPT ![e] = row]
    BY <1>5, <2>0 DEF FinishCharge
  <2>3. Kind[w] = "good" /\ Charge(w)
    BY <1>5, <2>0, EnvsAssumption DEF FinishCharge, WritesArePayments
  <2>4. Charged(w)'
    BY <2>3, ChargeStep DEF Charged
  <2> HIDE DEF row
  <2> QED
    BY <1>2, <2>1, <2>2, <2>4
<1> QED
  BY <1>1, <1>3, <1>4, <1>5 DEF RecordStep

LEMMA OtherKeepsInv ==
    ASSUME TypeOK, WorkDone, WritesArePayments, SettledRight, OneCallPerEnvironment,
           \A m \in Messages : Charged(m) => Charged(m)',
           \/ Operator \/ PollerStep \/ Failure
           \/ \E m \in Messages : BecomeVisible(m) \/ LateCharge(m)
    PROVE  WorkDone' /\ WritesArePayments' /\ SettledRight'
<1>0. poller \in Callers /\ Direct \subseteq Callers /\ \A c \in Callers : call[c] \in CallType
  BY DEF Callers, TypeOK
<1>1. ASSUME Purge \/ \E m \in Messages : Send(m) \/ BecomeVisible(m) \/ LateCharge(m)
      PROVE  WorkDone' /\ WritesArePayments' /\ SettledRight'
  <2>1. run' = run /\ call' = call
    BY <1>1 DEF Purge, Send, BecomeVisible, LateCharge
  <2> QED
    BY <2>1, SameRunsKeepWork, SamePollerKeepsSettled
\* A call without an environment changes its row.
<1>2. ASSUME NEW c \in Callers, call[c].pc # "run", run' = run,
             \A d \in Callers \ {c} : call'[d] = call[d]
      PROVE  WorkDone' /\ WritesArePayments'
  <2>1. \A f \in Envs : run[f].by # None => run[f].by \in Callers \ {c}
    BY <1>2, NoEnvNoRun DEF TypeOK, RunType
  <2> QED
    BY <1>2, <2>1, SameRunsKeepWork
<1>3. ASSUME NEW d \in Direct, Deliver(d) PROVE WorkDone' /\ WritesArePayments' /\ SettledRight'
  <2>1. /\ d \in Callers /\ call[d].pc # "run" /\ run' = run
        /\ \A c \in Callers \ {d} : call'[c] = call[c]
    BY <1>0, <1>3 DEF Deliver, TypeOK
  <2>2. call'[poller] = call[poller]
    BY <1>0, <2>1
  <2> QED
    BY <1>2, <2>1, <2>2, SamePollerKeepsSettled
<1>4. ASSUME Receive PROVE WorkDone' /\ WritesArePayments' /\ SettledRight'
  <2>1. /\ call[poller].pc # "run" /\ run' = run
        /\ \A c \in Callers \ {poller} : call'[c] = call[c]
        /\ call'[poller].pc = "acquire"
    BY <1>0, <1>4 DEF Receive, TypeOK, CallType
  <2> QED
    BY <1>0, <1>2, <2>1, SamePollerKeepsSettled
<1>5. ASSUME NEW m \in Messages, Settle(m) PROVE WorkDone' /\ WritesArePayments' /\ SettledRight'
  <2>1. /\ call[poller].pc # "run" /\ run' = run
        /\ \A c \in Callers \ {poller} : call'[c] = call[c]
    BY <1>0, <1>5 DEF Settle, TypeOK
  <2>2. \/ call'[poller].pc = "idle"
        \/ /\ call'[poller].batch = call[poller].batch \ {m}
           /\ call'[poller].failed = call[poller].failed
    BY <1>0, <1>5 DEF Settle, TypeOK, CallType, Idle
  <2>3. call[poller].batch \subseteq Messages /\ call[poller].pc = "settle"
    BY <1>0, <1>5 DEF CallType, Settle
  <2>4. SettledRight'
    BY <2>2, <2>3 DEF SettledRight
  <2> QED
    BY <1>0, <1>2, <2>1, <2>4
<1>6. ASSUME NEW c \in Callers, Unhandled(c) PROVE WorkDone' /\ WritesArePayments' /\ SettledRight'
  <2>1. call[c].env \in Envs /\ RunError(c, call[c].env)
    BY <1>6, RunningEnv DEF Unhandled, RunError
  <2> QED
    BY <2>1, RunErrorKeepsInv
<1>7. ASSUME NEW e \in Envs, Stop(e) \/ Start(e)
      PROVE  WorkDone' /\ WritesArePayments' /\ SettledRight'
  <2>1. call' = call /\ \A f \in Envs : run'[f] \in {NoRun, run[f]}
    BY <1>7 DEF Stop, Start, TypeOK
  <2> QED
    BY <2>1, SameRunsKeepWork, SamePollerKeepsSettled
<1> QED
  BY <1>1, <1>3, <1>4, <1>5, <1>6, <1>7 DEF Operator, PollerStep, Failure

\* Only the poller deletes, and it deletes what its verdict says.
LEMMA DeletedNext ==
    ASSUME TypeOK, DeletedWasCharged, SettledRight, Next,
           \A m \in Messages : Charged(m) => Charged(m)'
    PROVE  DeletedWasCharged'
<1>1. acked \subseteq Messages
  BY DEF TypeOK
<1>2. ASSUME acked' = acked PROVE DeletedWasCharged'
  BY <1>1, <1>2 DEF DeletedWasCharged
<1>3. ASSUME NEW m \in Messages, Settle(m) PROVE DeletedWasCharged'
  <2>1. m \in call[poller].batch /\ call[poller].pc = "settle"
    BY <1>3 DEF Settle, First
  <2>2. acked' = acked \/ (acked' = acked \cup {m} /\ m \notin call[poller].failed)
    BY <1>3 DEF Settle, Fail, Delete
  <2> QED
    BY <1>1, <2>1, <2>2 DEF DeletedWasCharged, SettledRight
<1>4. acked' = acked \/ \E m \in Messages : Settle(m)
  <2>1. ASSUME NEW e \in Envs, RecordStep(e) PROVE acked' = acked
    BY <2>1 DEF RecordStep, RejectRecord, CrashOnRecord, RunError, StartCharge, FinishCharge, queueVars
  <2>2. ASSUME NEW c \in Callers, InvokeStep(c) PROVE acked' = acked
    BY <2>2 DEF InvokeStep, Acquire, NotAcquired, Answer, ConnectionError, queueVars
  <2>3. ASSUME Failure PROVE acked' = acked
    BY <2>3 DEF Failure, Unhandled, RunError, Stop, Start, queueVars
  <2>4. ASSUME Operator \/ Receive \/ \E m \in Messages : BecomeVisible(m) \/ LateCharge(m)
        PROVE  acked' = acked
    BY <2>4 DEF Operator, Receive, Purge, Send, Deliver, BecomeVisible, LateCharge, queueVars
  <2> QED
    BY <2>1, <2>2, <2>3, <2>4 DEF Next, PollerStep
<1> QED
  BY <1>2, <1>3, <1>4

\* A message the poller deletes is a payment that was charged, for any batch size,
\* any number of environments and any failures.
THEOREM DeletedMeansCharged == Spec => []ChargeInv
<1>1. Init => ChargeInv
  BY DEF Init, ChargeInv, WorkDone, WritesArePayments, SettledRight, DeletedWasCharged,
         Idle, NoRun, Callers
<1>2. TypeOK /\ OneCallPerEnvironment /\ RecordedIffCharged /\ ChargeInv /\ [Next]_vars
        => ChargeInv'
  <2> SUFFICES ASSUME TypeOK, OneCallPerEnvironment, RecordedIffCharged, ChargeInv, [Next]_vars
               PROVE  ChargeInv'
    OBVIOUS
  <2>1. \A m \in Messages : Charged(m) => Charged(m)'
    BY ChargedStays
  <2>2. WorkDone /\ WritesArePayments /\ SettledRight /\ DeletedWasCharged
    BY DEF ChargeInv
  <2>3. CASE Next
    <3>1. WorkDone' /\ WritesArePayments' /\ SettledRight'
      BY <2>1, <2>2, <2>3, InvokeKeepsInv, RecordKeepsInv, OtherKeepsInv DEF Next
    <3>2. DeletedWasCharged'
      BY <2>1, <2>2, <2>3, DeletedNext
    <3> QED
      BY <3>1, <3>2 DEF ChargeInv
  <2>4. CASE UNCHANGED vars
    BY <2>2, <2>4 DEF vars, queueVars, poolVars, tableVars, ChargeInv, WorkDone,
       WritesArePayments, SettledRight, DeletedWasCharged, Charged
  <2> QED
    BY <2>3, <2>4
<1> QED
  BY <1>1, <1>2, TypeCorrect, PoolIsExclusive, RecordAndChargeTogether, PTL DEF Spec

-----------------------------------------------------------------------------
(* The accounts of the queue *)

\* What is queued or dead was sent since the last purge, and received only if sent.
SentFirst ==
    /\ queue \cup dead \subseteq unpurged
    /\ \A m \in unpurged : sentAt[m] > 0
    /\ \A m \in Messages : receives[m] > 0 => sentAt[m] > 0

\* A message that was received for the last time is in the poller's hands, also when
\* its visibility timeout has ended, so the poller settles it before it receives again.
LastReceive ==
    /\ \A m \in queue : receives[m] >= MaxReceive => m \in call[poller].batch
    /\ call[poller].pc = "idle" => call[poller].batch = {}

Accounts == SentFirst /\ LastReceive /\ AccountsBalance

\* The fields the accounts are about.
accounts == <<queue, sentAt, receives, dead, deleted, unpurged>>

\* The poller keeps its batch while a call is under way.
KeepsBatch ==
    /\ call'[poller].batch = call[poller].batch
    /\ call'[poller].pc = "idle" => call[poller].pc = "idle"

LEMMA CallKeepsAccounts ==
    ASSUME TypeOK, NEW c \in Callers, NEW r,
           r.batch = call[c].batch, r.pc # "idle", call' = [call EXCEPT ![c] = r]
    PROVE  KeepsBatch
BY DEF KeepsBatch, TypeOK, Callers

LEMMA ReturnKeepsAccounts ==
    ASSUME TypeOK, NEW c \in Callers, NEW failed \in SUBSET Messages,
           call' = [call EXCEPT ![c] = Returned(c, failed)]
    PROVE  KeepsBatch
<1>1. call[c] \in CallType
  BY DEF TypeOK
<1>2. Returned(c, failed).batch = call[c].batch /\ Returned(c, failed).pc # "idle"
  BY <1>1 DEF Returned, CallType
<1> QED
  BY <1>2, CallKeepsAccounts

LEMMA FailKeepsAccounts ==
    ASSUME TypeOK, NEW c \in Callers, NEW e \in Envs, RunError(c, e)
    PROVE  KeepsBatch /\ UNCHANGED accounts
<1>1. Verdict(c, run[e].failed, TRUE) \in SUBSET Messages
  BY VerdictType DEF TypeOK, RunType
<1> QED
  BY <1>1, ReturnKeepsAccounts DEF RunError, queueVars, accounts

\* Only the queue's own operations move the accounts.
LEMMA OthersKeepAccounts ==
    ASSUME TypeOK,
           \/ \E c \in Callers : InvokeStep(c)
           \/ \E e \in Envs : RecordStep(e)
           \/ \E m \in Messages : BecomeVisible(m) \/ LateCharge(m)
           \/ \E d \in Direct : Deliver(d)
           \/ Failure
    PROVE  KeepsBatch /\ UNCHANGED accounts
<1>0. \A c \in Callers : call[c] \in CallType
  BY DEF TypeOK
<1>1. ASSUME NEW c \in Callers, Acquire(c) PROVE KeepsBatch /\ UNCHANGED accounts
  <2>1. PICK e \in Envs : Reserve(c, e)
    BY <1>1 DEF Acquire, TypeOK
  <2>2. PICK r : r = [call[c] EXCEPT !.pc = "run", !.env = e]
    OBVIOUS
  <2>3. r.batch = call[c].batch /\ r.pc # "idle"
    BY <1>0, <2>2 DEF CallType
  <2> QED
    BY <1>1, <2>1, <2>2, <2>3, CallKeepsAccounts DEF Reserve, Acquire, queueVars, accounts
<1>2. ASSUME NEW c \in Callers, NotAcquired(c) PROVE KeepsBatch /\ UNCHANGED accounts
  <2>1. call[c].batch \in SUBSET Messages
    BY <1>0 DEF CallType
  <2> QED
    BY <1>2, <2>1, ReturnKeepsAccounts DEF NotAcquired, queueVars, accounts
<1>3. ASSUME NEW c \in Callers, Answer(c) PROVE KeepsBatch /\ UNCHANGED accounts
  <2>1. call[c].env \in Envs
    BY <1>3, RunningEnv DEF Answer
  <2>2. Verdict(c, run[call[c].env].failed, FALSE) \in SUBSET Messages
    BY <2>1, VerdictType DEF TypeOK, RunType
  <2> QED
    BY <1>3, <2>2, ReturnKeepsAccounts DEF Answer, queueVars, accounts
<1>4. ASSUME NEW c \in Callers, ConnectionError(c) PROVE KeepsBatch /\ UNCHANGED accounts
  <2>1. Verdict(c, {}, TRUE) \in SUBSET Messages
    BY VerdictType
  <2> QED
    BY <1>4, <2>1, ReturnKeepsAccounts DEF ConnectionError, queueVars, accounts
<1>5. ASSUME NEW e \in Envs, RecordStep(e) PROVE KeepsBatch /\ UNCHANGED accounts
  <2>1. ASSUME NEW m \in Messages, CrashOnRecord(e, m) PROVE KeepsBatch /\ UNCHANGED accounts
    <3>1. run[e].by \in Callers /\ RunError(run[e].by, e)
      BY <2>1 DEF CrashOnRecord, TypeOK, RunType
    <3> QED
      BY <3>1, FailKeepsAccounts
  <2>2. CASE FinishCharge(e) \/ \E m \in Messages : RejectRecord(e, m) \/ StartCharge(e, m)
    BY <2>2 DEF FinishCharge, RejectRecord, StartCharge, KeepsBatch, queueVars, accounts
  <2> QED
    BY <1>5, <2>1, <2>2 DEF RecordStep
<1>6. ASSUME NEW m \in Messages, BecomeVisible(m) \/ LateCharge(m)
      PROVE  KeepsBatch /\ UNCHANGED accounts
  BY <1>6 DEF BecomeVisible, LateCharge, KeepsBatch, queueVars, accounts
<1>7. ASSUME NEW d \in Direct, Deliver(d) PROVE KeepsBatch /\ UNCHANGED accounts
  <2>1. call'[poller] = call[poller]
    BY <1>7 DEF Deliver, TypeOK, Callers
  <2> QED
    BY <1>7, <2>1 DEF Deliver, KeepsBatch, queueVars, accounts
<1>8. CASE Failure
  <2>1. ASSUME NEW c \in Callers, Unhandled(c) PROVE KeepsBatch /\ UNCHANGED accounts
    <3>1. call[c].env \in Envs /\ RunError(c, call[c].env)
      BY <2>1, RunningEnv DEF Unhandled, RunError
    <3> QED
      BY <3>1, FailKeepsAccounts
  <2>2. ASSUME NEW e \in Envs, Stop(e) \/ Start(e) PROVE KeepsBatch /\ UNCHANGED accounts
    BY <2>2 DEF Stop, Start, KeepsBatch, queueVars, accounts
  <2> QED
    BY <1>8, <2>1, <2>2 DEF Failure
<1> QED
  BY <1>1, <1>2, <1>3, <1>4, <1>5, <1>6, <1>7, <1>8 DEF InvokeStep

LEMMA AccountsSame ==
    ASSUME Accounts, KeepsBatch, UNCHANGED accounts
    PROVE  Accounts'
BY DEF Accounts, SentFirst, LastReceive, AccountsBalance, KeepsBatch, accounts

\* The sets that are counted are sets of messages.
LEMMA AccountsCount ==
    ASSUME NEW S \in SUBSET Messages
    PROVE  IsFiniteSet(S) /\ Cardinality(S) \in Nat
BY FS_Subset, FS_CardinalityType

LEMMA SendBalances ==
    ASSUME TypeOK, Accounts, NEW m \in Messages, Send(m)
    PROVE  Accounts'
<1>0. /\ queue \subseteq Messages /\ dead \subseteq Messages /\ unpurged \subseteq Messages
      /\ deleted \in Nat /\ receives \in [Messages -> Nat] /\ sentAt \in [Messages -> Nat]
  BY DEF TypeOK
<1>1. /\ queue' = queue \cup {m} /\ unpurged' = unpurged \cup {m} /\ sentAt[m] = 0
      /\ UNCHANGED <<receives, dead, deleted, call>>
  BY DEF Send
<1>2. m \notin unpurged /\ m \notin queue /\ m \notin dead /\ receives[m] = 0
  BY <1>0, <1>1 DEF Accounts, SentFirst
<1>3. Cardinality({n \in Messages : sentAt[n] > 0}) \in Nat
  BY AccountsCount
<1>4. \A n \in Messages : sentAt'[n] > 0 <=> sentAt[n] > 0 \/ n = m
  BY <1>0, <1>3 DEF Send
<1>5. SentFirst'
  BY <1>0, <1>1, <1>4 DEF Accounts, SentFirst
<1>6. LastReceive'
  BY <1>1, <1>2 DEF Accounts, LastReceive
<1>7. /\ Cardinality(queue') = Cardinality(queue) + 1
      /\ Cardinality(unpurged') = Cardinality(unpurged) + 1
  BY <1>0, <1>1, <1>2, AccountsCount, FS_AddElement
<1>8. Cardinality(queue) \in Nat /\ Cardinality(unpurged) \in Nat /\ Cardinality(dead) \in Nat
  BY <1>0, AccountsCount
<1>9. AccountsBalance'
  BY <1>0, <1>1, <1>2, <1>7, <1>8 DEF Accounts, AccountsBalance
<1> QED
  BY <1>5, <1>6, <1>9 DEF Accounts

LEMMA PurgeBalances ==
    ASSUME TypeOK, Accounts, Purge
    PROVE  Accounts'
<1>1. /\ queue' = {} /\ dead' = {} /\ deleted' = 0 /\ unpurged' = {}
      /\ UNCHANGED <<receives, sentAt, call>>
  BY DEF Purge
<1>2. SentFirst' /\ LastReceive'
  BY <1>1 DEF Accounts, SentFirst, LastReceive
<1>3. AccountsBalance'
  BY <1>1, FS_EmptySet DEF Accounts, AccountsBalance
<1> QED
  BY <1>2, <1>3 DEF Accounts

LEMMA ReceiveBalances ==
    ASSUME TypeOK, Accounts, Receive
    PROVE  Accounts'
<1>0. queue \subseteq Messages /\ receives \in [Messages -> Nat] /\ poller \in Callers
  BY DEF TypeOK, Callers
<1>1. Batch \subseteq queue
  BY DEF Batch
<1>2. /\ \A m \in Messages : receives'[m] = IF m \in Batch THEN receives[m] + 1 ELSE receives[m]
      /\ UNCHANGED <<queue, sentAt, dead, deleted, unpurged>>
      /\ call[poller].pc = "idle"
  BY DEF Receive
<1>3. call'[poller].batch = Batch /\ call'[poller].pc # "idle"
  <2>1. call[poller] \in CallType
    BY <1>0 DEF TypeOK
  <2>2. PICK r : r = [call[poller] EXCEPT !.pc = "acquire", !.batch = Batch]
    OBVIOUS
  <2>3. r.batch = Batch /\ r.pc = "acquire"
    BY <2>1, <2>2 DEF CallType
  <2> QED
    BY <1>0, <2>2, <2>3 DEF Receive, TypeOK
<1>4. \A m \in queue : receives[m] < MaxReceive
  BY <1>0, <1>2 DEF Accounts, LastReceive
<1>5. SentFirst'
  BY <1>0, <1>1, <1>2 DEF Accounts, SentFirst
<1>6. LastReceive'
  BY <1>0, <1>2, <1>3, <1>4 DEF LastReceive
<1>7. AccountsBalance'
  <2>1. queue \cap dead = {}
    BY DEF Accounts, AccountsBalance
  <2>2. \A m \in Messages : receives'[m] <= MaxReceive
    BY <1>0, <1>1, <1>2, <1>4 DEF Accounts, AccountsBalance
  <2>3. \A m \in dead : receives'[m] = MaxReceive
    <3>1. dead \subseteq Messages
      BY DEF TypeOK
    <3> QED
      BY <1>1, <1>2, <2>1, <3>1 DEF Accounts, AccountsBalance
  <2> QED
    BY <1>2, <2>2, <2>3 DEF Accounts, AccountsBalance
<1> QED
  BY <1>5, <1>6, <1>7 DEF Accounts

LEMMA SettleBalances ==
    ASSUME TypeOK, Accounts, NEW m \in Messages, Settle(m)
    PROVE  Accounts'
<1>0. /\ queue \subseteq Messages /\ dead \subseteq Messages /\ unpurged \subseteq Messages
      /\ deleted \in Nat /\ receives \in [Messages -> Nat] /\ poller \in Callers
      /\ IsFiniteSet(queue) /\ IsFiniteSet(dead)
      /\ Cardinality(queue) \in Nat /\ Cardinality(dead) \in Nat /\ Cardinality(unpurged) \in Nat
  BY AccountsCount DEF TypeOK, Callers
<1>1. UNCHANGED <<sentAt, unpurged, receives>>
  BY DEF Settle, Fail, Delete
<1>2. \/ UNCHANGED <<queue, dead, deleted>> /\ (m \in queue => receives[m] < MaxReceive)
      \/ /\ m \in queue /\ queue' = queue \ {m}
         /\ \/ dead' = dead \cup {m} /\ deleted' = deleted /\ receives[m] >= MaxReceive
            \/ dead' = dead /\ deleted' = deleted + 1
  <2>1. CASE m \in call[poller].failed
    BY <1>0, <2>1 DEF Settle, Fail, Exhausted
  <2>2. CASE m \notin call[poller].failed
    <3>1. CASE m \in queue
      BY <2>2, <3>1 DEF Settle, Delete
    <3>2. CASE m \notin queue
      BY <2>2, <3>2 DEF Settle, Delete
    <3> QED
      BY <3>1, <3>2
  <2> QED
    BY <2>1, <2>2
<1>3. /\ call'[poller].batch = call[poller].batch \ {m}
      /\ call'[poller].pc = "idle" => call'[poller].batch = {}
  <2>1. call[poller] \in CallType /\ call[poller].pc = "settle"
    BY <1>0 DEF Settle, TypeOK
  <2>2. CASE call[poller].batch = {m}
    BY <1>0, <2>2 DEF Settle, Idle, TypeOK
  <2>3. CASE call[poller].batch # {m}
    <3>1. PICK r : r = [call[poller] EXCEPT !.batch = call[poller].batch \ {m}]
      OBVIOUS
    <3>2. r.batch = call[poller].batch \ {m} /\ r.pc = "settle"
      BY <2>1, <3>1 DEF CallType
    <3>3. call'[poller] = r
      BY <1>0, <2>3, <3>1 DEF Settle, TypeOK
    <3> QED
      BY <3>2, <3>3
  <2> QED
    BY <2>2, <2>3
<1>4. SentFirst'
  BY <1>0, <1>1, <1>2 DEF Accounts, SentFirst
<1>5. LastReceive'
  BY <1>0, <1>1, <1>2, <1>3 DEF Accounts, LastReceive
<1>6. AccountsBalance'
  <2>1. queue' \cap dead' = {} /\ \A n \in dead' : receives'[n] = MaxReceive
    BY <1>0, <1>1, <1>2 DEF Accounts, AccountsBalance
  <2>2. deleted' + Cardinality(queue') + Cardinality(dead') = Cardinality(unpurged')
    <3>1. CASE UNCHANGED <<queue, dead, deleted>>
      BY <1>1, <3>1 DEF Accounts, AccountsBalance
    <3>2. CASE m \in queue /\ queue' = queue \ {m}
      <4>1. Cardinality(queue') = Cardinality(queue) - 1
        BY <1>0, <3>2, FS_RemoveElement
      <4>2. CASE dead' = dead \cup {m} /\ deleted' = deleted
        <5>1. Cardinality(dead') = Cardinality(dead) + 1
          BY <1>0, <3>2, <4>2, FS_AddElement DEF Accounts, AccountsBalance
        <5> QED
          BY <1>0, <1>1, <4>1, <4>2, <5>1 DEF Accounts, AccountsBalance
      <4>3. CASE dead' = dead /\ deleted' = deleted + 1
        BY <1>0, <1>1, <4>1, <4>3 DEF Accounts, AccountsBalance
      <4> QED
        BY <1>2, <3>2, <4>2, <4>3
    <3> QED
      BY <1>2, <3>1, <3>2
  <2> QED
    BY <1>1, <2>1, <2>2 DEF Accounts, AccountsBalance
<1> QED
  BY <1>4, <1>5, <1>6 DEF Accounts

LEMMA AccountsNext ==
    ASSUME TypeOK, Accounts, [Next]_vars
    PROVE  Accounts'
<1>1. CASE UNCHANGED vars
  BY <1>1, AccountsSame DEF vars, queueVars, accounts, KeepsBatch
<1>2. CASE Next
  BY <1>2, OthersKeepAccounts, AccountsSame, SendBalances, PurgeBalances, ReceiveBalances,
     SettleBalances DEF Next, Operator, PollerStep
<1> QED
  BY <1>1, <1>2

\* gateway.py:14-15: a message is received MAX_RECEIVE_COUNT times at most and dead-lettered
\* only then, and each message since the last purge is queued, dead or counted as deleted,
\* for any batch size and limit and also when a purge comes while a batch is worked on.
THEOREM QueueAccountsBalance == Spec => []AccountsBalance
<1>1. Init => Accounts
  BY FS_EmptySet DEF Init, Accounts, SentFirst, LastReceive, AccountsBalance, Idle, Callers
<1>2. TypeOK /\ Accounts /\ [Next]_vars => Accounts'
  BY AccountsNext
<1>3. Accounts => AccountsBalance
  BY DEF Accounts
<1> QED
  BY <1>1, <1>2, <1>3, TypeCorrect, PTL DEF Spec

-----------------------------------------------------------------------------
(* Good payments are received once *)

\* What GoodNeverRetried supposes: no invocation failed.
Undisturbed == faults = 0 /\ \A m \in Messages : sentAt[m] > 0 => Kind[m] # "crash"

\* Every environment runs, and works for the call that holds it.
Fleet ==
    /\ up = Envs
    /\ \A c \in Callers : call[c].pc = "run" => run[call[c].env].by = c

\* An environment works on the poller's batch, and reports no payment of it.
PollerRun ==
    \A e \in Envs : run[e].by = poller =>
        /\ run[e].todo \subseteq call[poller].batch
        /\ \A m \in run[e].failed : Kind[m] # "good"

\* No payment is settled as a failure.
PollerVerdict == call[poller].pc = "settle" => \A m \in call[poller].failed : Kind[m] # "good"

\* A payment that was received is in the poller's batch as long as it is queued.
ReceivedOnce ==
    /\ \A m \in call[poller].batch : sentAt[m] > 0
    /\ \A m \in Messages : Kind[m] = "good" =>
          /\ receives[m] <= 1
          /\ m \in queue /\ receives[m] > 0 => m \in call[poller].batch

Smooth == Fleet /\ PollerRun /\ PollerVerdict /\ ReceivedOnce

LEMMA ReceivedOnceSame ==
    ASSUME ReceivedOnce, UNCHANGED accounts, call'[poller].batch = call[poller].batch
    PROVE  ReceivedOnce'
BY DEF ReceivedOnce, accounts

\* A call ends, and its environment is idle again.
LEMMA ReturnIsSmooth ==
    ASSUME TypeOK, OneCallPerEnvironment, Smooth, NEW c \in Callers, NEW e \in Envs,
           NEW failed \in SUBSET Messages, call[c].pc = "run", call[c].env = e,
           call' = [call EXCEPT ![c] = Returned(c, failed)],
           run' = [run EXCEPT ![e] = NoRun], up' = up, UNCHANGED accounts,
           c = poller => \A m \in failed : Kind[m] # "good"
    PROVE  Smooth'
<1>1. \A d \in Callers : call[d] \in CallType
  BY DEF TypeOK
<1>2. \A d \in Callers : d # c => call'[d] = call[d]
  OBVIOUS
<1>3. call'[c] = Returned(c, failed)
  BY DEF TypeOK
<1>4. call'[c].pc # "run" /\ call'[c].batch = call[c].batch /\ call'[c].failed = failed
  BY <1>3, ReturnedType
<1>5. poller \in Callers /\ call'[poller].batch = call[poller].batch
  BY <1>2, <1>4 DEF Callers
<1>6. \A f \in Envs : run'[f] = IF f = e THEN NoRun ELSE run[f]
  BY DEF TypeOK
<1>7. Fleet'
  <2>1. ASSUME NEW d \in Callers, call'[d].pc = "run" PROVE run'[call'[d].env].by = d
    <3>1. d # c /\ call'[d] = call[d] /\ call[d].pc = "run"
      BY <1>2, <1>4, <2>1
    <3>2. call[d].env \in Envs /\ call[d].env # e
      BY <3>1, RunningEnv DEF OneCallPerEnvironment, TypeOK
    <3> QED
      BY <1>6, <3>1, <3>2 DEF Smooth, Fleet
  <2> QED
    BY <2>1 DEF Smooth, Fleet
<1>8. PollerRun'
  BY <1>5, <1>6 DEF Smooth, PollerRun, NoRun
<1>9. PollerVerdict'
  BY <1>2, <1>4, <1>5 DEF Smooth, PollerVerdict
<1>10. ReceivedOnce'
  BY <1>5, ReceivedOnceSame DEF Smooth
<1> QED
  BY <1>7, <1>8, <1>9, <1>10 DEF Smooth

LEMMA AcquireIsSmooth ==
    ASSUME TypeOK, OneCallPerEnvironment, Smooth, NEW c \in Callers, Acquire(c)
    PROVE  Smooth'
<1>1. PICK e \in up \ busy :
          /\ Reserve(c, e)
          /\ run' = [run EXCEPT ![e] = [NoRun EXCEPT !.by = c, !.todo = call[c].batch]]
  BY DEF Acquire
<1>2. e \in Envs /\ \A d \in Callers : call[d].env # e
  BY <1>1 DEF TypeOK, OneCallPerEnvironment
<1>3. poller \in Callers /\ \A d \in Callers : call[d] \in CallType
  BY DEF TypeOK, Callers
<1>4. PICK r : r = [call[c] EXCEPT !.pc = "run", !.env = e]
  OBVIOUS
<1>5. r.pc = "run" /\ r.env = e /\ r.batch = call[c].batch
  BY <1>3, <1>4 DEF CallType
<1>6. \A d \in Callers : call'[d] = IF d = c THEN r ELSE call[d]
  BY <1>1, <1>4 DEF Reserve, TypeOK
<1>7. PICK w : w = [NoRun EXCEPT !.by = c, !.todo = call[c].batch]
  OBVIOUS
<1>8. w.by = c /\ w.todo = call[c].batch /\ w.failed = {}
  BY <1>7 DEF NoRun
<1>9. \A f \in Envs : run'[f] = IF f = e THEN w ELSE run[f]
  BY <1>1, <1>7 DEF TypeOK
<1>10. call'[poller].batch = call[poller].batch
  BY <1>3, <1>5, <1>6
<1>11. Fleet'
  <2>1. ASSUME NEW d \in Callers, call'[d].pc = "run" PROVE run'[call'[d].env].by = d
    <3>1. CASE d = c
      BY <1>2, <1>5, <1>6, <1>8, <1>9, <3>1
    <3>2. CASE d # c
      <4>1. call'[d] = call[d] /\ call[d].env \in Envs /\ call[d].env # e
        BY <1>2, <1>6, <2>1, <3>2, RunningEnv
      <4> QED
        BY <1>9, <2>1, <4>1 DEF Smooth, Fleet
    <3> QED
      BY <3>1, <3>2
  <2> QED
    BY <2>1 DEF Smooth, Fleet, Acquire
<1>12. PollerRun'
  BY <1>8, <1>9, <1>10 DEF Smooth, PollerRun
<1>13. PollerVerdict'
  BY <1>3, <1>5, <1>6 DEF Smooth, PollerVerdict
<1>14. UNCHANGED accounts
  BY DEF Acquire, queueVars, accounts
<1> QED
  BY <1>10, <1>11, <1>12, <1>13, <1>14, ReceivedOnceSame DEF Smooth

\* A call that got no environment is not the poller's: it waits for one.
LEMMA NotAcquiredIsSmooth ==
    ASSUME TypeOK, Smooth, Envs # {}, NEW c \in Callers, NotAcquired(c)
    PROVE  Smooth'
<1>1. c # poller /\ poller \in Callers
  BY DEF NotAcquired, Smooth, Fleet, Callers
<1>2. call[c] \in CallType /\ call[c].batch \in SUBSET Messages
  BY DEF TypeOK, CallType
<1>3. call'[c] = Returned(c, call[c].batch) /\ call'[c].pc # "run"
  BY <1>2, ReturnedType DEF NotAcquired, TypeOK
<1>4. \A d \in Callers : d # c => call'[d] = call[d]
  BY DEF NotAcquired
<1>5. UNCHANGED <<up, run>> /\ UNCHANGED accounts
  BY DEF NotAcquired, poolVars, queueVars, accounts
<1>6. Fleet' /\ PollerRun' /\ PollerVerdict'
  BY <1>1, <1>3, <1>4, <1>5 DEF Smooth, Fleet, PollerRun, PollerVerdict
<1> QED
  BY <1>1, <1>4, <1>5, <1>6, ReceivedOnceSame DEF Smooth

LEMMA InvokeIsSmooth ==
    ASSUME TypeOK, OneCallPerEnvironment, Smooth, Envs # {}, NEW c \in Callers, InvokeStep(c)
    PROVE  Smooth'
<1>1. CASE Answer(c)
  <2> DEFINE e == call[c].env
  <2>1. e \in Envs /\ call[c].pc = "run" /\ run[e].by = c
    BY <1>1, RunningEnv DEF Answer
  <2>2. run[e].failed \in SUBSET Messages
    BY <2>1 DEF TypeOK, RunType
  <2>3. /\ call' = [call EXCEPT ![c] = Returned(c, run[e].failed)]
        /\ run' = [run EXCEPT ![e] = NoRun] /\ up' = up /\ UNCHANGED accounts
    BY <1>1 DEF Answer, Verdict, queueVars, accounts
  <2>4. c = poller => \A m \in run[e].failed : Kind[m] # "good"
    BY <2>1 DEF Smooth, PollerRun
  <2> QED
    BY <2>1, <2>2, <2>3, <2>4, ReturnIsSmooth
<1>2. CASE ConnectionError(c)
  BY <1>2 DEF ConnectionError, Smooth, Fleet
<1> QED
  BY <1>1, <1>2, AcquireIsSmooth, NotAcquiredIsSmooth DEF InvokeStep

LEMMA RecordIsSmooth ==
    ASSUME TypeOK, OneCallPerEnvironment, Smooth, Undisturbed, NEW e \in Envs, RecordStep(e)
    PROVE  Smooth'
<1>0. run[e] \in RunType /\ \A c \in Callers : call[c].pc = "run" => call[c].env \in Envs
  BY RunningEnv DEF TypeOK
<1>1. ASSUME NEW w, w.by = run[e].by, w.todo \subseteq run[e].todo,
             \A m \in w.failed : m \in run[e].failed \/ Kind[m] # "good",
             run' = [run EXCEPT ![e] = w], UNCHANGED <<up, call>>, UNCHANGED accounts
      PROVE  Smooth'
  <2>1. \A f \in Envs : run'[f] = IF f = e THEN w ELSE run[f]
    BY <1>1 DEF TypeOK
  <2>2. Fleet'
    BY <1>0, <1>1, <2>1 DEF Smooth, Fleet
  <2>3. PollerRun'
    BY <1>1, <2>1 DEF Smooth, PollerRun
  <2>4. PollerVerdict' /\ ReceivedOnce'
    BY <1>1, ReceivedOnceSame DEF Smooth, PollerVerdict
  <2> QED
    BY <2>2, <2>3, <2>4 DEF Smooth
<1>2. ASSUME NEW m \in Messages, RejectRecord(e, m) PROVE Smooth'
  <2>1. PICK w : w = [run[e] EXCEPT !.todo = run[e].todo \ {m}, !.failed = Rejected(e, m)]
    OBVIOUS
  <2>2. /\ w.by = run[e].by /\ w.todo \subseteq run[e].todo
        /\ \A n \in w.failed : n \in run[e].failed \/ Kind[n] # "good"
    BY <1>0, <1>2, <2>1 DEF RunType, RejectRecord, Rejected
  <2> QED
    BY <1>1, <1>2, <2>1, <2>2 DEF RejectRecord, poolVars, queueVars, accounts
<1>3. ASSUME NEW m \in Messages, StartCharge(e, m) PROVE Smooth'
  <2>1. PICK w : w = [run[e] EXCEPT !.writing = m]
    OBVIOUS
  <2>2. w.by = run[e].by /\ w.todo = run[e].todo /\ w.failed = run[e].failed
    BY <1>0, <2>1 DEF RunType
  <2> QED
    BY <1>1, <1>3, <2>1, <2>2 DEF StartCharge, poolVars, queueVars, accounts
<1>4. CASE FinishCharge(e)
  <2>1. PICK w : w = [run[e] EXCEPT !.todo = run[e].todo \ {run[e].writing}, !.writing = None]
    OBVIOUS
  <2>2. w.by = run[e].by /\ w.todo \subseteq run[e].todo /\ w.failed = run[e].failed
    BY <1>0, <2>1 DEF RunType
  <2> QED
    BY <1>1, <1>4, <2>1, <2>2 DEF FinishCharge, poolVars, queueVars, accounts
<1>5. ASSUME NEW m \in Messages, CrashOnRecord(e, m) PROVE Smooth'
  <2> DEFINE c == run[e].by
  <2>1. c \in Callers /\ RunError(c, e) /\ m \in run[e].todo /\ Kind[m] = "crash"
    BY <1>0, <1>5 DEF CrashOnRecord, RunType, First
  <2>2. c # poller
    BY <2>1 DEF Smooth, PollerRun, ReceivedOnce, Undisturbed
  <2>3. Verdict(c, run[e].failed, TRUE) \in SUBSET Messages
    BY <1>0, <2>1, VerdictType DEF RunType
  <2>4. /\ call[c].pc = "run" /\ call[c].env = e
        /\ call' = [call EXCEPT ![c] = Returned(c, Verdict(c, run[e].failed, TRUE))]
        /\ run' = [run EXCEPT ![e] = NoRun] /\ up' = up /\ UNCHANGED accounts
    BY <2>1 DEF RunError, queueVars, accounts
  <2> QED
    BY <2>1, <2>2, <2>3, <2>4, ReturnIsSmooth
<1> QED
  BY <1>2, <1>3, <1>4, <1>5 DEF RecordStep

\* While the poller is idle or settles, no environment works for it.
LEMMA NoPollerRun ==
    ASSUME TypeOK, OneCallPerEnvironment, call[poller].pc \in {"idle", "settle"}
    PROVE  \A e \in Envs : run[e].by # poller
<1>1. poller \in Callers /\ call[poller].env = None
  BY DEF TypeOK, Callers
<1> QED
  BY <1>1 DEF OneCallPerEnvironment

LEMMA ReceiveIsSmooth ==
    ASSUME TypeOK, OneCallPerEnvironment, Accounts, Smooth, Receive
    PROVE  Smooth'
<1>0. /\ queue \subseteq Messages /\ receives \in [Messages -> Nat] /\ poller \in Callers
      /\ call[poller].pc = "idle" /\ call[poller].batch = {} /\ call[poller] \in CallType
  BY DEF TypeOK, Callers, Receive, Accounts, LastReceive
<1>1. Batch \subseteq queue
  BY DEF Batch
<1>2. /\ \A m \in Messages : receives'[m] = IF m \in Batch THEN receives[m] + 1 ELSE receives[m]
      /\ UNCHANGED <<queue, sentAt, up, run>>
      /\ \A c \in Callers : c # poller => call'[c] = call[c]
  BY DEF Receive, poolVars
<1>3. call'[poller].batch = Batch /\ call'[poller].pc = "acquire"
  <2>1. PICK r : r = [call[poller] EXCEPT !.pc = "acquire", !.batch = Batch]
    OBVIOUS
  <2>2. r.batch = Batch /\ r.pc = "acquire"
    BY <1>0, <2>1 DEF CallType
  <2> QED
    BY <1>0, <2>1, <2>2 DEF Receive, TypeOK
<1>4. ReceivedOnce'
  <2>1. \A m \in Batch : sentAt'[m] > 0
    BY <1>1, <1>2 DEF Accounts, SentFirst
  <2>2. \A m \in queue : Kind[m] = "good" => receives[m] = 0
    BY <1>0 DEF Smooth, ReceivedOnce
  <2>3. ASSUME NEW m \in Messages, Kind[m] = "good"
        PROVE  receives'[m] <= 1 /\ (m \in queue' /\ receives'[m] > 0 => m \in Batch)
    <3>1. receives[m] <= 1 /\ receives[m] \in Nat
      BY <1>0, <2>3 DEF Smooth, ReceivedOnce
    <3> QED
      BY <1>1, <1>2, <2>2, <2>3, <3>1
  <2> QED
    BY <1>3, <2>1, <2>3 DEF ReceivedOnce
<1>5. Fleet' /\ PollerVerdict'
  BY <1>2, <1>3 DEF Smooth, Fleet, PollerVerdict
<1>6. PollerRun'
  BY <1>0, <1>2, NoPollerRun DEF PollerRun
<1> QED
  BY <1>4, <1>5, <1>6 DEF Smooth

LEMMA SettleIsSmooth ==
    ASSUME TypeOK, OneCallPerEnvironment, Smooth, NEW m \in Messages, Settle(m)
    PROVE  Smooth'
<1>0. poller \in Callers /\ call[poller].pc = "settle" /\ call[poller] \in CallType
  BY DEF TypeOK, Callers, Settle
<1>1. /\ UNCHANGED <<sentAt, receives, up, run>>
      /\ \A c \in Callers : c # poller => call'[c] = call[c]
  BY DEF Settle, Fail, Delete, poolVars
<1>2. /\ call'[poller].batch = call[poller].batch \ {m}
      /\ call'[poller].pc # "run"
      /\ call'[poller].pc = "settle" => call'[poller].failed = call[poller].failed
  <2>1. CASE call[poller].batch = {m}
    BY <1>0, <2>1 DEF Settle, Idle, TypeOK
  <2>2. CASE call[poller].batch # {m}
    <3>1. PICK r : r = [call[poller] EXCEPT !.batch = call[poller].batch \ {m}]
      OBVIOUS
    <3>2. /\ r.batch = call[poller].batch \ {m} /\ r.pc = "settle"
          /\ r.failed = call[poller].failed
      BY <1>0, <3>1 DEF CallType
    <3>3. call'[poller] = r
      BY <1>0, <2>2, <3>1 DEF Settle, TypeOK
    <3> QED
      BY <3>2, <3>3
  <2> QED
    BY <2>1, <2>2
<1>3. queue' \subseteq queue /\ (Kind[m] = "good" => m \notin queue')
  <2>1. Kind[m] = "good" => m \notin call[poller].failed
    BY <1>0 DEF Smooth, PollerVerdict
  <2> QED
    BY <2>1 DEF Settle, Fail, Delete
<1>4. ReceivedOnce'
  BY <1>1, <1>2, <1>3 DEF Smooth, ReceivedOnce
<1>5. Fleet' /\ PollerVerdict'
  BY <1>0, <1>1, <1>2 DEF Smooth, Fleet, PollerVerdict
<1>6. PollerRun'
  BY <1>0, <1>1, NoPollerRun DEF PollerRun
<1> QED
  BY <1>4, <1>5, <1>6 DEF Smooth

LEMMA ClientsAreSmooth ==
    ASSUME TypeOK, Accounts, Smooth,
           \/ Operator
           \/ \E m \in Messages : BecomeVisible(m) \/ LateCharge(m)
    PROVE  Smooth'
<1>1. ASSUME NEW d \in Direct, Deliver(d) PROVE Smooth'
  <2>1. /\ d \in Callers /\ poller \in Callers /\ call[d] \in CallType
        /\ call'[poller] = call[poller]
        /\ \A c \in Callers : c # d => call'[c] = call[c]
    BY <1>1 DEF Deliver, TypeOK, Callers
  <2>2. call'[d].pc = "acquire"
    BY <1>1, <2>1 DEF Deliver, TypeOK, CallType
  <2>3. UNCHANGED <<up, run>> /\ UNCHANGED accounts
    BY <1>1 DEF Deliver, poolVars, queueVars, accounts
  <2>4. Fleet' /\ PollerRun' /\ PollerVerdict'
    BY <2>1, <2>2, <2>3 DEF Smooth, Fleet, PollerRun, PollerVerdict
  <2> QED
    BY <2>1, <2>3, <2>4, ReceivedOnceSame DEF Smooth
<1>2. ASSUME NEW m \in Messages, Send(m) PROVE Smooth'
  <2>1. /\ queue' = queue \cup {m} /\ sentAt[m] = 0 /\ UNCHANGED <<receives, call, up, run>>
    BY <1>2 DEF Send, poolVars
  <2>2. receives[m] = 0
    BY <2>1 DEF Accounts, SentFirst, TypeOK
  <2>3. \A n \in Messages : sentAt[n] > 0 => sentAt'[n] > 0
    BY <1>2, <2>1 DEF Send, TypeOK
  <2>4. call[poller].batch \subseteq Messages
    BY DEF TypeOK, CallType, Callers
  <2>5. ReceivedOnce'
    BY <2>1, <2>2, <2>3, <2>4 DEF Smooth, ReceivedOnce
  <2> QED
    BY <2>1, <2>5 DEF Smooth, Fleet, PollerRun, PollerVerdict
<1>3. CASE Purge
  BY <1>3 DEF Purge, Smooth, Fleet, PollerRun, PollerVerdict, ReceivedOnce, poolVars
<1>4. ASSUME NEW m \in Messages, BecomeVisible(m) \/ LateCharge(m) PROVE Smooth'
  <2>1. UNCHANGED <<call, up, run>> /\ UNCHANGED accounts
    BY <1>4 DEF BecomeVisible, LateCharge, poolVars, queueVars, accounts
  <2> QED
    BY <2>1, ReceivedOnceSame DEF Smooth, Fleet, PollerRun, PollerVerdict
<1> QED
  BY <1>1, <1>2, <1>3, <1>4 DEF Operator

\* A failure and a message that crashes the function are never undone.
LEMMA UndisturbedBefore ==
    ASSUME TypeOK, [Next]_vars, Undisturbed'
    PROVE  Undisturbed
<1>1. faults \in Nat /\ sentAt \in [Messages -> Nat]
  BY DEF TypeOK
<1>2. faults' = faults \/ faults' = faults + 1
  <2>1. ASSUME NEW e \in Envs, RecordStep(e) PROVE faults' = faults
    BY <2>1 DEF RecordStep, RejectRecord, CrashOnRecord, StartCharge, FinishCharge
  <2>2. ASSUME NEW c \in Callers, InvokeStep(c) PROVE faults' = faults
    BY <2>2 DEF InvokeStep, Acquire, NotAcquired, Answer, ConnectionError
  <2>3. ASSUME Failure PROVE faults' = faults \/ faults' = faults + 1
    BY <2>3 DEF Failure, Unhandled, Stop, Start
  <2>4. ASSUME Operator \/ PollerStep \/ \E m \in Messages : BecomeVisible(m) \/ LateCharge(m)
        PROVE  faults' = faults
    BY <2>4 DEF Operator, PollerStep, Receive, Settle, Purge, Send, Deliver, BecomeVisible, LateCharge
  <2> QED
    BY <2>1, <2>2, <2>3, <2>4 DEF Next, vars
<1>3. \A m \in Messages : sentAt[m] > 0 => sentAt'[m] > 0
  <2>1. ASSUME NEW m \in Messages, Send(m) PROVE \A n \in Messages : sentAt[n] > 0 => sentAt'[n] > 0
    BY <1>1, <2>1 DEF Send
  <2>2. CASE Purge \/ PollerStep
    BY <2>2 DEF Purge, PollerStep, Receive, Settle
  <2> QED
    BY <2>1, <2>2, OthersKeepAccounts DEF Next, Operator, vars, queueVars, accounts
<1> QED
  BY <1>1, <1>2, <1>3 DEF Undisturbed

LEMMA SmoothNext ==
    ASSUME TypeOK, OneCallPerEnvironment, Accounts, Undisturbed => Smooth, Envs # {}, [Next]_vars
    PROVE  Undisturbed' => Smooth'
<1> SUFFICES ASSUME Undisturbed' PROVE Smooth'
  OBVIOUS
<1>1. Undisturbed /\ Smooth /\ faults = 0 /\ faults' = 0
  BY UndisturbedBefore DEF Undisturbed
<1>2. CASE UNCHANGED vars
  BY <1>1, <1>2 DEF vars, queueVars, poolVars, Smooth, Fleet, PollerRun, PollerVerdict, ReceivedOnce
<1>3. CASE Failure
  <2>1. PICK e \in Envs : Start(e)
    BY <1>1, <1>3 DEF Failure, Unhandled, Stop
  <2> QED
    BY <1>1, <2>1 DEF Start, Smooth, Fleet
<1>4. CASE Next
  BY <1>1, <1>3, <1>4, InvokeIsSmooth, RecordIsSmooth, ReceiveIsSmooth, SettleIsSmooth,
     ClientsAreSmooth DEF Next, PollerStep
<1> QED
  BY <1>2, <1>4

\* LAB.md:1030-1031 of lab 15: with a partial batch response good payments are not retried
\* because another message of their batch is bad.  Where an environment runs, no invocation
\* failed and none was made to crash, a payment is received once, whatever is in its batch,
\* however long its visibility timeout and whatever HTTP threads invoke besides.
THEOREM GoodPaymentsReceivedOnce == Envs # {} => (Spec => []GoodNeverRetried)
<1> SUFFICES ASSUME Envs # {} PROVE Spec => []GoodNeverRetried
  OBVIOUS
<1> DEFINE SmoothInv == Accounts /\ (Undisturbed => Smooth)
<1>1. Init => SmoothInv
  <2>1. Init => Accounts
    BY FS_EmptySet DEF Init, Accounts, SentFirst, LastReceive, AccountsBalance, Idle, Callers
  <2>2. Init => Smooth
    BY DEF Init, Smooth, Fleet, PollerRun, PollerVerdict, ReceivedOnce, Idle, NoRun, Callers
  <2> QED
    BY <2>1, <2>2
<1>2. TypeOK /\ OneCallPerEnvironment /\ SmoothInv /\ [Next]_vars => SmoothInv'
  BY AccountsNext, SmoothNext
<1>3. SmoothInv => GoodNeverRetried
  BY DEF Undisturbed, Smooth, ReceivedOnce, GoodNeverRetried
<1> QED
  BY <1>1, <1>2, <1>3, TypeCorrect, PoolIsExclusive, PTL DEF Spec
=============================================================================
