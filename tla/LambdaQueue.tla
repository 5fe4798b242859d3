---------------------------- MODULE LambdaQueue ----------------------------
(***************************************************************************)
(* The event path of lab 15: the queue, the event source mapping and the   *)
(* pool of execution environments in gateway/gateway.py, and the payment   *)
(* processor in functions/processor/app.py that the batches are sent to.   *)
(*                                                                          *)
(* One poller thread receives a batch, waits for an idle environment,      *)
(* invokes the processor and settles each message.  HTTP threads deliver    *)
(* records straight to the same function and are throttled when no          *)
(* environment is idle.  A step is a critical section of the queue or of    *)
(* the pool, the start or the end of an HTTP call to an environment, or one *)
(* record inside the function.                                              *)
(***************************************************************************)
EXTENDS Naturals, FiniteSets

CONSTANTS
    Messages,       \* messages POSTed to /queues/orders; each is its message ID
    Orders,         \* order_id values
    OrderOf,        \* OrderOf[m]: order_id in the body of m
    Kind,           \* Kind[m]: what _parse does with the body of m
    Envs,           \* addresses of the containers of lab15-processor
    poller,         \* the thread of the event source mapping
    Direct,         \* HTTP threads that POST .../lab15-processor/invocations
    DirectMsg,      \* DirectMsg[d]: the message in the one record d delivers
    None,
    BatchSize,      \* QUEUE_BATCH_SIZE
    MaxReceive,     \* QUEUE_MAX_RECEIVE_COUNT
    Idempotent,     \* IDEMPOTENCY=on
    MaxFaults,      \* bound: failed runs and stopped containers
    MaxPurges       \* bound: DELETE /queues/orders

ASSUME MessagesAssumption == IsFiniteSet(Messages)
ASSUME EnvsAssumption == None \notin Envs /\ None \notin Messages
ASSUME CallersAssumption == None # poller /\ None \notin Direct /\ poller \notin Direct
ASSUME BodyAssumption == OrderOf \in [Messages -> Orders]
                         /\ Kind \in [Messages -> {"good", "invalid", "crash"}]
ASSUME DirectAssumption == DirectMsg \in [Direct -> Messages]
ASSUME LimitsAssumption == BatchSize \in Nat \ {0} /\ MaxReceive \in Nat \ {0}
ASSUME IdempotentAssumption == Idempotent \in BOOLEAN
ASSUME BoundsAssumption == MaxFaults \in Nat /\ MaxPurges \in Nat

VARIABLES
    queue,      \* Queue.messages
    sentAt,     \* place of a message in the order of sending, 0 before it is sent
    receives,   \* receive_count
    hidden,     \* messages whose visible_at lies in the future
    dead,       \* Queue.dead_letters
    deleted,    \* Queue.deleted
    call,       \* call[c]: progress of the thread c through invoke and poll_once
    busy,       \* EnvironmentPool._busy
    up,         \* addresses Docker DNS returns: the running containers
    run,        \* run[e]: the invocation environment e is working on
    late,       \* payments whose request DynamoDB may still get, its sender gone
    charges,    \* charges[o]: attribute charges of item PAYMENT#o
    recorded,   \* orders with an item IDEMPOTENCY#o
    acked,      \* history: messages deleted because they succeeded
    unpurged,   \* history: messages sent since the last purge
    faults,     \* counts to MaxFaults
    purges      \* counts to MaxPurges

queueVars == <<queue, sentAt, receives, hidden, dead, deleted, acked, unpurged>>
poolVars == <<busy, up>>
tableVars == <<charges, recorded>>
vars == <<queueVars, call, poolVars, run, late, tableVars, faults, purges>>

Callers == {poller} \cup Direct

Idle == [pc |-> "idle", env |-> None, batch |-> {}, failed |-> {}]
NoRun == [by |-> None, todo |-> {}, failed |-> {}, writing |-> None]

CallType == [pc : {"idle", "acquire", "run", "settle", "done"}, env : Envs \cup {None},
             batch : SUBSET Messages, failed : SUBSET Messages]
RunType == [by : Callers \cup {None}, todo : SUBSET Messages, failed : SUBSET Messages,
            writing : Messages \cup {None}]

TypeOK ==
    /\ queue \subseteq Messages
    /\ sentAt \in [Messages -> Nat]
    /\ receives \in [Messages -> Nat]
    /\ hidden \subseteq Messages
    /\ dead \subseteq Messages
    /\ deleted \in Nat
    /\ call \in [Callers -> CallType]
    /\ \A c \in Callers : call[c].pc = "run" <=> call[c].env # None
    /\ busy \subseteq Envs
    /\ up \subseteq Envs
    /\ run \in [Envs -> RunType]
    /\ late \subseteq Messages
    /\ charges \in [Orders -> Nat]
    /\ recorded \subseteq Orders
    /\ acked \subseteq Messages
    /\ unpurged \subseteq Messages
    /\ faults \in 0..MaxFaults
    /\ purges \in 0..MaxPurges

Init ==
    /\ queue = {} /\ hidden = {} /\ dead = {} /\ deleted = 0
    /\ sentAt = [m \in Messages |-> 0]
    /\ receives = [m \in Messages |-> 0]
    /\ acked = {} /\ unpurged = {}
    /\ call = [c \in Callers |-> Idle]
    /\ busy = {} /\ up = Envs
    /\ run = [e \in Envs |-> NoRun]
    /\ late = {}
    /\ charges = [o \in Orders |-> 0]
    /\ recorded = {}
    /\ faults = 0 /\ purges = 0

-----------------------------------------------------------------------------
(* The queue: class Queue *)

\* The messages of S that were sent before every other message of S.
First(S) == {m \in S : \A n \in S : sentAt[m] <= sentAt[n]}

\* The first BatchSize visible messages, in the order of sending.
Batch ==
    LET Visible == queue \ hidden
    IN  {m \in Visible : Cardinality({n \in Visible : sentAt[n] < sentAt[m]}) < BatchSize}

\* POST /queues/orders.  An array of bodies is a series of such steps.
Send(m) ==
    /\ sentAt[m] = 0
    /\ \A d \in Direct : DirectMsg[d] # m
    /\ queue' = queue \cup {m}
    /\ sentAt' = [sentAt EXCEPT ![m] = Cardinality({n \in Messages : sentAt[n] > 0}) + 1]
    /\ unpurged' = unpurged \cup {m}
    /\ UNCHANGED <<receives, hidden, dead, deleted, acked>>
    /\ UNCHANGED <<call, poolVars, run, late, tableVars, faults, purges>>

\* QUEUE_VISIBILITY_TIMEOUT_S after it was received, a message can be received again.
BecomeVisible(m) ==
    /\ m \in hidden
    /\ hidden' = hidden \ {m}
    /\ UNCHANGED <<queue, sentAt, receives, dead, deleted, acked, unpurged>>
    /\ UNCHANGED <<call, poolVars, run, late, tableVars, faults, purges>>

\* DELETE /queues/orders
Purge ==
    /\ purges < MaxPurges
    /\ purges' = purges + 1
    /\ queue' = {} /\ hidden' = {} /\ dead' = {} /\ deleted' = 0
    /\ unpurged' = {}
    /\ UNCHANGED <<sentAt, receives, acked>>
    /\ UNCHANGED <<call, poolVars, run, late, tableVars, faults>>

-----------------------------------------------------------------------------
(* Invoking a function: EnvironmentPool and invoke *)

\* Faulty variant: an environment is reserved without being marked.
Reserve_Unmarked(c, e) ==
    /\ busy' = busy
    /\ call' = [call EXCEPT ![c] = [@ EXCEPT !.pc = "run", !.env = e]]

\* acquire adds the address to _busy under the lock.
Reserve(c, e) ==
    /\ busy' = busy \cup {e}
    /\ call' = [call EXCEPT ![c] = [@ EXCEPT !.pc = "run", !.env = e]]

\* What the caller of invoke does with the answer: the poller settles its batch,
\* an HTTP thread passes the answer on.
Returned(c, failed) ==
    [call[c] EXCEPT !.pc = IF c = poller THEN "settle" ELSE "done", !.env = None, !.failed = failed]

\* Give the request to an idle environment.  Preferring the address seen first
\* is a matter of warm starts and left out.
Acquire(c) ==
    /\ call[c].pc = "acquire"
    /\ \E e \in up \ busy :
          /\ Reserve(c, e)
          /\ run' = [run EXCEPT ![e] = [NoRun EXCEPT !.by = c, !.todo = call[c].batch]]
    /\ UNCHANGED <<queueVars, up, late, tableVars, faults, purges>>

\* acquire returns without an address when no container runs, and an HTTP
\* thread is throttled when all are busy; the poller waits.
NotAcquired(c) ==
    /\ call[c].pc = "acquire"
    /\ up = {} \/ (up \subseteq busy /\ c # poller)
    /\ call' = [call EXCEPT ![c] = Returned(c, call[c].batch)]
    /\ UNCHANGED <<queueVars, poolVars, run, late, tableVars, faults, purges>>

\* Faulty variant: the waiters are notified, but the address stays in _busy.
Release_NotifyOnly(e) == busy' = busy

\* The function answered, with an error or without: invoke releases the
\* environment and returns.
Release(e) == busy' = busy \ {e}

\* Faulty variant: a message is charged but its failure is forgotten.
Verdict_Optimistic(c, failed, error) == failed

\* A failed invocation returns the whole batch; otherwise the failures the
\* function reports.
Verdict(c, failed, error) == IF error THEN call[c].batch ELSE failed

Answer(c) ==
    LET e == call[c].env
    IN  /\ call[c].pc = "run"
        /\ run[e].by = c /\ run[e].todo = {} /\ run[e].writing = None
        /\ call' = [call EXCEPT ![c] = Returned(c, Verdict(c, run[e].failed, FALSE))]
        /\ run' = [run EXCEPT ![e] = NoRun]
        /\ Release(e)
        /\ UNCHANGED <<queueVars, up, late, tableVars, faults, purges>>

\* Faulty variant: an invocation that writes nothing leaves a write behind.
Orphaned_Any(e) == late \cup {run[e].writing}

\* A write request of an invocation that ended is lost or reaches DynamoDB later.
Orphaned(e) == late \cup ({run[e].writing} \ {None})

\* The invocation ends with an error: an exception or a timeout.
RunError(c, e) ==
    /\ call[c].pc = "run" /\ call[c].env = e /\ run[e].by = c
    /\ call' = [call EXCEPT ![c] = Returned(c, Verdict(c, run[e].failed, TRUE))]
    /\ late' = Orphaned(e)
    /\ run' = [run EXCEPT ![e] = NoRun]
    /\ Release(e)
    /\ UNCHANGED <<queueVars, up, tableVars, purges>>

\* DynamoDB failed or refused, or the function ran into its timeout.
Unhandled(c) ==
    /\ faults < MaxFaults
    /\ faults' = faults + 1
    /\ RunError(c, call[c].env)

\* The container of e stops: its work is gone, and Docker DNS drops it.
Stop(e) ==
    /\ faults < MaxFaults
    /\ faults' = faults + 1
    /\ e \in up
    /\ up' = up \ {e}
    /\ late' = Orphaned(e)
    /\ run' = [run EXCEPT ![e] = NoRun]
    /\ UNCHANGED <<queueVars, call, busy, tableVars, purges>>

\* restart: on-failure, or docker compose up.
Start(e) ==
    /\ e \notin up
    /\ up' = up \cup {e}
    /\ UNCHANGED <<queueVars, call, busy, run, late, tableVars, faults, purges>>

\* The caller finds the connection to a stopped container broken.
ConnectionError(c) ==
    LET e == call[c].env
    IN  /\ call[c].pc = "run"
        /\ run[e].by # c
        /\ call' = [call EXCEPT ![c] = Returned(c, Verdict(c, {}, TRUE))]
        /\ Release(e)
        /\ UNCHANGED <<queueVars, up, run, late, tableVars, faults, purges>>

\* POST .../functions/lab15-processor/invocations with an event of one record.
Deliver(d) ==
    /\ call[d].pc = "idle"
    /\ call' = [call EXCEPT ![d] = [@ EXCEPT !.pc = "acquire", !.batch = {DirectMsg[d]}]]
    /\ UNCHANGED <<queueVars, poolVars, run, late, tableVars, faults, purges>>

-----------------------------------------------------------------------------
(* The processor: one invocation runs through its records in order *)

\* Faulty variant: the write has no condition.
Recorded_Never(o) == FALSE

\* ConditionExpression attribute_not_exists(pk) fails.
Recorded(o) == Idempotent /\ o \in recorded

\* DynamoDB carries out the write for m: the charge and, in the same
\* transaction, the idempotency record, unless there is one already.
Charge(m) ==
    IF Recorded(OrderOf[m])
    THEN UNCHANGED tableVars
    ELSE /\ charges' = [charges EXCEPT ![OrderOf[m]] = @ + 1]
         /\ recorded' = IF Idempotent THEN recorded \cup {OrderOf[m]} ELSE recorded

\* Faulty variant: one bad message is reported as a failure of all records.
Rejected_All(e, m) == run[e].failed \cup {m} \cup call[run[e].by].batch

\* The messages reported in batchItemFailures once m was found invalid.
Rejected(e, m) == run[e].failed \cup {m}

\* The body does not parse to a payment: report the message.
RejectRecord(e, m) ==
    /\ run[e].by # None /\ run[e].writing = None
    /\ m \in First(run[e].todo)
    /\ Kind[m] = "invalid"
    /\ run' = [run EXCEPT ![e] = [@ EXCEPT !.todo = run[e].todo \ {m}, !.failed = Rejected(e, m)]]
    /\ UNCHANGED <<queueVars, call, poolVars, late, tableVars, faults, purges>>

\* {"crash": true}: an exception leaves the handler.
CrashOnRecord(e, m) ==
    /\ run[e].by # None /\ run[e].writing = None
    /\ m \in First(run[e].todo)
    /\ Kind[m] = "crash"
    /\ RunError(run[e].by, e)
    /\ UNCHANGED faults

\* _charge sends its write to DynamoDB ...
StartCharge(e, m) ==
    /\ run[e].by # None /\ run[e].writing = None
    /\ m \in First(run[e].todo)
    /\ Kind[m] = "good"
    /\ run' = [run EXCEPT ![e] = [@ EXCEPT !.writing = m]]
    /\ UNCHANGED <<queueVars, call, poolVars, late, tableVars, faults, purges>>

\* ... which carries it out and answers "charged" or "duplicate".
FinishCharge(e) ==
    /\ run[e].writing # None
    /\ Charge(run[e].writing)
    /\ run' = [run EXCEPT ![e] = [@ EXCEPT !.todo = run[e].todo \ {run[e].writing}, !.writing = None]]
    /\ UNCHANGED <<queueVars, call, poolVars, late, faults, purges>>

\* The write of an invocation that is over still takes effect, or is lost.
LateCharge(m) ==
    /\ m \in late
    /\ late' = late \ {m}
    /\ Charge(m) \/ UNCHANGED tableVars
    /\ UNCHANGED <<queueVars, call, poolVars, run, faults, purges>>

-----------------------------------------------------------------------------
(* The event source mapping: poll_once *)

\* Receive a batch: count the receive and hide the messages.
Receive ==
    /\ call[poller].pc = "idle"
    /\ Batch # {}
    /\ receives' = [m \in Messages |-> IF m \in Batch THEN receives[m] + 1 ELSE receives[m]]
    /\ hidden' = hidden \cup Batch
    /\ call' = [call EXCEPT ![poller] = [@ EXCEPT !.pc = "acquire", !.batch = Batch]]
    /\ UNCHANGED <<queue, sentAt, dead, deleted, acked, unpurged>>
    /\ UNCHANGED <<poolVars, run, late, tableVars, faults, purges>>

\* Faulty variant: the counter does not look whether the message was there.
Delete_CountAlways(m) ==
    /\ queue' = queue \ {m}
    /\ hidden' = hidden \ {m}
    /\ deleted' = deleted + 1
    /\ acked' = acked \cup {m}
    /\ UNCHANGED <<receives, dead>>

\* A message that succeeded leaves the queue, if a purge has not emptied it.
Delete(m) ==
    /\ queue' = queue \ {m}
    /\ hidden' = hidden \ {m}
    /\ deleted' = IF m \in queue THEN deleted + 1 ELSE deleted
    /\ acked' = acked \cup {m}
    /\ UNCHANGED <<receives, dead>>

Exhausted(m) == receives[m] >= MaxReceive

\* A message that failed stays hidden until its timeout, or is dead-lettered.
Fail(m) ==
    /\ IF m \in queue /\ Exhausted(m)
       THEN queue' = queue \ {m} /\ hidden' = hidden \ {m} /\ dead' = dead \cup {m}
       ELSE UNCHANGED <<queue, hidden, dead>>
    /\ UNCHANGED <<receives, deleted, acked>>

\* One message of the batch after the other; the last one ends poll_once.
Settle(m) ==
    /\ call[poller].pc = "settle"
    /\ m \in First(call[poller].batch)
    /\ IF m \in call[poller].failed THEN Fail(m) ELSE Delete(m)
    /\ call' = [call EXCEPT ![poller] =
                   IF call[poller].batch = {m} THEN Idle
                   ELSE [call[poller] EXCEPT !.batch = call[poller].batch \ {m}]]
    /\ UNCHANGED <<sentAt, unpurged, poolVars, run, late, tableVars, faults, purges>>

-----------------------------------------------------------------------------

PollerStep ==
    \/ Receive
    \/ \E m \in Messages : Settle(m)

InvokeStep(c) == Acquire(c) \/ NotAcquired(c) \/ Answer(c) \/ ConnectionError(c)

RecordStep(e) ==
    \/ \E m \in Messages : RejectRecord(e, m) \/ CrashOnRecord(e, m) \/ StartCharge(e, m)
    \/ FinishCharge(e)

Operator ==
    \/ Purge
    \/ \E m \in Messages : Send(m)
    \/ \E d \in Direct : Deliver(d)

Failure ==
    \/ \E c \in Callers : Unhandled(c)
    \/ \E e \in Envs : Stop(e) \/ Start(e)

Next ==
    \/ Operator
    \/ PollerStep
    \/ \E c \in Callers : InvokeStep(c)
    \/ \E e \in Envs : RecordStep(e)
    \/ \E m \in Messages : BecomeVisible(m) \/ LateCharge(m)
    \/ Failure

Spec == Init /\ [][Next]_vars

\* The poller thread is never blocked, the pool's condition wakes its waiters,
\* an environment works on what it was given, and a visibility timeout ends.
Fairness ==
    /\ WF_vars(PollerStep)
    /\ \A c \in Callers : WF_vars(InvokeStep(c))
    /\ \A e \in Envs : WF_vars(RecordStep(e))
    /\ \A m \in Messages : WF_vars(BecomeVisible(m))

FairSpec == Spec /\ Fairness

-----------------------------------------------------------------------------
(* Properties *)

\* The idempotency record and the charge commit together or not at all, so that a
\* message delivered twice charges once (processor/app.py:7-8, 84-85), whatever is
\* delivered again, fails after its charge or takes effect late.
RecordedIffCharged ==
    Idempotent => \A o \in Orders : charges[o] = IF o \in recorded THEN 1 ELSE 0

\* Every message sent since the last purge is queued, dead-lettered or counted as
\* deleted, once, also when the purge comes while a batch is being processed.  It is received
\* MAX_RECEIVE_COUNT times at most and dead-lettered only then (gateway.py:14-15).
AccountsBalance ==
    /\ queue \cap dead = {}
    /\ deleted + Cardinality(queue) + Cardinality(dead) = Cardinality(unpurged)
    /\ \A m \in Messages : receives[m] <= MaxReceive
    /\ \A m \in dead : receives[m] = MaxReceive

\* The gateway sends one request at a time to each container (README.md:163),
\* and an environment is busy exactly while a call holds it.
OneCallPerEnvironment ==
    /\ \A c, d \in Callers : c # d /\ call[c].env # None => call[c].env # call[d].env
    /\ \A e \in Envs : e \in busy <=> \E c \in Callers : call[c].env = e
    /\ \A e \in Envs : run[e].by # None => call[run[e].by].env = e

\* With a partial batch response, good payments are not retried because another
\* message of their batch is bad (LAB.md:1030-1031), as long as no invocation failed:
\* no container stopped and no message was sent that crashes the function.
GoodNeverRetried ==
    faults = 0 /\ (\A m \in Messages : sentAt[m] > 0 => Kind[m] # "crash") =>
        \A m \in Messages : Kind[m] = "good" => receives[m] <= 1

\* m is a payment and its order was charged.
Charged(m) == Kind[m] = "good" /\ charges[OrderOf[m]] > 0

\* What an environment has worked off and not reported as failed is charged.
WorkDone ==
    \A e \in Envs : run[e].by # None =>
        \A m \in call[run[e].by].batch \ (run[e].todo \cup run[e].failed) : Charged(m)

WritesArePayments == \A e \in Envs : run[e].writing # None => Kind[run[e].writing] = "good"

\* What the poller is about to delete is charged.
SettledRight ==
    call[poller].pc = "settle" =>
        \A m \in call[poller].batch \ call[poller].failed : Charged(m)

DeletedWasCharged == \A m \in acked : Charged(m)

\* A payment the poller deletes from the queue was charged.  The whole way from the
\* function's loop (processor/app.py:110-119) through the answer (gateway.py:350-358)
\* to the deletion: at no point is a message taken for done that was not charged,
\* whatever answer, timeout or broken connection comes.
ChargeInv == WorkDone /\ WritesArePayments /\ SettledRight /\ DeletedWasCharged

\* A message that was sent is deleted, dead-lettered or purged: the poller never
\* stops, whatever fails (poll_queue).
EveryMessageSettles == \A m \in Messages : m \in queue ~> m \notin queue

\* The processor implements ChargeOnce.
Ledger == INSTANCE ChargeOnce WITH Orders <- Orders, charges <- charges
Implements == Ledger!Spec
=============================================================================
