---------------------------- MODULE OrderWorker ----------------------------
(***************************************************************************)
(* The work queue of lab 14: order workers (app/worker.py) compete for the  *)
(* messages of the quorum queue "orders", acknowledge a message after its   *)
(* work, retry a poison message by publishing a copy with a higher attempt  *)
(* number, and reject it to the dead letter queue after MAX_ATTEMPTS.        *)
(*                                                                          *)
(* The broker is RabbitMQ; it is modelled from what the code expects of it. *)
(* It handles an acknowledgment in the step that sends it: losing one with  *)
(* the connection is a crash before that step.                              *)
(***************************************************************************)
EXTENDS Naturals, FiniteSets

CONSTANTS
    Orders,         \* orders the producer publishes, each with its order_id
    Kind,           \* Kind[o]: what the worker makes of the body
    Workers,        \* worker containers
    None,
    Prefetch,       \* PREFETCH
    MaxAttempts,    \* MAX_ATTEMPTS
    DeliveryLimit,  \* failed deliveries a quorum queue accepts for a message
    MaxCrashes,     \* bound: crashes of workers
    MaxRefusals     \* bound: retry copies the broker does not confirm

ASSUME OrdersAssumption == IsFiniteSet(Orders)
                           /\ Kind \in [Orders -> {"good", "poison", "unreadable"}]
ASSUME WorkersAssumption == None \notin Workers
ASSUME LimitsAssumption == Prefetch \in Nat \ {0} /\ MaxAttempts \in Nat \ {0}
                           /\ DeliveryLimit \in Nat
ASSUME BoundsAssumption == MaxCrashes \in Nat /\ MaxRefusals \in Nat

VARIABLES
    ready,      \* messages in the queue, not delivered to anyone
    unacked,    \* unacked[w]: messages delivered to w and not yet settled
    task,       \* task[w]: the message in on_message of w, and how far it is
    dlq,        \* messages in the dead letter queue
    stored,     \* messages the broker has stored so far; numbers them
    sent,       \* orders the producer published and had confirmed
    worked,     \* worked[o]: times the work of order o was done
    crashes,    \* counts to MaxCrashes
    refusals    \* counts to MaxRefusals

vars == <<ready, unacked, task, dlq, stored, sent, worked, crashes, refusals>>

\* A stored message.  attempt is its header (1 without one); failed is the broker's
\* count of deliveries that ended with the channel instead of an answer.
Message == [no : Nat, order : Orders, attempt : Nat, failed : Nat]

Stages == {"idle", "received", "done", "retry", "confirmed", "giveup"}

Resting == [at |-> "idle", msg |-> None]

Tasks == {Resting} \cup [at : Stages \ {"idle"}, msg : Message]

Queued == ready \cup dlq \cup UNION {unacked[w] : w \in Workers}

TypeOK ==
    /\ ready \subseteq Message
    /\ unacked \in [Workers -> SUBSET Message]
    /\ dlq \subseteq Message
    /\ task \in [Workers -> Tasks]
    /\ \A w \in Workers : task[w].at # "idle" => task[w].msg \in unacked[w]
    /\ stored \in Nat
    /\ sent \subseteq Orders
    /\ worked \in [Orders -> Nat]
    /\ crashes \in 0..MaxCrashes
    /\ refusals \in 0..MaxRefusals

Init ==
    /\ ready = {} /\ dlq = {}
    /\ unacked = [w \in Workers |-> {}]
    /\ task = [w \in Workers |-> Resting]
    /\ stored = 0
    /\ sent = {}
    /\ worked = [o \in Orders |-> 0]
    /\ crashes = 0 /\ refusals = 0

-----------------------------------------------------------------------------
(* The broker *)

\* The producer publishes an order and gets its confirm.
Publish(o) ==
    /\ o \notin sent
    /\ sent' = sent \cup {o}
    /\ stored' = stored + 1
    /\ ready' = ready \cup {[no |-> stored + 1, order |-> o, attempt |-> 1, failed |-> 0]}
    /\ UNCHANGED <<unacked, task, dlq, worked, crashes, refusals>>

\* Push a message to a worker with less than PREFETCH unacknowledged ones.
Deliver(w) ==
    /\ Cardinality(unacked[w]) < Prefetch
    /\ \E m \in ready :
          /\ ready' = ready \ {m}
          /\ unacked' = [unacked EXCEPT ![w] = @ \cup {m}]
    /\ UNCHANGED <<task, dlq, stored, sent, worked, crashes, refusals>>

\* The message of task[w] leaves w's unacknowledged messages and w is idle again.
Settle(w) ==
    /\ unacked' = [unacked EXCEPT ![w] = @ \ {task[w].msg}]
    /\ task' = [task EXCEPT ![w] = Resting]

Ack(w) == Settle(w) /\ UNCHANGED <<ready, dlq>>

\* Faulty variant: requeue=True.
Reject_Requeue(w) ==
    /\ Settle(w)
    /\ ready' = ready \cup {task[w].msg}
    /\ UNCHANGED dlq

\* basic_reject with requeue=False: the dead letter exchange gets the message.
Reject(w) ==
    /\ Settle(w)
    /\ dlq' = dlq \cup {task[w].msg}
    /\ UNCHANGED ready

\* basic_nack with requeue=True: back to the queue, not counted as failed.
Requeue(w) ==
    /\ Settle(w)
    /\ ready' = ready \cup {task[w].msg}
    /\ UNCHANGED dlq

\* The connection of w is gone: the broker takes back what it had delivered,
\* and dead-letters what has failed too often.
TakeBack(w) ==
    LET Back == {[m EXCEPT !.failed = @ + 1] : m \in unacked[w]}
        Spent == {m \in Back : m.failed > DeliveryLimit}
    IN  /\ ready' = ready \cup (Back \ Spent)
        /\ dlq' = dlq \cup Spent
        /\ unacked' = [unacked EXCEPT ![w] = {}]

-----------------------------------------------------------------------------
(* The worker: on_message *)

Stage(w, s) == task' = [task EXCEPT ![w] = [@ EXCEPT !.at = s]]

Receive(w) ==
    /\ task[w].at = "idle"
    /\ \E m \in unacked[w] : task' = [task EXCEPT ![w] = [at |-> "received", msg |-> m]]
    /\ UNCHANGED <<ready, unacked, dlq, stored, sent, worked, crashes, refusals>>

\* The body is not an order: straight to the dead letter queue.
RejectUnreadable(w) ==
    /\ task[w].at = "received"
    /\ Kind[task[w].msg.order] = "unreadable"
    /\ Reject(w)
    /\ UNCHANGED <<stored, sent, worked, crashes, refusals>>

\* process_order succeeds ...
Work(w) ==
    /\ task[w].at = "received"
    /\ Kind[task[w].msg.order] = "good"
    /\ worked' = [worked EXCEPT ![task[w].msg.order] = @ + 1]
    /\ Stage(w, "done")
    /\ UNCHANGED <<ready, unacked, dlq, stored, sent, crashes, refusals>>

\* ... and only then the message is acknowledged.
AckWork(w) ==
    /\ task[w].at = "done"
    /\ Ack(w)
    /\ UNCHANGED <<stored, sent, worked, crashes, refusals>>

\* Faulty variant: the last attempt is retried, too.
Retryable_AtMost(m) == m.attempt <= MaxAttempts

Retryable(m) == m.attempt < MaxAttempts

\* process_order raises PoisonMessageError.
FailPoison(w) ==
    /\ task[w].at = "received"
    /\ Kind[task[w].msg.order] = "poison"
    /\ Stage(w, IF Retryable(task[w].msg) THEN "retry" ELSE "giveup")
    /\ UNCHANGED <<ready, unacked, dlq, stored, sent, worked, crashes, refusals>>

\* retry_later: the broker stores a copy with the next attempt number.
StoreCopy(w) ==
    /\ task[w].at = "retry"
    /\ stored' = stored + 1
    /\ ready' = ready \cup {[no |-> stored + 1, order |-> task[w].msg.order,
                             attempt |-> task[w].msg.attempt + 1, failed |-> 0]}
    /\ Stage(w, "confirmed")
    /\ UNCHANGED <<unacked, dlq, sent, worked, crashes, refusals>>

\* Faulty variant: the original is given back although the copy is stored.
AckOriginal_Requeue(w) ==
    /\ task[w].at = "confirmed"
    /\ Requeue(w)
    /\ UNCHANGED <<stored, sent, worked, crashes, refusals>>

\* The confirm arrived: acknowledge the original.
AckOriginal(w) ==
    /\ task[w].at = "confirmed"
    /\ Ack(w)
    /\ UNCHANGED <<stored, sent, worked, crashes, refusals>>

\* Faulty variant: the original is acknowledged without its copy.
CopyRefused_Ack(w) ==
    /\ task[w].at = "retry"
    /\ refusals < MaxRefusals
    /\ refusals' = refusals + 1
    /\ Ack(w)
    /\ UNCHANGED <<stored, sent, worked, crashes>>

\* NackError or UnroutableError: keep the original by giving it back.
CopyRefused(w) ==
    /\ task[w].at = "retry"
    /\ refusals < MaxRefusals
    /\ refusals' = refusals + 1
    /\ Requeue(w)
    /\ UNCHANGED <<stored, sent, worked, crashes>>

\* The last attempt failed.
GiveUp(w) ==
    /\ task[w].at = "giveup"
    /\ Reject(w)
    /\ UNCHANGED <<stored, sent, worked, crashes, refusals>>

\* Faulty variant: after reconnecting, on_message goes on with a message of the old
\* channel.
Crash_StaleTask(w) ==
    /\ crashes < MaxCrashes
    /\ crashes' = crashes + 1
    /\ TakeBack(w)
    /\ UNCHANGED <<task, stored, sent, worked, refusals>>

\* The worker dies, or the broker closes its connection; Docker restarts it.
Crash(w) ==
    /\ crashes < MaxCrashes
    /\ crashes' = crashes + 1
    /\ TakeBack(w)
    /\ task' = [task EXCEPT ![w] = Resting]
    /\ UNCHANGED <<stored, sent, worked, refusals>>

-----------------------------------------------------------------------------

OnMessage(w) ==
    \/ Receive(w)
    \/ RejectUnreadable(w)
    \/ Work(w) \/ AckWork(w)
    \/ FailPoison(w) \/ StoreCopy(w) \/ AckOriginal(w) \/ GiveUp(w)
    \/ CopyRefused(w)

Next ==
    \/ \E o \in Orders : Publish(o)
    \/ \E w \in Workers : Deliver(w) \/ OnMessage(w) \/ Crash(w)

Spec == Init /\ [][Next]_vars

\* The broker delivers to a worker that has room, and a worker that runs gets on
\* with its message.
Fairness == \A w \in Workers : WF_vars(Deliver(w)) /\ WF_vars(OnMessage(w))

FairSpec == Spec /\ Fairness

-----------------------------------------------------------------------------
(* Properties *)

\* Messages whose outcome is already in worked or in a stored copy.
Superseded == {task[w].msg : w \in {v \in Workers : task[v].at \in {"done", "confirmed"}}}

Live(o) == {m \in Queued \ Superseded : m.order = o}

\* Every confirmed order was worked off or is still in a queue: neither a crash nor
\* a retry copy that is refused loses one (worker.py:4, 8-9).
NoOrderLost == \A o \in sent : worked[o] > 0 \/ Live(o) # {}

\* The work of an order is done and its message held once in all, and once more for
\* each crash between the work, or the copy, and the acknowledgment (worker.py:3).
OneMorePerCrash ==
    \A o \in Orders : worked[o] + Cardinality(Live(o)) <= 1 + crashes

\* A dead letter was unreadable, failed MAX_ATTEMPTS times or took down a worker too
\* often (worker.py:6-7), and no message has more attempts than that.
DeadForAReason ==
    /\ \A m \in Queued : m.attempt <= MaxAttempts
    /\ \A m \in dlq :
          \/ Kind[m.order] = "unreadable"
          \/ Kind[m.order] = "poison" /\ m.attempt = MaxAttempts
          \/ m.failed > DeliveryLimit

\* Whatever is sent, the queue drains: a poison message does not keep the workers
\* busy for ever (worker.py:6-7).
QueueDrains == <>[](ready = {} /\ \A w \in Workers : unacked[w] = {})
=============================================================================
