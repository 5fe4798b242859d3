------------------------- MODULE OrderWorker_proofs -------------------------
(***************************************************************************)
(* Proofs about OrderWorker for any number of orders and workers, any        *)
(* prefetch and limits, any number of crashes and refused copies: type       *)
(* correctness, that no confirmed order is lost, that a dead letter is one    *)
(* for a reason, and that work is repeated only after a crash.               *)
(***************************************************************************)
EXTENDS OrderWorker, FiniteSetTheorems, TLAPS

USE OrdersAssumption, WorkersAssumption, LimitsAssumption, BoundsAssumption

-----------------------------------------------------------------------------
(* The inductive invariant *)

\* The broker has given out the numbers up to stored.
Numbered == \A m \in Queued : m.no <= stored

\* A message is in one place at a time: no two that are ready or delivered share a number.
OnePlace ==
    /\ \A m, n \in ready : m.no = n.no => m = n
    /\ \A w \in Workers : \A m, n \in unacked[w] : m.no = n.no => m = n
    /\ \A w \in Workers : \A m \in ready : \A n \in unacked[w] : m.no # n.no
    /\ \A v, w \in Workers : v # w =>
          \A m \in unacked[v] : \A n \in unacked[w] : m.no # n.no

\* Only a poison message is retried or given up, and which of the two its attempt tells.
PoisonHandled ==
    \A w \in Workers :
        /\ task[w].at \in {"retry", "confirmed"} =>
              Kind[task[w].msg.order] = "poison" /\ task[w].msg.attempt < MaxAttempts
        /\ task[w].at = "giveup" =>
              Kind[task[w].msg.order] = "poison" /\ task[w].msg.attempt = MaxAttempts

-----------------------------------------------------------------------------
(* Messages in hand *)

\* The message in on_message is one the worker has not settled.
LEMMA TaskMessage ==
    ASSUME TypeOK, NEW w \in Workers, task[w].at # "idle"
    PROVE  /\ task[w].msg \in unacked[w] /\ task[w].msg \in Message
           /\ task[w].msg \in Queued
BY DEF TypeOK, Tasks, Resting, Queued

\* What the broker takes back keeps its number, order and attempt.
LEMMA TakenBack ==
    ASSUME NEW m \in Message
    PROVE  LET b == [m EXCEPT !.failed = @ + 1]
           IN  b \in Message /\ b.no = m.no /\ b.order = m.order /\ b.attempt = m.attempt
BY DEF Message

LEMMA QueuedMessages ==
    ASSUME TypeOK
    PROVE  Queued \subseteq Message
BY DEF TypeOK, Queued

-----------------------------------------------------------------------------
(* Type correctness *)

\* Settling drops one message from w's and leaves w idle.
LEMMA SettleTypes ==
    ASSUME TypeOK, NEW w \in Workers, Settle(w)
    PROVE  /\ unacked' \in [Workers -> SUBSET Message]
           /\ task' \in [Workers -> Tasks]
           /\ \A v \in Workers : task'[v].at # "idle" => task'[v].msg \in unacked'[v]
BY DEF TypeOK, Settle, Tasks, Resting

\* A worker goes on with its message.
LEMMA StageTypes ==
    ASSUME TypeOK, NEW w \in Workers, task[w].at # "idle",
           NEW s \in Stages \ {"idle"}, Stage(w, s), UNCHANGED unacked
    PROVE  /\ task' \in [Workers -> Tasks]
           /\ \A v \in Workers : task'[v].at # "idle" => task'[v].msg \in unacked'[v]
           /\ task'[w].at = s /\ task'[w].msg = task[w].msg
           /\ \A v \in Workers \ {w} : task'[v] = task[v]
<1> DEFINE t == [task[w] EXCEPT !.at = s]
<1>1. task[w].msg \in unacked[w] /\ task[w].msg \in Message
  BY TaskMessage
<1>2. t \in Tasks /\ t.at = s /\ t.msg = task[w].msg
  BY <1>1 DEF TypeOK, Tasks, Resting, Stages
<1>3. task' = [task EXCEPT ![w] = t]
  BY DEF Stage
<1> HIDE DEF t
<1> QED
  BY <1>1, <1>2, <1>3 DEF TypeOK

\* What the broker takes back and what it dead-letters are messages.
LEMMA TakeBackTypes ==
    ASSUME TypeOK, NEW w \in Workers, TakeBack(w)
    PROVE  /\ ready' \subseteq Message /\ dlq' \subseteq Message
           /\ unacked' = [unacked EXCEPT ![w] = {}]
<1>1. unacked[w] \subseteq Message
  BY DEF TypeOK
<1>2. {[m EXCEPT !.failed = @ + 1] : m \in unacked[w]} \subseteq Message
  BY <1>1, TakenBack
<1> QED
  BY <1>2 DEF TakeBack, TypeOK

LEMMA TypeStep ==
    ASSUME TypeOK, [Next]_vars
    PROVE  TypeOK'
<1>1. ASSUME NEW o \in Orders, Publish(o) PROVE TypeOK'
  <2>1. [no |-> stored + 1, order |-> o, attempt |-> 1, failed |-> 0] \in Message
    BY DEF TypeOK, Message
  <2> QED
    BY <1>1, <2>1 DEF Publish, TypeOK
<1>2. ASSUME NEW w \in Workers, Deliver(w) PROVE TypeOK'
  BY <1>2 DEF Deliver, TypeOK
<1>3. ASSUME NEW w \in Workers, Receive(w) PROVE TypeOK'
  <2>1. PICK m \in unacked[w] : task' = [task EXCEPT ![w] = [at |-> "received", msg |-> m]]
    BY <1>3 DEF Receive
  <2>2. [at |-> "received", msg |-> m] \in Tasks
    BY DEF TypeOK, Tasks, Stages
  <2> QED
    BY <1>3, <2>1, <2>2 DEF Receive, TypeOK
<1>4. ASSUME NEW w \in Workers, task[w].at # "idle",
             Ack(w) \/ Reject(w) \/ Requeue(w),
             stored' = stored, sent' = sent, worked' = worked, crashes' = crashes,
             refusals' \in 0..MaxRefusals
      PROVE  TypeOK'
  <2>1. Settle(w)
    BY <1>4 DEF Ack, Reject, Requeue
  <2>2. ready' \subseteq Message /\ dlq' \subseteq Message
    BY <1>4, TaskMessage DEF Ack, Reject, Requeue, TypeOK
  <2> QED
    BY <1>4, <2>1, <2>2, SettleTypes DEF TypeOK
<1>5. ASSUME NEW w \in Workers, RejectUnreadable(w) \/ AckWork(w) \/ AckOriginal(w) \/ GiveUp(w)
      PROVE  TypeOK'
  BY <1>4, <1>5 DEF RejectUnreadable, AckWork, AckOriginal, GiveUp, TypeOK
<1>6. ASSUME NEW w \in Workers, CopyRefused(w) PROVE TypeOK'
  <2>1. refusals' \in 0..MaxRefusals
    BY <1>6 DEF CopyRefused, TypeOK
  <2> QED
    BY <1>4, <1>6, <2>1 DEF CopyRefused
<1>7. ASSUME NEW w \in Workers, Work(w) PROVE TypeOK'
  <2>1. task[w].msg.order \in Orders
    BY <1>7, TaskMessage DEF Work, Message
  <2>2. worked' \in [Orders -> Nat]
    BY <1>7, <2>1 DEF Work, TypeOK
  <2> QED
    BY <1>7, <2>2, StageTypes DEF Work, TypeOK, Stages
<1>8. ASSUME NEW w \in Workers, FailPoison(w) PROVE TypeOK'
  BY <1>8, StageTypes DEF FailPoison, TypeOK, Stages
<1>9. ASSUME NEW w \in Workers, StoreCopy(w) PROVE TypeOK'
  <2>1. [no |-> stored + 1, order |-> task[w].msg.order,
         attempt |-> task[w].msg.attempt + 1, failed |-> 0] \in Message
    BY <1>9, TaskMessage DEF StoreCopy, TypeOK, Message
  <2> QED
    BY <1>9, <2>1, StageTypes DEF StoreCopy, TypeOK, Stages
<1>10. ASSUME NEW w \in Workers, Crash(w) PROVE TypeOK'
  <2>1. task' \in [Workers -> Tasks]
    BY <1>10 DEF Crash, TypeOK, Tasks
  <2>2. \A v \in Workers : task'[v].at # "idle" => task'[v].msg \in unacked'[v]
    BY <1>10, TakeBackTypes DEF Crash, TypeOK, Resting
  <2> QED
    BY <1>10, <2>1, <2>2, TakeBackTypes DEF Crash, TypeOK
<1> QED
  BY <1>1, <1>2, <1>3, <1>5, <1>6, <1>7, <1>8, <1>9, <1>10
  DEF Next, OnMessage, vars, TypeOK, Queued

\* Every reachable state is well typed: a message in hand is one the worker holds.
THEOREM TypeCorrect == Spec => []TypeOK
<1>1. Init => TypeOK
  BY DEF Init, TypeOK, Tasks, Resting
<1>2. TypeOK /\ [Next]_vars => TypeOK'
  BY TypeStep
<1> QED
  BY <1>1, <1>2, PTL DEF Spec

-----------------------------------------------------------------------------
(* Where messages are *)

\* A settled message is gone, dead or back in the queue.
LEMMA Settled ==
    ASSUME TypeOK, NEW w \in Workers, task[w].at # "idle", Ack(w) \/ Reject(w) \/ Requeue(w)
    PROVE  /\ unacked' = [unacked EXCEPT ![w] = @ \ {task[w].msg}]
           /\ task' = [task EXCEPT ![w] = Resting]
           /\ ready \subseteq ready' /\ ready' \subseteq ready \cup {task[w].msg}
           /\ dlq \subseteq dlq' /\ dlq' \subseteq dlq \cup {task[w].msg}
BY DEF Ack, Reject, Requeue, Settle

LEMMA SettledPlace ==
    ASSUME TypeOK, Numbered, OnePlace, stored' = stored,
           NEW w \in Workers, task[w].at # "idle", Ack(w) \/ Reject(w) \/ Requeue(w)
    PROVE  Numbered' /\ OnePlace'
<1> DEFINE msg == task[w].msg
<1>1. msg \in unacked[w] /\ msg \in Queued
  BY TaskMessage
<1>2. /\ unacked' = [unacked EXCEPT ![w] = unacked[w] \ {msg}]
      /\ ready' \subseteq ready \cup {msg} /\ dlq' \subseteq dlq \cup {msg}
  BY Settled
<1> HIDE DEF msg
<1>3. unacked'[w] = unacked[w] \ {msg} /\ \A v \in Workers \ {w} : unacked'[v] = unacked[v]
  BY <1>2 DEF TypeOK
<1>4. Queued' \subseteq Queued
  BY <1>1, <1>2, <1>3 DEF Queued
<1>5. Numbered'
  BY <1>4 DEF Numbered
<1>6. \A m, n \in ready' : m.no = n.no => m = n
  BY <1>1, <1>2 DEF OnePlace
<1>7. \A v \in Workers : \A m, n \in unacked'[v] : m.no = n.no => m = n
  BY <1>3 DEF OnePlace
<1>8. \A v \in Workers : \A m \in ready' : \A n \in unacked'[v] : m.no # n.no
  BY <1>1, <1>2, <1>3 DEF OnePlace
<1>9. \A u, v \in Workers : u # v => \A m \in unacked'[u] : \A n \in unacked'[v] : m.no # n.no
  BY <1>3 DEF OnePlace
<1> QED
  BY <1>5, <1>6, <1>7, <1>8, <1>9 DEF OnePlace

\* A stored message gets a number of its own.
LEMMA StoredPlace ==
    ASSUME TypeOK, Numbered, OnePlace, NEW c \in Message, c.no = stored + 1,
           stored' = stored + 1, ready' = ready \cup {c}, UNCHANGED <<unacked, dlq>>
    PROVE  Numbered' /\ OnePlace'
<1>1. Queued' = Queued \cup {c}
  BY DEF Queued
<1>2. \A m \in Queued : m.no <= stored /\ m.no # c.no
  BY QueuedMessages DEF Numbered, Message, TypeOK
<1>3. Numbered'
  BY <1>1, <1>2, QueuedMessages DEF Numbered, Message, TypeOK
<1>4. \A m \in ready : m.no # c.no
  BY <1>2 DEF Queued
<1>5. \A v \in Workers : \A m \in unacked[v] : m.no # c.no
  BY <1>2 DEF Queued
<1> QED
  BY <1>3, <1>4, <1>5 DEF OnePlace

LEMMA DeliveredPlace ==
    ASSUME TypeOK, Numbered, OnePlace, NEW w \in Workers, Deliver(w)
    PROVE  Numbered' /\ OnePlace' /\ Queued' = Queued
<1>1. PICK m \in ready : /\ ready' = ready \ {m}
                         /\ unacked' = [unacked EXCEPT ![w] = @ \cup {m}]
  BY DEF Deliver
<1>2. unacked'[w] = unacked[w] \cup {m} /\ \A v \in Workers \ {w} : unacked'[v] = unacked[v]
  BY <1>1 DEF TypeOK
<1>3. Queued' = Queued
  BY <1>1, <1>2 DEF Queued, Deliver
<1>4. Numbered'
  BY <1>3 DEF Numbered, Deliver
<1>5. \A a, b \in ready' : a.no = b.no => a = b
  BY <1>1 DEF OnePlace
<1>6. \A v \in Workers : \A a, b \in unacked'[v] : a.no = b.no => a = b
  BY <1>1, <1>2 DEF OnePlace
<1>7. \A v \in Workers : \A a \in ready' : \A b \in unacked'[v] : a.no # b.no
  BY <1>1, <1>2 DEF OnePlace
<1>8. \A u, v \in Workers : u # v => \A a \in unacked'[u] : \A b \in unacked'[v] : a.no # b.no
  BY <1>1, <1>2 DEF OnePlace
<1> QED
  BY <1>3, <1>4, <1>5, <1>6, <1>7, <1>8 DEF OnePlace

\* After a crash each message of w is back under its number, ready or dead.
LEMMA CrashedMessages ==
    ASSUME TypeOK, NEW w \in Workers, TakeBack(w)
    PROVE  /\ \A m \in ready' \ ready : \E n \in unacked[w] :
                 m.no = n.no /\ m.order = n.order /\ m.attempt = n.attempt
                    /\ m = [n EXCEPT !.failed = @ + 1]
           /\ \A m \in dlq' \ dlq : \E n \in unacked[w] :
                 /\ m.no = n.no /\ m.order = n.order /\ m.attempt = n.attempt
                 /\ m.failed > DeliveryLimit
           /\ \A n \in unacked[w] : \E m \in ready' \cup dlq' :
                 m.no = n.no /\ m.order = n.order /\ m.attempt = n.attempt
           /\ ready \subseteq ready' /\ dlq \subseteq dlq'
           /\ unacked'[w] = {} /\ \A v \in Workers \ {w} : unacked'[v] = unacked[v]
<1>1. unacked[w] \subseteq Message
  BY DEF TypeOK
<1>2. \A n \in unacked[w] :
         LET b == [n EXCEPT !.failed = @ + 1]
         IN  b \in Message /\ b.no = n.no /\ b.order = n.order /\ b.attempt = n.attempt
  BY <1>1, TakenBack
<1>3. \A m \in (ready' \ ready) \cup (dlq' \ dlq) :
         \E n \in unacked[w] : m = [n EXCEPT !.failed = @ + 1]
  BY DEF TakeBack
<1>4. \A m \in dlq' \ dlq : m.failed > DeliveryLimit
  BY DEF TakeBack
<1>5. \A n \in unacked[w] : [n EXCEPT !.failed = @ + 1] \in ready' \cup dlq'
  BY DEF TakeBack
<1>6. unacked'[w] = {} /\ \A v \in Workers \ {w} : unacked'[v] = unacked[v]
  BY DEF TakeBack, TypeOK
<1>7. ready \subseteq ready' /\ dlq \subseteq dlq'
  BY DEF TakeBack
<1>8. ASSUME NEW n \in unacked[w]
      PROVE  \E m \in ready' \cup dlq' : m.no = n.no /\ m.order = n.order /\ m.attempt = n.attempt
  <2>1. PICK m \in ready' \cup dlq' : m = [n EXCEPT !.failed = @ + 1]
    BY <1>5
  <2> QED
    BY <1>2, <2>1
<1>9. ASSUME NEW m \in (ready' \ ready) \cup (dlq' \ dlq)
      PROVE  \E n \in unacked[w] : /\ m.no = n.no /\ m.order = n.order /\ m.attempt = n.attempt
                                    /\ m = [n EXCEPT !.failed = @ + 1]
  <2>1. PICK n \in unacked[w] : m = [n EXCEPT !.failed = @ + 1]
    BY <1>3
  <2> QED
    BY <1>2, <2>1
<1>10. \A m \in dlq' \ dlq : \E n \in unacked[w] :
          /\ m.no = n.no /\ m.order = n.order /\ m.attempt = n.attempt
          /\ m.failed > DeliveryLimit
  BY <1>4, <1>9
<1> QED
  BY <1>6, <1>7, <1>8, <1>9, <1>10

LEMMA CrashedPlace ==
    ASSUME TypeOK, Numbered, OnePlace, NEW w \in Workers, Crash(w)
    PROVE  Numbered' /\ OnePlace'
<1>1. TakeBack(w) /\ stored' = stored
  BY DEF Crash
<1>2. unacked'[w] = {} /\ \A v \in Workers \ {w} : unacked'[v] = unacked[v]
  BY <1>1, CrashedMessages
<1>3. \A m \in Queued' : \E n \in Queued : m.no = n.no
  <2>1. \A m \in ready' \cup dlq' : \E n \in Queued : m.no = n.no
    BY <1>1, CrashedMessages DEF Queued
  <2>2. \A v \in Workers : \A m \in unacked'[v] : m \in Queued
    BY <1>2 DEF Queued
  <2> QED
    BY <2>1, <2>2 DEF Queued
<1>4. Numbered'
  BY <1>1, <1>3 DEF Numbered
<1>5. \A m, n \in ready' : m.no = n.no => m = n
  <2> SUFFICES ASSUME NEW m \in ready', NEW n \in ready', m.no = n.no PROVE m = n
    OBVIOUS
  <2>1. CASE m \in ready /\ n \in ready
    BY <2>1 DEF OnePlace
  <2>2. CASE m \in ready /\ n \notin ready
    BY <1>1, <2>2, CrashedMessages DEF OnePlace
  <2>3. CASE m \notin ready /\ n \in ready
    <3>1. PICK a \in unacked[w] : m.no = a.no
      BY <1>1, <2>3, CrashedMessages
    <3> QED
      BY <2>3, <3>1 DEF OnePlace
  <2>4. CASE m \notin ready /\ n \notin ready
    <3>1. PICK a \in unacked[w] : m.no = a.no /\ m = [a EXCEPT !.failed = @ + 1]
      BY <1>1, <2>4, CrashedMessages
    <3>2. PICK b \in unacked[w] : n.no = b.no /\ n = [b EXCEPT !.failed = @ + 1]
      BY <1>1, <2>4, CrashedMessages
    <3>3. a = b
      BY <3>1, <3>2 DEF OnePlace
    <3> QED
      BY <3>1, <3>2, <3>3
  <2> QED
    BY <2>1, <2>2, <2>3, <2>4
<1>6. \A v \in Workers : \A m, n \in unacked'[v] : m.no = n.no => m = n
  BY <1>2 DEF OnePlace
<1>7. \A v \in Workers : \A m \in ready' : \A n \in unacked'[v] : m.no # n.no
  <2> SUFFICES ASSUME NEW v \in Workers \ {w}, NEW m \in ready', NEW n \in unacked[v]
               PROVE  m.no # n.no
    BY <1>2
  <2>1. CASE m \in ready
    BY <2>1 DEF OnePlace
  <2>2. CASE m \notin ready
    BY <1>1, <2>2, CrashedMessages DEF OnePlace
  <2> QED
    BY <2>1, <2>2
<1>8. \A u, v \in Workers : u # v => \A m \in unacked'[u] : \A n \in unacked'[v] : m.no # n.no
  BY <1>2 DEF OnePlace
<1> QED
  BY <1>4, <1>5, <1>6, <1>7, <1>8 DEF OnePlace

LEMMA PlaceStep ==
    ASSUME TypeOK, Numbered, OnePlace, [Next]_vars
    PROVE  Numbered' /\ OnePlace'
<1>1. ASSUME NEW o \in Orders, Publish(o) PROVE Numbered' /\ OnePlace'
  <2> DEFINE c == [no |-> stored + 1, order |-> o, attempt |-> 1, failed |-> 0]
  <2>1. c \in Message /\ c.no = stored + 1
    BY DEF Message, TypeOK
  <2>2. stored' = stored + 1 /\ ready' = ready \cup {c} /\ UNCHANGED <<unacked, dlq>>
    BY <1>1 DEF Publish
  <2> HIDE DEF c
  <2> QED
    BY <2>1, <2>2, StoredPlace
<1>2. ASSUME NEW w \in Workers, StoreCopy(w) PROVE Numbered' /\ OnePlace'
  <2>1. PICK c : c = [no |-> stored + 1, order |-> task[w].msg.order,
                      attempt |-> task[w].msg.attempt + 1, failed |-> 0]
    OBVIOUS
  <2>2. c \in Message /\ c.no = stored + 1
    BY <1>2, <2>1, TaskMessage DEF StoreCopy, Message, TypeOK
  <2>3. stored' = stored + 1 /\ ready' = ready \cup {c} /\ UNCHANGED <<unacked, dlq>>
    BY <1>2, <2>1 DEF StoreCopy
  <2> QED
    BY <2>2, <2>3, StoredPlace
<1>3. ASSUME NEW w \in Workers,
             RejectUnreadable(w) \/ AckWork(w) \/ AckOriginal(w) \/ GiveUp(w) \/ CopyRefused(w)
      PROVE  Numbered' /\ OnePlace'
  BY <1>3, SettledPlace DEF RejectUnreadable, AckWork, AckOriginal, GiveUp, CopyRefused
<1>4. ASSUME UNCHANGED <<ready, unacked, dlq, stored>> PROVE Numbered' /\ OnePlace'
  BY <1>4 DEF Numbered, OnePlace, Queued
<1> QED
  BY <1>1, <1>2, <1>3, <1>4, DeliveredPlace, CrashedPlace
  DEF Next, OnMessage, vars, Receive, Work, FailPoison

-----------------------------------------------------------------------------
(* No confirmed order is lost *)

\* What one step must do to the messages of the orders confirmed so far.
LEMMA StillThere ==
    ASSUME NoOrderLost, sent' = sent, \A o \in Orders : worked[o] > 0 => worked'[o] > 0,
           sent \subseteq Orders,
           \A o \in Orders : Live(o) # {} => Live(o)' # {} \/ worked'[o] > 0
    PROVE  NoOrderLost'
BY DEF NoOrderLost

\* Settling a message that was worked off or copied, or that stays queued, loses nothing.
LEMMA SettledLive ==
    ASSUME TypeOK, NoOrderLost, sent' = sent, worked' = worked,
           NEW w \in Workers, task[w].at # "idle",
           \/ Ack(w) /\ task[w].at \in {"done", "confirmed"}
           \/ Reject(w) \/ Requeue(w)
    PROVE  NoOrderLost'
<1> DEFINE msg == task[w].msg
<1>1. /\ unacked' = [unacked EXCEPT ![w] = unacked[w] \ {msg}]
      /\ task' = [task EXCEPT ![w] = Resting]
      /\ ready \subseteq ready' /\ dlq \subseteq dlq'
      /\ msg \in Superseded \/ msg \in ready' \cup dlq'
  BY Settled DEF Reject, Requeue, Superseded
<1> HIDE DEF msg
<1>2. \A v \in Workers \ {w} : unacked'[v] = unacked[v] /\ task'[v] = task[v]
  BY <1>1 DEF TypeOK
<1>3. unacked'[w] = unacked[w] \ {msg} /\ task'[w] = Resting
  BY <1>1 DEF TypeOK
<1>4. Superseded' \subseteq Superseded
  BY <1>2, <1>3 DEF Superseded, Resting
<1>5. Queued \ Superseded \subseteq Queued'
  BY <1>1, <1>2, <1>3 DEF Queued
<1>6. \A o \in Orders : Live(o) \subseteq Live(o)'
  BY <1>4, <1>5 DEF Live
<1> QED
  BY <1>6, StillThere DEF TypeOK

\* A new message is not superseded.
LEMMA StoredLive ==
    ASSUME TypeOK, Numbered, NEW c \in Message, c.no = stored + 1,
           ready' = ready \cup {c}, UNCHANGED <<unacked, dlq>>,
           \A v \in Workers : task'[v].at \in {"done", "confirmed"} => task'[v].msg \in unacked[v],
           NEW gone \in SUBSET Queued, Superseded' \subseteq Superseded \cup gone
    PROVE  c \in Live(c.order)' /\ \A o \in Orders : Live(o) \ gone \subseteq Live(o)'
<1>1. Queued' = Queued \cup {c}
  BY DEF Queued
<1>2. c \notin Queued
  BY QueuedMessages DEF Numbered, TypeOK, Message
<1>3. Superseded' \subseteq Queued
  BY DEF Superseded, Queued
<1> QED
  BY <1>1, <1>2, <1>3 DEF Live

\* A crash leaves a live message of each order live: its copies are not in other hands.
LEMMA CrashedLive ==
    ASSUME TypeOK, OnePlace, NoOrderLost, NEW w \in Workers, Crash(w)
    PROVE  NoOrderLost'
<1>1. TakeBack(w) /\ sent' = sent /\ worked' = worked /\ task' = [task EXCEPT ![w] = Resting]
  BY DEF Crash
<1>2. task'[w] = Resting /\ \A v \in Workers \ {w} : task'[v] = task[v]
  BY <1>1 DEF TypeOK
<1>3. Superseded' \subseteq Superseded
  BY <1>2 DEF Superseded, Resting
<1>4. \A m \in Superseded' : \E v \in Workers \ {w} : m \in unacked[v]
  BY <1>2, TaskMessage DEF Superseded, Resting
<1>5. ASSUME NEW o \in Orders, Live(o) # {} PROVE Live(o)' # {}
  <2>1. PICK m \in Live(o) : TRUE
    BY <1>5
  <2>2. m \in Queued /\ m \notin Superseded /\ m.order = o
    BY <2>1 DEF Live
  <2>3. CASE m \in unacked[w]
    <3>1. PICK b \in ready' \cup dlq' : b.no = m.no /\ b.order = o
      BY <1>1, <2>2, <2>3, CrashedMessages
    <3>2. b \notin Superseded'
      BY <1>4, <2>3, <3>1 DEF OnePlace
    <3> QED
      BY <3>1, <3>2 DEF Live, Queued
  <2>4. CASE m \notin unacked[w]
    <3>1. m \in Queued'
      BY <1>1, <2>2, <2>4, CrashedMessages DEF Queued
    <3> QED
      BY <1>3, <2>2, <3>1 DEF Live
  <2> QED
    BY <2>3, <2>4
<1> QED
  BY <1>1, <1>5, StillThere DEF TypeOK

LEMMA LostStep ==
    ASSUME TypeOK, Numbered, OnePlace, NoOrderLost, [Next]_vars
    PROVE  NoOrderLost'
<1>1. ASSUME NEW o \in Orders, Publish(o) PROVE NoOrderLost'
  <2>1. PICK c : c = [no |-> stored + 1, order |-> o, attempt |-> 1, failed |-> 0]
    OBVIOUS
  <2>2. c \in Message /\ c.no = stored + 1 /\ c.order = o
    BY <2>1 DEF Message, TypeOK
  <2>3. ready' = ready \cup {c} /\ UNCHANGED <<unacked, dlq, task, worked>> /\ sent' = sent \cup {o}
    BY <1>1, <2>1 DEF Publish
  <2>4. \A v \in Workers : task'[v].at \in {"done", "confirmed"} => task'[v].msg \in unacked[v]
    BY <2>3, TaskMessage
  <2>5. Superseded' \subseteq Superseded \cup {}
    BY <2>3 DEF Superseded
  <2>6. c \in Live(o)' /\ \A p \in Orders : Live(p) \ {} \subseteq Live(p)'
    BY <2>2, <2>3, <2>4, <2>5, StoredLive
  <2> QED
    BY <2>3, <2>6 DEF NoOrderLost, TypeOK
<1>2. ASSUME NEW w \in Workers, StoreCopy(w) PROVE NoOrderLost'
  <2>1. PICK c : c = [no |-> stored + 1, order |-> task[w].msg.order,
                      attempt |-> task[w].msg.attempt + 1, failed |-> 0]
    OBVIOUS
  <2>2. c \in Message /\ c.no = stored + 1 /\ c.order = task[w].msg.order
    BY <1>2, <2>1, TaskMessage DEF StoreCopy, Message, TypeOK
  <2>3. ready' = ready \cup {c} /\ UNCHANGED <<unacked, dlq, worked, sent>>
    BY <1>2, <2>1 DEF StoreCopy
  <2>4. /\ \A v \in Workers : task'[v].at # "idle" => task'[v].msg \in unacked[v]
        /\ task'[w].msg = task[w].msg /\ \A v \in Workers \ {w} : task'[v] = task[v]
    BY <1>2, <2>3, StageTypes DEF StoreCopy, Stages
  <2>5. Superseded' \subseteq Superseded \cup {task[w].msg}
    BY <2>4 DEF Superseded
  <2>6. {task[w].msg} \subseteq Queued
    BY <1>2, TaskMessage DEF StoreCopy
  <2>7. c \in Live(c.order)' /\ \A p \in Orders : Live(p) \ {task[w].msg} \subseteq Live(p)'
    BY <2>2, <2>3, <2>4, <2>5, <2>6, StoredLive
  <2>8. ASSUME NEW o \in Orders, Live(o) # {} PROVE Live(o)' # {}
    BY <2>2, <2>7, <2>8 DEF Live
  <2> QED
    BY <2>3, <2>8, StillThere DEF TypeOK
<1>3. ASSUME NEW w \in Workers,
             RejectUnreadable(w) \/ AckWork(w) \/ AckOriginal(w) \/ GiveUp(w) \/ CopyRefused(w)
      PROVE  NoOrderLost'
  BY <1>3, SettledLive DEF RejectUnreadable, AckWork, AckOriginal, GiveUp, CopyRefused
<1>4. ASSUME NEW w \in Workers, Work(w) PROVE NoOrderLost'
  <2>1. task[w].msg.order \in Orders
    BY <1>4, TaskMessage DEF Work, Message
  <2>2. /\ worked'[task[w].msg.order] > 0
        /\ \A o \in Orders : worked[o] > 0 => worked'[o] > 0
    BY <1>4, <2>1 DEF Work, TypeOK
  <2>3. task'[w].msg = task[w].msg /\ \A v \in Workers \ {w} : task'[v] = task[v]
    BY <1>4, StageTypes DEF Work, Stages
  <2>4. Superseded' \subseteq Superseded \cup {task[w].msg}
    BY <2>3 DEF Superseded
  <2>5. Queued' = Queued
    BY <1>4 DEF Work, Queued
  <2>6. \A o \in Orders : Live(o) # {} => Live(o)' # {} \/ worked'[o] > 0
    BY <2>2, <2>4, <2>5 DEF Live
  <2> QED
    BY <1>4, <2>2, <2>6, StillThere DEF Work, TypeOK
<1>5. ASSUME NEW w \in Workers, FailPoison(w) PROVE NoOrderLost'
  <2>1. /\ task'[w].at \in {"retry", "giveup"} /\ task'[w].msg = task[w].msg
        /\ \A v \in Workers \ {w} : task'[v] = task[v]
    BY <1>5, StageTypes DEF FailPoison, Stages
  <2>2. Superseded' \subseteq Superseded
    BY <2>1 DEF Superseded
  <2> QED
    BY <1>5, <2>2, StillThere DEF FailPoison, Live, Queued, TypeOK
<1>6. ASSUME NEW w \in Workers, Receive(w) PROVE NoOrderLost'
  <2>1. task'[w].at = "received" /\ \A v \in Workers \ {w} : task'[v] = task[v]
    BY <1>6 DEF Receive, TypeOK
  <2>2. Superseded' \subseteq Superseded
    BY <2>1 DEF Superseded
  <2> QED
    BY <1>6, <2>2, StillThere DEF Receive, Live, Queued, TypeOK
<1>7. ASSUME NEW w \in Workers, Deliver(w) PROVE NoOrderLost'
  <2>1. Queued' = Queued /\ Superseded' = Superseded
    BY <1>7, DeliveredPlace DEF Deliver, Superseded
  <2> QED
    BY <1>7, <2>1, StillThere DEF Deliver, Live, TypeOK
<1>8. ASSUME UNCHANGED vars PROVE NoOrderLost'
  BY <1>8 DEF vars, NoOrderLost, Live, Queued, Superseded
<1> QED
  BY <1>1, <1>2, <1>3, <1>4, <1>5, <1>6, <1>7, <1>8, CrashedLive DEF Next, OnMessage

\* worker.py:4, 8-9: an order whose publication was confirmed is worked off or still in a
\* queue, however often workers die and copies are refused.
THEOREM OrdersAreNeverLost == Spec => []NoOrderLost
<1> DEFINE Inv == TypeOK /\ Numbered /\ OnePlace /\ NoOrderLost
<1>1. Init => Inv
  BY DEF Init, TypeOK, Tasks, Resting, Numbered, OnePlace, NoOrderLost, Queued
<1>2. Inv /\ [Next]_vars => Inv'
  BY TypeStep, PlaceStep, LostStep
<1>3. Inv => NoOrderLost
  OBVIOUS
<1> QED
  BY <1>1, <1>2, <1>3, PTL DEF Spec

-----------------------------------------------------------------------------
(* Why a message is dead *)

Reason(m) ==
    \/ Kind[m.order] = "unreadable"
    \/ Kind[m.order] = "poison" /\ m.attempt = MaxAttempts
    \/ m.failed > DeliveryLimit

\* It is enough to look at what the step adds.
LEMMA NewlyDead ==
    ASSUME DeadForAReason,
           \A m \in Queued' : m \in Queued \/ m.attempt <= MaxAttempts,
           \A m \in dlq' : m \in dlq \/ Reason(m)
    PROVE  DeadForAReason'
BY DEF DeadForAReason, Reason

LEMMA PoisonStep ==
    ASSUME TypeOK, DeadForAReason, PoisonHandled, [Next]_vars
    PROVE  PoisonHandled'
<1>1. ASSUME NEW w \in Workers, task'[w].at \notin {"retry", "confirmed", "giveup"},
             \A v \in Workers \ {w} : task'[v] = task[v]
      PROVE  PoisonHandled'
  BY <1>1 DEF PoisonHandled
<1>2. ASSUME NEW w \in Workers, task' = [task EXCEPT ![w] = Resting] PROVE PoisonHandled'
  BY <1>1, <1>2 DEF TypeOK, Resting
<1>3. ASSUME NEW w \in Workers, Receive(w) PROVE PoisonHandled'
  BY <1>1, <1>3 DEF Receive, TypeOK
<1>4. ASSUME NEW w \in Workers, Work(w) PROVE PoisonHandled'
  BY <1>1, <1>4, StageTypes DEF Work, Stages
<1>5. ASSUME NEW w \in Workers, FailPoison(w) PROVE PoisonHandled'
  <2>1. /\ task'[w].at = IF Retryable(task[w].msg) THEN "retry" ELSE "giveup"
        /\ task'[w].msg = task[w].msg /\ \A v \in Workers \ {w} : task'[v] = task[v]
    BY <1>5, StageTypes DEF FailPoison, Stages
  <2>2. task[w].msg.attempt \in Nat /\ task[w].msg.attempt <= MaxAttempts
    BY <1>5, TaskMessage DEF FailPoison, Message, DeadForAReason
  <2>3. Kind[task[w].msg.order] = "poison"
    BY <1>5 DEF FailPoison
  <2> QED
    BY <2>1, <2>2, <2>3 DEF PoisonHandled, Retryable
<1>6. ASSUME NEW w \in Workers, StoreCopy(w) PROVE PoisonHandled'
  <2>1. /\ task'[w].at = "confirmed" /\ task[w].at = "retry"
        /\ task'[w].msg = task[w].msg /\ \A v \in Workers \ {w} : task'[v] = task[v]
    BY <1>6, StageTypes DEF StoreCopy, Stages
  <2> QED
    BY <2>1 DEF PoisonHandled
<1>7. ASSUME UNCHANGED task PROVE PoisonHandled'
  BY <1>7 DEF PoisonHandled
<1> QED
  BY <1>2, <1>3, <1>4, <1>5, <1>6, <1>7
  DEF Next, OnMessage, vars, Publish, Deliver, RejectUnreadable, AckWork, AckOriginal, GiveUp,
      CopyRefused, Ack, Reject, Requeue, Settle, Crash

LEMMA DeadStep ==
    ASSUME TypeOK, DeadForAReason, PoisonHandled, Numbered, OnePlace, [Next]_vars
    PROVE  DeadForAReason'
<1>1. ASSUME NEW o \in Orders, Publish(o) PROVE DeadForAReason'
  BY <1>1, NewlyDead DEF Publish, Queued
<1>2. ASSUME NEW w \in Workers, Deliver(w) PROVE DeadForAReason'
  BY <1>2, NewlyDead, DeliveredPlace DEF Deliver
<1>3. ASSUME NEW w \in Workers, task[w].at # "idle", Ack(w) \/ Requeue(w) \/ Reject(w),
             Reject(w) => Reason(task[w].msg)
      PROVE  DeadForAReason'
  <2>1. /\ unacked' = [unacked EXCEPT ![w] = @ \ {task[w].msg}]
        /\ ready' \subseteq ready \cup {task[w].msg} /\ dlq' \subseteq dlq \cup {task[w].msg}
        /\ task[w].msg \in Queued
    BY <1>3, Settled, TaskMessage
  <2>2. Queued' \subseteq Queued
    BY <2>1 DEF Queued, TypeOK
  <2>3. \A m \in dlq' : m \in dlq \/ Reason(m)
    BY <1>3 DEF Ack, Requeue, Reject
  <2> QED
    BY <2>2, <2>3, NewlyDead
<1>4. ASSUME NEW w \in Workers, AckWork(w) \/ AckOriginal(w) \/ CopyRefused(w)
      PROVE  DeadForAReason'
  <2>1. task[w].at # "idle" /\ (Ack(w) \/ Requeue(w)) /\ dlq' = dlq
    BY <1>4 DEF AckWork, AckOriginal, CopyRefused, Ack, Requeue
  <2>2. Reject(w) => dlq' = dlq /\ task[w].msg \in dlq
    BY <2>1 DEF Reject
  <2> QED
    BY <1>3, <2>1, <2>2 DEF DeadForAReason, Reason
<1>5. ASSUME NEW w \in Workers, RejectUnreadable(w) PROVE DeadForAReason'
  BY <1>3, <1>5 DEF RejectUnreadable, Reason
<1>6. ASSUME NEW w \in Workers, GiveUp(w) PROVE DeadForAReason'
  BY <1>3, <1>6 DEF GiveUp, Reason, PoisonHandled
<1>7. ASSUME NEW w \in Workers, StoreCopy(w) PROVE DeadForAReason'
  <2>1. task[w].msg.attempt + 1 <= MaxAttempts
    BY <1>7, TaskMessage DEF StoreCopy, PoisonHandled, Message
  <2> QED
    BY <1>7, <2>1, NewlyDead DEF StoreCopy, Queued
<1>8. ASSUME NEW w \in Workers, Crash(w) PROVE DeadForAReason'
  <2>1. TakeBack(w)
    BY <1>8 DEF Crash
  <2>2. \A m \in unacked[w] : m.attempt <= MaxAttempts
    BY DEF DeadForAReason, Queued
  <2>3. \A m \in Queued' : m \in Queued \/ m.attempt <= MaxAttempts
    BY <2>1, <2>2, CrashedMessages DEF Queued
  <2>4. \A m \in dlq' : m \in dlq \/ Reason(m)
    BY <2>1, CrashedMessages DEF Reason
  <2> QED
    BY <2>3, <2>4, NewlyDead
<1>9. ASSUME UNCHANGED <<ready, unacked, dlq>> PROVE DeadForAReason'
  BY <1>9 DEF DeadForAReason, Queued
<1> QED
  BY <1>1, <1>2, <1>4, <1>5, <1>6, <1>7, <1>8, <1>9
  DEF Next, OnMessage, vars, Receive, Work, FailPoison

\* worker.py:6-7: a message is retried no more than MAX_ATTEMPTS times, and one in the dead
\* letter queue was unreadable, failed that often or took down a worker too often.
THEOREM DeadLettersHaveAReason == Spec => []DeadForAReason
<1> DEFINE Inv == TypeOK /\ Numbered /\ OnePlace /\ PoisonHandled /\ DeadForAReason
<1>1. Init => Inv
  BY DEF Init, TypeOK, Tasks, Resting, Numbered, OnePlace, PoisonHandled, DeadForAReason, Queued
<1>2. Inv /\ [Next]_vars => Inv'
  BY TypeStep, PlaceStep, PoisonStep, DeadStep
<1>3. Inv => DeadForAReason
  OBVIOUS
<1> QED
  BY <1>1, <1>2, <1>3, PTL DEF Spec

-----------------------------------------------------------------------------
(* How often work is repeated *)

\* A dead letter is not in the queue or in a worker's hands any more.
DeadApart ==
    /\ \A m \in dlq : \A n \in ready : m.no # n.no
    /\ \A w \in Workers : \A m \in dlq : \A n \in unacked[w] : m.no # n.no

\* Nothing is known of an order before it is published.
Unknown == \A o \in Orders \ sent : worked[o] = 0 /\ \A m \in Queued : m.order # o

\* The work done and the messages held for an order.
Counted ==
    \A o \in Orders :
        /\ IsFiniteSet(Live(o))
        /\ worked[o] + Cardinality(Live(o)) <= 1 + crashes

LEMMA ApartStep ==
    ASSUME TypeOK, Numbered, OnePlace, DeadApart, [Next]_vars
    PROVE  DeadApart'
<1>0. \A v \in Workers : unacked[v] \subseteq Message
  BY DEF TypeOK
<1>1. ASSUME NEW c \in Message, c.no = stored + 1, ready' = ready \cup {c}, UNCHANGED <<unacked, dlq>>
      PROVE  DeadApart'
  <2>1. \A m \in dlq : m.no <= stored /\ m.no # c.no
    BY <1>1, QueuedMessages DEF Numbered, Queued, Message, TypeOK
  <2> QED
    BY <1>1, <2>1 DEF DeadApart
<1>2. ASSUME NEW o \in Orders, Publish(o) PROVE DeadApart'
  <2>1. PICK c : c = [no |-> stored + 1, order |-> o, attempt |-> 1, failed |-> 0]
    OBVIOUS
  <2>2. c \in Message /\ c.no = stored + 1
    BY <2>1 DEF Message, TypeOK
  <2> QED
    BY <1>1, <1>2, <2>1, <2>2 DEF Publish
<1>3. ASSUME NEW w \in Workers, StoreCopy(w) PROVE DeadApart'
  <2>1. PICK c : c = [no |-> stored + 1, order |-> task[w].msg.order,
                      attempt |-> task[w].msg.attempt + 1, failed |-> 0]
    OBVIOUS
  <2>2. c \in Message /\ c.no = stored + 1
    BY <1>3, <2>1, TaskMessage DEF StoreCopy, Message, TypeOK
  <2> QED
    BY <1>1, <1>3, <2>1, <2>2 DEF StoreCopy
<1>4. ASSUME NEW w \in Workers, Deliver(w) PROVE DeadApart'
  <2>1. PICK m \in ready : /\ ready' = ready \ {m}
                           /\ unacked' = [unacked EXCEPT ![w] = @ \cup {m}]
    BY <1>4 DEF Deliver
  <2>2. unacked'[w] = unacked[w] \cup {m} /\ \A v \in Workers \ {w} : unacked'[v] = unacked[v]
    BY <2>1 DEF TypeOK
  <2> QED
    BY <1>4, <2>1, <2>2 DEF Deliver, DeadApart
<1>5. ASSUME NEW w \in Workers,
             RejectUnreadable(w) \/ AckWork(w) \/ AckOriginal(w) \/ GiveUp(w) \/ CopyRefused(w)
      PROVE  DeadApart'
  <2>1. task[w].at # "idle" /\ (Ack(w) \/ Reject(w) \/ Requeue(w))
    BY <1>5 DEF RejectUnreadable, AckWork, AckOriginal, GiveUp, CopyRefused
  <2>2. PICK msg : msg = task[w].msg /\ msg \in unacked[w]
    BY <2>1, TaskMessage
  <2>3. unacked'[w] = unacked[w] \ {msg} /\ \A v \in Workers \ {w} : unacked'[v] = unacked[v]
    BY <2>1, <2>2, Settled DEF TypeOK
  <2>4. \/ ready' = ready /\ dlq' \subseteq dlq \cup {msg}
        \/ ready' = ready \cup {msg} /\ dlq' = dlq
    BY <2>1, <2>2 DEF Ack, Reject, Requeue
  <2>5. \A m \in dlq' : \A n \in ready' : m.no # n.no
    BY <2>2, <2>4 DEF DeadApart, OnePlace
  <2>6. \A v \in Workers : \A m \in dlq' : \A n \in unacked'[v] : m.no # n.no
    BY <2>2, <2>3, <2>4 DEF DeadApart, OnePlace
  <2> QED
    BY <2>5, <2>6 DEF DeadApart
<1>6. ASSUME NEW w \in Workers, Crash(w) PROVE DeadApart'
  <2>1. TakeBack(w)
    BY <1>6 DEF Crash
  <2>2. unacked'[w] = {} /\ \A v \in Workers \ {w} : unacked'[v] = unacked[v]
    BY <2>1, CrashedMessages
  <2>3. \A v \in Workers : \A m \in dlq' : \A n \in unacked'[v] : m.no # n.no
    BY <2>1, <2>2, CrashedMessages DEF DeadApart, OnePlace
  <2>4. ASSUME NEW m \in dlq', NEW n \in ready' PROVE m.no # n.no
    <3>1. CASE m \in dlq
      BY <2>1, <3>1, CrashedMessages DEF DeadApart
    <3>2. CASE m \notin dlq /\ n \in ready
      BY <2>1, <3>2, CrashedMessages DEF OnePlace
    <3>3. CASE m \notin dlq /\ n \notin ready
      <4>1. /\ \E a \in unacked[w] : m = [a EXCEPT !.failed = @ + 1] /\ m.failed > DeliveryLimit
            /\ \E b \in unacked[w] : n = [b EXCEPT !.failed = @ + 1] /\ ~(n.failed > DeliveryLimit)
        BY <2>1, <3>3 DEF TakeBack
      <4>2. PICK a \in unacked[w], b \in unacked[w] :
               /\ m = [a EXCEPT !.failed = @ + 1] /\ n = [b EXCEPT !.failed = @ + 1]
               /\ m.failed > DeliveryLimit /\ ~(n.failed > DeliveryLimit)
        BY <4>1
      <4>3. m.no = a.no /\ n.no = b.no
        BY <1>0, <4>2, TakenBack
      <4>4. a # b
        BY <4>2
      <4> QED
        BY <4>3, <4>4 DEF OnePlace
    <3> QED
      BY <3>1, <3>2, <3>3
  <2> QED
    BY <2>3, <2>4 DEF DeadApart
<1>7. CASE UNCHANGED <<ready, unacked, dlq>>
  BY <1>7 DEF DeadApart
<1> QED
  BY <1>2, <1>3, <1>4, <1>5, <1>6, <1>7 DEF Next, OnMessage, vars, Receive, Work, FailPoison

\* A message in on_message is nowhere else.
LEMMA OnlyInHand ==
    ASSUME TypeOK, OnePlace, DeadApart, NEW w \in Workers, NEW m \in unacked[w]
    PROVE  /\ m \notin ready /\ m \notin dlq
           /\ \A v \in Workers \ {w} : m \notin unacked[v]
           /\ \A v \in Workers \ {w} : task[v].at # "idle" => task[v].msg # m
<1>1. m \notin ready /\ m \notin dlq /\ \A v \in Workers \ {w} : m \notin unacked[v]
  BY DEF OnePlace, DeadApart
<1> QED
  BY <1>1, TaskMessage

\* Every message a step holds for an order carries the order of one that was there.
LEMMA UnknownStep ==
    ASSUME TypeOK, Unknown, [Next]_vars
    PROVE  Unknown'
<1>1. ASSUME NEW o \in Orders, Publish(o) PROVE Unknown'
  <2>1. PICK c : c = [no |-> stored + 1, order |-> o, attempt |-> 1, failed |-> 0]
    OBVIOUS
  <2>2. c.order = o /\ Queued' = Queued \cup {c} /\ sent' = sent \cup {o} /\ worked' = worked
    BY <1>1, <2>1 DEF Publish, Queued
  <2> QED
    BY <2>2 DEF Unknown
<1>2. ASSUME NEW w \in Workers, Deliver(w) PROVE Unknown'
  <2>1. Queued' \subseteq Queued
    BY <1>2 DEF Deliver, Queued, TypeOK
  <2> QED
    BY <1>2, <2>1 DEF Deliver, Unknown
<1>3. ASSUME NEW w \in Workers,
             RejectUnreadable(w) \/ AckWork(w) \/ AckOriginal(w) \/ GiveUp(w) \/ CopyRefused(w)
      PROVE  Unknown'
  <2>1. task[w].at # "idle" /\ (Ack(w) \/ Reject(w) \/ Requeue(w)) /\ UNCHANGED <<sent, worked>>
    BY <1>3 DEF RejectUnreadable, AckWork, AckOriginal, GiveUp, CopyRefused
  <2>2. Queued' \subseteq Queued
    BY <2>1, Settled, TaskMessage DEF Queued, TypeOK
  <2> QED
    BY <2>1, <2>2 DEF Unknown
<1>4. ASSUME NEW w \in Workers, StoreCopy(w) PROVE Unknown'
  <2>1. PICK c : c = [no |-> stored + 1, order |-> task[w].msg.order,
                      attempt |-> task[w].msg.attempt + 1, failed |-> 0]
    OBVIOUS
  <2>2. /\ c.order = task[w].msg.order /\ Queued' = Queued \cup {c} /\ UNCHANGED <<sent, worked>>
        /\ task[w].msg \in Queued
    BY <1>4, <2>1, TaskMessage DEF StoreCopy, Queued
  <2> QED
    BY <2>2 DEF Unknown
<1>5. ASSUME NEW w \in Workers, Work(w) PROVE Unknown'
  <2>1. task[w].msg \in Queued /\ task[w].msg.order \in Orders /\ Queued' = Queued
    BY <1>5, TaskMessage DEF Work, Message, Queued
  <2> QED
    BY <1>5, <2>1 DEF Work, Unknown, TypeOK
<1>6. ASSUME NEW w \in Workers, Crash(w) PROVE Unknown'
  <2>1. /\ \A m \in ready' \cup dlq' : \E n \in Queued : m.order = n.order
        /\ unacked'[w] = {} /\ \A v \in Workers \ {w} : unacked'[v] = unacked[v]
    BY <1>6, CrashedMessages DEF Crash, Queued
  <2>2. \A m \in Queued' : \E n \in Queued : m.order = n.order
    BY <2>1 DEF Queued
  <2> QED
    BY <1>6, <2>2 DEF Crash, Unknown
<1>7. CASE UNCHANGED <<ready, unacked, dlq, sent, worked>>
  BY <1>7 DEF Unknown, Queued
<1> QED
  BY <1>1, <1>2, <1>3, <1>4, <1>5, <1>6, <1>7 DEF Next, OnMessage, vars, Receive, FailPoison

\* Fewer messages held, no more work done.
LEMMA FewerCounted ==
    ASSUME TypeOK, Counted, crashes' = crashes, worked' = worked,
           \A o \in Orders : Live(o)' \subseteq Live(o)
    PROVE  Counted'
<1> SUFFICES ASSUME NEW o \in Orders
             PROVE  IsFiniteSet(Live(o)') /\ worked'[o] + Cardinality(Live(o)') <= 1 + crashes'
  BY DEF Counted
<1>1. IsFiniteSet(Live(o)) /\ worked[o] + Cardinality(Live(o)) <= 1 + crashes
  BY DEF Counted
<1>2. IsFiniteSet(Live(o)') /\ Cardinality(Live(o)') <= Cardinality(Live(o))
  BY <1>1, FS_Subset
<1>3. Cardinality(Live(o)) \in Nat /\ Cardinality(Live(o)') \in Nat
  BY <1>1, <1>2, FS_CardinalityType
<1> QED
  BY <1>1, <1>2, <1>3 DEF TypeOK

LEMMA SettledCounted ==
    ASSUME TypeOK, OnePlace, DeadApart, Counted, NEW w \in Workers,
           RejectUnreadable(w) \/ AckWork(w) \/ AckOriginal(w) \/ GiveUp(w) \/ CopyRefused(w)
    PROVE  Counted'
<1>1. /\ task[w].at # "idle" /\ (Ack(w) \/ Reject(w) \/ Requeue(w))
      /\ UNCHANGED <<worked, crashes>>
      /\ task[w].at \in {"done", "confirmed"} => Ack(w)
  BY DEF RejectUnreadable, AckWork, AckOriginal, GiveUp, CopyRefused
<1>2. PICK msg : msg = task[w].msg /\ msg \in unacked[w] /\ msg \in Queued
  BY <1>1, TaskMessage
<1>3. /\ unacked'[w] = unacked[w] \ {msg} /\ \A v \in Workers \ {w} : unacked'[v] = unacked[v]
      /\ task'[w] = Resting /\ \A v \in Workers \ {w} : task'[v] = task[v]
      /\ ready' \subseteq ready \cup {msg} /\ dlq' \subseteq dlq \cup {msg}
  BY <1>1, <1>2, Settled DEF TypeOK
<1>4. Queued' \subseteq Queued
  BY <1>2, <1>3 DEF Queued
<1>5. Superseded \subseteq Superseded' \cup {msg} /\ (msg \in Superseded => Ack(w))
  <2>1. \A v \in Workers \ {w} : task[v].at # "idle" => task[v].msg # msg
    BY <1>2, OnlyInHand
  <2> QED
    BY <1>1, <1>2, <1>3, <2>1 DEF Superseded
<1>6. Ack(w) => msg \notin Queued'
  <2>1. Ack(w) => ready' = ready /\ dlq' = dlq
    BY DEF Ack
  <2> QED
    BY <1>2, <1>3, <2>1, OnlyInHand DEF Queued
<1>7. Queued' \ Superseded' \subseteq Queued \ Superseded
  BY <1>4, <1>5, <1>6
<1>8. \A o \in Orders : Live(o)' \subseteq Live(o)
  BY <1>7 DEF Live
<1> QED
  BY <1>1, <1>8, FewerCounted

\* Work moves one from the messages held to the work done.
LEMMA WorkCounted ==
    ASSUME TypeOK, OnePlace, DeadApart, Counted, NEW w \in Workers, Work(w)
    PROVE  Counted'
<1>1. PICK msg : msg = task[w].msg /\ msg \in unacked[w] /\ msg \in Queued /\ msg.order \in Orders
  BY TaskMessage DEF Work, Message
<1>2. /\ task'[w].at = "done" /\ task'[w].msg = msg
      /\ \A v \in Workers \ {w} : task'[v] = task[v]
  BY <1>1, StageTypes DEF Work, Stages
<1>3. Queued' = Queued /\ worked' = [worked EXCEPT ![msg.order] = @ + 1] /\ crashes' = crashes
  BY <1>1 DEF Work, Queued
<1>4. msg \notin Superseded
  BY <1>1, OnlyInHand DEF Superseded, Work
<1>5. Superseded' = Superseded \cup {msg}
  BY <1>1, <1>2 DEF Superseded, Work
<1> SUFFICES ASSUME NEW o \in Orders
             PROVE  IsFiniteSet(Live(o)') /\ worked'[o] + Cardinality(Live(o)') <= 1 + crashes'
  BY DEF Counted
<1>6. IsFiniteSet(Live(o)) /\ worked[o] + Cardinality(Live(o)) <= 1 + crashes
  BY DEF Counted
<1>7. Cardinality(Live(o)) \in Nat /\ worked[o] \in Nat /\ crashes \in Nat
  BY <1>6, FS_CardinalityType DEF TypeOK
<1>8. CASE msg.order = o
  <2>1. Live(o)' = Live(o) \ {msg} /\ msg \in Live(o)
    BY <1>1, <1>3, <1>4, <1>5, <1>8 DEF Live
  <2>2. IsFiniteSet(Live(o)') /\ Cardinality(Live(o)') = Cardinality(Live(o)) - 1
    BY <1>6, <2>1, FS_RemoveElement, FS_Subset
  <2>3. worked'[o] = worked[o] + 1
    BY <1>3, <1>8 DEF TypeOK
  <2> QED
    BY <1>3, <1>6, <1>7, <2>2, <2>3
<1>9. CASE msg.order # o
  <2>1. Live(o)' = Live(o)
    BY <1>3, <1>5, <1>9 DEF Live
  <2>2. worked'[o] = worked[o]
    BY <1>1, <1>3, <1>9 DEF TypeOK
  <2> QED
    BY <1>3, <1>6, <2>1, <2>2
<1> QED
  BY <1>8, <1>9

LEMMA OneMore ==
    ASSUME NEW S, IsFiniteSet(S), NEW x
    PROVE  /\ IsFiniteSet(S \cup {x}) /\ Cardinality(S) \in Nat
           /\ Cardinality(S \cup {x}) \in Nat /\ Cardinality(S \cup {x}) <= Cardinality(S) + 1
<1>1. Cardinality(S) \in Nat
  BY FS_CardinalityType
<1>2. CASE x \in S
  <2>1. S \cup {x} = S
    BY <1>2
  <2> QED
    BY <1>1, <2>1
<1>3. CASE x \notin S
  <2>1. IsFiniteSet(S \cup {x}) /\ Cardinality(S \cup {x}) = Cardinality(S) + 1
    BY <1>3, FS_AddElement
  <2> QED
    BY <1>1, <2>1
<1> QED
  BY <1>2, <1>3

\* A copy takes the place of its original.
LEMMA CopyCounted ==
    ASSUME TypeOK, OnePlace, DeadApart, Counted, NEW w \in Workers, StoreCopy(w)
    PROVE  Counted'
<1>1. PICK msg : msg = task[w].msg /\ msg \in unacked[w] /\ msg \in Queued /\ msg.order \in Orders
  BY TaskMessage DEF StoreCopy, Message
<1>2. PICK c : c = [no |-> stored + 1, order |-> task[w].msg.order,
                    attempt |-> task[w].msg.attempt + 1, failed |-> 0]
  OBVIOUS
<1>3. /\ task'[w].at = "confirmed" /\ task'[w].msg = msg
      /\ \A v \in Workers \ {w} : task'[v] = task[v]
  BY <1>1, StageTypes DEF StoreCopy, Stages
<1>4. Queued' = Queued \cup {c} /\ worked' = worked /\ crashes' = crashes /\ c.order = msg.order
  BY <1>1, <1>2 DEF StoreCopy, Queued
<1>5. msg \notin Superseded
  BY <1>1, OnlyInHand DEF Superseded, StoreCopy
<1>6. Superseded' = Superseded \cup {msg}
  BY <1>1, <1>3 DEF Superseded, StoreCopy
<1> SUFFICES ASSUME NEW o \in Orders
             PROVE  IsFiniteSet(Live(o)') /\ worked'[o] + Cardinality(Live(o)') <= 1 + crashes'
  BY DEF Counted
<1>7. IsFiniteSet(Live(o)) /\ worked[o] + Cardinality(Live(o)) <= 1 + crashes
  BY DEF Counted
<1>8. Cardinality(Live(o)) \in Nat /\ worked[o] \in Nat /\ crashes \in Nat
  BY <1>7, FS_CardinalityType DEF TypeOK
<1>9. CASE msg.order = o
  <2> DEFINE Rest == Live(o) \ {msg}
  <2>1. Live(o)' \subseteq Rest \cup {c} /\ msg \in Live(o)
    BY <1>1, <1>4, <1>5, <1>6, <1>9 DEF Live
  <2>2. IsFiniteSet(Rest) /\ Cardinality(Rest) = Cardinality(Live(o)) - 1
    BY <1>7, <2>1, FS_RemoveElement, FS_Subset
  <2>3. Cardinality(Rest) \in Nat
    BY <2>2, FS_CardinalityType
  <2> HIDE DEF Rest
  <2>4. IsFiniteSet(Rest \cup {c}) /\ Cardinality(Rest \cup {c}) <= Cardinality(Rest) + 1
    BY <2>2, OneMore
  <2>5. IsFiniteSet(Live(o)') /\ Cardinality(Live(o)') <= Cardinality(Rest \cup {c})
    BY <2>1, <2>4, FS_Subset
  <2>6. Cardinality(Live(o)') \in Nat /\ Cardinality(Rest \cup {c}) \in Nat
    BY <2>4, <2>5, FS_CardinalityType
  <2> QED
    BY <1>4, <1>7, <1>8, <2>2, <2>3, <2>4, <2>5, <2>6
<1>10. CASE msg.order # o
  <2>1. Live(o)' = Live(o)
    BY <1>4, <1>6, <1>10 DEF Live
  <2> QED
    BY <1>4, <1>7, <2>1
<1> QED
  BY <1>9, <1>10

\* A crash gives back what w held, of which one message may have been worked off or copied.
LEMMA CrashCounted ==
    ASSUME TypeOK, OnePlace, DeadApart, Counted, NEW w \in Workers, Crash(w)
    PROVE  Counted'
<1>1. TakeBack(w) /\ worked' = worked /\ crashes' = crashes + 1
  BY DEF Crash
<1>2. task'[w] = Resting /\ \A v \in Workers \ {w} : task'[v] = task[v]
  BY DEF Crash, TypeOK
<1>3. unacked'[w] = {} /\ \A v \in Workers \ {w} : unacked'[v] = unacked[v]
  BY <1>1, CrashedMessages
<1>4. \A m \in (ready' \cup dlq') \ (ready \cup dlq) :
         \E n \in unacked[w] : m = [n EXCEPT !.failed = @ + 1] /\ m.order = n.order
  <2>1. \A m \in (ready' \cup dlq') \ (ready \cup dlq) :
           \E n \in unacked[w] : m = [n EXCEPT !.failed = @ + 1]
    BY <1>1 DEF TakeBack
  <2>2. \A n \in unacked[w] : [n EXCEPT !.failed = @ + 1].order = n.order
    BY TakenBack DEF TypeOK
  <2> QED
    BY <2>1, <2>2
<1>5. \A m \in Superseded \ Superseded' : m = task[w].msg /\ m \in unacked[w]
  BY <1>2, TaskMessage DEF Superseded
<1> SUFFICES ASSUME NEW o \in Orders
             PROVE  IsFiniteSet(Live(o)') /\ worked'[o] + Cardinality(Live(o)') <= 1 + crashes'
  BY DEF Counted
<1> DEFINE Own == {n \in unacked[w] : n.order = o}
           Back == {[n EXCEPT !.failed = @ + 1] : n \in Own}
           Kept == Live(o) \ Own
           Seen == Live(o) \cap Own
<1>6. Live(o)' \subseteq Kept \cup Back
  <2> SUFFICES ASSUME NEW m, m \in Queued', m \notin Superseded', m.order = o
               PROVE  m \in Kept \/ m \in Back
    BY DEF Live
  <2>1. CASE m \in Queued /\ m \notin unacked[w]
    <3>1. m \notin Superseded
      BY <1>5, <2>1
    <3> QED
      BY <2>1, <3>1 DEF Live
  <2>2. CASE m \notin Queued \/ m \in unacked[w]
    <3>1. \A v \in Workers : m \notin unacked'[v]
      BY <1>3, <2>2, OnlyInHand DEF Queued
    <3>2. m \notin ready /\ m \notin dlq
      BY <2>2, OnlyInHand DEF Queued
    <3>3. m \in (ready' \cup dlq') \ (ready \cup dlq)
      BY <3>1, <3>2 DEF Queued
    <3> QED
      BY <1>4, <3>3
  <2> QED
    BY <2>1, <2>2
<1>7. Own \subseteq Seen \cup {task[w].msg}
  <2> SUFFICES ASSUME NEW n \in unacked[w], n.order = o, n # task[w].msg PROVE n \in Live(o)
    OBVIOUS
  <2>1. \A v \in Workers \ {w} : task[v].at # "idle" => task[v].msg # n
    BY OnlyInHand
  <2>2. n \notin Superseded
    BY <2>1 DEF Superseded
  <2> QED
    BY <2>2 DEF Live, Queued
<1>8. IsFiniteSet(Live(o)) /\ worked[o] + Cardinality(Live(o)) <= 1 + crashes
  BY DEF Counted
<1>9. /\ IsFiniteSet(Seen) /\ IsFiniteSet(Kept)
      /\ Cardinality(Kept) = Cardinality(Live(o)) - Cardinality(Seen)
  BY <1>8, FS_Intersection, FS_Difference
<1>10. IsFiniteSet(Own) /\ Cardinality(Own) <= Cardinality(Seen) + 1
  <2>1. /\ IsFiniteSet(Seen \cup {task[w].msg}) /\ Cardinality(Seen) \in Nat
        /\ Cardinality(Seen \cup {task[w].msg}) \in Nat
        /\ Cardinality(Seen \cup {task[w].msg}) <= Cardinality(Seen) + 1
    BY <1>9, OneMore
  <2>2. IsFiniteSet(Own) /\ Cardinality(Own) <= Cardinality(Seen \cup {task[w].msg})
    BY <1>7, <2>1, FS_Subset
  <2>3. Cardinality(Own) \in Nat
    BY <2>2, FS_CardinalityType
  <2> QED
    BY <2>1, <2>2, <2>3
<1>11. IsFiniteSet(Back) /\ Cardinality(Back) <= Cardinality(Own)
  <2> DEFINE f == [n \in Own |-> [n EXCEPT !.failed = @ + 1]]
  <2>1. f \in Surjection(Own, Back)
    BY DEF Surjection
  <2> HIDE DEF f, Back
  <2> QED
    BY <1>10, <2>1, FS_Surjection
<1> HIDE DEF Own, Back, Kept, Seen
<1>12. /\ IsFiniteSet(Kept \cup Back)
       /\ Cardinality(Kept \cup Back) =
             Cardinality(Kept) + Cardinality(Back) - Cardinality(Kept \cap Back)
       /\ IsFiniteSet(Kept \cap Back)
  BY <1>9, <1>11, FS_Union, FS_Intersection
<1>13. IsFiniteSet(Live(o)') /\ Cardinality(Live(o)') <= Cardinality(Kept \cup Back)
  BY <1>6, <1>12, FS_Subset
<1>14. /\ Cardinality(Live(o)) \in Nat /\ Cardinality(Live(o)') \in Nat
       /\ Cardinality(Kept) \in Nat /\ Cardinality(Back) \in Nat /\ Cardinality(Seen) \in Nat
       /\ Cardinality(Own) \in Nat /\ Cardinality(Kept \cap Back) \in Nat
       /\ Cardinality(Kept \cup Back) \in Nat
  BY <1>8, <1>9, <1>10, <1>11, <1>12, <1>13, FS_CardinalityType
<1>15. worked[o] \in Nat /\ crashes \in Nat
  BY DEF TypeOK
<1>16. Cardinality(Live(o)') <= Cardinality(Live(o)) + 1
  BY <1>9, <1>10, <1>11, <1>12, <1>13, <1>14
<1> QED
  BY <1>1, <1>8, <1>13, <1>14, <1>15, <1>16

LEMMA CountedStep ==
    ASSUME TypeOK, Numbered, OnePlace, DeadApart, Unknown, Counted, [Next]_vars
    PROVE  Counted'
<1>1. ASSUME NEW p \in Orders, Publish(p) PROVE Counted'
  <2>1. PICK c : c = [no |-> stored + 1, order |-> p, attempt |-> 1, failed |-> 0]
    OBVIOUS
  <2>2. /\ c.order = p /\ Queued' = Queued \cup {c} /\ worked' = worked /\ crashes' = crashes
        /\ Superseded' = Superseded /\ p \notin sent
    BY <1>1, <2>1 DEF Publish, Queued, Superseded
  <2> SUFFICES ASSUME NEW o \in Orders
               PROVE  IsFiniteSet(Live(o)') /\ worked'[o] + Cardinality(Live(o)') <= 1 + crashes'
    BY DEF Counted
  <2>3. CASE o = p
    <3>1. worked[o] = 0 /\ Live(o)' \subseteq {c}
      BY <2>2, <2>3 DEF Unknown, Live
    <3>2. IsFiniteSet({c}) /\ Cardinality({c}) = 1
      BY FS_Singleton
    <3>3. IsFiniteSet(Live(o)') /\ Cardinality(Live(o)') <= 1
      BY <3>1, <3>2, FS_Subset
    <3>4. Cardinality(Live(o)') \in Nat /\ crashes \in Nat
      BY <3>3, FS_CardinalityType DEF TypeOK
    <3> QED
      BY <2>2, <3>1, <3>3, <3>4
  <2>4. CASE o # p
    <3>1. Live(o)' = Live(o)
      BY <2>2, <2>4 DEF Live
    <3> QED
      BY <2>2, <3>1 DEF Counted
  <2> QED
    BY <2>3, <2>4
<1>2. ASSUME NEW w \in Workers, Deliver(w) PROVE Counted'
  <2>1. Queued' = Queued /\ Superseded' = Superseded /\ UNCHANGED <<worked, crashes>>
    BY <1>2, DeliveredPlace DEF Deliver, Superseded
  <2> QED
    BY <2>1, FewerCounted DEF Live
<1>3. ASSUME NEW w \in Workers, Receive(w) \/ FailPoison(w) PROVE Counted'
  <2>1. /\ task[w].at \notin {"done", "confirmed"} /\ task'[w].at \notin {"done", "confirmed"}
        /\ \A v \in Workers \ {w} : task'[v] = task[v]
    <3>1. CASE Receive(w)
      BY <3>1 DEF Receive, TypeOK
    <3>2. CASE FailPoison(w)
      BY <3>2, StageTypes DEF FailPoison, Stages
    <3> QED
      BY <1>3, <3>1, <3>2
  <2>2. Superseded' = Superseded
    BY <2>1 DEF Superseded
  <2>3. Queued' = Queued /\ UNCHANGED <<worked, crashes>>
    BY <1>3 DEF Receive, FailPoison, Queued
  <2> QED
    BY <2>2, <2>3, FewerCounted DEF Live
<1>4. CASE UNCHANGED vars
  <2>1. Queued' = Queued /\ Superseded' = Superseded /\ UNCHANGED <<worked, crashes>>
    BY <1>4 DEF vars, Queued, Superseded
  <2> QED
    BY <2>1, FewerCounted DEF Live
<1> QED
  BY <1>1, <1>2, <1>3, <1>4, SettledCounted, WorkCounted, CopyCounted, CrashCounted
  DEF Next, OnMessage

\* worker.py:3 of lab 14: the work of an order is repeated, or its message doubled, at most
\* once for each crash, wherever in the handling it comes and however many workers there are.
THEOREM WorkRepeatedByCrashesOnly == Spec => []OneMorePerCrash
<1> DEFINE Inv == TypeOK /\ Numbered /\ OnePlace /\ DeadApart /\ Unknown /\ Counted
<1>1. Init => Inv
  <2> SUFFICES ASSUME Init PROVE Inv
    OBVIOUS
  <2>1. Queued = {}
    BY DEF Init, Queued
  <2>2. TypeOK /\ Numbered /\ OnePlace /\ DeadApart /\ Unknown
    BY <2>1 DEF Init, TypeOK, Tasks, Resting, Numbered, OnePlace, DeadApart, Unknown
  <2>3. \A o \in Orders : Live(o) = {}
    BY <2>1 DEF Live
  <2>4. Counted
    BY <2>3, FS_EmptySet DEF Init, Counted
  <2> QED
    BY <2>2, <2>4
<1>2. Inv /\ [Next]_vars => Inv'
  BY TypeStep, PlaceStep, ApartStep, UnknownStep, CountedStep
<1>3. Inv => OneMorePerCrash
  BY DEF Counted, OneMorePerCrash
<1> QED
  BY <1>1, <1>2, <1>3, PTL DEF Spec
=============================================================================
