-------------------------- MODULE PaymentConsumer --------------------------
(***************************************************************************)
(* The payment consumer of lab 14 (app/payment.py), the ledger it writes    *)
(* (app/ledger.py) and the producer that may publish an order again         *)
(* (app/producer.py).  A consumer is started with flags that choose between *)
(* at-most-once, at-least-once and effectively-once; several may run.       *)
(***************************************************************************)
EXTENDS Naturals, FiniteSets, Functions

CONSTANTS
    Orders,         \* orders; the order_id is the message_id
    Consumers,      \* processes running payment.py
    None,
    MaxPublish,     \* bound: orders the producer publishes
    MaxStarts,      \* bound: times payment.py is started
    MaxResets       \* bound: ledger.py --reset

ASSUME OrdersAssumption == IsFiniteSet(Orders)
ASSUME ConsumersAssumption == IsFiniteSet(Consumers)
ASSUME NoneAssumption == None \notin Orders
ASSUME BoundsAssumption == MaxPublish \in Nat /\ MaxStarts \in Nat /\ MaxResets \in Nat

VARIABLES
    queue,      \* queue[o]: copies of order o in the queue "payments"
    proc,       \* proc[c]: flags and state of consumer c
    charges,    \* charges[o]: rows of order o in the ledger
    processed,  \* processed_messages: IDs already seen
    published,  \* history: published[o], times o was published since the last reset
    settled,    \* history: settled[o], messages of o acknowledged by hand
    autoRuns,   \* history: a consumer ran with --ack-mode auto
    manualRuns, \* history: a consumer ran with --ack-mode manual
    plainRuns,  \* history: a consumer ran without --idempotent
    torn,       \* history: the ledger was reset while a consumer ran
    starts,     \* counts to MaxStarts
    resets      \* counts to MaxResets

history == <<published, settled, autoRuns, manualRuns, plainRuns, torn>>
vars == <<queue, proc, charges, processed, history, starts, resets>>

Crashes == {"none", "before-charge", "after-charge"}
Flags == [auto : BOOLEAN, crash : Crashes, idempotent : BOOLEAN]
Process == [at : {"off", "wait", "received", "charged"}, flags : Flags,
            held : [Orders -> Nat], order : Orders \cup {None}]

NoFlags == [auto |-> FALSE, crash |-> "none", idempotent |-> FALSE]
Nothing == [o \in Orders |-> 0]
Off == [at |-> "off", flags |-> NoFlags, held |-> Nothing, order |-> None]

\* One more, or one less, of order o.
Add(f, o) == [f EXCEPT ![o] = @ + 1]
Take(f, o) == [f EXCEPT ![o] = @ - 1]

\* Messages of o the broker has not heard back of, in the queue or at a consumer
\* that acknowledges by hand.
Waiting(o) ==
    queue[o] + Cardinality({c \in Consumers : proc[c].order = o /\ ~proc[c].flags.auto})

TypeOK ==
    /\ queue \in [Orders -> Nat]
    /\ proc \in [Consumers -> Process]
    /\ \A c \in Consumers : proc[c].at \in {"received", "charged"} <=> proc[c].order # None
    /\ charges \in [Orders -> Nat]
    /\ processed \subseteq Orders
    /\ published \in [Orders -> Nat]
    /\ settled \in [Orders -> Nat]
    /\ {autoRuns, manualRuns, plainRuns, torn} \subseteq BOOLEAN
    /\ starts \in 0..MaxStarts
    /\ resets \in 0..MaxResets

Init ==
    /\ queue = Nothing
    /\ proc = [c \in Consumers |-> Off]
    /\ charges = Nothing
    /\ processed = {}
    /\ published = Nothing /\ settled = Nothing
    /\ autoRuns = FALSE /\ manualRuns = FALSE /\ plainRuns = FALSE /\ torn = FALSE
    /\ starts = 0 /\ resets = 0

-----------------------------------------------------------------------------

\* The producer publishes an order; one that lost its confirm publishes it again
\* under the same message ID.
Publish(o) ==
    /\ FoldFunction(+, 0, published) < MaxPublish
    /\ published' = Add(published, o)
    /\ queue' = Add(queue, o)
    /\ UNCHANGED <<proc, charges, processed, settled, autoRuns, manualRuns, plainRuns, torn>>
    /\ UNCHANGED <<starts, resets>>

\* Run payment.py.
Start(c) ==
    /\ proc[c].at = "off"
    /\ starts < MaxStarts
    /\ starts' = starts + 1
    /\ \E f \in Flags :
          /\ proc' = [proc EXCEPT ![c] = [Off EXCEPT !.at = "wait", !.flags = f]]
          /\ autoRuns' = (autoRuns \/ f.auto)
          /\ manualRuns' = (manualRuns \/ ~f.auto)
          /\ plainRuns' = (plainRuns \/ ~f.idempotent)
    /\ UNCHANGED <<queue, charges, processed, published, settled, torn, resets>>

\* With automatic acknowledgment the broker forgets a message when it sends it, and
\* no prefetch limits what it sends.
Push(c, o) ==
    /\ proc[c].at # "off" /\ proc[c].flags.auto
    /\ queue[o] > 0
    /\ queue' = Take(queue, o)
    /\ proc' = [proc EXCEPT ![c] = [@ EXCEPT !.held = Add(proc[c].held, o)]]
    /\ UNCHANGED <<charges, processed, history, starts, resets>>

\* The next message of the stream.  Without automatic acknowledgment the consumer
\* gets one at a time, and the broker keeps it.
Receive(c, o) ==
    /\ proc[c].at = "wait"
    /\ IF proc[c].flags.auto
       THEN /\ proc[c].held[o] > 0
            /\ proc' = [proc EXCEPT ![c] =
                  [@ EXCEPT !.at = "received", !.order = o, !.held = Take(proc[c].held, o)]]
            /\ UNCHANGED queue
       ELSE /\ queue[o] > 0
            /\ proc' = [proc EXCEPT ![c] = [@ EXCEPT !.at = "received", !.order = o]]
            /\ queue' = Take(queue, o)
    /\ UNCHANGED <<charges, processed, history, starts, resets>>

\* Faulty variant: the charge is committed before the ID is inserted.
Record_ChargeFirst(o, idempotent) ==
    /\ charges' = Add(charges, o)
    /\ processed' = IF idempotent THEN processed \cup {o} ELSE processed

\* The transaction of charge: insert the ID, which fails when it is there, and the row.
Record(o, idempotent) ==
    IF idempotent /\ o \in processed
    THEN UNCHANGED <<charges, processed>>
    ELSE /\ charges' = Add(charges, o)
         /\ processed' = IF idempotent THEN processed \cup {o} ELSE processed

Charge(c) ==
    /\ proc[c].at = "received" /\ proc[c].flags.crash # "before-charge"
    /\ Record(proc[c].order, proc[c].flags.idempotent)
    /\ proc' = [proc EXCEPT ![c] = [@ EXCEPT !.at = "charged"]]
    /\ UNCHANGED <<queue, history, starts, resets>>

\* Faulty variant: the message in hand is not let go.
Finish_KeepsOrder(c) ==
    /\ proc[c].at = "charged" /\ proc[c].flags.crash # "after-charge"
    /\ settled' = IF proc[c].flags.auto THEN settled ELSE Add(settled, proc[c].order)
    /\ proc' = [proc EXCEPT ![c] = [@ EXCEPT !.at = "wait"]]
    /\ UNCHANGED <<queue, charges, processed, published, autoRuns, manualRuns, plainRuns, torn>>
    /\ UNCHANGED <<starts, resets>>

\* basic_ack, unless the broker has forgotten the message already.
Finish(c) ==
    /\ proc[c].at = "charged" /\ proc[c].flags.crash # "after-charge"
    /\ settled' = IF proc[c].flags.auto THEN settled ELSE Add(settled, proc[c].order)
    /\ proc' = [proc EXCEPT ![c] = [@ EXCEPT !.at = "wait", !.order = None]]
    /\ UNCHANGED <<queue, charges, processed, published, autoRuns, manualRuns, plainRuns, torn>>
    /\ UNCHANGED <<starts, resets>>

\* Faulty variant: the broker forgets what an unfinished consumer was working on.
TakeBack_Nothing(c) == queue

\* What the broker has in its queue after the connection of c dropped.
TakeBack(c) ==
    IF proc[c].order # None /\ ~proc[c].flags.auto THEN Add(queue, proc[c].order) ELSE queue

\* The process dies, where --crash says or anywhere else.
Crash(c) ==
    /\ proc[c].at # "off"
    /\ queue' = TakeBack(c)
    /\ proc' = [proc EXCEPT ![c] = Off]
    /\ UNCHANGED <<charges, processed, history, starts, resets>>

\* Idle for IDLE_SECONDS: nothing is left for this consumer.
Exit(c) ==
    /\ proc[c].at = "wait"
    /\ queue = Nothing /\ proc[c].held = Nothing
    /\ proc' = [proc EXCEPT ![c] = Off]
    /\ UNCHANGED <<queue, charges, processed, history, starts, resets>>

\* Faulty variant: the IDs survive the charges.
Empty_ChargesOnly == charges' = Nothing /\ UNCHANGED processed

Empty == charges' = Nothing /\ processed' = {}

\* ledger.py --reset, in one transaction, at any time.
Reset ==
    /\ resets < MaxResets
    /\ resets' = resets + 1
    /\ Empty
    /\ published' = queue /\ settled' = Nothing
    /\ torn' = (torn \/ \E c \in Consumers : proc[c].at # "off")
    /\ UNCHANGED <<queue, proc, autoRuns, manualRuns, plainRuns, starts>>

Next ==
    \/ \E o \in Orders : Publish(o)
    \/ \E c \in Consumers :
          \/ Start(c) \/ Charge(c) \/ Finish(c) \/ Crash(c) \/ Exit(c)
          \/ \E o \in Orders : Push(c, o) \/ Receive(c, o)
    \/ Reset

Spec == Init /\ [][Next]_vars

-----------------------------------------------------------------------------
(* Properties *)

\* At-least-once: acknowledged after the work, a crash can duplicate messages, never
\* lose them (README.md:185).
AtLeastOnce ==
    ~autoRuns /\ ~torn => \A o \in Orders :
        /\ Waiting(o) + settled[o] = published[o]
        /\ settled[o] > 0 => charges[o] > 0

\* At-most-once: acknowledged on delivery, a crash can lose messages, never duplicate
\* them (README.md:184).
AtMostOnce ==
    ~manualRuns /\ ~torn => \A o \in Orders : charges[o] <= published[o]

\* The guarantee of the flags the consumers were started with, whatever they die of.
DeliveredAsPromised == AtLeastOnce /\ AtMostOnce

\* Effectively-once: with --idempotent no order is charged twice, by whatever the
\* broker delivers again and the producer publishes again (README.md:187).
EffectivelyOnce ==
    ~plainRuns => \A o \in Orders : charges[o] = IF o \in processed THEN 1 ELSE 0

\* Idempotent consumers implement ChargeOnce between two resets of the ledger.
Ledger == INSTANCE ChargeOnce WITH Orders <- Orders, charges <- charges

ChargesOnce == [][~plainRuns' => [Ledger!Next]_charges \/ Reset]_vars
=============================================================================
