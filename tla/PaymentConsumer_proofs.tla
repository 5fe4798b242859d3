----------------------- MODULE PaymentConsumer_proofs -----------------------
(***************************************************************************)
(* Proofs about PaymentConsumer for any orders and consumers and any bounds: *)
(* type correctness, that idempotent consumers charge an order once and     *)
(* implement ChargeOnce between two resets of the ledger, and that consumers *)
(* keep the delivery guarantee of their flags: at least once if all          *)
(* acknowledge by hand, at most once if the broker acknowledges for all.     *)
(***************************************************************************)
EXTENDS PaymentConsumer, FiniteSetTheorems, TLAPS

USE NoneAssumption, BoundsAssumption

\* Every consumer that runs was started with --idempotent.
AllIdempotent ==
    ~plainRuns => \A c \in Consumers : proc[c].at # "off" => proc[c].flags.idempotent

Inv == TypeOK /\ AllIdempotent /\ EffectivelyOnce

-----------------------------------------------------------------------------
(* Type correctness *)

LEMMA CountTypes ==
    ASSUME NEW f \in [Orders -> Nat], NEW o \in Orders
    PROVE  /\ Add(f, o) \in [Orders -> Nat]
           /\ f[o] > 0 => Take(f, o) \in [Orders -> Nat]
BY DEF Add, Take

LEMMA OffType == Off \in Process /\ Nothing \in [Orders -> Nat]
BY DEF Off, Process, NoFlags, Flags, Crashes, Nothing

\* A consumer with another state of its own.
LEMMA RowTypes ==
    ASSUME TypeOK, NEW c \in Consumers, NEW p \in Process,
           p.at \in {"received", "charged"} <=> p.order # None,
           proc' = [proc EXCEPT ![c] = p]
    PROVE  /\ proc' \in [Consumers -> Process]
           /\ \A d \in Consumers : proc'[d].at \in {"received", "charged"} <=> proc'[d].order # None
BY DEF TypeOK

LEMMA TakeBackTypes ==
    ASSUME TypeOK, NEW c \in Consumers
    PROVE  TakeBack(c) \in [Orders -> Nat]
<1>1. proc[c].order \in Orders \cup {None}
  BY DEF TypeOK, Process
<1> QED
  BY <1>1, CountTypes DEF TakeBack, TypeOK

LEMMA TypeStep ==
    ASSUME TypeOK, [Next]_vars
    PROVE  TypeOK'
<1>1. ASSUME NEW o \in Orders, Publish(o) PROVE TypeOK'
  <2>1. published' \in [Orders -> Nat] /\ queue' \in [Orders -> Nat]
    BY <1>1, CountTypes DEF Publish, TypeOK
  <2> QED
    BY <1>1, <2>1 DEF Publish, TypeOK
<1>2. ASSUME NEW c \in Consumers, Start(c) PROVE TypeOK'
  <2>1. PICK f \in Flags : /\ proc' = [proc EXCEPT ![c] = [Off EXCEPT !.at = "wait", !.flags = f]]
                          /\ autoRuns' = (autoRuns \/ f.auto)
                          /\ manualRuns' = (manualRuns \/ ~f.auto)
                          /\ plainRuns' = (plainRuns \/ ~f.idempotent)
    BY <1>2 DEF Start
  <2>2. PICK p : p = [Off EXCEPT !.at = "wait", !.flags = f]
    OBVIOUS
  <2>3. p \in Process /\ p.at = "wait" /\ p.order = None
    BY <2>2, OffType DEF Off, Process
  <2>4. /\ proc' \in [Consumers -> Process]
        /\ \A d \in Consumers : proc'[d].at \in {"received", "charged"} <=> proc'[d].order # None
    BY <2>1, <2>2, <2>3, RowTypes
  <2>5. {autoRuns, manualRuns, plainRuns, torn}' \subseteq BOOLEAN
    BY <1>2, <2>1 DEF Start, TypeOK
  <2>6. starts' \in 0..MaxStarts
    BY <1>2 DEF Start, TypeOK
  <2> QED
    BY <1>2, <2>4, <2>5, <2>6 DEF Start, TypeOK
<1>3. ASSUME NEW c \in Consumers, NEW o \in Orders, Push(c, o) PROVE TypeOK'
  <2>1. PICK p : p = [proc[c] EXCEPT !.held = Add(proc[c].held, o)]
    OBVIOUS
  <2>2. p \in Process /\ p.at = proc[c].at /\ p.order = proc[c].order
    BY <2>1, CountTypes DEF TypeOK, Process
  <2>3. /\ proc' \in [Consumers -> Process]
        /\ \A d \in Consumers : proc'[d].at \in {"received", "charged"} <=> proc'[d].order # None
    BY <1>3, <2>1, <2>2, RowTypes DEF Push, TypeOK
  <2>4. queue' \in [Orders -> Nat]
    BY <1>3, CountTypes DEF Push, TypeOK
  <2> QED
    BY <1>3, <2>3, <2>4 DEF Push, TypeOK, history
<1>4. ASSUME NEW c \in Consumers, NEW o \in Orders, Receive(c, o) PROVE TypeOK'
  <2>1. PICK p : /\ p.at = "received" /\ p.order = o /\ p \in Process
                 /\ proc' = [proc EXCEPT ![c] = p]
    <3>1. CASE proc[c].flags.auto
      <4>1. PICK p : p = [proc[c] EXCEPT !.at = "received", !.order = o,
                                         !.held = Take(proc[c].held, o)]
        OBVIOUS
      <4>2. proc[c] \in Process /\ proc[c].held \in [Orders -> Nat]
        BY DEF TypeOK, Process
      <4>3. Take(proc[c].held, o) \in [Orders -> Nat]
        BY <1>4, <3>1, <4>2, CountTypes DEF Receive
      <4>4. p \in Process /\ p.at = "received" /\ p.order = o
        BY <4>1, <4>2, <4>3 DEF Process
      <4> QED
        BY <1>4, <3>1, <4>1, <4>4 DEF Receive
    <3>2. CASE ~proc[c].flags.auto
      <4>1. PICK p : p = [proc[c] EXCEPT !.at = "received", !.order = o]
        OBVIOUS
      <4>2. p \in Process /\ p.at = "received" /\ p.order = o
        BY <4>1 DEF TypeOK, Process
      <4> QED
        BY <1>4, <3>2, <4>1, <4>2 DEF Receive
    <3> QED
      BY <3>1, <3>2
  <2>2. /\ proc' \in [Consumers -> Process]
        /\ \A d \in Consumers : proc'[d].at \in {"received", "charged"} <=> proc'[d].order # None
    BY <2>1, RowTypes
  <2>3. queue' \in [Orders -> Nat]
    BY <1>4, CountTypes DEF Receive, TypeOK
  <2> QED
    BY <1>4, <2>2, <2>3 DEF Receive, TypeOK, history
<1>5. ASSUME NEW c \in Consumers, Charge(c) PROVE TypeOK'
  <2>1. PICK p : p = [proc[c] EXCEPT !.at = "charged"]
    OBVIOUS
  <2>2. p \in Process /\ p.at = "charged" /\ p.order = proc[c].order /\ p.order # None
    BY <1>5, <2>1 DEF Charge, TypeOK, Process
  <2>3. /\ proc' \in [Consumers -> Process]
        /\ \A d \in Consumers : proc'[d].at \in {"received", "charged"} <=> proc'[d].order # None
    BY <1>5, <2>1, <2>2, RowTypes DEF Charge
  <2>4. proc[c].order \in Orders
    BY <2>2 DEF Process
  <2>5. charges' \in [Orders -> Nat] /\ processed' \subseteq Orders
    BY <1>5, <2>4, CountTypes DEF Charge, Record, TypeOK
  <2> QED
    BY <1>5, <2>3, <2>5 DEF Charge, TypeOK, history
<1>6. ASSUME NEW c \in Consumers, Finish(c) PROVE TypeOK'
  <2>1. PICK p : p = [proc[c] EXCEPT !.at = "wait", !.order = None]
    OBVIOUS
  <2>2. p \in Process /\ p.at = "wait" /\ p.order = None
    BY <2>1 DEF TypeOK, Process
  <2>3. /\ proc' \in [Consumers -> Process]
        /\ \A d \in Consumers : proc'[d].at \in {"received", "charged"} <=> proc'[d].order # None
    BY <1>6, <2>1, <2>2, RowTypes DEF Finish
  <2>4. proc[c].order \in Orders
    BY <1>6 DEF Finish, TypeOK, Process
  <2>5. settled' \in [Orders -> Nat]
    BY <1>6, <2>4, CountTypes DEF Finish, TypeOK
  <2> QED
    BY <1>6, <2>3, <2>5 DEF Finish, TypeOK
<1>7. ASSUME NEW c \in Consumers, Crash(c) \/ Exit(c) PROVE TypeOK'
  <2>1. /\ proc' \in [Consumers -> Process]
        /\ \A d \in Consumers : proc'[d].at \in {"received", "charged"} <=> proc'[d].order # None
    BY <1>7, OffType, RowTypes DEF Crash, Exit, Off
  <2>2. queue' \in [Orders -> Nat]
    BY <1>7, TakeBackTypes DEF Crash, Exit, TypeOK
  <2> QED
    BY <1>7, <2>1, <2>2 DEF Crash, Exit, TypeOK, history
<1>8. ASSUME Reset PROVE TypeOK'
  <2>1. {autoRuns, manualRuns, plainRuns, torn}' \subseteq BOOLEAN
    BY <1>8 DEF Reset, TypeOK
  <2> QED
    BY <1>8, <2>1, OffType DEF Reset, Empty, TypeOK
<1>9. ASSUME UNCHANGED vars PROVE TypeOK'
  BY <1>9 DEF vars, history, TypeOK
<1> QED
  BY <1>1, <1>2, <1>3, <1>4, <1>5, <1>6, <1>7, <1>8, <1>9 DEF Next

-----------------------------------------------------------------------------
(* Charging once *)

\* A plain consumer leaves its mark for good.
LEMMA PlainStays ==
    ASSUME [Next]_vars, ~plainRuns'
    PROVE  ~plainRuns
BY DEF Next, Publish, Start, Push, Receive, Charge, Finish, Crash, Exit, Reset, vars, history

LEMMA IdempotentStep ==
    ASSUME TypeOK, AllIdempotent, [Next]_vars
    PROVE  AllIdempotent'
<1> SUFFICES ASSUME ~plainRuns', ~plainRuns, NEW d \in Consumers, proc'[d].at # "off"
             PROVE  proc'[d].flags.idempotent
  BY PlainStays DEF AllIdempotent
<1>1. ASSUME NEW c \in Consumers, Start(c) PROVE proc'[d].flags.idempotent
  BY <1>1 DEF Start, AllIdempotent, TypeOK, Off
<1>2. ASSUME NEW c \in Consumers, Charge(c) PROVE proc'[d].flags.idempotent
  <2>1. proc'[d].flags = proc[d].flags /\ proc[d].at # "off"
    BY <1>2 DEF Charge, TypeOK, Process
  <2> QED
    BY <2>1 DEF AllIdempotent
<1>6. ASSUME NEW c \in Consumers, Finish(c) PROVE proc'[d].flags.idempotent
  <2>1. proc'[d].flags = proc[d].flags /\ proc[d].at # "off"
    BY <1>6 DEF Finish, TypeOK, Process
  <2> QED
    BY <2>1 DEF AllIdempotent
<1>3. ASSUME NEW c \in Consumers, NEW o \in Orders, Push(c, o) PROVE proc'[d].flags.idempotent
  <2>1. proc'[d].flags = proc[d].flags /\ proc[d].at # "off"
    BY <1>3 DEF Push, TypeOK, Process
  <2> QED
    BY <2>1 DEF AllIdempotent
<1>7. ASSUME NEW c \in Consumers, NEW o \in Orders, Receive(c, o) PROVE proc'[d].flags.idempotent
  <2>1. CASE d # c
    BY <1>7, <2>1 DEF Receive, AllIdempotent, TypeOK
  <2>2. CASE d = c
    <3>1. proc[c].at # "off" /\ proc[c] \in Process
      BY <1>7 DEF Receive, TypeOK
    <3>2. CASE proc[c].flags.auto
      <4>1. PICK p : p = [proc[c] EXCEPT !.at = "received", !.order = o,
                                         !.held = Take(proc[c].held, o)]
        OBVIOUS
      <4>2. p.flags = proc[c].flags
        BY <3>1, <4>1 DEF Process
      <4>3. proc'[c] = p
        BY <1>7, <3>2, <4>1 DEF Receive, TypeOK
      <4> QED
        BY <2>2, <3>1, <4>2, <4>3 DEF AllIdempotent
    <3>3. CASE ~proc[c].flags.auto
      <4>1. PICK p : p = [proc[c] EXCEPT !.at = "received", !.order = o]
        OBVIOUS
      <4>2. p.flags = proc[c].flags
        BY <3>1, <4>1 DEF Process
      <4>3. proc'[c] = p
        BY <1>7, <3>3, <4>1 DEF Receive, TypeOK
      <4> QED
        BY <2>2, <3>1, <4>2, <4>3 DEF AllIdempotent
    <3> QED
      BY <3>2, <3>3
  <2> QED
    BY <2>1, <2>2
<1>4. ASSUME NEW c \in Consumers, Crash(c) \/ Exit(c) PROVE proc'[d].flags.idempotent
  BY <1>4 DEF Crash, Exit, AllIdempotent, TypeOK, Off
<1>5. ASSUME UNCHANGED proc PROVE proc'[d].flags.idempotent
  BY <1>5 DEF AllIdempotent
<1> QED
  BY <1>1, <1>2, <1>3, <1>4, <1>5, <1>6, <1>7 DEF Next, Publish, Reset, vars

\* A step of idempotent consumers charges an order that was not, or resets the ledger.
LEMMA ChargeStep ==
    ASSUME Inv, [Next]_vars, ~plainRuns'
    PROVE  /\ \A o \in Orders : charges'[o] = IF o \in processed' THEN 1 ELSE 0
           /\ charges' = charges \/ Reset
                 \/ \E o \in Orders : charges[o] = 0 /\ charges' = [charges EXCEPT ![o] = 1]
<1>1. ~plainRuns /\ \A o \in Orders : charges[o] = IF o \in processed THEN 1 ELSE 0
  BY PlainStays DEF Inv, EffectivelyOnce
<1>2. ASSUME NEW c \in Consumers, Charge(c)
      PROVE  /\ \A o \in Orders : charges'[o] = IF o \in processed' THEN 1 ELSE 0
             /\ \/ charges' = charges
                \/ \E o \in Orders : charges[o] = 0 /\ charges' = [charges EXCEPT ![o] = 1]
  <2>1. proc[c].flags.idempotent /\ proc[c].order \in Orders
    BY <1>1, <1>2 DEF Charge, Inv, AllIdempotent, TypeOK, Process
  <2>2. CASE proc[c].order \in processed
    BY <1>1, <1>2, <2>1, <2>2 DEF Charge, Record
  <2>3. CASE proc[c].order \notin processed
    <3>1. charges[proc[c].order] = 0 /\ processed' = processed \cup {proc[c].order}
      BY <1>1, <1>2, <2>1, <2>3 DEF Charge, Record
    <3>2. charges' = [charges EXCEPT ![proc[c].order] = 1]
      BY <1>2, <2>1, <2>3, <3>1 DEF Charge, Record, Add
    <3> QED
      BY <1>1, <2>1, <3>1, <3>2 DEF Inv, TypeOK
  <2> QED
    BY <2>2, <2>3
<1>3. CASE Reset
  BY <1>3 DEF Reset, Empty, Nothing
<1>4. CASE UNCHANGED <<charges, processed>>
  BY <1>1, <1>4
<1> QED
  BY <1>2, <1>3, <1>4 DEF Next, Publish, Start, Push, Receive, Finish, Crash, Exit, vars, history

LEMMA InvInit == Init => Inv
<1>1. Init => TypeOK
  <2> SUFFICES ASSUME Init PROVE TypeOK
    OBVIOUS
  <2>1. /\ proc \in [Consumers -> Process]
        /\ \A c \in Consumers : proc[c].at \in {"received", "charged"} <=> proc[c].order # None
    BY OffType DEF Init, Off
  <2>2. {autoRuns, manualRuns, plainRuns, torn} \subseteq BOOLEAN
    BY DEF Init
  <2>3. starts \in 0..MaxStarts /\ resets \in 0..MaxResets
    BY DEF Init
  <2> QED
    BY <2>1, <2>2, <2>3, OffType DEF Init, TypeOK
<1>2. Init => AllIdempotent
  BY DEF Init, AllIdempotent, Off
<1>3. Init => EffectivelyOnce
  BY DEF Init, EffectivelyOnce, Nothing
<1> QED
  BY <1>1, <1>2, <1>3 DEF Inv

LEMMA InvStep == Inv /\ [Next]_vars => Inv'
BY TypeStep, IdempotentStep, ChargeStep DEF Inv, EffectivelyOnce

\* Every reachable state is well typed: a consumer holds a message exactly while it handles one.
THEOREM TypeCorrect == Spec => []TypeOK
<1>1. Inv => TypeOK
  BY DEF Inv
<1> QED
  BY <1>1, InvInit, InvStep, PTL DEF Spec

\* README.md:187 of lab 14: with --idempotent no order is charged twice and none that is
\* marked as processed goes uncharged, whatever is delivered or published again and wherever
\* a consumer dies.
THEOREM OrdersAreChargedOnce == Spec => []EffectivelyOnce
<1>1. Inv => EffectivelyOnce
  BY DEF Inv
<1> QED
  BY <1>1, InvInit, InvStep, PTL DEF Spec

\* Idempotent consumers implement ChargeOnce between two resets of the ledger.
THEOREM ConsumersImplementChargeOnce == Spec => ChargesOnce
<1>1. Inv /\ [Next]_vars => [~plainRuns' => [Ledger!Next]_charges \/ Reset]_vars
  <2> SUFFICES ASSUME Inv, [Next]_vars, ~plainRuns'
               PROVE  [Ledger!Next]_charges \/ Reset
    OBVIOUS
  <2> QED
    BY ChargeStep DEF Ledger!Next, Ledger!Charge
<1> QED
  BY <1>1, InvInit, InvStep, PTL DEF Spec, ChargesOnce

-----------------------------------------------------------------------------
(* The guarantee of the flags *)

USE ConsumersAssumption

\* A consumer of one kind only, as long as only that kind was started.
AllManual == ~autoRuns => \A c \in Consumers : ~proc[c].flags.auto
AllAuto == ~manualRuns => \A c \in Consumers : proc[c].at # "off" => proc[c].flags.auto

OffIsOff == \A c \in Consumers : proc[c].at = "off" => proc[c] = Off

\* An ID is recorded with a charge, and what is about to be acknowledged is charged.
Marked == \A o \in processed : charges[o] > 0
Worked == ~torn => \A c \in Consumers : proc[c].at = "charged" => charges[proc[c].order] > 0

\* The consumers that work on o and have not acknowledged it.
Workers(o) == {c \in Consumers : proc[c].order = o /\ ~proc[c].flags.auto}

\* The copies of o a consumer got and has not charged: those it was sent ahead,
\* numbered from 1, and the one it works on, 0.
Copies(c, o) == {n \in Nat : \/ n > 0 /\ n <= proc[c].held[o]
                             \/ n = 0 /\ proc[c].at = "received" /\ proc[c].order = o}
Stock(o) == {x \in Consumers \X Nat : x[2] \in Copies(x[1], o)}

\* Every charge of an automatic consumer, every copy it has and every copy in the
\* queue is a message of its own.
Covered ==
    ~manualRuns /\ ~torn => \A o \in Orders :
        /\ IsFiniteSet(Stock(o))
        /\ charges[o] + queue[o] + Cardinality(Stock(o)) <= published[o]

Rows == TypeOK /\ AllManual /\ AllAuto /\ OffIsOff
DeliveryInv == Rows /\ Marked /\ Worked /\ AtLeastOnce /\ Covered

-----------------------------------------------------------------------------
(* What a step does to the consumers *)

OnlyRow(c) == \A d \in Consumers : d # c => proc'[d] = proc[d]

LEMMA StartRow ==
    ASSUME TypeOK, NEW c \in Consumers, Start(c)
    PROVE  /\ OnlyRow(c) /\ proc[c].at = "off"
           /\ proc'[c].at = "wait" /\ proc'[c].order = None /\ proc'[c].held = Nothing
           /\ autoRuns' = (autoRuns \/ proc'[c].flags.auto)
           /\ manualRuns' = (manualRuns \/ ~proc'[c].flags.auto)
<1>1. PICK f \in Flags : /\ proc' = [proc EXCEPT ![c] = [Off EXCEPT !.at = "wait", !.flags = f]]
                         /\ autoRuns' = (autoRuns \/ f.auto)
                         /\ manualRuns' = (manualRuns \/ ~f.auto)
  BY DEF Start
<1>2. PICK p : p = [Off EXCEPT !.at = "wait", !.flags = f]
  OBVIOUS
<1>3. p.at = "wait" /\ p.order = None /\ p.held = Nothing /\ p.flags = f
  BY <1>2 DEF Off
<1>4. proc'[c] = p /\ OnlyRow(c)
  BY <1>1, <1>2 DEF TypeOK, OnlyRow
<1> QED
  BY <1>1, <1>3, <1>4 DEF Start

LEMMA PushRow ==
    ASSUME TypeOK, NEW c \in Consumers, NEW o \in Orders, Push(c, o)
    PROVE  /\ OnlyRow(c) /\ proc[c].at # "off" /\ proc[c].flags.auto
           /\ proc'[c].at = proc[c].at /\ proc'[c].order = proc[c].order
           /\ proc'[c].flags = proc[c].flags
           /\ proc[c].held \in [Orders -> Nat]
           /\ proc'[c].held = [proc[c].held EXCEPT ![o] = @ + 1]
<1>1. PICK p : p = [proc[c] EXCEPT !.held = Add(proc[c].held, o)]
  OBVIOUS
<1>2. proc[c] \in Process
  BY DEF TypeOK
<1>3. /\ p.at = proc[c].at /\ p.order = proc[c].order /\ p.flags = proc[c].flags
      /\ p.held = Add(proc[c].held, o) /\ proc[c].held \in [Orders -> Nat]
  BY <1>1, <1>2 DEF Process
<1>4. proc'[c] = p /\ OnlyRow(c)
  BY <1>1 DEF Push, TypeOK, OnlyRow
<1> QED
  BY <1>3, <1>4 DEF Push, Add

LEMMA ReceiveRow ==
    ASSUME TypeOK, NEW c \in Consumers, NEW o \in Orders, Receive(c, o)
    PROVE  /\ OnlyRow(c) /\ proc[c].at = "wait" /\ proc[c].order = None
           /\ proc'[c].at = "received" /\ proc'[c].order = o
           /\ proc'[c].flags = proc[c].flags
           /\ proc[c].held \in [Orders -> Nat]
           /\ proc[c].flags.auto =>
                 /\ proc[c].held[o] > 0 /\ queue' = queue
                 /\ proc'[c].held = [proc[c].held EXCEPT ![o] = @ - 1]
           /\ ~proc[c].flags.auto =>
                 queue[o] > 0 /\ queue' = Take(queue, o) /\ proc'[c].held = proc[c].held
<1>1. proc[c] \in Process /\ proc[c].at = "wait" /\ proc[c].order = None
  BY DEF TypeOK, Receive
<1>2. CASE proc[c].flags.auto
  <2>1. PICK p : p = [proc[c] EXCEPT !.at = "received", !.order = o,
                                     !.held = Take(proc[c].held, o)]
    OBVIOUS
  <2>2. /\ p.at = "received" /\ p.order = o /\ p.flags = proc[c].flags
        /\ p.held = Take(proc[c].held, o) /\ proc[c].held \in [Orders -> Nat]
    BY <1>1, <2>1 DEF Process
  <2>3. proc'[c] = p /\ OnlyRow(c)
    BY <1>2, <2>1 DEF Receive, TypeOK, OnlyRow
  <2> QED
    BY <1>1, <1>2, <2>2, <2>3 DEF Receive, Take
<1>3. CASE ~proc[c].flags.auto
  <2>1. PICK p : p = [proc[c] EXCEPT !.at = "received", !.order = o]
    OBVIOUS
  <2>2. /\ p.at = "received" /\ p.order = o /\ p.flags = proc[c].flags
        /\ p.held = proc[c].held /\ proc[c].held \in [Orders -> Nat]
    BY <1>1, <2>1 DEF Process
  <2>3. proc'[c] = p /\ OnlyRow(c)
    BY <1>3, <2>1 DEF Receive, TypeOK, OnlyRow
  <2> QED
    BY <1>1, <1>3, <2>2, <2>3 DEF Receive
<1> QED
  BY <1>2, <1>3

LEMMA ChargeRow ==
    ASSUME TypeOK, NEW c \in Consumers, Charge(c)
    PROVE  /\ OnlyRow(c) /\ proc[c].at = "received" /\ proc[c].order \in Orders
           /\ proc'[c].at = "charged" /\ proc'[c].order = proc[c].order
           /\ proc'[c].flags = proc[c].flags /\ proc'[c].held = proc[c].held
<1>1. PICK p : p = [proc[c] EXCEPT !.at = "charged"]
  OBVIOUS
<1>2. proc[c] \in Process /\ proc[c].at = "received" /\ proc[c].order \in Orders
  BY DEF TypeOK, Charge, Process
<1>3. /\ p.at = "charged" /\ p.order = proc[c].order
      /\ p.flags = proc[c].flags /\ p.held = proc[c].held
  BY <1>1, <1>2 DEF Process
<1>4. proc'[c] = p /\ OnlyRow(c)
  BY <1>1 DEF Charge, TypeOK, OnlyRow
<1> QED
  BY <1>2, <1>3, <1>4

LEMMA FinishRow ==
    ASSUME TypeOK, NEW c \in Consumers, Finish(c)
    PROVE  /\ OnlyRow(c) /\ proc[c].at = "charged" /\ proc[c].order \in Orders
           /\ proc'[c].at = "wait" /\ proc'[c].order = None
           /\ proc'[c].flags = proc[c].flags /\ proc'[c].held = proc[c].held
<1>1. PICK p : p = [proc[c] EXCEPT !.at = "wait", !.order = None]
  OBVIOUS
<1>2. proc[c] \in Process /\ proc[c].at = "charged" /\ proc[c].order \in Orders
  BY DEF TypeOK, Finish, Process
<1>3. /\ p.at = "wait" /\ p.order = None
      /\ p.flags = proc[c].flags /\ p.held = proc[c].held
  BY <1>1, <1>2 DEF Process
<1>4. proc'[c] = p /\ OnlyRow(c)
  BY <1>1 DEF Finish, TypeOK, OnlyRow
<1> QED
  BY <1>2, <1>3, <1>4

LEMMA GoneRow ==
    ASSUME TypeOK, NEW c \in Consumers, Crash(c) \/ Exit(c)
    PROVE  OnlyRow(c) /\ proc'[c] = Off /\ proc[c].at # "off"
BY DEF TypeOK, Crash, Exit, OnlyRow

-----------------------------------------------------------------------------
(* The consumers that run *)

\* What was started, and what happened to the ledger, is not forgotten.
LEMMA HistoryStays ==
    ASSUME [Next]_vars
    PROVE  /\ autoRuns => autoRuns'
           /\ manualRuns => manualRuns'
           /\ torn => torn'
<1>1. ASSUME NEW c \in Consumers, Start(c)
      PROVE  (autoRuns => autoRuns') /\ (manualRuns => manualRuns') /\ (torn => torn')
  BY <1>1 DEF Start
<1>2. CASE Reset
  BY <1>2 DEF Reset
<1>3. CASE UNCHANGED <<autoRuns, manualRuns, torn>>
  BY <1>3
<1> QED
  BY <1>1, <1>2, <1>3 DEF Next, Publish, Push, Receive, Charge, Finish, Crash, Exit, vars, history

\* A step other than the start of a consumer leaves its flags, or ends it.
LEMMA FlagsStay ==
    ASSUME TypeOK, NEW c \in Consumers, NEW d \in Consumers,
           \/ Charge(c) \/ Finish(c) \/ Crash(c) \/ Exit(c)
           \/ \E o \in Orders : Push(c, o) \/ Receive(c, o)
    PROVE  \/ proc'[d] = Off \/ proc'[d] = proc[d]
           \/ /\ proc'[d].flags = proc[d].flags
              /\ proc[d].at # "off" /\ proc'[d].at # "off"
<1>1. CASE Charge(c)
  BY <1>1, ChargeRow DEF OnlyRow
<1>2. CASE Finish(c)
  BY <1>2, FinishRow DEF OnlyRow
<1>3. CASE Crash(c) \/ Exit(c)
  BY <1>3, GoneRow DEF OnlyRow
<1>4. ASSUME NEW o \in Orders, Push(c, o)
      PROVE  \/ proc'[d] = proc[d]
             \/ /\ proc'[d].flags = proc[d].flags
                /\ proc[d].at # "off" /\ proc'[d].at # "off"
  BY <1>4, PushRow DEF OnlyRow
<1>5. ASSUME NEW o \in Orders, Receive(c, o)
      PROVE  \/ proc'[d] = proc[d]
             \/ /\ proc'[d].flags = proc[d].flags
                /\ proc[d].at # "off" /\ proc'[d].at # "off"
  BY <1>5, ReceiveRow DEF OnlyRow
<1> QED
  BY <1>1, <1>2, <1>3, <1>4, <1>5

LEMMA RowsStep ==
    ASSUME Rows, [Next]_vars
    PROVE  Rows'
<1>0. TypeOK /\ TypeOK'
  BY TypeStep DEF Rows
<1> SUFFICES ASSUME NEW d \in Consumers
             PROVE  /\ ~autoRuns' => ~proc'[d].flags.auto
                    /\ ~manualRuns' => (proc'[d].at # "off" => proc'[d].flags.auto)
                    /\ proc'[d].at = "off" => proc'[d] = Off
  BY <1>0 DEF Rows, AllManual, AllAuto, OffIsOff
<1>1. /\ ~autoRuns => ~proc[d].flags.auto
      /\ ~manualRuns => (proc[d].at # "off" => proc[d].flags.auto)
      /\ proc[d].at = "off" => proc[d] = Off
  BY DEF Rows, AllManual, AllAuto, OffIsOff
<1>2. Off.at = "off" /\ ~Off.flags.auto
  BY DEF Off, NoFlags
<1>3. ASSUME NEW c \in Consumers, Start(c)
      PROVE  /\ ~autoRuns' => ~proc'[d].flags.auto
             /\ ~manualRuns' => (proc'[d].at # "off" => proc'[d].flags.auto)
             /\ proc'[d].at = "off" => proc'[d] = Off
  <2>1. CASE d = c
    BY <1>0, <1>3, <2>1, StartRow
  <2>2. CASE d # c
    BY <1>0, <1>1, <1>3, <2>2, StartRow DEF OnlyRow
  <2> QED
    BY <2>1, <2>2
<1>4. ASSUME NEW c \in Consumers,
             \/ Charge(c) \/ Finish(c) \/ Crash(c) \/ Exit(c)
             \/ \E o \in Orders : Push(c, o) \/ Receive(c, o)
      PROVE  /\ ~autoRuns' => ~proc'[d].flags.auto
             /\ ~manualRuns' => (proc'[d].at # "off" => proc'[d].flags.auto)
             /\ proc'[d].at = "off" => proc'[d] = Off
  <2>1. autoRuns' = autoRuns /\ manualRuns' = manualRuns
    BY <1>4 DEF Charge, Finish, Crash, Exit, Push, Receive, history
  <2> QED
    BY <1>0, <1>1, <1>2, <1>4, <2>1, FlagsStay
<1>5. CASE UNCHANGED <<proc, autoRuns, manualRuns>>
  BY <1>1, <1>5
<1> QED
  BY <1>3, <1>4, <1>5 DEF Next, Publish, Reset, vars, history

-----------------------------------------------------------------------------
(* At least once *)

\* What a step does to charges and IDs: nothing, one charge, or a reset.
LEMMA LedgerStep ==
    ASSUME TypeOK, [Next]_vars
    PROVE  \/ UNCHANGED <<charges, processed>>
           \/ Reset
           \/ \E c \in Consumers : Charge(c) /\ LET o == proc[c].order IN
                 /\ o \in Orders
                 /\ charges' = [charges EXCEPT ![o] = @ + 1]
                 /\ processed' \in {processed, processed \cup {o}}
<1>1. ASSUME NEW c \in Consumers, Charge(c)
      PROVE  \/ UNCHANGED <<charges, processed>>
             \/ /\ proc[c].order \in Orders
                /\ charges' = [charges EXCEPT ![proc[c].order] = @ + 1]
                /\ processed' \in {processed, processed \cup {proc[c].order}}
  BY <1>1, ChargeRow DEF Charge, Record, Add
<1> QED
  BY <1>1 DEF Next, Publish, Start, Push, Receive, Finish, Crash, Exit, vars, history

LEMMA ChargesGrow ==
    ASSUME TypeOK, [Next]_vars, ~Reset
    PROVE  \A o \in Orders : charges'[o] >= charges[o] /\ charges'[o] \in Nat
<1>1. charges \in [Orders -> Nat]
  BY DEF TypeOK
<1> QED
  BY <1>1, LedgerStep

LEMMA MarkedStep ==
    ASSUME TypeOK, Marked, [Next]_vars
    PROVE  Marked'
<1>1. charges \in [Orders -> Nat] /\ processed \subseteq Orders
  BY DEF TypeOK
<1>2. CASE UNCHANGED <<charges, processed>>
  BY <1>2 DEF Marked
<1>3. CASE Reset
  BY <1>3 DEF Reset, Empty, Marked
<1>4. ASSUME NEW o \in Orders, charges' = [charges EXCEPT ![o] = @ + 1],
             processed' \in {processed, processed \cup {o}}
      PROVE  Marked'
  BY <1>1, <1>4 DEF Marked
<1> QED
  BY <1>2, <1>3, <1>4, LedgerStep

\* A consumer that is done with a charge has charged, or found the ID of one.
LEMMA WorkedStep ==
    ASSUME Rows, Marked, Worked, [Next]_vars
    PROVE  Worked'
<1> SUFFICES ASSUME ~torn', ~torn, NEW d \in Consumers, proc'[d].at = "charged"
             PROVE  charges'[proc'[d].order] > 0
  BY HistoryStays DEF Worked
<1>0. TypeOK /\ charges \in [Orders -> Nat]
  BY DEF Rows, TypeOK
<1>1. CASE Reset
  BY <1>1 DEF Reset
<1>2. CASE ~Reset /\ proc[d].at = "charged" /\ proc'[d].order = proc[d].order
  <2>1. charges[proc[d].order] > 0 /\ proc[d].order \in Orders
    BY <1>0, <1>2 DEF Worked, TypeOK, Process
  <2> QED
    BY <1>0, <1>2, <2>1, ChargesGrow
<1>3. CASE Charge(d)
  <2>1. /\ proc[d].order \in Orders /\ proc'[d].order = proc[d].order
        /\ Record(proc[d].order, proc[d].flags.idempotent)
    BY <1>0, <1>3, ChargeRow DEF Charge
  <2> QED
    BY <1>0, <2>1 DEF Record, Add, Marked
<1>4. (proc[d].at = "charged" /\ proc'[d].order = proc[d].order) \/ Charge(d)
  <2>1. ASSUME NEW c \in Consumers, Start(c) PROVE proc'[d] = proc[d]
    BY <1>0, <2>1, StartRow DEF OnlyRow
  <2>2. ASSUME NEW c \in Consumers, Charge(c) PROVE proc'[d] = proc[d] \/ c = d
    BY <1>0, <2>2, ChargeRow DEF OnlyRow
  <2>3. ASSUME NEW c \in Consumers, Finish(c) PROVE proc'[d] = proc[d]
    BY <1>0, <2>3, FinishRow DEF OnlyRow
  <2>4. ASSUME NEW c \in Consumers, Crash(c) \/ Exit(c) PROVE proc'[d] = proc[d]
    BY <1>0, <2>4, GoneRow DEF OnlyRow, Off
  <2>5. ASSUME NEW c \in Consumers, NEW o \in Orders, Push(c, o)
        PROVE  proc'[d].at = proc[d].at /\ proc'[d].order = proc[d].order
    BY <1>0, <2>5, PushRow DEF OnlyRow
  <2>6. ASSUME NEW c \in Consumers, NEW o \in Orders, Receive(c, o) PROVE proc'[d] = proc[d]
    BY <1>0, <2>6, ReceiveRow DEF OnlyRow
  <2> QED
    BY <2>1, <2>2, <2>3, <2>4, <2>5, <2>6 DEF Next, Publish, Reset, vars
<1>5. CASE ~Reset
  BY <1>2, <1>3, <1>4, <1>5
<1> QED
  BY <1>1, <1>5

LEMMA WorkersCount ==
    ASSUME NEW o \in Orders
    PROVE  /\ IsFiniteSet(Workers(o)) /\ Cardinality(Workers(o)) \in Nat
           /\ IsFiniteSet(Workers(o)') /\ Cardinality(Workers(o)') \in Nat
<1>1. Workers(o) \subseteq Consumers /\ Workers(o)' \subseteq Consumers
  BY DEF Workers
<1> QED
  BY <1>1, FS_Subset, FS_CardinalityType

\* A message goes from the queue to a worker, back with the worker's end, or is settled.
LEMMA WaitingStep ==
    ASSUME Rows, Rows', [Next]_vars, ~autoRuns, ~autoRuns', ~torn', NEW o \in Orders,
           queue[o] + Cardinality(Workers(o)) + settled[o] = published[o]
    PROVE  queue'[o] + Cardinality(Workers(o)') + settled'[o] = published'[o]
<1>0. /\ TypeOK /\ TypeOK'
      /\ \A c \in Consumers : ~proc[c].flags.auto /\ ~proc'[c].flags.auto
  BY DEF Rows, AllManual
<1>1. /\ queue \in [Orders -> Nat] /\ settled \in [Orders -> Nat] /\ published \in [Orders -> Nat]
      /\ queue' \in [Orders -> Nat] /\ settled' \in [Orders -> Nat] /\ published' \in [Orders -> Nat]
  BY <1>0 DEF TypeOK
<1>2. /\ IsFiniteSet(Workers(o)) /\ Cardinality(Workers(o)) \in Nat
      /\ IsFiniteSet(Workers(o)') /\ Cardinality(Workers(o)') \in Nat
  BY WorkersCount
<1>3. /\ Workers(o) = {c \in Consumers : proc[c].order = o}
      /\ Workers(o)' = {c \in Consumers : proc'[c].order = o}
  BY <1>0 DEF Workers
<1>4. ASSUME Publish(o) \/ (\E q \in Orders : Publish(q))
      PROVE  queue'[o] + Cardinality(Workers(o)') + settled'[o] = published'[o]
  <2>1. PICK q \in Orders : Publish(q)
    BY <1>4
  <2>2. Workers(o)' = Workers(o) /\ settled' = settled
    BY <2>1 DEF Publish, Workers
  <2>3. /\ queue' = [queue EXCEPT ![q] = @ + 1]
        /\ published' = [published EXCEPT ![q] = @ + 1]
    BY <2>1 DEF Publish, Add
  <2> QED
    BY <1>1, <1>2, <2>2, <2>3
<1>5. ASSUME NEW c \in Consumers, Start(c) \/ Charge(c) \/ Exit(c)
      PROVE  queue'[o] + Cardinality(Workers(o)') + settled'[o] = published'[o]
  <2>1. OnlyRow(c) /\ proc'[c].order = proc[c].order
    <3>1. CASE Start(c)
      BY <1>0, <3>1, StartRow DEF TypeOK
    <3>2. CASE Charge(c)
      BY <1>0, <3>2, ChargeRow
    <3>3. CASE Exit(c)
      BY <1>0, <3>3, GoneRow DEF Exit, TypeOK, Off
    <3> QED
      BY <1>5, <3>1, <3>2, <3>3
  <2>2. Workers(o)' = Workers(o)
    BY <1>3, <2>1 DEF OnlyRow
  <2>3. UNCHANGED <<queue, settled, published>>
    BY <1>5 DEF Start, Charge, Exit, history
  <2> QED
    BY <2>2, <2>3
<1>6. ASSUME NEW c \in Consumers, NEW q \in Orders, Push(c, q)
      PROVE  queue'[o] + Cardinality(Workers(o)') + settled'[o] = published'[o]
  BY <1>0, <1>6, PushRow
<1>7. ASSUME NEW c \in Consumers, NEW q \in Orders, Receive(c, q)
      PROVE  queue'[o] + Cardinality(Workers(o)') + settled'[o] = published'[o]
  <2>1. /\ OnlyRow(c) /\ proc[c].order = None /\ proc'[c].order = q
        /\ queue[q] > 0 /\ queue' = [queue EXCEPT ![q] = @ - 1]
    BY <1>0, <1>7, ReceiveRow DEF Take
  <2>2. UNCHANGED <<settled, published>>
    BY <1>7 DEF Receive, history
  <2>3. CASE q = o
    <3>1. Workers(o)' = Workers(o) \cup {c} /\ c \notin Workers(o)
      BY <1>3, <2>1, <2>3 DEF OnlyRow
    <3>2. Cardinality(Workers(o)') = Cardinality(Workers(o)) + 1
      BY <1>2, <3>1, FS_AddElement
    <3> QED
      BY <1>1, <1>2, <2>1, <2>2, <2>3, <3>2
  <2>4. CASE q # o
    <3>1. Workers(o)' = Workers(o)
      BY <1>3, <2>1, <2>4 DEF OnlyRow
    <3> QED
      BY <1>1, <2>1, <2>2, <2>4, <3>1
  <2> QED
    BY <2>3, <2>4
<1>8. ASSUME NEW c \in Consumers, Finish(c)
      PROVE  queue'[o] + Cardinality(Workers(o)') + settled'[o] = published'[o]
  <2>1. /\ OnlyRow(c) /\ proc[c].order \in Orders /\ proc'[c].order = None
        /\ settled' = [settled EXCEPT ![proc[c].order] = @ + 1]
    BY <1>0, <1>8, FinishRow DEF Finish, Add
  <2>2. UNCHANGED <<queue, published>>
    BY <1>8 DEF Finish
  <2>3. CASE proc[c].order = o
    <3>1. Workers(o)' = Workers(o) \ {c} /\ c \in Workers(o)
      BY <1>3, <2>1, <2>3 DEF OnlyRow
    <3>2. Cardinality(Workers(o)') = Cardinality(Workers(o)) - 1
      BY <1>2, <3>1, FS_RemoveElement
    <3> QED
      BY <1>1, <1>2, <2>1, <2>2, <2>3, <3>2
  <2>4. CASE proc[c].order # o
    <3>1. Workers(o)' = Workers(o)
      BY <1>3, <2>1, <2>4 DEF OnlyRow
    <3> QED
      BY <1>1, <2>1, <2>2, <2>4, <3>1
  <2> QED
    BY <2>3, <2>4
<1>9. ASSUME NEW c \in Consumers, Crash(c)
      PROVE  queue'[o] + Cardinality(Workers(o)') + settled'[o] = published'[o]
  <2>1. OnlyRow(c) /\ proc'[c].order = None /\ proc[c].order \in Orders \cup {None}
    BY <1>0, <1>9, GoneRow DEF Off, TypeOK, Process
  <2>2. UNCHANGED <<settled, published>>
    BY <1>9 DEF Crash, history
  <2>3. queue' = IF proc[c].order # None THEN [queue EXCEPT ![proc[c].order] = @ + 1] ELSE queue
    BY <1>0, <1>9 DEF Crash, TakeBack, Add
  <2>4. CASE proc[c].order = o
    <3>1. Workers(o)' = Workers(o) \ {c} /\ c \in Workers(o)
      BY <1>3, <2>1, <2>4 DEF OnlyRow
    <3>2. Cardinality(Workers(o)') = Cardinality(Workers(o)) - 1
      BY <1>2, <3>1, FS_RemoveElement
    <3> QED
      BY <1>1, <1>2, <2>2, <2>3, <2>4, <3>2
  <2>5. CASE proc[c].order # o
    <3>1. Workers(o)' = Workers(o)
      BY <1>3, <2>1, <2>5 DEF OnlyRow
    <3>2. queue'[o] = queue[o]
      BY <1>1, <2>1, <2>3, <2>5
    <3> QED
      BY <2>2, <3>1, <3>2
  <2> QED
    BY <2>4, <2>5
<1>10. CASE Reset
  <2>1. \A c \in Consumers : proc'[c] = Off
    BY <1>0, <1>10 DEF Reset, Rows, OffIsOff
  <2>2. Workers(o)' = {}
    BY <1>3, <2>1 DEF Off
  <2>3. settled'[o] = 0 /\ published' = queue /\ queue' = queue
    BY <1>10 DEF Reset, Nothing
  <2> QED
    BY <1>1, <2>2, <2>3, FS_EmptySet
<1>11. CASE UNCHANGED vars
  BY <1>11 DEF vars, history, Workers
<1> QED
  BY <1>4, <1>5, <1>6, <1>7, <1>8, <1>9, <1>10, <1>11 DEF Next

LEMMA AtLeastOnceStep ==
    ASSUME Rows, Rows', Worked, AtLeastOnce, [Next]_vars
    PROVE  AtLeastOnce'
<1> SUFFICES ASSUME ~autoRuns', ~torn', ~autoRuns, ~torn, NEW o \in Orders
             PROVE  /\ queue'[o] + Cardinality(Workers(o)') + settled'[o] = published'[o]
                    /\ settled'[o] > 0 => charges'[o] > 0
  BY HistoryStays DEF AtLeastOnce, Waiting, Workers
<1>1. /\ queue[o] + Cardinality(Workers(o)) + settled[o] = published[o]
      /\ settled[o] > 0 => charges[o] > 0
  BY DEF AtLeastOnce, Waiting, Workers
<1>2. queue'[o] + Cardinality(Workers(o)') + settled'[o] = published'[o]
  BY <1>1, WaitingStep
<1>0. /\ TypeOK /\ charges \in [Orders -> Nat] /\ settled \in [Orders -> Nat]
  BY DEF Rows, TypeOK
<1>3. CASE Reset
  BY <1>2, <1>3 DEF Reset, Nothing
<1>4. CASE ~Reset
  <2>1. ASSUME NEW c \in Consumers, Finish(c)
        PROVE  settled'[o] > 0 => charges'[o] > 0
    <3>1. /\ proc[c].at = "charged" /\ charges' = charges
          /\ settled' = settled \/ settled' = [settled EXCEPT ![proc[c].order] = @ + 1]
      BY <2>1 DEF Finish, Add
    <3> QED
      BY <1>0, <1>1, <3>1 DEF Worked
  <2>2. CASE UNCHANGED settled
    <3>1. charges'[o] >= charges[o] /\ charges'[o] \in Nat
      BY <1>0, <1>4, ChargesGrow
    <3> QED
      BY <1>0, <1>1, <1>2, <2>2, <3>1
  <2>3. settled'[o] > 0 => charges'[o] > 0
    BY <1>4, <2>1, <2>2 DEF Next, Publish, Start, Push, Receive, Charge, Crash, Exit, vars, history
  <2> QED
    BY <1>2, <2>3
<1> QED
  BY <1>3, <1>4

-----------------------------------------------------------------------------
(* At most once *)

\* A consumer's copies are a part of what they were.
LEMMA StockShrinks ==
    ASSUME NEW c \in Consumers, NEW o \in Orders, OnlyRow(c), IsFiniteSet(Stock(o)),
           Copies(c, o)' \subseteq Copies(c, o)
    PROVE  IsFiniteSet(Stock(o)') /\ Cardinality(Stock(o)') <= Cardinality(Stock(o))
<1>1. Stock(o)' \subseteq Stock(o)
  BY DEF Stock, Copies, OnlyRow
<1> QED
  BY <1>1, FS_Subset

LEMMA StockSame ==
    ASSUME NEW c \in Consumers, NEW o \in Orders, OnlyRow(c),
           Copies(c, o)' = Copies(c, o)
    PROVE  Stock(o)' = Stock(o)
BY DEF Stock, Copies, OnlyRow

\* A message that is not there yet, or is there no longer.
LEMMA StockAdds ==
    ASSUME NEW c \in Consumers, NEW o \in Orders, OnlyRow(c), IsFiniteSet(Stock(o)),
           NEW n \in Nat, n \notin Copies(c, o), Copies(c, o)' = Copies(c, o) \cup {n}
    PROVE  IsFiniteSet(Stock(o)') /\ Cardinality(Stock(o)') = Cardinality(Stock(o)) + 1
<1>1. Stock(o)' = Stock(o) \cup {<<c, n>>} /\ <<c, n>> \notin Stock(o)
  <2>1. ASSUME NEW x \in Consumers \X Nat
        PROVE  x \in Stock(o)' <=> x \in Stock(o) \/ x = <<c, n>>
    <3>1. x \in Stock(o)' <=> x[2] \in Copies(x[1], o)'
      BY <2>1 DEF Stock, Copies
    <3>2. x \in Stock(o) <=> x[2] \in Copies(x[1], o)
      BY <2>1 DEF Stock
    <3>3. CASE x[1] = c
      BY <2>1, <3>1, <3>2, <3>3
    <3>4. CASE x[1] # c
      <4>1. Copies(x[1], o)' = Copies(x[1], o)
        BY <3>4 DEF Copies, OnlyRow
      <4> QED
        BY <2>1, <3>1, <3>2, <3>4, <4>1
    <3> QED
      BY <3>3, <3>4
  <2>2. Stock(o) \subseteq Consumers \X Nat /\ Stock(o)' \subseteq Consumers \X Nat
    BY DEF Stock
  <2>3. <<c, n>> \notin Stock(o)
    BY DEF Stock
  <2> QED
    BY <2>1, <2>2, <2>3
<1> QED
  BY <1>1, FS_AddElement

LEMMA StockRemoves ==
    ASSUME NEW c \in Consumers, NEW o \in Orders, OnlyRow(c), IsFiniteSet(Stock(o)),
           NEW n \in Nat, n \in Copies(c, o), Copies(c, o)' = Copies(c, o) \ {n}
    PROVE  IsFiniteSet(Stock(o)') /\ Cardinality(Stock(o)') = Cardinality(Stock(o)) - 1
<1>1. Stock(o)' = Stock(o) \ {<<c, n>>} /\ <<c, n>> \in Stock(o)
  <2>1. ASSUME NEW x \in Consumers \X Nat
        PROVE  x \in Stock(o)' <=> x \in Stock(o) /\ x # <<c, n>>
    <3>1. x \in Stock(o)' <=> x[2] \in Copies(x[1], o)'
      BY <2>1 DEF Stock, Copies
    <3>2. x \in Stock(o) <=> x[2] \in Copies(x[1], o)
      BY <2>1 DEF Stock
    <3>3. CASE x[1] = c
      BY <2>1, <3>1, <3>2, <3>3
    <3>4. CASE x[1] # c
      <4>1. Copies(x[1], o)' = Copies(x[1], o)
        BY <3>4 DEF Copies, OnlyRow
      <4> QED
        BY <2>1, <3>1, <3>2, <3>4, <4>1
    <3> QED
      BY <3>3, <3>4
  <2>2. Stock(o) \subseteq Consumers \X Nat /\ Stock(o)' \subseteq Consumers \X Nat
    BY DEF Stock
  <2>3. <<c, n>> \in Stock(o)
    BY DEF Stock
  <2> QED
    BY <2>1, <2>2, <2>3
<1> QED
  BY <1>1, FS_RemoveElement, FS_Subset

\* The next of the copies sent ahead becomes the one the consumer works on.
LEMMA StockSwaps ==
    ASSUME NEW c \in Consumers, NEW o \in Orders, OnlyRow(c), IsFiniteSet(Stock(o)),
           NEW n \in Nat, n \in Copies(c, o), NEW m \in Nat, m \notin Copies(c, o),
           Copies(c, o)' = (Copies(c, o) \ {n}) \cup {m}
    PROVE  IsFiniteSet(Stock(o)') /\ Cardinality(Stock(o)') = Cardinality(Stock(o))
<1> DEFINE Rest == Stock(o) \ {<<c, n>>}
<1>1. Stock(o)' = Rest \cup {<<c, m>>} /\ <<c, n>> \in Stock(o) /\ <<c, m>> \notin Rest
  <2>1. ASSUME NEW x \in Consumers \X Nat
        PROVE  x \in Stock(o)' <=> (x \in Stock(o) /\ x # <<c, n>>) \/ x = <<c, m>>
    <3>1. x \in Stock(o)' <=> x[2] \in Copies(x[1], o)'
      BY <2>1 DEF Stock, Copies
    <3>2. x \in Stock(o) <=> x[2] \in Copies(x[1], o)
      BY <2>1 DEF Stock
    <3>3. CASE x[1] = c
      BY <2>1, <3>1, <3>2, <3>3
    <3>4. CASE x[1] # c
      <4>1. Copies(x[1], o)' = Copies(x[1], o)
        BY <3>4 DEF Copies, OnlyRow
      <4> QED
        BY <2>1, <3>1, <3>2, <3>4, <4>1
    <3> QED
      BY <3>3, <3>4
  <2>2. Stock(o) \subseteq Consumers \X Nat /\ Stock(o)' \subseteq Consumers \X Nat
    BY DEF Stock
  <2>3. <<c, n>> \in Stock(o) /\ <<c, m>> \notin Stock(o)
    BY DEF Stock
  <2> QED
    BY <2>1, <2>2, <2>3
<1>2. IsFiniteSet(Rest) /\ Cardinality(Rest) = Cardinality(Stock(o)) - 1
  BY <1>1, FS_RemoveElement, FS_Subset
<1>3. Cardinality(Rest) \in Nat /\ Cardinality(Stock(o)) \in Nat
  BY <1>2, FS_CardinalityType
<1> HIDE DEF Rest
<1>4. IsFiniteSet(Rest \cup {<<c, m>>}) /\ Cardinality(Rest \cup {<<c, m>>}) = Cardinality(Rest) + 1
  BY <1>1, <1>2, FS_AddElement
<1> QED
  BY <1>1, <1>2, <1>3, <1>4

\* A message is in the queue, with a consumer, charged, or lost with a process.
LEMMA StockStep ==
    ASSUME Rows, [Next]_vars, ~manualRuns, ~manualRuns', ~torn', NEW o \in Orders,
           IsFiniteSet(Stock(o)),
           charges[o] + queue[o] + Cardinality(Stock(o)) <= published[o]
    PROVE  /\ IsFiniteSet(Stock(o)')
           /\ charges'[o] + queue'[o] + Cardinality(Stock(o)') <= published'[o]
<1> DEFINE Goal == /\ IsFiniteSet(Stock(o)')
                   /\ charges'[o] + queue'[o] + Cardinality(Stock(o)') <= published'[o]
<1>0. /\ TypeOK /\ TypeOK'
      /\ \A c \in Consumers : proc[c].at # "off" => proc[c].flags.auto
      /\ \A c \in Consumers : proc[c].held \in [Orders -> Nat]
  BY TypeStep DEF Rows, AllAuto, TypeOK, Process
<1>1. /\ queue \in [Orders -> Nat] /\ charges \in [Orders -> Nat] /\ published \in [Orders -> Nat]
      /\ queue' \in [Orders -> Nat] /\ charges' \in [Orders -> Nat] /\ published' \in [Orders -> Nat]
  BY <1>0 DEF TypeOK
<1>2. Cardinality(Stock(o)) \in Nat
  BY FS_CardinalityType
<1>3. IsFiniteSet(Stock(o)') => Cardinality(Stock(o)') \in Nat
  BY FS_CardinalityType
<1>4. ASSUME NEW q \in Orders, Publish(q) PROVE Goal
  <2>1. Stock(o)' = Stock(o) /\ charges' = charges
    BY <1>4 DEF Publish, Stock, Copies
  <2>2. queue' = [queue EXCEPT ![q] = @ + 1] /\ published' = [published EXCEPT ![q] = @ + 1]
    BY <1>4 DEF Publish, Add
  <2> QED
    BY <1>1, <1>2, <2>1, <2>2
<1>5. ASSUME NEW c \in Consumers, Start(c) \/ Crash(c) \/ Exit(c) PROVE Goal
  <2>1. OnlyRow(c) /\ proc'[c].held = Nothing /\ proc'[c].at # "received"
    BY <1>0, <1>5, StartRow, GoneRow DEF Off
  <2>2. Copies(c, o)' = {}
    BY <2>1 DEF Copies, Nothing
  <2>3. IsFiniteSet(Stock(o)') /\ Cardinality(Stock(o)') <= Cardinality(Stock(o))
    BY <2>1, <2>2, StockShrinks
  <2>4. UNCHANGED <<queue, charges, published>>
    BY <1>0, <1>5 DEF Start, Crash, Exit, TakeBack, history
  <2> QED
    BY <1>1, <1>2, <1>3, <2>3, <2>4
<1>6. ASSUME NEW c \in Consumers, NEW q \in Orders, Push(c, q) PROVE Goal
  <2>1. /\ OnlyRow(c) /\ proc'[c].at = proc[c].at /\ proc'[c].order = proc[c].order
        /\ proc'[c].held = [proc[c].held EXCEPT ![q] = @ + 1]
    BY <1>0, <1>6, PushRow
  <2>2. queue[q] > 0 /\ queue' = [queue EXCEPT ![q] = @ - 1] /\ UNCHANGED <<charges, published>>
    BY <1>6 DEF Push, Take, history
  <2>3. CASE q = o
    <3> DEFINE n == proc[c].held[o] + 1
    <3>1. n \in Nat /\ n \notin Copies(c, o) /\ Copies(c, o)' = Copies(c, o) \cup {n}
      BY <1>0, <2>1, <2>3 DEF Copies
    <3>2. IsFiniteSet(Stock(o)') /\ Cardinality(Stock(o)') = Cardinality(Stock(o)) + 1
      BY <2>1, <3>1, StockAdds
    <3> QED
      BY <1>1, <1>2, <2>2, <2>3, <3>2
  <2>4. CASE q # o
    <3>1. Copies(c, o)' = Copies(c, o)
      BY <1>0, <2>1, <2>4 DEF Copies
    <3>2. Stock(o)' = Stock(o)
      BY <2>1, <3>1, StockSame
    <3> QED
      BY <1>1, <2>2, <2>4, <3>2
  <2> QED
    BY <2>3, <2>4
<1>7. ASSUME NEW c \in Consumers, NEW q \in Orders, Receive(c, q) PROVE Goal
  <2>1. /\ OnlyRow(c) /\ proc[c].at = "wait" /\ proc'[c].at = "received" /\ proc'[c].order = q
        /\ proc[c].held[q] > 0 /\ proc'[c].held = [proc[c].held EXCEPT ![q] = @ - 1]
        /\ queue' = queue
    BY <1>0, <1>7, ReceiveRow
  <2>2. UNCHANGED <<charges, published>>
    BY <1>7 DEF Receive, history
  <2>3. CASE q = o
    <3> DEFINE n == proc[c].held[o]
    <3>1. n \in Nat /\ n \in Copies(c, o) /\ 0 \notin Copies(c, o)
      BY <1>0, <2>1, <2>3 DEF Copies
    <3>2. Copies(c, o)' = (Copies(c, o) \ {n}) \cup {0}
      BY <1>0, <2>1, <2>3 DEF Copies
    <3>3. IsFiniteSet(Stock(o)') /\ Cardinality(Stock(o)') = Cardinality(Stock(o))
      BY <2>1, <3>1, <3>2, StockSwaps
    <3> QED
      BY <2>1, <2>2, <3>3
  <2>4. CASE q # o
    <3>1. Copies(c, o)' = Copies(c, o)
      BY <1>0, <2>1, <2>4 DEF Copies
    <3>2. Stock(o)' = Stock(o)
      BY <2>1, <3>1, StockSame
    <3> QED
      BY <2>1, <2>2, <3>2
  <2> QED
    BY <2>3, <2>4
<1>8. ASSUME NEW c \in Consumers, Charge(c) PROVE Goal
  <2>1. /\ OnlyRow(c) /\ proc[c].at = "received" /\ proc[c].order \in Orders
        /\ proc'[c].at = "charged" /\ proc'[c].held = proc[c].held
    BY <1>0, <1>8, ChargeRow
  <2>2. charges' = charges \/ charges' = [charges EXCEPT ![proc[c].order] = @ + 1]
    BY <1>8 DEF Charge, Record, Add
  <2>3. UNCHANGED <<queue, published>>
    BY <1>8 DEF Charge, history
  <2>4. CASE proc[c].order = o
    <3>1. 0 \in Copies(c, o) /\ Copies(c, o)' = Copies(c, o) \ {0}
      BY <1>0, <2>1, <2>4 DEF Copies
    <3>2. IsFiniteSet(Stock(o)') /\ Cardinality(Stock(o)') = Cardinality(Stock(o)) - 1
      BY <2>1, <3>1, StockRemoves
    <3> QED
      BY <1>1, <1>2, <2>2, <2>3, <2>4, <3>2
  <2>5. CASE proc[c].order # o
    <3>1. Copies(c, o)' = Copies(c, o)
      BY <2>1, <2>5 DEF Copies
    <3>2. Stock(o)' = Stock(o)
      BY <2>1, <3>1, StockSame
    <3>3. charges'[o] = charges[o]
      BY <1>1, <2>1, <2>2, <2>5
    <3> QED
      BY <2>3, <3>2, <3>3
  <2> QED
    BY <2>4, <2>5
<1>9. ASSUME NEW c \in Consumers, Finish(c) PROVE Goal
  <2>1. /\ OnlyRow(c) /\ proc[c].at = "charged" /\ proc'[c].at = "wait"
        /\ proc'[c].held = proc[c].held
    BY <1>0, <1>9, FinishRow
  <2>2. Copies(c, o)' = Copies(c, o)
    BY <2>1 DEF Copies
  <2>3. Stock(o)' = Stock(o)
    BY <2>1, <2>2, StockSame
  <2>4. UNCHANGED <<queue, charges, published>>
    BY <1>9 DEF Finish
  <2> QED
    BY <2>3, <2>4
<1>10. CASE Reset
  <2>1. \A c \in Consumers : proc'[c] = Off
    BY <1>0, <1>10 DEF Reset, Rows, OffIsOff
  <2>2. \A c \in Consumers : Copies(c, o)' = {}
    BY <2>1 DEF Copies, Off, Nothing
  <2>3. Stock(o)' = {}
    BY <2>2 DEF Stock
  <2>4. charges'[o] = 0 /\ published' = queue /\ queue' = queue
    BY <1>10 DEF Reset, Empty, Nothing
  <2> QED
    BY <1>1, <2>3, <2>4, FS_EmptySet
<1>11. CASE UNCHANGED vars
  BY <1>11 DEF vars, history, Stock, Copies
<1> QED
  BY <1>4, <1>5, <1>6, <1>7, <1>8, <1>9, <1>10, <1>11 DEF Next

LEMMA CoveredStep ==
    ASSUME Rows, Covered, [Next]_vars
    PROVE  Covered'
<1> SUFFICES ASSUME ~manualRuns', ~torn', ~manualRuns, ~torn, NEW o \in Orders
             PROVE  /\ IsFiniteSet(Stock(o)')
                    /\ charges'[o] + queue'[o] + Cardinality(Stock(o)') <= published'[o]
  BY HistoryStays DEF Covered
<1>1. /\ IsFiniteSet(Stock(o))
      /\ charges[o] + queue[o] + Cardinality(Stock(o)) <= published[o]
  BY DEF Covered
<1> QED
  BY <1>1, StockStep

-----------------------------------------------------------------------------

LEMMA DeliveryInit == Init => DeliveryInv
<1> SUFFICES ASSUME Init PROVE DeliveryInv
  OBVIOUS
<1>1. TypeOK
  BY InvInit DEF Inv
<1>2. /\ Off.order = None /\ Off.at = "off" /\ Off.held = Nothing /\ ~Off.flags.auto
      /\ \A c \in Consumers : proc[c] = Off
  BY DEF Off, NoFlags, Init
<1>3. AllManual /\ AllAuto /\ OffIsOff /\ Marked /\ Worked
  BY <1>2 DEF AllManual, AllAuto, OffIsOff, Marked, Worked, Init
<1>4. AtLeastOnce
  <2> SUFFICES ASSUME NEW o \in Orders
               PROVE  /\ queue[o] + Cardinality(Workers(o)) + settled[o] = published[o]
                      /\ settled[o] = 0
    BY <1>1 DEF AtLeastOnce, Waiting, Workers, TypeOK
  <2>1. Workers(o) = {}
    BY <1>2 DEF Workers
  <2> QED
    BY <2>1, FS_EmptySet DEF Init, Nothing
<1>5. Covered
  <2>1. ASSUME NEW o \in Orders PROVE Stock(o) = {}
    BY <1>2 DEF Stock, Copies, Nothing
  <2> QED
    BY <2>1, FS_EmptySet DEF Covered, Init, Nothing
<1> QED
  BY <1>1, <1>3, <1>4, <1>5 DEF DeliveryInv, Rows

LEMMA DeliveryStep == DeliveryInv /\ [Next]_vars => DeliveryInv'
<1> SUFFICES ASSUME DeliveryInv, [Next]_vars PROVE DeliveryInv'
  OBVIOUS
<1>1. Rows /\ TypeOK /\ Rows'
  BY RowsStep DEF DeliveryInv, Rows
<1>2. Marked' /\ Worked'
  BY <1>1, MarkedStep, WorkedStep DEF DeliveryInv
<1>3. AtLeastOnce' /\ Covered'
  BY <1>1, AtLeastOnceStep, CoveredStep DEF DeliveryInv
<1> QED
  BY <1>1, <1>2, <1>3 DEF DeliveryInv

\* README.md:184-185 of lab 14: consumers that acknowledge after the work never lose an
\* order, and ones the broker acknowledges for never charge more than was published,
\* wherever processes die, whatever is published again and however many of them run.
THEOREM GuaranteesAreKept == Spec => []DeliveredAsPromised
<1>1. DeliveryInv => DeliveredAsPromised
  <2> SUFFICES ASSUME DeliveryInv PROVE AtMostOnce /\ AtLeastOnce
    BY DEF DeliveredAsPromised
  <2> SUFFICES ASSUME ~manualRuns, ~torn, NEW o \in Orders PROVE charges[o] <= published[o]
    BY DEF DeliveryInv, AtMostOnce
  <2>1. /\ IsFiniteSet(Stock(o))
        /\ charges[o] + queue[o] + Cardinality(Stock(o)) <= published[o]
    BY DEF DeliveryInv, Covered
  <2>2. queue[o] \in Nat /\ charges[o] \in Nat /\ published[o] \in Nat
    BY DEF DeliveryInv, Rows, TypeOK
  <2> QED
    BY <2>1, <2>2, FS_CardinalityType
<1> QED
  BY <1>1, DeliveryInit, DeliveryStep, PTL DEF Spec
=============================================================================
