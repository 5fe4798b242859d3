------------------------- MODULE ArchSession_proofs -------------------------
(***************************************************************************)
(* Proofs about the rules and the page of the architecture exercise, for any *)
(* slots, services, answers and budget: what a handler makes of an attempt   *)
(* the rules allow is such an attempt again, what is stored is what is shown, *)
(* and a challenge stays strict.                                             *)
(***************************************************************************)
EXTENDS ArchSession, FiniteSetTheorems, TLAPS

USE SlotsAssumption, AnswerAssumption, CoreNoneAssumption, BudgetAssumption, BoundsAssumption

\* No service is used more often than it has tiles, in one attempt.
Fits(a) == \A v \in Services : Cardinality(SlotsWith(a, v)) <= Uses(v)

\* AttemptAgrees but for what the page does after the rules (recorded), and that the
\* verdicts on open slots are those of the present try.
Ruled(a) ==
    /\ \A s \in Slots :
          /\ s \in a.locked <=> a.result[s].status \in {"correct", "revealed"}
          /\ s \in a.locked => a.put[s] = Answer[s]
          /\ a.result[s].status = "correct"
                => a.result[s].points = SlotPoints(a.result[s].attempt, a.hints[s])
          /\ a.result[s].status \in {"wrong", "empty"} => a.put[s] \in {None, a.result[s].got}
          /\ a.result[s].status # "correct" => a.result[s].points = 0
          /\ a.result[s] # NoResult => a.result[s].attempt <= a.attempt
          /\ a.result[s] # NoResult /\ s \notin a.locked => a.result[s].attempt = a.attempt
    /\ a.done <=> a.locked = Slots

Good(a) == a \in Attempts /\ Fits(a) /\ Ruled(a)

Strict(a, m) ==
    m = "challenge" =>
        /\ a.attempt = 1 /\ (Judged(a) # {} => a.done)
        /\ \A s \in Slots : a.hints[s] = 0

\* An attempt between two handlers.
Sound(a, m) == Good(a) /\ a.recorded = a.done /\ Strict(a, m)

SessionInv ==
    /\ TypeOK
    /\ \A a \in {att} \cup undo : Sound(a, mode)
    /\ Sound(open.att, open.mode)
    /\ StoredIsCurrent

-----------------------------------------------------------------------------
(* Points and tiles *)

LEMMA PointsPaid ==
    ASSUME NEW n \in Nat \ {0}, NEW h \in 0..3
    PROVE  SlotPoints(n, h) \in Points
<1>1. PICK base \in {10, 5, 2} : base = CASE n = 1 -> 10 [] n = 2 -> 5 [] OTHER -> 2
  OBVIOUS
<1>2. 2 ^ h \in {1, 2, 4, 8}
  <2>1. 2 ^ 0 = 1 /\ 2 ^ 1 = 2 /\ 2 ^ 2 = 4 /\ 2 ^ 3 = 8
    OBVIOUS
  <2>2. h = 0 \/ h = 1 \/ h = 2 \/ h = 3
    OBVIOUS
  <2> QED
    BY <2>1, <2>2
<1>3. \A k \in {1, 2, 4, 8} : (IF base \div k < 2 THEN 2 ELSE base \div k) \in {2, 5, 10}
  OBVIOUS
<1> QED
  BY <1>1, <1>2, <1>3 DEF SlotPoints, Points

LEMMA SlotSets ==
    ASSUME NEW T \in SUBSET Slots
    PROVE  IsFiniteSet(T) /\ Cardinality(T) \in Nat
BY FS_Subset, FS_CardinalityType

LEMMA UsesType == \A v \in Services : Uses(v) \in Nat /\ Uses(v) > 0
<1> SUFFICES ASSUME NEW v \in Services PROVE Uses(v) \in Nat /\ Uses(v) > 0
  OBVIOUS
<1>1. Cardinality({s \in Slots : Answer[s] = v}) \in Nat
  BY SlotSets
<1> QED
  BY <1>1 DEF Uses

\* Taking tiles away leaves an attempt that fits.
LEMMA FewerFit ==
    ASSUME NEW a, NEW b, Fits(a),
           \A v \in Services : SlotsWith(b, v) \subseteq SlotsWith(a, v)
    PROVE  Fits(b)
<1> SUFFICES ASSUME NEW v \in Services PROVE Cardinality(SlotsWith(b, v)) <= Uses(v)
  BY DEF Fits
<1>1. SlotsWith(a, v) \in SUBSET Slots /\ SlotsWith(b, v) \in SUBSET Slots
  BY DEF SlotsWith
<1>2. Cardinality(SlotsWith(b, v)) <= Cardinality(SlotsWith(a, v))
  BY <1>1, SlotSets, FS_Subset
<1> QED
  BY <1>1, <1>2, SlotSets, UsesType DEF Fits

-----------------------------------------------------------------------------
(* Every rule makes a good attempt of a good one *)

LEMMA NewIsGood == Good(NewAttempt) /\ \A m : Strict(NewAttempt, m)
<1> DEFINE n == NewAttempt
<1>1. /\ n.put = [s \in Slots |-> None] /\ n.locked = {} /\ n.attempt = 1
      /\ n.hints = [s \in Slots |-> 0] /\ n.result = [s \in Slots |-> NoResult]
      /\ n.done = FALSE /\ n.recorded = FALSE
  BY DEF NewAttempt
<1>2. n \in Attempts
  BY DEF NewAttempt, Attempts
<1>3. Fits(n)
  <2>1. \A v \in Services : SlotsWith(n, v) = {}
    BY <1>1 DEF SlotsWith
  <2> QED
    BY <2>1, FS_EmptySet, UsesType DEF Fits
<1>4. Ruled(n)
  BY <1>1 DEF Ruled, NoResult
<1>5. \A m : Strict(n, m)
  BY <1>1 DEF Strict, Judged
<1> QED
  BY <1>2, <1>3, <1>4, <1>5 DEF Good
\* Only tiles on open slots that are not judged changed.
LEMMA TilesStep ==
    ASSUME NEW a, NEW b \in Attempts, Good(a), Fits(b),
           b.locked = a.locked, b.attempt = a.attempt, b.hints = a.hints,
           b.result = a.result, b.done = a.done,
           \A s \in Slots : b.put[s] # a.put[s] => s \notin a.locked,
           \A s \in Slots : b.put[s] \notin {None, a.put[s]} => a.result[s] = NoResult
    PROVE  Good(b)
<1>1. \A s \in Slots : a.result[s].status \in {"wrong", "empty"} => b.put[s] \in {None, a.put[s]}
  BY DEF NoResult
<1> QED
  BY <1>1 DEF Good, Ruled

\* A judged open slot was judged in the present try.
LEMMA JudgedInThisTry ==
    ASSUME NEW a, Good(a), NEW s \in Slots, s \notin a.locked,
           ~(a.result[s] # NoResult /\ a.result[s].attempt = a.attempt)
    PROVE  a.result[s] = NoResult
BY DEF Good, Ruled

LEMMA PlacedIsGood ==
    ASSUME NEW a, Good(a), NEW s \in Slots, NEW v \in Services,
           CanPlace(a, s, v), a.result[s] = NoResult
    PROVE  /\ Good(Placed(a, s, v))
           /\ Placed(a, s, v).recorded = a.recorded /\ Placed(a, s, v).done = a.done
           /\ \A m : Strict(a, m) => Strict(Placed(a, s, v), m)
<1>1. PICK b : b = Placed(a, s, v)
  OBVIOUS
<1>2. a \in Attempts /\ s \notin a.locked
  BY DEF Good, CanPlace
<1>3. /\ b \in Attempts /\ b.put = [a.put EXCEPT ![s] = v]
      /\ b.locked = a.locked /\ b.attempt = a.attempt /\ b.hints = a.hints
      /\ b.result = a.result /\ b.done = a.done /\ b.recorded = a.recorded
  BY <1>1, <1>2 DEF Placed, Attempts
<1>4. a.put \in [Slots -> Services \cup {None}]
  BY <1>2 DEF Attempts
<1>5. Fits(b)
  <2>1. CASE a.put[s] = v
    BY <1>3, <1>4, <2>1, FewerFit DEF Good, SlotsWith
  <2>2. CASE a.put[s] # v
    <3> SUFFICES ASSUME NEW w \in Services PROVE Cardinality(SlotsWith(b, w)) <= Uses(w)
      BY DEF Fits
    <3>1. SlotsWith(a, w) \in SUBSET Slots /\ SlotsWith(b, w) \in SUBSET Slots
      BY DEF SlotsWith
    <3>2. CASE w = v
      <4>1. SlotsWith(b, v) = SlotsWith(a, v) \cup {s} /\ s \notin SlotsWith(a, v)
        BY <1>3, <1>4, <2>2 DEF SlotsWith
      <4>2. Cardinality(SlotsWith(b, v)) = Cardinality(SlotsWith(a, v)) + 1
        BY <3>1, <3>2, <4>1, SlotSets, FS_AddElement
      <4> QED
        BY <2>2, <3>1, <3>2, <4>2, SlotSets, UsesType DEF CanPlace
    <3>3. CASE w # v
      <4>1. SlotsWith(b, w) \subseteq SlotsWith(a, w)
        BY <1>3, <1>4, <3>3 DEF SlotsWith
      <4>2. Cardinality(SlotsWith(b, w)) <= Cardinality(SlotsWith(a, w))
        BY <3>1, <4>1, SlotSets, FS_Subset
      <4> QED
        BY <3>1, <4>2, SlotSets, UsesType DEF Good, Fits
    <3> QED
      BY <3>2, <3>3
  <2> QED
    BY <2>1, <2>2
<1>6. Good(b)
  BY <1>2, <1>3, <1>4, <1>5, TilesStep
<1> QED
  BY <1>1, <1>3, <1>6 DEF Strict, Judged

LEMMA MovedIsGood ==
    ASSUME NEW a, Good(a), NEW from \in Slots, NEW to \in Slots, CanMove(a, from, to),
           a.result[to] = NoResult
    PROVE  /\ Good(Moved(a, from, to))
           /\ Moved(a, from, to).recorded = a.recorded /\ Moved(a, from, to).done = a.done
           /\ \A m : Strict(a, m) => Strict(Moved(a, from, to), m)
<1>1. CASE from = to
  BY <1>1 DEF Moved
<1>2. CASE from # to
  <2>1. PICK b : b = Moved(a, from, to)
    OBVIOUS
  <2>2. a \in Attempts /\ from \notin a.locked /\ to \notin a.locked /\ a.put[from] # None
    BY DEF Good, CanMove
  <2>3. a.put \in [Slots -> Services \cup {None}] /\ a.put[from] \in Services
    BY <2>2 DEF Attempts
  <2>4. /\ b \in Attempts /\ b.put = [a.put EXCEPT ![to] = a.put[from], ![from] = None]
        /\ b.locked = a.locked /\ b.attempt = a.attempt /\ b.hints = a.hints
        /\ b.result = a.result /\ b.done = a.done /\ b.recorded = a.recorded
    BY <1>2, <2>1, <2>2, <2>3 DEF Moved, Attempts
  <2>5. Fits(b)
    <3> SUFFICES ASSUME NEW w \in Services PROVE Cardinality(SlotsWith(b, w)) <= Uses(w)
      BY DEF Fits
    <3>1. SlotsWith(a, w) \in SUBSET Slots /\ SlotsWith(b, w) \in SUBSET Slots
      BY DEF SlotsWith
    <3>2. Cardinality(SlotsWith(b, w)) <= Cardinality(SlotsWith(a, w))
      <4>1. CASE w = a.put[from]
        <5>1. /\ from \in SlotsWith(a, w)
              /\ SlotsWith(b, w) = (SlotsWith(a, w) \ {from}) \cup {to}
          BY <1>2, <2>3, <2>4, <4>1 DEF SlotsWith
        <5>2. PICK rest : rest = SlotsWith(a, w) \ {from}
          OBVIOUS
        <5>3. /\ rest \in SUBSET Slots
              /\ Cardinality(rest) = Cardinality(SlotsWith(a, w)) - 1
          BY <3>1, <5>1, <5>2, SlotSets, FS_RemoveElement
        <5>4. Cardinality(rest \cup {to}) <= Cardinality(rest) + 1
          BY <5>3, SlotSets, FS_AddElement
        <5> QED
          BY <3>1, <5>1, <5>2, <5>3, <5>4, SlotSets
      <4>2. CASE w # a.put[from]
        <5>1. SlotsWith(b, w) \subseteq SlotsWith(a, w)
          BY <2>3, <2>4, <4>2 DEF SlotsWith
        <5> QED
          BY <3>1, <5>1, SlotSets, FS_Subset
      <4> QED
        BY <4>1, <4>2
    <3> QED
      BY <3>1, <3>2, SlotSets, UsesType DEF Good, Fits
  <2>6. Good(b)
    BY <1>2, <2>2, <2>3, <2>4, <2>5, TilesStep
  <2> QED
    BY <2>1, <2>4, <2>6 DEF Strict, Judged
<1> QED
  BY <1>1, <1>2

\* remove and resetAttempt take tiles from open slots.
LEMMA TakenIsGood ==
    ASSUME NEW a, Good(a), NEW b, NEW put, b = [a EXCEPT !.put = put],
           put \in [Slots -> Services \cup {None}],
           \A s \in Slots : put[s] = a.put[s] \/ (put[s] = None /\ s \notin a.locked)
    PROVE  /\ Good(b) /\ b.recorded = a.recorded /\ b.done = a.done
           /\ \A m : Strict(a, m) => Strict(b, m)
<1>1. a \in Attempts
  BY DEF Good
<1>2. /\ b \in Attempts /\ b.put = put
      /\ b.locked = a.locked /\ b.attempt = a.attempt /\ b.hints = a.hints
      /\ b.result = a.result /\ b.done = a.done /\ b.recorded = a.recorded
  BY <1>1 DEF Attempts
<1>3. Fits(b)
  <2>1. \A v \in Services : SlotsWith(b, v) \subseteq SlotsWith(a, v)
    BY <1>2 DEF SlotsWith
  <2> QED
    BY <2>1, FewerFit DEF Good
<1>4. Good(b)
  BY <1>2, <1>3, TilesStep
<1> QED
  BY <1>2, <1>4 DEF Strict, Judged

LEMMA RemovedIsGood ==
    ASSUME NEW a, Good(a), NEW s \in Slots, s \notin a.locked
    PROVE  /\ Good(Removed(a, s))
           /\ Removed(a, s).recorded = a.recorded /\ Removed(a, s).done = a.done
           /\ \A m : Strict(a, m) => Strict(Removed(a, s), m)
<1>1. a.put \in [Slots -> Services \cup {None}] /\ a \in Attempts
  BY DEF Good, Attempts
<1>2. Removed(a, s) = [a EXCEPT !.put = [a.put EXCEPT ![s] = None]]
  BY <1>1 DEF Removed, Attempts
<1> QED
  BY <1>1, <1>2, TakenIsGood

LEMMA ClearedIsGood ==
    ASSUME NEW a, Good(a)
    PROVE  /\ Good(Cleared(a)) /\ Cleared(a).recorded = a.recorded /\ Cleared(a).done = a.done
           /\ \A m : Strict(a, m) => Strict(Cleared(a), m)
<1>1. a.put \in [Slots -> Services \cup {None}] /\ a \in Attempts
  BY DEF Good, Attempts
<1>2. PICK put : put = [s \in Slots |-> IF s \in a.locked THEN a.put[s] ELSE None]
  OBVIOUS
<1>3. Cleared(a) = [a EXCEPT !.put = put]
  BY <1>2 DEF Cleared
<1> QED
  BY <1>1, <1>2, <1>3, TakenIsGood
LEMMA HintedIsGood ==
    ASSUME NEW a, Good(a), NEW s \in Slots, s \notin a.locked
    PROVE  /\ Good(Hinted(a, s)) /\ Hinted(a, s).recorded = a.recorded
           /\ Hinted(a, s).done = a.done
<1>1. PICK b : b = Hinted(a, s)
  OBVIOUS
<1>2. a \in Attempts /\ a.hints \in [Slots -> 0..3]
  BY DEF Good, Attempts
<1>3. /\ b \in Attempts /\ b.put = a.put /\ b.locked = a.locked
      /\ b.attempt = a.attempt /\ \A t \in Slots : t # s => b.hints[t] = a.hints[t]
      /\ b.result = a.result /\ b.done = a.done /\ b.recorded = a.recorded
  BY <1>1, <1>2 DEF Hinted, Attempts
<1>4. Fits(b)
  BY <1>3, FewerFit DEF Good, SlotsWith
<1>5. a.result[s].status # "correct"
  BY DEF Good, Ruled
<1>6. Ruled(b)
  BY <1>3, <1>5 DEF Good, Ruled
<1> QED
  BY <1>1, <1>3, <1>4, <1>6 DEF Good

LEMMA ElapsedIsGood ==
    ASSUME NEW a, Good(a), NEW n \in Nat
    PROVE  /\ Good(AddElapsed(a, n)) /\ AddElapsed(a, n).recorded = a.recorded
           /\ AddElapsed(a, n).done = a.done
           /\ AddElapsed(a, n).result = a.result /\ AddElapsed(a, n).put = a.put
           /\ AddElapsed(a, n).locked = a.locked /\ AddElapsed(a, n).attempt = a.attempt
           /\ \A m : Strict(a, m) => Strict(AddElapsed(a, n), m)
<1>1. PICK b : b = AddElapsed(a, n)
  OBVIOUS
<1>2. a \in Attempts
  BY DEF Good
<1>3. /\ b \in Attempts /\ b.put = a.put /\ b.locked = a.locked
      /\ b.attempt = a.attempt /\ b.hints = a.hints
      /\ b.result = a.result /\ b.done = a.done /\ b.recorded = a.recorded
  BY <1>1, <1>2 DEF AddElapsed, Attempts
<1>4. Fits(b)
  BY <1>3, FewerFit DEF Good, SlotsWith
<1>5. Good(b)
  BY <1>3, <1>4 DEF Good, Ruled
<1> QED
  BY <1>1, <1>3, <1>5 DEF Strict, Judged

LEMMA SubmittedIsGood ==
    ASSUME NEW a, Good(a), ~a.done
    PROVE  /\ Good(Submitted(a)) /\ Submitted(a).recorded = a.recorded
           /\ Submitted(a).attempt = a.attempt /\ Submitted(a).hints = a.hints
<1>1. PICK b : b = Submitted(a)
  OBVIOUS
<1>2. PICK right : right = {s \in Open(a) : Verdict(a, s) = "correct"}
  OBVIOUS
<1>3. a \in Attempts /\ a.put \in [Slots -> Services \cup {None}] /\ a.locked \subseteq Slots
      /\ a.attempt \in Nat \ {0} /\ a.hints \in [Slots -> 0..3]
      /\ a.result \in [Slots -> Results \cup {NoResult}]
  BY DEF Good, Attempts
<1> DEFINE mark(s) == [status |-> Verdict(a, s), attempt |-> a.attempt, got |-> a.put[s],
                       points |-> IF s \in right THEN SlotPoints(a.attempt, a.hints[s]) ELSE 0]
<1>4. PICK res : res = [s \in Slots |-> IF s \in Open(a) THEN mark(s) ELSE a.result[s]]
  OBVIOUS
<1>5. res \in [Slots -> Results \cup {NoResult}]
  <2> SUFFICES ASSUME NEW s \in Slots, s \in Open(a) PROVE mark(s) \in Results
    BY <1>3, <1>4
  <2>1. SlotPoints(a.attempt, a.hints[s]) \in Points /\ 0 \in Points
    BY <1>3, PointsPaid DEF Points
  <2>2. Verdict(a, s) \in {"correct", "wrong", "empty", "revealed"}
    BY DEF Verdict
  <2> QED
    BY <1>3, <2>1, <2>2 DEF Results
<1>6. b = [a EXCEPT !.locked = a.locked \cup right, !.done = (Open(a) = right), !.result = res]
  BY <1>1, <1>2, <1>3, <1>4 DEF Submitted, Attempts
<1>7. right \subseteq Slots
  BY <1>2 DEF Open
<1>8. /\ b \in Attempts /\ b.put = a.put /\ b.locked = a.locked \cup right
      /\ b.done = (Open(a) = right) /\ b.attempt = a.attempt /\ b.hints = a.hints
      /\ b.result = res /\ b.recorded = a.recorded
  BY <1>3, <1>5, <1>6, <1>7 DEF Attempts
<1>9. Fits(b)
  BY <1>8, FewerFit DEF Good, SlotsWith
<1>10. Ruled(b)
  <2>1. b.done <=> b.locked = Slots
    BY <1>2, <1>3, <1>8 DEF Open
  <2>2. ASSUME NEW s \in Slots, s \in a.locked
        PROVE  b.result[s] = a.result[s] /\ s \in b.locked
    BY <1>4, <1>8, <2>2 DEF Open
  <2>3. ASSUME NEW s \in Slots, s \notin a.locked
        PROVE  /\ b.result[s].status = Verdict(a, s) /\ b.result[s].attempt = a.attempt
               /\ b.result[s].got = a.put[s]
               /\ s \in right => b.result[s].points = SlotPoints(a.attempt, a.hints[s])
               /\ s \notin right => b.result[s].points = 0
               /\ s \in right <=> Verdict(a, s) = "correct"
               /\ s \in b.locked <=> s \in right
    BY <1>2, <1>4, <1>8, <2>3 DEF Open
  <2>4. ASSUME NEW s \in Slots, s \in right PROVE b.put[s] = Answer[s]
    BY <1>2, <1>8, <2>4 DEF Verdict
  <2>5. ASSUME NEW s \in Slots
        PROVE  /\ s \in b.locked <=> b.result[s].status \in {"correct", "revealed"}
               /\ s \in b.locked => b.put[s] = Answer[s]
               /\ b.result[s].status = "correct"
                     => b.result[s].points = SlotPoints(b.result[s].attempt, b.hints[s])
               /\ b.result[s].status \in {"wrong", "empty"}
                     => b.put[s] \in {None, b.result[s].got}
               /\ b.result[s].status # "correct" => b.result[s].points = 0
               /\ b.result[s] # NoResult => b.result[s].attempt <= b.attempt
               /\ b.result[s] # NoResult /\ s \notin b.locked => b.result[s].attempt = b.attempt
    <3>1. CASE s \in a.locked
      BY <1>8, <2>2, <3>1 DEF Good, Ruled
    <3>2. CASE s \notin a.locked
      BY <1>3, <1>8, <2>3, <2>4, <3>2 DEF Verdict
    <3> QED
      BY <3>1, <3>2
  <2> QED
    BY <2>1, <2>5 DEF Ruled
<1> QED
  BY <1>1, <1>8, <1>9, <1>10 DEF Good

LEMMA RetriedIsGood ==
    ASSUME NEW a, Good(a), ~a.done
    PROVE  /\ Good(Retried(a)) /\ Retried(a).recorded = a.recorded
           /\ Retried(a).done = a.done
<1>1. PICK b : b = Retried(a)
  OBVIOUS
<1>2. /\ a \in Attempts /\ a.put \in [Slots -> Services \cup {None}]
      /\ a.attempt \in Nat \ {0} /\ a.result \in [Slots -> Results \cup {NoResult}]
  BY DEF Good, Attempts
<1>3. PICK put : put = [s \in Slots |-> IF s \in a.locked THEN a.put[s] ELSE None]
  OBVIOUS
<1>4. Cleared(a).put = put /\ put \in [Slots -> Services \cup {None}]
  BY <1>2, <1>3 DEF Cleared, Attempts
<1>5. PICK res : res = [s \in Slots |-> IF s \in a.locked THEN a.result[s] ELSE NoResult]
  OBVIOUS
<1>6. res \in [Slots -> Results \cup {NoResult}]
  BY <1>2, <1>5
<1>7. b = [a EXCEPT !.attempt = a.attempt + 1, !.put = put, !.result = res]
  BY <1>1, <1>2, <1>4, <1>5 DEF Retried, Attempts
<1>8. /\ b \in Attempts /\ b.put = put /\ b.locked = a.locked /\ b.done = a.done
      /\ b.attempt = a.attempt + 1 /\ b.hints = a.hints /\ b.result = res
      /\ b.recorded = a.recorded
  <2>1. a.attempt + 1 \in Nat \ {0}
    BY <1>2
  <2>2. PICK n \in Nat \ {0} : n = a.attempt + 1
    BY <2>1
  <2> QED
    BY <1>2, <1>4, <1>6, <1>7, <2>2 DEF Attempts
<1>9. Fits(b)
  <2>1. \A v \in Services : SlotsWith(b, v) \subseteq SlotsWith(a, v)
    BY <1>3, <1>8 DEF SlotsWith
  <2> QED
    BY <2>1, FewerFit DEF Good
<1>10. Ruled(b)
  <2>1. ASSUME NEW s \in Slots, s \in a.locked
        PROVE  b.result[s] = a.result[s] /\ b.put[s] = a.put[s]
    BY <1>3, <1>5, <1>8, <2>1
  <2>2. ASSUME NEW s \in Slots, s \notin a.locked PROVE b.result[s] = NoResult
    BY <1>5, <1>8, <2>2
  <2>3. ASSUME NEW s \in Slots
        PROVE  a.result[s].attempt \in Nat
    BY <1>2 DEF Results, NoResult
  <2> QED
    BY <1>2, <1>8, <2>1, <2>2, <2>3 DEF Good, Ruled, NoResult
<1> QED
  BY <1>1, <1>8, <1>9, <1>10 DEF Good

LEMMA RevealedIsGood ==
    ASSUME NEW a, Good(a)
    PROVE  /\ Good(Revealed(a)) /\ Revealed(a).recorded = a.recorded /\ Revealed(a).done
           /\ Revealed(a).attempt = a.attempt /\ Revealed(a).hints = a.hints
<1>1. PICK b : b = Revealed(a)
  OBVIOUS
<1>2. /\ a \in Attempts /\ a.put \in [Slots -> Services \cup {None}]
      /\ a.attempt \in Nat \ {0} /\ a.result \in [Slots -> Results \cup {NoResult}]
  BY DEF Good, Attempts
<1> DEFINE shown(s) == [status |-> "revealed", points |-> 0, attempt |-> a.attempt,
                        got |-> IF a.result[s] # NoResult THEN a.result[s].got ELSE a.put[s]]
<1>3. PICK put : put = [s \in Slots |-> IF s \in a.locked THEN a.put[s] ELSE Answer[s]]
  OBVIOUS
<1>4. PICK res : res = [s \in Slots |-> IF s \in a.locked THEN a.result[s] ELSE shown(s)]
  OBVIOUS
<1>5. res \in [Slots -> Results \cup {NoResult}]
  <2> SUFFICES ASSUME NEW s \in Slots PROVE shown(s) \in Results
    BY <1>2, <1>4
  <2>1. a.result[s] # NoResult => a.result[s].got \in Services \cup {None}
    BY <1>2 DEF Results
  <2>2. (IF a.result[s] # NoResult THEN a.result[s].got ELSE a.put[s]) \in Services \cup {None}
    BY <1>2, <2>1
  <2> QED
    BY <1>2, <2>2 DEF Results, Points
<1>6. b = [a EXCEPT !.put = put, !.result = res, !.locked = Slots, !.done = TRUE,
                    !.revealed = TRUE]
  BY <1>1, <1>3, <1>4 DEF Revealed
<1>7. /\ b \in Attempts /\ b.put = put /\ b.locked = Slots /\ b.done = TRUE
      /\ b.attempt = a.attempt /\ b.hints = a.hints /\ b.result = res
      /\ b.recorded = a.recorded
  BY <1>2, <1>3, <1>5, <1>6 DEF Attempts
<1>8. \A s \in Slots : b.put[s] = Answer[s]
  BY <1>3, <1>7 DEF Good, Ruled
<1>9. Fits(b)
  <2> SUFFICES ASSUME NEW v \in Services PROVE Cardinality(SlotsWith(b, v)) <= Uses(v)
    BY DEF Fits
  <2>1. SlotsWith(b, v) = {s \in Slots : Answer[s] = v}
    BY <1>8 DEF SlotsWith
  <2>2. Cardinality({s \in Slots : Answer[s] = v}) \in Nat
    BY SlotSets
  <2> QED
    BY <2>1, <2>2 DEF Uses
<1>10. Ruled(b)
  <2>1. ASSUME NEW s \in Slots, s \in a.locked PROVE b.result[s] = a.result[s]
    BY <1>4, <1>7, <2>1
  <2>2. ASSUME NEW s \in Slots, s \notin a.locked PROVE b.result[s] = shown(s)
    BY <1>4, <1>7, <2>2
  <2>3. ASSUME NEW s \in Slots, s \notin a.locked
        PROVE  /\ b.result[s].status = "revealed" /\ b.result[s].points = 0
               /\ b.result[s].attempt = a.attempt
    <3>1. PICK got : b.result[s] = [status |-> "revealed", points |-> 0,
                                    attempt |-> a.attempt, got |-> got]
      BY <2>2, <2>3
    <3> QED
      BY <3>1
  <2> QED
    BY <1>2, <1>7, <1>8, <2>1, <2>3 DEF Good, Ruled
<1> QED
  BY <1>1, <1>7, <1>9, <1>10 DEF Good

\* The end of a challenge: one submit, or the time is up.
LEMMA ChallengeEnds ==
    ASSUME NEW a, Good(a), ~a.done
    PROVE  LET b == ChallengeSubmitted(a) IN
               /\ Good(b) /\ b.recorded = a.recorded /\ b.done
               /\ b.attempt = a.attempt /\ b.hints = a.hints
<1>1. PICK c : c = Submitted(a)
  OBVIOUS
<1>2. /\ Good(c) /\ c.recorded = a.recorded /\ c.attempt = a.attempt /\ c.hints = a.hints
  BY <1>1, SubmittedIsGood
<1>3. ChallengeSubmitted(a) = IF c.done THEN c ELSE Revealed(c)
  BY <1>1 DEF ChallengeSubmitted
<1>4. c.done \in BOOLEAN
  BY <1>2 DEF Good, Attempts
<1> QED
  BY <1>2, <1>3, <1>4, RevealedIsGood

LEMMA TimeEnds ==
    ASSUME NEW a, Good(a), ~a.done
    PROVE  LET b == TimedUp(a) IN
               /\ Good(b) /\ b.recorded = a.recorded /\ b.done
               /\ b.attempt = a.attempt /\ b.hints = a.hints
BY ChallengeEnds, RevealedIsGood DEF TimedUp
-----------------------------------------------------------------------------
(* Saving and counting *)

LEMMA ScoreType ==
    ASSUME NEW a, NEW m
    PROVE  Score(a, m) \in Nat
<1>1. /\ Cardinality({s \in Slots : a.result[s].points = 2}) \in Nat
      /\ Cardinality({s \in Slots : a.result[s].points = 5}) \in Nat
      /\ Cardinality({s \in Slots : a.result[s].points = 10}) \in Nat
      /\ Cardinality(Slots) \in Nat
  BY SlotSets
<1>2. PICK x \in Nat, y \in Nat, z \in Nat, n \in Nat :
          /\ x = Cardinality({s \in Slots : a.result[s].points = 2})
          /\ y = Cardinality({s \in Slots : a.result[s].points = 5})
          /\ z = Cardinality({s \in Slots : a.result[s].points = 10})
          /\ n = Cardinality(Slots)
  BY <1>1
<1>3. PICK bonus \in Nat : bonus = IF Perfect(a) THEN 2 * n ELSE 0
  OBVIOUS
<1>4. PICK timer \in Nat : timer = IF InTime(a, m) THEN n ELSE 0
  OBVIOUS
<1>5. Score(a, m) = 2 * x + 5 * y + 10 * z + bonus + timer
  BY <1>2, <1>3, <1>4 DEF Score
<1> QED
  BY <1>5

LEMMA CountedType ==
    ASSUME TypeOK, NEW a
    PROVE  Counted(a) \in Records
<1>1. rec.attempts \in Nat /\ rec.best \in Nat /\ rec.perfects \in Nat
  BY DEF TypeOK, Records
<1>2. PICK n \in Nat : n = Score(a, mode)
  BY ScoreType
<1>3. rec.attempts + 1 \in Nat /\ (rec.perfects + IF Perfect(a) THEN 1 ELSE 0) \in Nat
  BY <1>1
<1>4. (IF n > rec.best THEN n ELSE rec.best) \in Nat
  BY <1>1, <1>2
<1> QED
  BY <1>2, <1>3, <1>4 DEF Counted, Records

\* The fields a save does not look at.
Chrome ==
    /\ view' \in {"start", "puzzle", "elsewhere"} /\ mode' = mode /\ review' \in BOOLEAN
    /\ dialog' \in {"none", "submit", "clear"}
    /\ setting' \in Modes /\ rec' \in Records /\ helped' \in BOOLEAN

\* A sound attempt that is saved is sound, and what is stored is what is shown.
LEMMA SaveKeeps ==
    ASSUME SessionInv, NEW a, Sound(a, mode), Save(a), Chrome, undo' \subseteq undo \cup {att}
    PROVE  SessionInv'
<1>1. unbanked \in Nat /\ mode \in Modes /\ undo \subseteq Attempts /\ att \in Attempts
  BY DEF SessionInv, TypeOK
<1>2. att' = AddElapsed(a, unbanked) /\ att'.done = a.done
      /\ Good(att') /\ att'.recorded = a.recorded /\ Strict(att', mode)
  BY <1>1, ElapsedIsGood DEF Sound, Save
<1>3. Sound(att', mode)
  BY <1>2 DEF Sound
<1>4. att' \in Attempts
  BY <1>2 DEF Good
<1>5. open' = [of |-> "this", att |-> att', mode |-> mode', review |-> review']
  BY DEF Save, Chrome
<1>6. open' \in Stored /\ open'.att = att' /\ open'.mode = mode
  BY <1>1, <1>4, <1>5 DEF Stored, Chrome
<1>7. TypeOK'
  BY <1>1, <1>4, <1>6 DEF TypeOK, Save, Chrome
<1>8. ASSUME NEW x \in ({att} \cup undo)' PROVE Sound(x, mode)
  BY <1>3, <1>8 DEF SessionInv
<1> QED
  BY <1>3, <1>5, <1>6, <1>7, <1>8 DEF SessionInv, Sound, Good, Fits, Ruled, Strict,
     StoredIsCurrent, Chrome
\* What is known of the attempt shown.
LEMMA ShownIsSound ==
    ASSUME SessionInv
    PROVE  /\ Sound(att, mode) /\ att \in Attempts /\ att.done \in BOOLEAN
           /\ Good(att) /\ att.recorded = att.done /\ Strict(att, mode)
<1>1. Sound(att, mode)
  BY DEF SessionInv
<1> QED
  BY <1>1 DEF Sound, Good, Attempts

LEMMA BankedIsSound ==
    ASSUME SessionInv
    PROVE  /\ Good(Banked) /\ Strict(Banked, mode) /\ Sound(Banked, mode)
           /\ Banked.done = att.done /\ Banked.recorded = att.recorded
           /\ Banked.attempt = att.attempt
<1>1. unbanked \in Nat
  BY DEF SessionInv, TypeOK
<1> QED
  BY <1>1, ShownIsSound, ElapsedIsGood DEF Banked, Sound

LEMMA SettleKeeps ==
    ASSUME SessionInv, ~att.done, NEW a, Good(a), a.recorded = att.recorded, Strict(a, mode),
           Settle(a), view' = view, mode' = mode, setting' = setting,
           dialog' \in {"none", "submit", "clear"}, helped' \in BOOLEAN,
           undo' \subseteq undo \cup {att}
    PROVE  SessionInv'
<1>1. PICK b : b = [a EXCEPT !.recorded = a.recorded \/ a.done]
  OBVIOUS
<1>2. a \in Attempts /\ a.done \in BOOLEAN /\ ~a.recorded
  BY ShownIsSound DEF Good, Attempts
<1>3. (a.recorded \/ a.done) = a.done /\ (a.recorded \/ a.done) \in BOOLEAN
  BY <1>2
<1>4. b = [a EXCEPT !.recorded = a.done]
  BY <1>1, <1>3
<1>5. /\ b \in Attempts /\ b.put = a.put /\ b.locked = a.locked /\ b.done = a.done
      /\ b.attempt = a.attempt /\ b.hints = a.hints /\ b.result = a.result
      /\ b.recorded = a.done
  BY <1>2, <1>4 DEF Attempts
<1>6. Fits(b)
  BY <1>5, FewerFit DEF Good, SlotsWith
<1>7. Sound(b, mode)
  BY <1>5, <1>6 DEF Sound, Good, Ruled, Strict, Judged
<1>8. Save(b) /\ review' = review
  BY <1>1 DEF Settle
<1>9. rec' \in Records
  BY CountedType DEF Settle, SessionInv, TypeOK
<1>10. Chrome
  BY <1>8, <1>9 DEF Chrome, SessionInv, TypeOK
<1> QED
  BY <1>7, <1>8, <1>10, SaveKeeps

\* A handler that changes the attempt and nothing around it.
LEMMA UpdateKeeps ==
    ASSUME SessionInv, NEW a, Sound(a, mode), Update(a), undo' \subseteq undo \cup {att}
    PROVE  SessionInv'
<1>1. Chrome
  BY DEF Update, Chrome, SessionInv, TypeOK
<1> QED
  BY <1>1, SaveKeeps DEF Update

-----------------------------------------------------------------------------
(* The handlers *)

LEMMA PlaceStep ==
    ASSUME SessionInv, NEW s \in Slots, NEW v \in Services, Place(s, v)
    PROVE  SessionInv'
<1>1. att.result[s] = NoResult
  BY ShownIsSound, JudgedInThisTry DEF Place, JudgedNow, CanPlace
<1>2. Sound(Placed(att, s, v), mode)
  BY <1>1, ShownIsSound, PlacedIsGood DEF Place, Sound
<1> QED
  BY <1>2, UpdateKeeps DEF Place

LEMMA MoveStep ==
    ASSUME SessionInv, NEW from \in Slots, NEW to \in Slots, Move(from, to)
    PROVE  SessionInv'
<1>1. att.result[to] = NoResult
  BY ShownIsSound, JudgedInThisTry DEF Move, JudgedNow, CanMove
<1>2. Sound(Moved(att, from, to), mode)
  BY <1>1, ShownIsSound, MovedIsGood DEF Move, Sound
<1> QED
  BY <1>2, UpdateKeeps DEF Move
LEMMA RemoveStep ==
    ASSUME SessionInv, NEW s \in Slots, Remove(s)
    PROVE  SessionInv'
<1>1. Sound(Removed(att, s), mode)
  BY ShownIsSound, RemovedIsGood DEF Remove, Sound
<1> QED
  BY <1>1, UpdateKeeps DEF Remove

LEMMA HintStep ==
    ASSUME SessionInv, NEW s \in Slots, TakeHint(s)
    PROVE  SessionInv'
<1>1. Sound(Hinted(att, s), mode)
  BY ShownIsSound, HintedIsGood DEF TakeHint, Sound, Strict
<1>2. Chrome
  BY DEF TakeHint, Chrome, SessionInv, TypeOK
<1> QED
  BY <1>1, <1>2, SaveKeeps DEF TakeHint

\* The submit of a practice attempt, or the only one of a challenge.
LEMMA SubmissionStep ==
    ASSUME SessionInv, Submission, dialog' \in {"none", "submit", "clear"}
    PROVE  SessionInv'
<1>1. ~att.done /\ ~Banked.done
  BY BankedIsSound DEF Submission, CanSubmit
<1>2. helped' \in BOOLEAN
  BY DEF Submission, SessionInv, TypeOK
<1>3. CASE mode = "challenge"
  <2>1. PICK a : a = ChallengeSubmitted(Banked)
    OBVIOUS
  <2>2. /\ Good(a) /\ a.recorded = att.recorded /\ a.done
        /\ a.attempt = Banked.attempt /\ a.hints = Banked.hints
    BY <1>1, <2>1, BankedIsSound, ChallengeEnds
  <2>3. Strict(a, mode)
    BY <2>2, BankedIsSound DEF Strict
  <2>4. Settle(a)
    BY <1>3, <2>1 DEF Submission
  <2> QED
    BY <1>1, <1>2, <2>2, <2>3, <2>4, SettleKeeps DEF Submission
<1>4. CASE mode # "challenge"
  <2>1. PICK a : a = Submitted(Banked)
    OBVIOUS
  <2>2. Good(a) /\ a.recorded = att.recorded
    BY <1>1, <2>1, BankedIsSound, SubmittedIsGood
  <2>3. Strict(a, mode)
    BY <1>4 DEF Strict
  <2>4. Settle(a)
    BY <1>4, <2>1 DEF Submission
  <2> QED
    BY <1>1, <1>2, <2>2, <2>3, <2>4, SettleKeeps DEF Submission
<1> QED
  BY <1>3, <1>4

\* What is pending is judged and not done, so the mode is practice.
LEMMA PendingInPractice ==
    ASSUME SessionInv, Pending
    PROVE  ~att.done /\ mode # "challenge"
BY ShownIsSound DEF Pending, JudgedNow, Judged, Strict

LEMMA RetryStep ==
    ASSUME SessionInv, Retry
    PROVE  SessionInv'
<1>1. Sound(Retried(att), mode)
  BY ShownIsSound, PendingInPractice, RetriedIsGood DEF Retry, Sound, Strict
<1> QED
  BY <1>1, UpdateKeeps DEF Retry

LEMMA RevealStep ==
    ASSUME SessionInv, Reveal
    PROVE  SessionInv'
<1>1. PICK a : a = Revealed(Banked)
  OBVIOUS
<1>2. Good(a) /\ a.recorded = att.recorded /\ Strict(a, mode) /\ ~att.done
  BY <1>1, BankedIsSound, PendingInPractice, RevealedIsGood DEF Reveal, Strict
<1>3. Settle(a)
  BY <1>1 DEF Reveal
<1> QED
  BY <1>2, <1>3, SettleKeeps DEF Reveal, SessionInv, TypeOK

LEMMA TimeUpStep ==
    ASSUME SessionInv, TimeUp
    PROVE  SessionInv'
<1>1. ~att.done /\ ~Banked.done
  BY BankedIsSound DEF TimeUp, Running
<1>2. PICK a : a = TimedUp(Banked)
  OBVIOUS
<1>3. /\ Good(a) /\ a.recorded = att.recorded /\ a.done
      /\ a.attempt = Banked.attempt /\ a.hints = Banked.hints
  BY <1>1, <1>2, BankedIsSound, TimeEnds
<1>4. Strict(a, mode)
  BY <1>3, BankedIsSound DEF Strict
<1>5. Settle(a)
  BY <1>2 DEF TimeUp
<1> QED
  BY <1>1, <1>3, <1>4, <1>5, SettleKeeps DEF TimeUp, SessionInv, TypeOK

LEMMA ClearStep ==
    ASSUME SessionInv, ConfirmClear
    PROVE  SessionInv'
<1>1. Sound(Cleared(att), mode)
  BY ShownIsSound, ClearedIsGood DEF Sound
<1>2. Chrome
  BY DEF ConfirmClear, Chrome, SessionInv, TypeOK
<1> QED
  BY <1>1, <1>2, SaveKeeps DEF ConfirmClear

LEMMA UndoStep ==
    ASSUME SessionInv, Undo
    PROVE  SessionInv'
<1>1. PICK a \in undo : Update(a)
  BY DEF Undo
<1>2. Sound(a, mode)
  BY <1>1 DEF SessionInv
<1> QED
  BY <1>1, <1>2, UpdateKeeps DEF Undo

LEMMA SaveTimeStep ==
    ASSUME SessionInv, SaveTime
    PROVE  SessionInv'
BY ShownIsSound, UpdateKeeps DEF SaveTime

LEMMA ReviewStep ==
    ASSUME SessionInv, NEW on \in BOOLEAN, Review(on)
    PROVE  SessionInv'
<1>1. Chrome
  BY DEF Review, Chrome, SessionInv, TypeOK
<1> QED
  BY <1>1, ShownIsSound, SaveKeeps DEF Review

\* Dialogs, the clock and the undo timer leave the attempts alone.
LEMMA QuietStep ==
    ASSUME SessionInv, AskSubmit \/ AskClear \/ Cancel \/ UndoExpires \/ TimePasses
    PROVE  SessionInv'
<1>1. /\ UNCHANGED <<view, att, mode, review, setting, open, rec, helped>>
      /\ dialog' \in {"none", "submit", "clear"} /\ undo' \subseteq undo /\ unbanked' \in Nat
  BY DEF AskSubmit, AskClear, Cancel, UndoExpires, TimePasses, SessionInv, TypeOK
<1>2. TypeOK'
  BY <1>1 DEF SessionInv, TypeOK
<1>3. StoredIsCurrent'
  BY <1>1 DEF SessionInv, StoredIsCurrent
<1> QED
  BY <1>1, <1>2, <1>3 DEF SessionInv, Sound, Good, Fits, Ruled, Strict, Judged
-----------------------------------------------------------------------------
(* Between puzzles *)

NewIsSound == \A m : Sound(NewAttempt, m)

LEMMA NewSound == NewIsSound
BY NewIsGood DEF NewIsSound, Sound, NewAttempt

LEMMA NowhereTypes ==
    /\ Nowhere \in Stored /\ Sound(Nowhere.att, Nowhere.mode)
    /\ Elsewhere \in Stored /\ Sound(Elsewhere.att, Elsewhere.mode)
<1>1. NewAttempt \in Attempts
  BY NewIsGood DEF Good
<1>2. PICK n : n = NewAttempt
  OBVIOUS
<1>3. Nowhere = [of |-> "none", att |-> n, mode |-> "practice", review |-> FALSE]
  BY <1>2 DEF Nowhere
<1>4. Elsewhere = [of |-> "other", att |-> n, mode |-> "practice", review |-> FALSE]
  <2>1. PICK w : w = [of |-> "none", att |-> n, mode |-> "practice", review |-> FALSE]
    OBVIOUS
  <2>2. Elsewhere = [w EXCEPT !.of = "other"]
    BY <1>3, <2>1 DEF Elsewhere
  <2> QED
    BY <2>1, <2>2
<1>5. Sound(n, "practice")
  BY <1>2, NewSound DEF NewIsSound
<1> QED
  BY <1>1, <1>2, <1>3, <1>4, <1>5 DEF Stored, Modes

\* What a page starts with, once the undo is gone.
LEMMA PageStarts ==
    ASSUME TypeOK', undo' = {}, Sound(att', mode'), StoredIsCurrent',
           NEW o, open' = o, Sound(o.att, o.mode)
    PROVE  SessionInv'
BY DEF SessionInv, Sound, Good, Fits, Ruled, Strict, Judged

LEMMA NewGameStep ==
    ASSUME SessionInv, NewGame, view' = "puzzle", undo' = {}, unbanked' = 0,
           UNCHANGED <<setting, rec>>, dialog' \in {"none", "submit", "clear"}
    PROVE  SessionInv'
<1>1. NewAttempt \in Attempts
  BY NewIsGood DEF Good
<1>2. setting \in Modes /\ rec \in Records
  BY DEF SessionInv, TypeOK
<1>3. PICK n : n = NewAttempt
  OBVIOUS
<1>4. PICK o : o = [of |-> "this", att |-> n, mode |-> setting, review |-> FALSE]
  OBVIOUS
<1>5. open' = o /\ att' = n /\ mode' = setting /\ review' = FALSE /\ helped' = FALSE
  BY <1>3, <1>4 DEF NewGame
<1>6. o \in Stored /\ o.att = n /\ o.mode = setting
  BY <1>1, <1>2, <1>3, <1>4 DEF Stored
<1>7. TypeOK'
  BY <1>1, <1>2, <1>3, <1>5, <1>6 DEF TypeOK
<1>8. Sound(n, setting)
  BY <1>3, NewSound DEF NewIsSound
<1>9. StoredIsCurrent'
  BY <1>4, <1>5 DEF StoredIsCurrent
<1> QED
  BY <1>5, <1>6, <1>7, <1>8, <1>9, PageStarts

LEMMA ResumeStep ==
    ASSUME SessionInv, open.of = "this", Resume(open.mode), view' = "puzzle", undo' = {},
           unbanked' = 0, UNCHANGED <<setting, rec>>, dialog' \in {"none", "submit", "clear"}
    PROVE  SessionInv'
<1>1. open \in Stored /\ setting \in Modes /\ rec \in Records /\ helped \in BOOLEAN
  BY DEF SessionInv, TypeOK
<1>2. /\ open.att \in Attempts /\ open.mode \in Modes /\ open.review \in BOOLEAN
      /\ open = [of |-> "this", att |-> open.att, mode |-> open.mode, review |-> open.review]
  BY <1>1 DEF Stored
<1>3. /\ att' = open.att /\ mode' = open.mode /\ review' = open.review
      /\ open' = open /\ helped' = helped
  BY DEF Resume
<1>4. TypeOK'
  BY <1>1, <1>2, <1>3 DEF TypeOK
<1>5. StoredIsCurrent'
  BY <1>2, <1>3 DEF StoredIsCurrent
<1>6. Sound(open.att, open.mode)
  BY DEF SessionInv
<1> QED
  BY <1>3, <1>4, <1>5, <1>6, PageStarts

LEMMA OpenStep ==
    ASSUME SessionInv, OpenPuzzle, UNCHANGED <<setting, rec>>,
           dialog' \in {"none", "submit", "clear"}
    PROVE  SessionInv'
BY NewGameStep, ResumeStep DEF OpenPuzzle

LEMMA LeaveStep ==
    ASSUME SessionInv, NEW to \in {"start", "elsewhere"}, NEW o \in Stored,
           Sound(o.att, o.mode), Leave(to, o), UNCHANGED <<setting, rec>>,
           dialog' \in {"none", "submit", "clear"}, helped' \in BOOLEAN
    PROVE  SessionInv'
<1>1. /\ view' = to /\ att' = NewAttempt /\ mode' = "practice" /\ review' = FALSE
      /\ undo' = {} /\ unbanked' = 0 /\ open' = o
  BY DEF Leave
<1>2. NewAttempt \in Attempts /\ setting \in Modes /\ rec \in Records
  BY NewIsGood DEF Good, SessionInv, TypeOK
<1>3. TypeOK'
  BY <1>1, <1>2 DEF TypeOK, Modes
<1>4. StoredIsCurrent'
  BY <1>1 DEF StoredIsCurrent
<1>5. Sound(att', mode')
  BY <1>1, NewSound DEF NewIsSound
<1> QED
  BY <1>1, <1>3, <1>4, <1>5, PageStarts

\* The stored attempt with its clock brought up to date.
LEMMA BankedStored ==
    ASSUME SessionInv, view = "puzzle"
    PROVE  LET o == [open EXCEPT !.att = Banked] IN
               /\ o \in Stored /\ Sound(o.att, o.mode)
               /\ o = [of |-> "this", att |-> Banked, mode |-> mode, review |-> review]
<1>1. open \in Stored /\ open = [of |-> "this", att |-> att, mode |-> mode, review |-> review]
  BY DEF SessionInv, TypeOK, StoredIsCurrent
<1>2. PICK b : b = Banked
  OBVIOUS
<1>3. b \in Attempts /\ Sound(b, mode)
  BY <1>2, BankedIsSound DEF Good
<1>4. PICK o : o = [open EXCEPT !.att = b]
  OBVIOUS
<1>5. o = [of |-> "this", att |-> b, mode |-> mode, review |-> review]
  BY <1>1, <1>4
<1>6. mode \in Modes /\ review \in BOOLEAN
  BY DEF SessionInv, TypeOK
<1>7. o \in Stored /\ o.att = b /\ o.mode = mode
  BY <1>3, <1>5, <1>6 DEF Stored
<1> QED
  BY <1>2, <1>3, <1>4, <1>5, <1>7

LEMMA SetModeStep ==
    ASSUME SessionInv, NEW m \in Modes, SetMode(m)
    PROVE  SessionInv'
<1>1. /\ UNCHANGED <<view, mode, review, undo, dialog, rec, helped>>
      /\ setting' = m /\ att' = Banked /\ unbanked' = 0
  BY DEF SetMode
<1>2. Banked \in Attempts /\ Sound(Banked, mode)
  BY BankedIsSound DEF Good
<1>3. PICK o : open' = o
  OBVIOUS
<1>4. /\ o \in Stored /\ Sound(o.att, o.mode)
      /\ view = "puzzle" =>
            o = [of |-> "this", att |-> Banked, mode |-> mode, review |-> review]
  <2>1. CASE view = "puzzle"
    BY <1>3, <2>1, BankedStored DEF SetMode
  <2>2. CASE view # "puzzle"
    BY <1>3, <2>2 DEF SetMode, SessionInv, TypeOK
  <2> QED
    BY <2>1, <2>2
<1>5. TypeOK'
  BY <1>1, <1>2, <1>3, <1>4 DEF SessionInv, TypeOK
<1>6. StoredIsCurrent'
  BY <1>1, <1>3, <1>4 DEF StoredIsCurrent
<1>7. \A a \in {att'} \cup undo : Sound(a, mode)
  BY <1>1, <1>2 DEF SessionInv
<1> QED
  BY <1>1, <1>3, <1>4, <1>5, <1>6, <1>7
     DEF SessionInv, Sound, Good, Fits, Ruled, Strict, Judged

LEMMA GoStep ==
    ASSUME SessionInv, GoStart \/ GoElsewhere \/ EndSession \/ GoPuzzle \/ PlayAgain \/ Restart
    PROVE  SessionInv'
<1>1. /\ dialog \in {"none", "submit", "clear"} /\ helped \in BOOLEAN
      /\ open \in Stored /\ Sound(open.att, open.mode)
      /\ view # "puzzle" => view \in {"start", "elsewhere"}
  BY DEF SessionInv, TypeOK
<1>2. CASE GoStart
  <2>1. PICK o : o = IF view = "puzzle" THEN [open EXCEPT !.att = Banked] ELSE open
    OBVIOUS
  <2>2. o \in Stored /\ Sound(o.att, o.mode)
    BY <1>1, <2>1, BankedStored
  <2>3. Leave("start", o)
    BY <1>2, <2>1 DEF GoStart
  <2> QED
    BY <1>1, <1>2, <2>2, <2>3, LeaveStep DEF GoStart
<1>3. CASE GoElsewhere
  BY <1>1, <1>3, NowhereTypes, LeaveStep DEF GoElsewhere
<1>4. CASE EndSession
  BY <1>1, <1>4, NowhereTypes, LeaveStep DEF EndSession
<1>5. CASE GoPuzzle
  BY <1>1, <1>5, OpenStep DEF GoPuzzle
<1>6. CASE PlayAgain
  BY <1>1, <1>6, NewGameStep DEF PlayAgain, Playing
<1>7. CASE Restart
  BY <1>1, <1>7, OpenStep, LeaveStep DEF Restart
<1> QED
  BY <1>2, <1>3, <1>4, <1>5, <1>6, <1>7

-----------------------------------------------------------------------------
(* The theorems *)

LEMMA SessionInit ==
    ASSUME Init
    PROVE  SessionInv
<1>1. NewAttempt \in Attempts
  BY NewIsGood DEF Good
<1>2. TypeOK
  BY <1>1, NowhereTypes DEF Init, TypeOK, Modes, Records
<1> QED
  BY <1>2, NewSound, NowhereTypes DEF Init, SessionInv, NewIsSound, StoredIsCurrent

LEMMA SessionNext ==
    ASSUME SessionInv, [Next]_vars
    PROVE  SessionInv'
<1>1. ASSUME NEW s \in Slots,
             \/ Remove(s) \/ TakeHint(s)
             \/ \E service \in Services : Place(s, service)
             \/ \E to \in Slots : Move(s, to)
      PROVE  SessionInv'
  BY <1>1, RemoveStep, HintStep, PlaceStep, MoveStep
<1>2. CASE Submit \/ ConfirmSubmit
  BY <1>2, SubmissionStep DEF Submit, ConfirmSubmit, SessionInv, TypeOK
<1>3. CASE Retry \/ Reveal \/ ConfirmClear \/ Undo \/ SaveTime \/ TimeUp
  BY <1>3, RetryStep, RevealStep, ClearStep, UndoStep, SaveTimeStep, TimeUpStep
<1>4. CASE AskSubmit \/ AskClear \/ Cancel \/ UndoExpires \/ TimePasses
  BY <1>4, QuietStep
<1>5. CASE \E on \in BOOLEAN : Review(on)
  BY <1>5, ReviewStep
<1>6. CASE \E m \in Modes : SetMode(m)
  BY <1>6, SetModeStep
<1>7. CASE GoStart \/ GoElsewhere \/ EndSession \/ GoPuzzle \/ PlayAgain \/ Restart
  BY <1>7, GoStep
<1>8. CASE UNCHANGED vars
  BY <1>8 DEF vars, SessionInv, TypeOK, StoredIsCurrent, Sound, Good, Fits, Ruled, Strict, Judged
<1> QED
  BY <1>1, <1>2, <1>3, <1>4, <1>5, <1>6, <1>7, <1>8 DEF Next

LEMMA SessionIsSound == Spec => []SessionInv
BY SessionInit, SessionNext, PTL DEF Spec

\* Whatever handlers run in whatever order, the attempt shown, the one Undo brings back
\* and the one stored are ones the rules allow (AttemptsAreSound), for any puzzle.
THEOREM HandlersKeepTheRules == Spec => []AttemptsAreSound
<1>1. SessionInv => AttemptsAreSound
  <2> SUFFICES ASSUME SessionInv PROVE AttemptsAreSound
    OBVIOUS
  <2>1. \A a \in {att, open.att} \cup undo : Good(a) /\ a.recorded = a.done
    BY DEF SessionInv, Sound
  <2>2. TilesFit
    BY <2>1 DEF TilesFit, Good, Fits
  <2>3. SlotsAgree
    BY <2>1 DEF SlotsAgree, AttemptAgrees, Good, Ruled
  <2> QED
    BY <2>2, <2>3 DEF AttemptsAreSound, SessionInv
<1> QED
  BY <1>1, SessionIsSound, PTL

\* Between handlers localStorage holds the attempt on the page (app.js:6).
THEOREM EveryChangeIsSaved == Spec => []StoredIsCurrent
<1>1. SessionInv => StoredIsCurrent
  BY DEF SessionInv
<1> QED
  BY <1>1, SessionIsSound, PTL

\* A challenge has no hints and one submit, whatever is reloaded, left, undone or
\* switched (LAB.md:293).
THEOREM ChallengesStayStrict == Spec => []ChallengeIsStrict
<1>1. SessionInv => ChallengeIsStrict
  BY ShownIsSound DEF ChallengeIsStrict, Strict
<1> QED
  BY <1>1, SessionIsSound, PTL
=============================================================================
