------------------------------ MODULE ArchCore ------------------------------
(***************************************************************************)
(* The rules of the architecture exercise of lab 13 (app/core.js): one      *)
(* attempt at filling the slots of a diagram with services.  Every function *)
(* returns a new attempt, as core.js does; nothing here is a step.          *)
(***************************************************************************)
EXTENDS Naturals, FiniteSets

CONSTANTS
    Slots,      \* p.slots
    Services,   \* the services of p.palette
    Answer,     \* Answer[s]: accept[0] of slot s
    None,       \* no service in a slot, no verdict on it
    Budget      \* budgetMs(p), in steps of the clock

ASSUME SlotsAssumption == IsFiniteSet(Slots) /\ Slots # {}
ASSUME AnswerAssumption == Answer \in [Slots -> Services]
ASSUME CoreNoneAssumption == None \notin Services
ASSUME BudgetAssumption == Budget \in Nat \ {0}

\* What slotPoints can pay for a slot, and nothing.
Points == {0, 2, 5, 10}

Results == [status : {"correct", "wrong", "empty", "revealed"}, points : Points,
            attempt : Nat, got : Services \cup {None}]
NoResult == [status |-> "none", points |-> 0, attempt |-> 0, got |-> None]

Attempts == [put : [Slots -> Services \cup {None}], locked : SUBSET Slots, attempt : Nat \ {0},
             hints : [Slots -> 0..3], result : [Slots -> Results \cup {NoResult}],
             done : BOOLEAN, revealed : BOOLEAN, elapsed : Nat, recorded : BOOLEAN]

NewAttempt == [put |-> [s \in Slots |-> None], locked |-> {}, attempt |-> 1,
               hints |-> [s \in Slots |-> 0], result |-> [s \in Slots |-> NoResult],
               done |-> FALSE, revealed |-> FALSE, elapsed |-> 0, recorded |-> FALSE]

SlotsWith(a, service) == {s \in Slots : a.put[s] = service}

\* A service has as many tiles as slots it answers, a wrong one has a single tile: the
\* build refuses any other palette.
Uses(service) == LET n == Cardinality({s \in Slots : Answer[s] = service}) IN IF n = 0 THEN 1 ELSE n

Judged(a) == {s \in Slots : a.result[s] # NoResult}

-----------------------------------------------------------------------------

\* place goes through; a tile that is in the slot already stays.
CanPlace(a, s, service) ==
    /\ ~a.done /\ s \notin a.locked
    /\ a.put[s] = service \/ Cardinality(SlotsWith(a, service)) < Uses(service)

Placed(a, s, service) == [a EXCEPT !.put[s] = service]

CanMove(a, from, to) ==
    ~a.done /\ {from, to} \cap a.locked = {} /\ a.put[from] # None

\* The tile at the target goes back to the palette.
Moved(a, from, to) ==
    IF from = to THEN a ELSE [a EXCEPT !.put = [@ EXCEPT ![to] = a.put[from], ![from] = None]]

Removed(a, s) == [a EXCEPT !.put[s] = None]

\* resetAttempt
Cleared(a) == [a EXCEPT !.put = [s \in Slots |-> IF s \in a.locked THEN a.put[s] ELSE None]]

-----------------------------------------------------------------------------

\* slotPoints: 10, 5, then 2, halved by each hint and never below 2.
SlotPoints(attempt, hints) ==
    LET base == CASE attempt = 1 -> 10 [] attempt = 2 -> 5 [] OTHER -> 2
        half == base \div (2 ^ hints)
    IN  IF half < 2 THEN 2 ELSE half

Open(a) == Slots \ a.locked

\* There is something to submit.
CanSubmit(a) == ~a.done /\ \E s \in Open(a) : a.put[s] # None

Verdict(a, s) ==
    IF a.put[s] = None THEN "empty" ELSE IF a.put[s] = Answer[s] THEN "correct" ELSE "wrong"

\* submit: each open slot gets a verdict, the correct ones are locked with their points.
Submitted(a) ==
    LET right == {s \in Open(a) : Verdict(a, s) = "correct"}
        mark(s) == [status |-> Verdict(a, s), attempt |-> a.attempt, got |-> a.put[s],
                    points |-> IF s \in right THEN SlotPoints(a.attempt, a.hints[s]) ELSE 0]
    IN  [a EXCEPT !.locked = @ \cup right, !.done = (Open(a) = right),
                  !.result = [s \in Slots |-> IF s \in Open(a) THEN mark(s) ELSE a.result[s]]]

\* Faulty variant: locked slots are cleared with the others.
Retried_All(a) ==
    [a EXCEPT !.attempt = @ + 1, !.put = [s \in Slots |-> None],
              !.result = [s \in Slots |-> NoResult]]

\* retry: what is not locked is cleared, the next submit pays less.
Retried(a) ==
    [a EXCEPT !.attempt = @ + 1, !.put = Cleared(a).put,
              !.result = [s \in Slots |-> IF s \in a.locked THEN a.result[s] ELSE NoResult]]

\* reveal: open slots get their answer and no points, their last choice is kept.
Revealed(a) ==
    LET shown(s) == [status |-> "revealed", points |-> 0, attempt |-> a.attempt,
                     got |-> IF a.result[s] # NoResult THEN a.result[s].got ELSE a.put[s]]
    IN  [a EXCEPT !.put = [s \in Slots |-> IF s \in a.locked THEN a.put[s] ELSE Answer[s]],
                  !.result = [s \in Slots |-> IF s \in a.locked THEN a.result[s] ELSE shown(s)],
                  !.locked = Slots, !.done = TRUE, !.revealed = TRUE]

\* challengeSubmit: one submit, then what is left is revealed.
ChallengeSubmitted(a) ==
    LET b == Submitted(a) IN IF b.done THEN b ELSE Revealed(b)

\* timeUp: what is in place is submitted, the rest revealed.
TimedUp(a) == IF CanSubmit(a) THEN ChallengeSubmitted(a) ELSE Revealed(a)

\* useHint
Hinted(a, s) == [a EXCEPT !.hints[s] = IF @ < 3 THEN @ + 1 ELSE 3]

\* addElapsed: a finished attempt keeps its time.
AddElapsed(a, steps) ==
    IF a.done THEN a ELSE [a EXCEPT !.elapsed = a.elapsed + steps]

-----------------------------------------------------------------------------

\* perfect, in score: all right at the first submit, without a hint or a look at the answers.
Perfect(a) ==
    /\ a.done /\ ~a.revealed
    /\ \A s \in Slots : a.result[s].status = "correct" /\ a.result[s].attempt = 1
    /\ \A s \in Slots : a.hints[s] = 0

InTime(a, mode) == mode = "challenge" /\ a.done /\ a.elapsed < Budget

\* score: the points of the slots, 20 % for a perfect attempt, 10 % for time left.
Score(a, mode) ==
    LET n == Cardinality(Slots)
        paid(p) == p * Cardinality({s \in Slots : a.result[s].points = p})
    IN  paid(2) + paid(5) + paid(10)
        + (IF Perfect(a) THEN 2 * n ELSE 0) + (IF InTime(a, mode) THEN n ELSE 0)
=============================================================================
