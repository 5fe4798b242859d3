------------------------- MODULE Enrollments_proofs -------------------------
(***************************************************************************)
(* Proofs about Enrollments for any finite tables, any transfers, resets    *)
(* and statements from the console: the counters agree with the tables      *)
(* where they are to be trusted, and transfers implement AtomicTransfer.    *)
(***************************************************************************)
EXTENDS Enrollments, FiniteSetTheorems, TLAPS

USE TablesAssumption, SeedsAssumption, NoneAssumption, BoundsAssumption

-----------------------------------------------------------------------------
(* The inductive invariant *)

\* The transactions that have locked rows.
Holding == {"deleted", "decremented", "inserted", "incremented"}

\* Two transactions never hold what one of them needs for itself.
LocksExclusive ==
    \A t, u \in Transfers : t # u =>
        /\ RowsOf(t) \cap RowsOf(u) = {}
        /\ CoursesOf(t) \cap (CoursesOf(u) \cup ReferredBy(u)) = {}

\* What t has deleted is there for all others, and what it has inserted is not.
RowsHold(t) ==
    /\ tx[t].pc \in Holding => Old(t) \in rows
    /\ tx[t].pc \in {"inserted", "incremented"} => tx[t].to = tx[t].from \/ New(t) \notin rows

\* What t has read of the counter of the old course still holds, and where counters are
\* to be trusted it found the student in it.
TakenHolds(t) ==
    tx[t].pc \in {"decremented", "inserted", "incremented"} =>
        /\ tx[t].took => enrolled[tx[t].from] > 0
        /\ trust => tx[t].took

\* Nothing is in the table while a reset that is alone runs, and its counters are set.
ResetHolds(r) ==
    Running(r) =>
        /\ ~trust
        /\ alone[r] =>
              /\ rows = {}
              /\ \A q \in Resets : q # r => ~Running(q)
              /\ reset[r] = "seeds" => \A c \in Courses : enrolled[c] = SeedCount(c)

Inv ==
    /\ TypeOK
    /\ LocksExclusive
    /\ \A t \in Transfers : RowsHold(t) /\ TakenHolds(t)
    /\ \A r \in Resets : ResetHolds(r)
    /\ CountsAgree

-----------------------------------------------------------------------------
(* Counting *)

\* The students with a row for course c in the table R.
In(R, c) == {s \in Students : <<s, c>> \in R}

LEMMA CountIn == ASSUME NEW R, NEW c PROVE IsFiniteSet(In(R, c)) /\ Cardinality(In(R, c)) \in Nat
<1>1. In(R, c) \in SUBSET Students
  BY DEF In
<1>2. IsFiniteSet(In(R, c))
  BY <1>1, FS_Subset
<1> QED
  BY <1>2, FS_CardinalityType

LEMMA SeedCountIn == ASSUME NEW c PROVE SeedCount(c) \in Nat /\ SeedCount(c) = Cardinality(In(Seeds, c))
<1>1. {s \in Seeded : <<s, c>> \in Seeds} = In(Seeds, c)
  BY DEF In
<1> QED
  BY <1>1, CountIn DEF SeedCount

\* A student who goes from one course to another.
LEMMA CountMoves ==
    ASSUME NEW R, NEW s \in Students, NEW from \in Courses, NEW to \in Courses, NEW c \in Courses,
           <<s, from>> \in R, to = from \/ <<s, to>> \notin R
    PROVE  LET Q == (R \ {<<s, from>>}) \cup {<<s, to>>}
           IN  Cardinality(In(Q, c)) =
                   Cardinality(In(R, c)) + (IF c = to THEN 1 ELSE 0) - (IF c = from THEN 1 ELSE 0)
<1> DEFINE Q == (R \ {<<s, from>>}) \cup {<<s, to>>}
<1> SUFFICES Cardinality(In(Q, c)) =
                 Cardinality(In(R, c)) + (IF c = to THEN 1 ELSE 0) - (IF c = from THEN 1 ELSE 0)
  OBVIOUS
<1>1. IsFiniteSet(In(R, c)) /\ Cardinality(In(R, c)) \in Nat
  BY CountIn
<1>2. CASE to = from
  <2>1. Q = R
    BY <1>2
  <2> QED
    BY <1>1, <1>2, <2>1
<1>3. CASE to # from /\ c = to
  <2>1. In(Q, c) = In(R, c) \cup {s} /\ s \notin In(R, c)
    BY <1>3 DEF In
  <2>2. Cardinality(In(R, c) \cup {s}) = Cardinality(In(R, c)) + 1
    BY <1>1, <2>1, FS_AddElement
  <2> HIDE DEF Q
  <2>3. Cardinality(In(Q, c)) = Cardinality(In(R, c)) + 1
    BY <2>1, <2>2
  <2> QED
    BY <1>1, <1>3, <2>3
<1>4. CASE to # from /\ c = from
  <2>1. In(Q, c) = In(R, c) \ {s} /\ s \in In(R, c)
    BY <1>4 DEF In
  <2>2. Cardinality(In(R, c) \ {s}) = Cardinality(In(R, c)) - 1
    BY <1>1, <2>1, FS_RemoveElement
  <2> HIDE DEF Q
  <2>3. Cardinality(In(Q, c)) = Cardinality(In(R, c)) - 1
    BY <2>1, <2>2
  <2> QED
    BY <1>1, <1>4, <2>3
<1>5. CASE to # from /\ c # from /\ c # to
  <2>1. In(Q, c) = In(R, c)
    BY <1>5 DEF In
  <2> QED
    BY <1>1, <1>5, <2>1
<1> QED
  BY <1>2, <1>3, <1>4, <1>5

LEMMA CountPositive ==
    ASSUME NEW R, NEW s \in Students, NEW c, <<s, c>> \in R
    PROVE  Cardinality(In(R, c)) > 0
<1>1. s \in In(R, c) /\ IsFiniteSet(In(R, c)) /\ Cardinality(In(R, c)) \in Nat
  BY CountIn DEF In
<1> QED
  BY <1>1, FS_EmptySet

LEMMA CountsByRows == CountsAgree <=> (trust => \A c \in Courses : enrolled[c] = Cardinality(In(rows, c)))
BY DEF CountsAgree, Count, In

-----------------------------------------------------------------------------
(* A statement of a transfer *)

\* t goes to pc, and nothing else of the transactions changes.
Moves(t, pc) ==
    /\ tx' \in [Transfers -> Transaction]
    /\ \A u \in Transfers : u # t => tx'[u] = tx[u]
    /\ tx'[t].pc = pc
    /\ tx'[t].student = tx[t].student /\ tx'[t].from = tx[t].from /\ tx'[t].to = tx[t].to

States == {"idle"} \cup Active \cup Ended

LEMMA RowTypes ==
    ASSUME TypeOK, NEW t \in Transfers, tx[t].pc # "idle"
    PROVE  /\ tx[t] \in Transaction
           /\ tx[t].student \in Students /\ tx[t].from \in Courses /\ tx[t].to \in Courses
           /\ tx[t].took \in BOOLEAN
BY DEF TypeOK, Transaction

LEMMA ToRow ==
    ASSUME TypeOK, NEW t \in Transfers, NEW pc \in States, To(t, pc)
    PROVE  Moves(t, pc) /\ tx'[t].took = tx[t].took
<1> DEFINE q == [tx[t] EXCEPT !.pc = pc]
<1>1. tx[t] \in Transaction /\ tx' = [tx EXCEPT ![t] = q]
  BY DEF TypeOK, To
<1>2. /\ q \in Transaction /\ q.pc = pc /\ q.took = tx[t].took
      /\ q.student = tx[t].student /\ q.from = tx[t].from /\ q.to = tx[t].to
  BY <1>1 DEF Transaction, States
<1> HIDE DEF q
<1> QED
  BY <1>1, <1>2 DEF TypeOK, Moves

\* What t has moves with t alone.
LEMMA OthersStay ==
    ASSUME NEW t \in Transfers, NEW pc, Moves(t, pc), NEW u \in Transfers, u # t
    PROVE  /\ RowsOf(u)' = RowsOf(u) /\ CoursesOf(u)' = CoursesOf(u) /\ ReferredBy(u)' = ReferredBy(u)
           /\ Old(u)' = Old(u) /\ New(u)' = New(u)
BY DEF Moves, RowsOf, CoursesOf, ReferredBy, Old, New

\* A statement that gets what it needs.
LEMMA LocksMove ==
    ASSUME LocksExclusive, NEW t \in Transfers, NEW pc, Moves(t, pc),
           \A u \in Transfers : u # t =>
               /\ RowsOf(t)' \cap RowsOf(u) = {}
               /\ CoursesOf(t)' \cap (CoursesOf(u) \cup ReferredBy(u)) = {}
               /\ ReferredBy(t)' \cap CoursesOf(u) = {}
    PROVE  LocksExclusive'
BY OthersStay DEF LocksExclusive

\* The rest of the invariant, where a statement of t leaves the committed tables alone.
LEMMA MoveKeeps ==
    ASSUME Inv, NEW t \in Transfers, NEW pc \in States, pc # "idle", tx[t].pc # "idle", Moves(t, pc),
           UNCHANGED <<tables, reset, history, console>>,
           LocksExclusive', RowsHold(t)', TakenHolds(t)'
    PROVE  Inv'
<1>1. TypeOK'
  <2>1. \A u \in Transfers : tx'[u].pc # "idle" =>
            tx'[u].student # None /\ tx'[u].from # None /\ tx'[u].to # None
    BY DEF Inv, TypeOK, Moves
  <2> QED
    BY <2>1 DEF Inv, TypeOK, Moves, tables, history
<1>2. ASSUME NEW u \in Transfers, u # t PROVE RowsHold(u)' /\ TakenHolds(u)'
  <2>1. tx'[u] = tx[u] /\ Old(u)' = Old(u) /\ New(u)' = New(u)
    BY <1>2, OthersStay DEF Moves
  <2> QED
    BY <2>1 DEF Inv, RowsHold, TakenHolds, tables, history
<1>3. \A r \in Resets : ResetHolds(r)'
  BY DEF Inv, ResetHolds, Running, tables, history, SeedCount
<1>4. CountsAgree'
  BY DEF Inv, CountsAgree, Count, tables, history
<1> QED
  BY <1>1, <1>2, <1>3, <1>4 DEF Inv

-----------------------------------------------------------------------------
(* The statements of transfers *)

LEMMA LocksNow ==
    ASSUME LocksExclusive, NEW t \in Transfers, NEW u \in Transfers, u # t
    PROVE  /\ RowsOf(t) \cap RowsOf(u) = {}
           /\ CoursesOf(t) \cap (CoursesOf(u) \cup ReferredBy(u)) = {}
           /\ ReferredBy(t) \cap CoursesOf(u) = {}
BY DEF LocksExclusive

\* A transfer that has ended, or only begun, holds nothing.
LEMMA EmptyHanded ==
    ASSUME Inv, NEW t \in Transfers, NEW pc \in States \ Holding, pc # "idle", tx[t].pc # "idle",
           To(t, pc), UNCHANGED <<tables, reset, history, console>>
    PROVE  Inv'
<1>1. Moves(t, pc)
  BY ToRow DEF Inv
<1>2. RowsOf(t)' = {} /\ CoursesOf(t)' = {} /\ ReferredBy(t)' = {}
  BY <1>1 DEF Moves, RowsOf, CoursesOf, ReferredBy, Holding
<1>3. LocksExclusive'
  BY <1>1, <1>2, LocksMove DEF Inv
<1>4. RowsHold(t)' /\ TakenHolds(t)'
  BY <1>1 DEF Moves, RowsHold, TakenHolds, Holding
<1> QED
  BY <1>1, <1>3, <1>4, MoveKeeps DEF States

LEMMA BeginInv ==
    ASSUME Inv, NEW t \in Transfers, NEW s \in Students, NEW from \in Courses, NEW to \in Courses,
           Begin(t, s, from, to)
    PROVE  Inv'
<1> DEFINE q == [pc |-> "begun", student |-> s, from |-> from, to |-> to, took |-> FALSE]
<1>1. q \in Transaction
  BY DEF Transaction, Active
<1>2. tx' = [tx EXCEPT ![t] = q]
  BY DEF Begin
<1> HIDE DEF q
<1>3. tx'[t] = q /\ \A u \in Transfers : u # t => tx'[u] = tx[u]
  BY <1>2 DEF Inv, TypeOK
<1>4. tx'[t].pc = "begun" /\ tx'[t].student = s /\ tx'[t].from = from /\ tx'[t].to = to
  BY <1>3 DEF q
<1>5. UNCHANGED <<tables, reset, history, console>>
  BY DEF Begin
<1>6. TypeOK'
  <2>1. tx' \in [Transfers -> Transaction]
    BY <1>1, <1>2 DEF Inv, TypeOK
  <2>2. \A u \in Transfers : tx'[u].pc # "idle" =>
            tx'[u].student # None /\ tx'[u].from # None /\ tx'[u].to # None
    BY <1>3, <1>4 DEF Inv, TypeOK
  <2> QED
    BY <1>5, <2>1, <2>2 DEF Inv, TypeOK, tables, history
<1>7. \A u \in Transfers : u # t =>
          /\ RowsOf(u)' = RowsOf(u) /\ CoursesOf(u)' = CoursesOf(u) /\ ReferredBy(u)' = ReferredBy(u)
          /\ Old(u)' = Old(u) /\ New(u)' = New(u)
  BY <1>3 DEF RowsOf, CoursesOf, ReferredBy, Old, New
<1>8. RowsOf(t)' = {} /\ CoursesOf(t)' = {} /\ ReferredBy(t)' = {}
  BY <1>4 DEF RowsOf, CoursesOf, ReferredBy
<1>9. LocksExclusive'
  BY <1>7, <1>8 DEF Inv, LocksExclusive
<1>10. ASSUME NEW u \in Transfers PROVE RowsHold(u)' /\ TakenHolds(u)'
  <2>1. CASE u = t
    BY <1>4, <2>1 DEF RowsHold, TakenHolds, Holding
  <2>2. CASE u # t
    BY <1>3, <1>5, <1>7, <2>2 DEF Inv, RowsHold, TakenHolds, tables, history
  <2> QED
    BY <2>1, <2>2
<1>11. \A r \in Resets : ResetHolds(r)'
  BY <1>5 DEF Inv, ResetHolds, Running, tables, history, SeedCount
<1>12. CountsAgree'
  BY <1>5 DEF Inv, CountsAgree, Count, tables, history
<1> QED
  BY <1>6, <1>9, <1>10, <1>11, <1>12 DEF Inv

LEMMA DeleteInv == ASSUME Inv, NEW t \in Transfers, Delete(t) PROVE Inv'
<1>1. CASE Old(t) \notin rows
  BY <1>1, EmptyHanded DEF Delete, States, Ended, Holding
<1>2. CASE Old(t) \in rows
  <2>1. /\ Moves(t, "deleted") /\ UNCHANGED <<tables, reset, history, console>>
        /\ tx[t].pc = "begun" /\ WaitsFor(t) = {}
    BY <1>2, ToRow DEF Delete, Inv, States, Active
  <2>2. Old(t)' = Old(t) /\ RowsOf(t)' = {Old(t)} /\ CoursesOf(t)' = {} /\ ReferredBy(t)' = {}
    BY <2>1 DEF Moves, Old, RowsOf, CoursesOf, ReferredBy
  <2>3. \A u \in Transfers : u # t => Old(t) \notin RowsOf(u)
    BY <2>1 DEF WaitsFor, Others
  <2>4. LocksExclusive'
    BY <2>1, <2>2, <2>3, LocksMove DEF Inv
  <2>5. RowsHold(t)' /\ TakenHolds(t)'
    BY <1>2, <2>1, <2>2 DEF Moves, RowsHold, TakenHolds, tables
  <2> QED
    BY <2>1, <2>4, <2>5, MoveKeeps DEF States, Active
<1> QED
  BY <1>1, <1>2

LEMMA DecrementInv == ASSUME Inv, NEW t \in Transfers, Decrement(t) PROVE Inv'
<1> DEFINE took == enrolled[tx[t].from] > 0
           q == [tx[t] EXCEPT !.pc = "decremented", !.took = took]
<1>1. tx[t].pc = "deleted" /\ WaitsFor(t) = {} /\ UNCHANGED <<tables, reset, history, console>>
  BY DEF Decrement
<1>2. tx[t] \in Transaction /\ tx[t].student \in Students /\ tx[t].from \in Courses
  BY <1>1, RowTypes DEF Inv
<1>3. took \in BOOLEAN
  OBVIOUS
<1>4. tx' = [tx EXCEPT ![t] = q]
  BY DEF Decrement, Inv, TypeOK
<1> HIDE DEF took
<1>5. /\ q \in Transaction /\ q.pc = "decremented" /\ q.took = took
      /\ q.student = tx[t].student /\ q.from = tx[t].from /\ q.to = tx[t].to
  BY <1>2, <1>3 DEF Transaction, Active
<1> HIDE DEF q
<1>6. Moves(t, "decremented") /\ tx'[t].took = took
  BY <1>4, <1>5 DEF Inv, TypeOK, Moves
<1>7. /\ Old(t)' = Old(t) /\ RowsOf(t)' = {Old(t)} /\ RowsOf(t) = {Old(t)}
      /\ CoursesOf(t)' = {tx[t].from} /\ ReferredBy(t)' = {}
  BY <1>1, <1>6 DEF Moves, Old, RowsOf, CoursesOf, ReferredBy
<1>8. \A u \in Transfers : u # t => tx[t].from \notin CoursesOf(u) \cup ReferredBy(u)
  BY <1>1 DEF WaitsFor, Others
<1>9. LocksExclusive'
  BY <1>6, <1>7, <1>8, LocksMove, LocksNow DEF Inv
<1>10. RowsHold(t)'
  BY <1>1, <1>6, <1>7 DEF Moves, RowsHold, tables, Inv, Holding
<1>11. trust => took
  <2> SUFFICES ASSUME trust PROVE took
    OBVIOUS
  <2>1. <<tx[t].student, tx[t].from>> \in rows
    BY <1>1 DEF Inv, RowsHold, Holding, Old
  <2>2. enrolled[tx[t].from] = Cardinality(In(rows, tx[t].from))
    BY <1>2, CountsByRows DEF Inv
  <2> QED
    BY <1>2, <2>1, <2>2, CountPositive DEF took
<1>12. TakenHolds(t)'
  BY <1>1, <1>6, <1>11 DEF Moves, TakenHolds, tables, history, took
<1> QED
  BY <1>1, <1>6, <1>9, <1>10, <1>12, MoveKeeps DEF States, Active

LEMMA InsertInv == ASSUME Inv, NEW t \in Transfers, Insert(t) PROVE Inv'
<1>1. CASE Duplicate(t)
  BY <1>1, EmptyHanded DEF Insert, States, Ended, Holding
<1>2. CASE ~Duplicate(t)
  <2>1. /\ Moves(t, "inserted") /\ tx'[t].took = tx[t].took
        /\ UNCHANGED <<tables, reset, history, console>>
        /\ tx[t].pc = "decremented" /\ WaitsFor(t) = {}
    BY <1>2, ToRow DEF Insert, Inv, States, Active
  <2>2. /\ Old(t)' = Old(t) /\ New(t)' = New(t) /\ RowsOf(t)' = {Old(t), New(t)} /\ RowsOf(t) = {Old(t)}
        /\ CoursesOf(t)' = {tx[t].from} /\ CoursesOf(t) = {tx[t].from} /\ ReferredBy(t)' = {tx[t].to}
    BY <2>1 DEF Moves, Old, New, RowsOf, CoursesOf, ReferredBy
  <2>3. \A u \in Transfers : u # t => New(t) \notin RowsOf(u) /\ tx[t].to \notin CoursesOf(u)
    BY <2>1 DEF WaitsFor, Others
  <2>4. LocksExclusive'
    BY <2>1, <2>2, <2>3, LocksMove, LocksNow DEF Inv
  <2>5. RowsHold(t)'
    BY <1>2, <2>1, <2>2 DEF Moves, RowsHold, tables, Inv, Holding, Duplicate
  <2>6. TakenHolds(t)'
    BY <2>1 DEF Moves, TakenHolds, tables, history, Inv
  <2> QED
    BY <2>1, <2>4, <2>5, <2>6, MoveKeeps DEF States, Active
<1> QED
  BY <1>1, <1>2

LEMMA IncrementInv == ASSUME Inv, NEW t \in Transfers, Increment(t) PROVE Inv'
<1>1. /\ Moves(t, "incremented") /\ tx'[t].took = tx[t].took
      /\ UNCHANGED <<tables, reset, history, console>>
      /\ tx[t].pc = "inserted" /\ WaitsFor(t) = {}
  BY ToRow DEF Increment, Inv, States, Active
<1>2. /\ Old(t)' = Old(t) /\ New(t)' = New(t) /\ RowsOf(t)' = {Old(t), New(t)} /\ RowsOf(t) = {Old(t), New(t)}
      /\ CoursesOf(t)' = {tx[t].from, tx[t].to} /\ CoursesOf(t) = {tx[t].from} /\ ReferredBy(t)' = {}
  BY <1>1 DEF Moves, Old, New, RowsOf, CoursesOf, ReferredBy
<1>3. \A u \in Transfers : u # t => tx[t].to \notin CoursesOf(u) \cup ReferredBy(u)
  BY <1>1 DEF WaitsFor, Others
<1>4. LocksExclusive'
  BY <1>1, <1>2, <1>3, LocksMove, LocksNow DEF Inv
<1>5. RowsHold(t)' /\ TakenHolds(t)'
  BY <1>1, <1>2 DEF Moves, RowsHold, TakenHolds, tables, history, Inv, Holding
<1> QED
  BY <1>1, <1>4, <1>5, MoveKeeps DEF States, Active

\* Commit: what t holds makes the counters follow the rows.
LEMMA CommitTables ==
    ASSUME Inv, NEW t \in Transfers, Commit(t)
    PROVE  /\ tx[t].student \in Students /\ tx[t].from \in Courses /\ tx[t].to \in Courses
           /\ Old(t) \in rows /\ (tx[t].to # tx[t].from => New(t) \notin rows)
           /\ enrolled' \in [Courses -> Nat]
           /\ \A c \in Courses : enrolled'[c] = Counter(t, c)
           /\ trust => tx[t].took
           /\ \A c \in Courses : c \notin {tx[t].from, tx[t].to} => enrolled'[c] = enrolled[c]
<1>1. tx[t].pc = "incremented"
  BY DEF Commit
<1>2. /\ tx[t].student \in Students /\ tx[t].from \in Courses /\ tx[t].to \in Courses
      /\ tx[t].took \in BOOLEAN
  BY <1>1, RowTypes DEF Inv
<1>3. Old(t) \in rows /\ (tx[t].to # tx[t].from => New(t) \notin rows)
  BY <1>1 DEF Inv, RowsHold, Holding
<1>4. (tx[t].took => enrolled[tx[t].from] > 0) /\ (trust => tx[t].took)
  BY <1>1 DEF Inv, TakenHolds
<1>5. \A c \in Courses : enrolled[c] \in Nat
  BY DEF Inv, TypeOK
<1>6. \A c \in Courses : Counter(t, c) \in Nat
  BY <1>2, <1>4, <1>5 DEF Counter
<1>7. enrolled' = [c \in Courses |-> Counter(t, c)]
  BY DEF Commit
<1>8. \A c \in Courses : c \notin {tx[t].from, tx[t].to} => Counter(t, c) = enrolled[c]
  BY <1>5 DEF Counter
<1> QED
  BY <1>2, <1>3, <1>4, <1>6, <1>7, <1>8

LEMMA CommitInv == ASSUME Inv, NEW t \in Transfers, Commit(t) PROVE Inv'
<1> DEFINE s == tx[t].student
           from == tx[t].from
           to == tx[t].to
<1>0. PICK pc \in {"committed", "failed"} : To(t, pc)
  BY DEF Commit
<1>1. /\ tx[t].pc = "incremented" /\ rows' = (rows \ {Old(t)}) \cup {New(t)}
      /\ UNCHANGED <<present, reset, history, console>>
  BY DEF Commit
<1>2. Moves(t, pc)
  BY <1>0, ToRow DEF Inv, States, Ended
<1>3. s \in Students /\ from \in Courses /\ to \in Courses /\ Old(t) = <<s, from>> /\ New(t) = <<s, to>>
  BY CommitTables DEF Old, New
<1>4. TypeOK'
  <2>1. \A u \in Transfers : tx'[u].pc # "idle" =>
            tx'[u].student # None /\ tx'[u].from # None /\ tx'[u].to # None
    BY <1>1, <1>2 DEF Inv, TypeOK, Moves
  <2>2. rows' \subseteq Students \X Courses
    BY <1>1, <1>3 DEF Inv, TypeOK
  <2> QED
    BY <1>1, <1>2, <2>1, <2>2, CommitTables DEF Inv, TypeOK, Moves, history
<1>5. RowsOf(t)' = {} /\ CoursesOf(t)' = {} /\ ReferredBy(t)' = {}
  BY <1>2 DEF Moves, RowsOf, CoursesOf, ReferredBy
<1>6. LocksExclusive'
  BY <1>2, <1>5, LocksMove DEF Inv
<1>7. RowsOf(t) = {Old(t), New(t)} /\ CoursesOf(t) = {from, to}
  BY <1>1 DEF RowsOf, CoursesOf
<1>8. ASSUME NEW u \in Transfers PROVE RowsHold(u)' /\ TakenHolds(u)'
  <2>1. CASE u = t
    BY <1>2, <2>1 DEF Moves, RowsHold, TakenHolds, Holding
  <2>2. CASE u # t
    <3>1. tx'[u] = tx[u] /\ Old(u)' = Old(u) /\ New(u)' = New(u)
      BY <1>2, <2>2, OthersStay DEF Moves
    <3>2. RowsOf(u) \cap {Old(t), New(t)} = {} /\ CoursesOf(u) \cap {from, to} = {}
      BY <1>7, <2>2, LocksNow DEF Inv
    <3>3. tx[u].pc \in Holding => Old(u) \in RowsOf(u)
      BY DEF RowsOf, Holding
    <3>4. tx[u].pc \in {"inserted", "incremented"} => New(u) \in RowsOf(u)
      BY DEF RowsOf
    <3>5. tx[u].pc \in {"decremented", "inserted", "incremented"} => tx[u].from \in CoursesOf(u)
      BY DEF CoursesOf
    <3>6. RowsHold(u)'
      BY <1>1, <3>1, <3>2, <3>3, <3>4 DEF Inv, RowsHold
    <3>7. tx[u].pc # "idle" => tx[u].from \in Courses
      BY RowTypes DEF Inv
    <3>8. TakenHolds(u)'
      BY <1>1, <3>1, <3>2, <3>5, <3>7, CommitTables DEF Inv, TakenHolds, history
    <3> QED
      BY <3>6, <3>8
  <2> QED
    BY <2>1, <2>2
<1>9. ASSUME NEW r \in Resets PROVE ResetHolds(r)'
  BY <1>1, CommitTables DEF Inv, ResetHolds, Running, history
<1>10. CountsAgree'
  <2> SUFFICES ASSUME trust, NEW c \in Courses PROVE enrolled'[c] = Cardinality(In(rows', c))
    BY <1>1 DEF CountsAgree, Count, In, history
  <2>1. enrolled[c] = Cardinality(In(rows, c)) /\ enrolled[c] \in Nat
    BY CountsByRows DEF Inv, TypeOK
  <2>2. Cardinality(In(rows', c)) =
            Cardinality(In(rows, c)) + (IF c = to THEN 1 ELSE 0) - (IF c = from THEN 1 ELSE 0)
    <3>1. rows' = (rows \ {<<s, from>>}) \cup {<<s, to>>}
      BY <1>1, <1>3
    <3>2. <<s, from>> \in rows /\ (to = from \/ <<s, to>> \notin rows)
      BY <1>3, CommitTables
    <3> HIDE DEF s, from, to
    <3>3. Cardinality(In((rows \ {<<s, from>>}) \cup {<<s, to>>}, c)) =
              Cardinality(In(rows, c)) + (IF c = to THEN 1 ELSE 0) - (IF c = from THEN 1 ELSE 0)
      BY <1>3, <3>2, CountMoves
    <3> QED
      BY <3>1, <3>3
  <2>3. enrolled'[c] = enrolled[c] + (IF c = to THEN 1 ELSE 0) - (IF c = from THEN 1 ELSE 0)
    BY <1>3, CommitTables DEF Counter
  <2> QED
    BY <2>1, <2>2, <2>3
<1> QED
  BY <1>4, <1>6, <1>8, <1>9, <1>10 DEF Inv

LEMMA FailInv == ASSUME Inv, NEW t \in Transfers, Fail(t) \/ Victim(t) PROVE Inv'
<1>1. To(t, "failed") /\ UNCHANGED <<tables, reset, history, console>>
  BY DEF Fail, Victim
<1>2. tx[t].pc # "idle"
  <2>1. CASE Fail(t)
    BY <2>1 DEF Fail, Active
  <2>2. CASE Victim(t)
    <3>1. WaitsFor(t) # {}
      BY <2>2 DEF Victim, Deadlocked
    <3> QED
      BY <3>1 DEF WaitsFor
  <2> QED
    BY <2>1, <2>2
<1> QED
  BY <1>1, <1>2, EmptyHanded DEF States, Ended, Holding

-----------------------------------------------------------------------------
(* Resets and the console *)

\* The transactions are left alone, and so is what they hold.
LEMMA LocksStay ==
    ASSUME Inv, UNCHANGED tx
    PROVE  /\ LocksExclusive'
           /\ \A t \in Transfers :
                 /\ RowsOf(t)' = RowsOf(t) /\ CoursesOf(t)' = CoursesOf(t)
                 /\ Old(t)' = Old(t) /\ New(t)' = New(t)
<1>1. \A t \in Transfers :
          /\ RowsOf(t)' = RowsOf(t) /\ CoursesOf(t)' = CoursesOf(t) /\ ReferredBy(t)' = ReferredBy(t)
          /\ Old(t)' = Old(t) /\ New(t)' = New(t)
  BY DEF RowsOf, CoursesOf, ReferredBy, Old, New
<1> QED
  BY <1>1 DEF Inv, LocksExclusive

LEMMA Held ==
    ASSUME NEW t \in Transfers
    PROVE  /\ tx[t].pc \in Holding => Old(t) \in RowsOf(t)
           /\ tx[t].pc \in {"inserted", "incremented"} => New(t) \in RowsOf(t)
           /\ tx[t].pc \in {"decremented", "inserted", "incremented"} => tx[t].from \in CoursesOf(t)
BY DEF RowsOf, CoursesOf, Holding

LEMMA DeleteEnrollmentsInv == ASSUME Inv, NEW r \in Resets, DeleteEnrollments(r) PROVE Inv'
<1>1. /\ UNCHANGED <<enrolled, present, tx, console>> /\ rows' = {} /\ trust' = FALSE
      /\ reset' = [reset EXCEPT ![r] = "students"] /\ reset[r] = "idle"
      /\ alone' = [q \in Resets |-> q = r /\ \A p \in Resets : ~Running(p)]
  BY DEF DeleteEnrollments
<1>2. TypeOK'
  BY <1>1 DEF Inv, TypeOK, Midway
<1>3. LocksExclusive'
  BY <1>1, LocksStay
<1>4. ASSUME NEW t \in Transfers PROVE RowsHold(t)' /\ TakenHolds(t)'
  <2>1. tx[t].pc \notin Holding
    BY Held DEF DeleteEnrollments
  <2> QED
    BY <1>1, <2>1 DEF RowsHold, TakenHolds, Holding
<1>5. ASSUME NEW q \in Resets PROVE ResetHolds(q)'
  <2> SUFFICES ASSUME alone'[q]
               PROVE  /\ \A p \in Resets : p # q => ~Running(p)'
                      /\ reset'[q] # "seeds"
    BY <1>1 DEF ResetHolds
  <2>1. q = r /\ \A p \in Resets : ~Running(p)
    BY <1>1
  <2> QED
    BY <1>1, <2>1 DEF Running, Inv, TypeOK
<1>6. CountsAgree'
  BY <1>1 DEF CountsAgree
<1> QED
  BY <1>2, <1>3, <1>4, <1>5, <1>6 DEF Inv

LEMMA DeleteStudentsInv == ASSUME Inv, NEW r \in Resets, DeleteStudents(r) \/ ResetFails(r) PROVE Inv'
<1>1. /\ UNCHANGED <<rows, enrolled, tx, history, console>>
      /\ present' \in {present, Seeded}
      /\ \/ reset' = [reset EXCEPT ![r] = "counts"]
         \/ reset' = [reset EXCEPT ![r] = "failed"]
      /\ Running(r)
  BY DEF DeleteStudents, ResetFails, Running, Midway, tables
<1>2. TypeOK'
  BY <1>1 DEF Inv, TypeOK, Midway, history
<1>3. LocksExclusive'
  BY <1>1, LocksStay
<1>4. \A t \in Transfers : RowsHold(t)' /\ TakenHolds(t)'
  BY <1>1, LocksStay DEF Inv, RowsHold, TakenHolds, history
<1>5. ASSUME NEW q \in Resets PROVE ResetHolds(q)'
  <2>1. \A p \in Resets : Running(p)' => Running(p)
    BY <1>1 DEF Running, Inv, TypeOK, Midway
  <2>2. reset'[q] = "seeds" => reset[q] = "seeds"
    BY <1>1 DEF Inv, TypeOK
  <2> QED
    BY <1>1, <2>1, <2>2 DEF Inv, ResetHolds, history, SeedCount
<1>6. CountsAgree'
  BY <1>1 DEF Inv, CountsAgree, Count, history
<1> QED
  BY <1>2, <1>3, <1>4, <1>5, <1>6 DEF Inv

LEMMA ResetCountsInv == ASSUME Inv, NEW r \in Resets, ResetCounts(r) PROVE Inv'
<1>1. /\ UNCHANGED <<rows, present, tx, history, console>>
      /\ enrolled' = [c \in Courses |-> SeedCount(c)]
      /\ reset' = [reset EXCEPT ![r] = "seeds"] /\ reset[r] = "counts"
  BY DEF ResetCounts
<1>2. Running(r) /\ ~trust
  BY <1>1 DEF Running, Midway, Inv, ResetHolds
<1>3. TypeOK'
  BY <1>1, SeedCountIn DEF Inv, TypeOK, Midway, history
<1>4. LocksExclusive'
  BY <1>1, LocksStay
<1>5. ASSUME NEW t \in Transfers PROVE RowsHold(t)' /\ TakenHolds(t)'
  <2>1. tx[t].pc \notin {"decremented", "inserted", "incremented"}
    BY Held DEF ResetCounts
  <2> QED
    BY <1>1, <2>1, LocksStay DEF Inv, RowsHold, TakenHolds
<1>6. ASSUME NEW q \in Resets PROVE ResetHolds(q)'
  <2>1. \A p \in Resets : Running(p)' <=> Running(p)
    BY <1>1 DEF Running, Inv, TypeOK, Midway
  <2>2. \A c \in Courses : enrolled'[c] = SeedCount(c)'
    BY <1>1 DEF SeedCount
  <2> QED
    BY <1>1, <2>1, <2>2 DEF Inv, ResetHolds, history
<1>7. CountsAgree'
  BY <1>1, <1>2 DEF CountsAgree, history
<1> QED
  BY <1>3, <1>4, <1>5, <1>6, <1>7 DEF Inv

LEMMA InsertSeedsInv == ASSUME Inv, NEW r \in Resets, InsertSeeds(r) PROVE Inv'
<1>1. UNCHANGED <<enrolled, present, tx, alone, console>> /\ reset[r] = "seeds"
  BY DEF InsertSeeds
<1>2. \/ rows' = rows \cup Seeds /\ reset' = [reset EXCEPT ![r] = "done"] /\ trust' = alone[r]
      \/ UNCHANGED <<rows, trust>> /\ reset' = [reset EXCEPT ![r] = "failed"]
  BY DEF InsertSeeds
<1>3. Running(r) /\ ~trust
  BY <1>1 DEF Running, Midway, Inv, ResetHolds
<1>4. trust' => alone[r] /\ rows = {} /\ rows' = Seeds /\ \A q \in Resets : q # r => ~Running(q)
  BY <1>2, <1>3 DEF Inv, ResetHolds
<1>5. TypeOK'
  BY <1>1, <1>2 DEF Inv, TypeOK, Midway
<1>6. LocksExclusive'
  BY <1>1, LocksStay
<1>7. ASSUME NEW t \in Transfers PROVE RowsHold(t)' /\ TakenHolds(t)'
  <2>1. RowsOf(t) \cap Seeds = {} /\ tx[t].pc \notin {"decremented", "inserted", "incremented"}
    BY Held DEF InsertSeeds
  <2> QED
    BY <1>1, <1>2, <2>1, LocksStay DEF Inv, RowsHold, TakenHolds
<1>8. ASSUME NEW q \in Resets PROVE ResetHolds(q)'
  <2>1. \A p \in Resets : Running(p)' => Running(p) /\ p # r
    BY <1>2 DEF Running, Inv, TypeOK, Midway
  <2>2. reset'[q] = "seeds" => reset[q] = "seeds"
    BY <1>2 DEF Inv, TypeOK
  <2>3. Running(q)' => ~alone[q]
    BY <1>3, <2>1 DEF Inv, ResetHolds
  <2>4. Running(q)' => ~trust'
    BY <1>4, <2>1
  <2> QED
    BY <1>1, <2>3, <2>4 DEF ResetHolds
<1>9. CountsAgree'
  <2> SUFFICES ASSUME trust', NEW c \in Courses PROVE enrolled'[c] = Cardinality(In(rows', c))
    BY DEF CountsAgree, Count, In
  <2>1. enrolled[c] = SeedCount(c)
    BY <1>1, <1>3, <1>4 DEF Inv, ResetHolds
  <2> QED
    BY <1>1, <1>4, <2>1, SeedCountIn
<1> QED
  BY <1>5, <1>6, <1>7, <1>8, <1>9 DEF Inv

LEMMA EnrollInv == ASSUME Inv, NEW s \in Students, NEW c \in Courses, Enroll(s, c) PROVE Inv'
<1>1. /\ UNCHANGED <<enrolled, present, tx, reset>> /\ rows' = rows \cup {<<s, c>>}
      /\ alone' = [r \in Resets |-> FALSE] /\ trust' = FALSE
      /\ console' = console + 1 /\ console < MaxConsole
  BY DEF Enroll
<1>2. TypeOK'
  <2>1. console' \in 0..MaxConsole
    BY <1>1 DEF Inv, TypeOK
  <2>2. rows' \subseteq Students \X Courses
    BY <1>1 DEF Inv, TypeOK
  <2>3. alone' \in [Resets -> BOOLEAN] /\ trust' \in BOOLEAN
    BY <1>1
  <2> QED
    BY <1>1, <2>1, <2>2, <2>3 DEF Inv, TypeOK
<1>3. LocksExclusive'
  BY <1>1, LocksStay
<1>4. ASSUME NEW t \in Transfers PROVE RowsHold(t)' /\ TakenHolds(t)'
  <2>1. <<s, c>> \notin RowsOf(t)
    BY DEF Enroll, Locked
  <2> QED
    BY <1>1, <2>1, LocksStay, Held DEF Inv, RowsHold, TakenHolds
<1>5. \A r \in Resets : ResetHolds(r)'
  BY <1>1 DEF ResetHolds
<1>6. CountsAgree'
  BY <1>1 DEF CountsAgree
<1> QED
  BY <1>2, <1>3, <1>4, <1>5, <1>6 DEF Inv

LEMMA QuietInv == ASSUME Inv, UNCHANGED vars \/ \E s \in Students : AddStudent(s) PROVE Inv'
<1>1. UNCHANGED <<rows, enrolled, tx, reset, history, console>> /\ present \subseteq present'
      /\ present' \subseteq Students
  BY DEF AddStudent, vars, tables, Inv, TypeOK
<1>2. TypeOK'
  BY <1>1 DEF Inv, TypeOK, history
<1>3. LocksExclusive' /\ \A t \in Transfers : RowsHold(t)' /\ TakenHolds(t)'
  BY <1>1, LocksStay DEF Inv, RowsHold, TakenHolds, history
<1>4. CountsAgree' /\ \A r \in Resets : ResetHolds(r)'
  BY <1>1 DEF Inv, CountsAgree, Count, ResetHolds, Running, history, SeedCount
<1> QED
  BY <1>2, <1>3, <1>4 DEF Inv

-----------------------------------------------------------------------------

LEMMA InvInit == Init => Inv
<1> SUFFICES ASSUME Init PROVE Inv
  OBVIOUS
<1>1. \A t \in Transfers : tx[t].pc = "idle"
  BY DEF Init
<1>2. TypeOK
  BY SeedCountIn DEF Init, TypeOK, Transaction
<1>3. LocksExclusive
  BY <1>1 DEF LocksExclusive, RowsOf, CoursesOf
<1>4. \A t \in Transfers : RowsHold(t) /\ TakenHolds(t)
  BY <1>1 DEF RowsHold, TakenHolds, Holding
<1>5. \A r \in Resets : ResetHolds(r)
  BY DEF Init, ResetHolds, Running, Midway
<1>6. CountsAgree
  BY SeedCountIn, CountsByRows DEF Init
<1> QED
  BY <1>2, <1>3, <1>4, <1>5, <1>6 DEF Inv

LEMMA InvNext == Inv /\ [Next]_vars => Inv'
<1> SUFFICES ASSUME Inv, [Next]_vars PROVE Inv'
  OBVIOUS
<1>1. CASE \E t \in Transfers : \E s \in Students, from, to \in Courses : Begin(t, s, from, to)
  BY <1>1, BeginInv
<1>2. CASE \E t \in Transfers : Statement(t) \/ Fail(t) \/ Victim(t)
  BY <1>2, DeleteInv, DecrementInv, InsertInv, IncrementInv, CommitInv, FailInv DEF Statement
<1>3. CASE \E r \in Resets : DeleteEnrollments(r) \/ ResetStatement(r) \/ ResetFails(r)
  BY <1>3, DeleteEnrollmentsInv, DeleteStudentsInv, ResetCountsInv, InsertSeedsInv DEF ResetStatement
<1>4. CASE \E s \in Students : \E c \in Courses : Enroll(s, c)
  BY <1>4, EnrollInv
<1>5. CASE (\E s \in Students : AddStudent(s)) \/ UNCHANGED vars
  BY <1>5, QuietInv
<1> QED
  BY <1>1, <1>2, <1>3, <1>4, <1>5 DEF Next

LEMMA InvHolds == Spec => []Inv
BY InvInit, InvNext, PTL DEF Spec

\* The tables keep their constraints, and each counter is the number of enrollments where
\* only transfers ran since a reset that nothing disturbed ("the enrollment counts stay
\* consistent", server.py:365-366), whatever failed or ran at the same time.
THEOREM TablesAreConsistent == Spec => []Consistent
<1>1. Inv => Consistent
  BY DEF Inv, Consistent
<1> QED
  BY <1>1, InvHolds, PTL

\* A transfer that commits has moved the enrollment and both counters in one step
\* (consistency_transfer, server.py:320-366), where the counters are to be trusted; every
\* other step leaves both alone.
THEOREM TransfersImplementAtomicTransfer == Spec => CommitsAreAtomic
<1>1. ASSUME Inv, [Next]_vars, trust, trust' PROVE [Atomic!Next]_(Atomic!vars)
  <2>1. CASE \E t \in Transfers : Commit(t)
    <3>1. PICK t \in Transfers : Commit(t)
      BY <2>1
    <3> DEFINE s == tx[t].student
               from == tx[t].from
               to == tx[t].to
    <3>2. rows' = (rows \ {Old(t)}) \cup {New(t)} /\ enrolled' = [c \in Courses |-> Counter(t, c)]
      BY <3>1 DEF Commit
    <3>3. /\ s \in Students /\ from \in Courses /\ to \in Courses /\ tx[t].took
          /\ <<s, from>> \in rows /\ (to # from => <<s, to>> \notin rows)
      BY <1>1, <3>1, CommitTables DEF Old, New
    <3>4. \A c \in Courses : Counter(t, c) = enrolled[c] + Atomic!Gain(c, from, to)
      BY <1>1, <3>3 DEF Counter, Atomic!Gain, Inv, TypeOK
    <3>5. Atomic!Transfer(s, from, to)
      BY <3>2, <3>3, <3>4 DEF Atomic!Transfer, Old, New
    <3> QED
      BY <3>3, <3>5 DEF Atomic!Next
  <2>2. CASE ~\E t \in Transfers : Commit(t)
    <3>1. \A r \in Resets : ~Running(r)
      BY <1>1 DEF Inv, ResetHolds
    <3>2. UNCHANGED <<rows, enrolled>>
      <4>1. CASE \E t \in Transfers : \E s \in Students, from, to \in Courses : Begin(t, s, from, to)
        BY <4>1 DEF Begin, tables
      <4>2. CASE \E t \in Transfers : Statement(t) \/ Fail(t) \/ Victim(t)
        BY <2>2, <4>2 DEF Statement, Delete, Decrement, Insert, Increment, Fail, Victim, tables
      <4>3. CASE \E r \in Resets : DeleteEnrollments(r) \/ ResetStatement(r) \/ ResetFails(r)
        BY <1>1, <3>1, <4>3
           DEF DeleteEnrollments, ResetStatement, DeleteStudents, ResetCounts, InsertSeeds, ResetFails,
               Running, Midway
      <4>4. CASE \E s \in Students : \E c \in Courses : Enroll(s, c)
        BY <1>1, <4>4 DEF Enroll
      <4>5. CASE (\E s \in Students : AddStudent(s)) \/ UNCHANGED vars
        BY <4>5 DEF AddStudent, vars, tables
      <4> QED
        BY <1>1, <4>1, <4>2, <4>3, <4>4, <4>5 DEF Next
    <3> QED
      BY <3>2 DEF Atomic!vars
  <2> QED
    BY <2>1, <2>2
<1>2. Inv /\ [Next]_vars => [trust /\ trust' => [Atomic!Next]_(Atomic!vars)]_vars
  BY <1>1
<1> QED
  BY <1>2, InvHolds, PTL DEF Spec, CommitsAreAtomic
=============================================================================
