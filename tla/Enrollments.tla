---------------------------- MODULE Enrollments ----------------------------
(***************************************************************************)
(* The university database of lab 10 on the primary, as the threads of the  *)
(* visualizer (10-databases/visualizer/server.py) change it: transfers in a  *)
(* transaction each, resets of one autocommitted statement after the other,  *)
(* and single statements from the SQL console.                               *)
(*                                                                          *)
(* MySQL is modelled from what the statements need of it: InnoDB keeps row    *)
(* locks until a transaction ends, an insert locks the course it refers to    *)
(* shared, and a deadlock costs one transaction.  A statement takes effect in *)
(* one step, once nothing it needs is locked; what a transaction changed is   *)
(* applied when it commits, as no one else reads it before.                   *)
(***************************************************************************)
EXTENDS Integers, FiniteSets

CONSTANTS
    Students,       \* rows of the table students there may be
    Seeded,         \* students 1 to 10, which a reset keeps
    Courses,        \* courses; none is added
    Seeds,          \* the enrollments a reset inserts
    Transfers,      \* requests to /api/consistency/transfer
    Resets,         \* requests to /api/db/reset
    None,
    MaxConsole      \* bound: statements from the console

ASSUME TablesAssumption == IsFiniteSet(Students) /\ IsFiniteSet(Courses) /\ Seeded \subseteq Students
ASSUME SeedsAssumption == Seeds \subseteq Seeded \X Courses
ASSUME NoneAssumption == None \notin Students \cup Courses
ASSUME BoundsAssumption == MaxConsole \in Nat

VARIABLES
    rows,       \* the committed enrollments
    enrolled,   \* courses.enrolled, committed
    present,    \* the rows of students
    tx,         \* tx[t]: the transaction of transfer t
    reset,      \* reset[r]: the statement r is at
    alone,      \* history: alone[r], nothing else rewrote enrollments since r began
    trust,      \* history: only transfers touched the tables since an undisturbed reset
    console     \* counts to MaxConsole

history == <<alone, trust>>
tables == <<rows, enrolled, present>>
vars == <<tables, tx, reset, history, console>>

Active == {"begun", "deleted", "decremented", "inserted", "incremented"}
Ended == {"committed", "rolled_back", "failed"}
Transaction == [pc : {"idle"} \cup Active \cup Ended, student : Students \cup {None},
                from : Courses \cup {None}, to : Courses \cup {None}, took : BOOLEAN]

Midway == {"students", "counts", "seeds"}

\* Enrollments in course c.
Count(c) == Cardinality({s \in Students : <<s, c>> \in rows})

SeedCount(c) == Cardinality({s \in Seeded : <<s, c>> \in Seeds})

TypeOK ==
    /\ rows \subseteq Students \X Courses
    /\ enrolled \in [Courses -> Nat]
    /\ Seeded \subseteq present /\ present \subseteq Students
    /\ tx \in [Transfers -> Transaction]
    /\ \A t \in Transfers : tx[t].pc # "idle" =>
          tx[t].student # None /\ tx[t].from # None /\ tx[t].to # None
    /\ reset \in [Resets -> {"idle", "done", "failed"} \cup Midway]
    /\ alone \in [Resets -> BOOLEAN]
    /\ trust \in BOOLEAN
    /\ console \in 0..MaxConsole

Init ==
    /\ rows = Seeds
    /\ enrolled = [c \in Courses |-> SeedCount(c)]
    /\ present = Seeded
    /\ tx = [t \in Transfers |->
                [pc |-> "idle", student |-> None, from |-> None, to |-> None, took |-> FALSE]]
    /\ reset = [r \in Resets |-> "idle"]
    /\ alone = [r \in Resets |-> FALSE]
    /\ trust = TRUE
    /\ console = 0

-----------------------------------------------------------------------------
(* Locks *)

Old(t) == <<tx[t].student, tx[t].from>>
New(t) == <<tx[t].student, tx[t].to>>

\* The enrollments t has deleted or inserted.
RowsOf(t) ==
    CASE tx[t].pc \in {"deleted", "decremented"} -> {Old(t)}
      [] tx[t].pc \in {"inserted", "incremented"} -> {Old(t), New(t)}
      [] OTHER -> {}

\* Faulty variant: the rollback after a refused insert or a missing row is forgotten, and
\* so is the end of the connection.
CoursesOf_LeftOpen(t) == IF tx[t].pc \in {"idle", "begun", "deleted"} THEN {} ELSE {tx[t].from}

\* The courses t has updated.
CoursesOf(t) ==
    CASE tx[t].pc = "decremented" -> {tx[t].from}
      [] tx[t].pc = "inserted" -> {tx[t].from}
      [] tx[t].pc = "incremented" -> {tx[t].from, tx[t].to}
      [] OTHER -> {}

\* The course its insert refers to.
ReferredBy(t) == IF tx[t].pc = "inserted" THEN {tx[t].to} ELSE {}

Locked(row) == \E t \in Transfers : row \in RowsOf(t)

Others(t) == Transfers \ {t}

\* The transactions whose locks the next statement of t waits for.
WaitsFor(t) ==
    CASE tx[t].pc = "begun" -> {u \in Others(t) : Old(t) \in RowsOf(u)}
      [] tx[t].pc = "deleted" -> {u \in Others(t) : tx[t].from \in CoursesOf(u) \cup ReferredBy(u)}
      [] tx[t].pc = "decremented" ->
            {u \in Others(t) : New(t) \in RowsOf(u) \/ tx[t].to \in CoursesOf(u)}
      [] tx[t].pc = "inserted" -> {u \in Others(t) : tx[t].to \in CoursesOf(u) \cup ReferredBy(u)}
      [] OTHER -> {}

\* t waits in a deadlock, or for one.
Deadlocked(t) ==
    \E S \in SUBSET Transfers : t \in S /\ \A u \in S : WaitsFor(u) \cap S # {}

-----------------------------------------------------------------------------
(* consistency_transfer *)

To(t, pc) == tx' = [tx EXCEPT ![t].pc = pc]

\* BEGIN, and the two lookups: a code that names no course ends the request at once.
Begin(t, s, from, to) ==
    /\ tx[t].pc = "idle"
    /\ tx' = [tx EXCEPT ![t] =
                 [pc |-> "begun", student |-> s, from |-> from, to |-> to, took |-> FALSE]]
    /\ UNCHANGED <<tables, reset, history, console>>

\* The enrollment is deleted, or the transaction ends here.
Delete(t) ==
    /\ tx[t].pc = "begun" /\ WaitsFor(t) = {}
    /\ To(t, IF Old(t) \in rows THEN "deleted" ELSE "rolled_back")
    /\ UNCHANGED <<tables, reset, history, console>>

\* The counter of the old course goes down, if it is not 0 yet.
Decrement(t) ==
    /\ tx[t].pc = "deleted" /\ WaitsFor(t) = {}
    /\ tx' = [tx EXCEPT ![t].pc = "decremented", ![t].took = enrolled[tx[t].from] > 0]
    /\ UNCHANGED <<tables, reset, history, console>>

\* The unique constraint refuses an enrollment there is, other than the one deleted.
Duplicate(t) == New(t) \in rows /\ tx[t].to # tx[t].from

\* Faulty variant: the duplicate is reported, but the request goes on.
Insert_Ignored(t) ==
    /\ tx[t].pc = "decremented" /\ WaitsFor(t) = {}
    /\ To(t, "inserted")
    /\ UNCHANGED <<tables, reset, history, console>>

Insert(t) ==
    /\ tx[t].pc = "decremented" /\ WaitsFor(t) = {}
    /\ To(t, IF Duplicate(t) THEN "rolled_back" ELSE "inserted")
    /\ UNCHANGED <<tables, reset, history, console>>

Increment(t) ==
    /\ tx[t].pc = "inserted" /\ WaitsFor(t) = {}
    /\ To(t, "incremented")
    /\ UNCHANGED <<tables, reset, history, console>>

\* What the two updates of t make of the counter of c.
Counter(t, c) ==
    enrolled[c] + (IF c = tx[t].to THEN 1 ELSE 0) - (IF c = tx[t].from /\ tx[t].took THEN 1 ELSE 0)

\* Everything takes effect.  The answer of the server may be lost.
Commit(t) ==
    /\ tx[t].pc = "incremented"
    /\ rows' = (rows \ {Old(t)}) \cup {New(t)}
    /\ enrolled' = [c \in Courses |-> Counter(t, c)]
    /\ \E pc \in {"committed", "failed"} : To(t, pc)
    /\ UNCHANGED <<present, reset, history, console>>

\* The connection broke, a lock was not free in time, or the server stopped: the
\* exception is answered with a rollback, and MySQL rolls back without it.
Fail(t) ==
    /\ tx[t].pc \in Active
    /\ To(t, "failed")
    /\ UNCHANGED <<tables, reset, history, console>>

\* InnoDB ends a deadlock by rolling one transaction back.
Victim(t) ==
    /\ Deadlocked(t)
    /\ To(t, "failed")
    /\ UNCHANGED <<tables, reset, history, console>>

-----------------------------------------------------------------------------
(* db_reset: autocommitted statements.  The ones for tables of other modules are *)
(* left out, and DELETE added courses, which finds none and waits for the same    *)
(* locks as the update that follows.                                              *)

Running(r) == reset[r] \in Midway

\* DELETE FROM enrollments
DeleteEnrollments(r) ==
    /\ reset[r] = "idle"
    /\ \A t \in Transfers : RowsOf(t) = {}
    /\ rows' = {}
    /\ reset' = [reset EXCEPT ![r] = "students"]
    /\ alone' = [q \in Resets |-> q = r /\ \A p \in Resets : ~Running(p)]
    /\ trust' = FALSE
    /\ UNCHANGED <<enrolled, present, tx, console>>

Added == Students \ Seeded

\* DELETE FROM students WHERE student_id > 10, refused while one of them is enrolled.
DeleteStudents(r) ==
    /\ reset[r] = "students"
    /\ \A t \in Transfers : RowsOf(t) \cap (Added \X Courses) = {}
    /\ IF rows \cap (Added \X Courses) = {}
       THEN present' = Seeded /\ reset' = [reset EXCEPT ![r] = "counts"]
       ELSE UNCHANGED present /\ reset' = [reset EXCEPT ![r] = "failed"]
    /\ UNCHANGED <<rows, enrolled, tx, history, console>>

\* Faulty variant: the counters are left alone.
ResetCounts_Not(r) ==
    /\ reset[r] = "counts"
    /\ reset' = [reset EXCEPT ![r] = "seeds"]
    /\ UNCHANGED <<tables, tx, history, console>>

\* UPDATE courses SET enrolled = CASE code ...
ResetCounts(r) ==
    /\ reset[r] = "counts"
    /\ \A t \in Transfers : CoursesOf(t) \cup ReferredBy(t) = {}
    /\ enrolled' = [c \in Courses |-> SeedCount(c)]
    /\ reset' = [reset EXCEPT ![r] = "seeds"]
    /\ UNCHANGED <<rows, present, tx, history, console>>

\* INSERT INTO enrollments, one statement for all: a duplicate refuses them all.
InsertSeeds(r) ==
    /\ reset[r] = "seeds"
    /\ \A t \in Transfers : RowsOf(t) \cap Seeds = {} /\ CoursesOf(t) = {}
    /\ IF rows \cap Seeds = {}
       THEN /\ rows' = rows \cup Seeds
            /\ reset' = [reset EXCEPT ![r] = "done"]
            /\ trust' = alone[r]
       ELSE /\ reset' = [reset EXCEPT ![r] = "failed"]
            /\ UNCHANGED <<rows, trust>>
    /\ UNCHANGED <<enrolled, present, tx, alone, console>>

\* An exception, or the end of the server, between two statements.
ResetFails(r) ==
    /\ Running(r)
    /\ reset' = [reset EXCEPT ![r] = "failed"]
    /\ UNCHANGED <<tables, tx, history, console>>

-----------------------------------------------------------------------------
(* sql_exec, and the students the other tabs insert *)

\* INSERT INTO enrollments
Enroll(s, c) ==
    /\ console < MaxConsole
    /\ console' = console + 1
    /\ s \in present /\ <<s, c>> \notin rows /\ ~Locked(<<s, c>>)
    /\ \A t \in Transfers : c \notin CoursesOf(t)
    /\ rows' = rows \cup {<<s, c>>}
    /\ alone' = [r \in Resets |-> FALSE]
    /\ trust' = FALSE
    /\ UNCHANGED <<enrolled, present, tx, reset>>

\* INSERT INTO students.  An ID may come again here: nothing remembers one that is gone.
AddStudent(s) ==
    /\ s \notin present
    /\ present' = present \cup {s}
    /\ UNCHANGED <<rows, enrolled, tx, reset, history, console>>

-----------------------------------------------------------------------------

Statement(t) == Delete(t) \/ Decrement(t) \/ Insert(t) \/ Increment(t) \/ Commit(t)

ResetStatement(r) == DeleteStudents(r) \/ ResetCounts(r) \/ InsertSeeds(r)

Next ==
    \/ \E t \in Transfers :
          \/ \E s \in Students, from, to \in Courses : Begin(t, s, from, to)
          \/ Statement(t) \/ Fail(t) \/ Victim(t)
    \/ \E r \in Resets : DeleteEnrollments(r) \/ ResetStatement(r) \/ ResetFails(r)
    \/ \E s \in Students : AddStudent(s) \/ \E c \in Courses : Enroll(s, c)

Spec == Init /\ [][Next]_vars

\* Handler threads run, and InnoDB detects deadlocks.
Fairness ==
    /\ \A t \in Transfers : WF_vars(Statement(t))
    /\ WF_vars(\E t \in Transfers : Victim(t))
    /\ \A r \in Resets : WF_vars(ResetStatement(r))

FairSpec == Spec /\ Fairness

-----------------------------------------------------------------------------
(* Properties *)

\* "The enrollment counts stay consistent" (server.py:365-366): where only transfers ran
\* since an undisturbed reset, each counter is the number of enrollments, whatever failed
\* or ran at the same time.  A reset that nothing disturbs repairs every difference.
CountsAgree == trust => \A c \in Courses : enrolled[c] = Count(c)

\* The tables keep their constraints (primary-init.sql), and where they can the counters.
Consistent == TypeOK /\ CountsAgree

\* Transfers are atomic, and all four statements of one that commits took effect
\* (server.py:363-364), where the counters are to be trusted.
Atomic == INSTANCE AtomicTransfer WITH rows <- rows, enrolled <- enrolled

CommitsAreAtomic == [][trust /\ trust' => [Atomic!Next]_(Atomic!vars)]_vars

\* Every transfer and every reset ends, however their locks cross.
RequestsEnd ==
    /\ \A t \in Transfers : tx[t].pc = "begun" ~> tx[t].pc \in Ended
    /\ \A r \in Resets : Running(r) ~> ~Running(r)
=============================================================================
