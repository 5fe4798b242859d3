----------------------------- MODULE Visualizer -----------------------------
(*****************************************************************************)
(* The requests the visualizer of lab 10                                     *)
(* (10-databases/visualizer/server.py) serves in threads, one SQL statement  *)
(* after the other, on a primary and a replica: students added and looked    *)
(* up on both nodes, replication stopped and started, index, materialized    *)
(* view, buffer pool and benchmark table, and the reset that undoes it all.  *)
(* Transfers, and the rows a reset restores for them, are in Enrollments.    *)
(*                                                                           *)
(* A request is the statements it still has to run.  MySQL is external:      *)
(* every change of the tables enters the log of the primary, which the       *)
(* replica applies in order while replication runs; the buffer pool is       *)
(* resized in the background. A timeout may pass at any time. The replica is  *)
(* super_read_only (setup.sh:69-71): nothing but replication changes it.     *)
(*****************************************************************************)
EXTENDS Sequences, Integers

CONSTANTS
    Requests,       \* requests, each sent once
    Kinds,          \* the routes they are sent to
    Sizes,          \* sizes of the buffer pool a browser asks for
    Default,        \* BUFFER_POOL_DEFAULT
    None,
    MaxFails        \* bound: requests whose connection breaks

ASSUME DefaultAssumption == Default \in Sizes
ASSUME NoneAssumption == None \notin Requests
ASSUME BoundsAssumption == MaxFails \in Nat

VARIABLES
    log,        \* the tables after each change on the primary
    applied,    \* the replica has applied log[1..applied]
    repl,       \* the threads of the replica
    asked,      \* @@innodb_buffer_pool_size
    actual,     \* the size of the buffer pool
    build,      \* the table bench_data_build
    bench,      \* the table bench_data
    lock,       \* the request that holds _BENCH_LOCK
    req,        \* req[r]: request r
    sole,       \* history: the reset that nothing has disturbed since it began
    fails       \* counts to MaxFails

nodes == <<log, applied, repl>>
server == <<asked, actual, build, bench, lock>>
vars == <<nodes, server, req, sole, fails>>

\* The rows added to students, each named by its request, the index on access_log, and
\* the table enrollment_summary.
Tables == [added : SUBSET Requests, index : BOOLEAN, view : BOOLEAN]

Seeded == [added |-> {}, index |-> FALSE, view |-> FALSE]

\* The statements of each route.
Program == [
    write |-> <<"insert", "poll">>,
    cap |-> <<"insert", "select", "status", "poll">>,
    reset |-> <<"delete_students", "drop_view", "drop_index", "read_gtids", "set_pool", "resizing",
                "show_replica", "start_replica", "starting", "wait_gtids">>,
    stop |-> <<"stop_replica">>,
    start |-> <<"start_replica">>,
    index |-> <<"create_index">>,
    unindex |-> <<"drop_index">>,
    view |-> <<"drop_view", "create_view", "count_view">>,
    unview |-> <<"drop_view">>,
    query |-> <<"find_view", "count_view">>,
    pool |-> <<"lock", "look", "drop_build", "create_build", "fill", "rename", "set_pool", "resizing">>,
    benchmark |-> <<"lock", "look", "drop_build", "create_build", "fill", "rename", "measure">>]

ASSUME KindsAssumption == Kinds \subseteq DOMAIN Program /\ None \notin Kinds

Statements == UNION {{Program[k][i] : i \in DOMAIN Program[k]} : k \in DOMAIN Program}
Answers == {"none", "ok", "incomplete", "error", "found", "missing",
            "consistent", "partition", "lagging"}

\* todo: the statements left; size: of the pool; upto: the place in the log a reset waits
\* for; seen and running: what a CAP test has read; complete: a reset has met no problem.
Request == [kind : Kinds \cup {None}, todo : Seq(Statements), size : Sizes, upto : Nat,
            seen : BOOLEAN, running : BOOLEAN, complete : BOOLEAN, answer : Answers]

Primary == log[Len(log)]
Replica == log[applied]

TypeOK ==
    /\ log \in Seq(Tables) /\ log[1] = Seeded
    /\ applied \in 1..Len(log)
    /\ repl \in {"stopped", "connecting", "running"}
    /\ asked \in Sizes /\ actual \in Sizes
    /\ build \in {"absent", "empty", "full"} /\ bench \in {"absent", "empty", "full"}
    /\ lock \in Requests \cup {None}
    /\ req \in [Requests -> Request]
    /\ \A r \in Requests : req[r].answer # "none" => req[r].todo = <<>> /\ lock # r
    /\ sole \in Requests \cup {None}
    /\ fails \in 0..MaxFails

Init ==
    /\ log = <<Seeded>>
    /\ applied = 1
    /\ repl = "running"
    /\ asked = Default /\ actual = Default
    /\ build = "absent" /\ bench = "absent"
    /\ lock = None
    /\ req = [r \in Requests |-> [kind |-> None, todo |-> <<>>, size |-> Default, upto |-> 0,
                seen |-> FALSE, running |-> FALSE, complete |-> TRUE, answer |-> "none"]]
    /\ sole = None
    /\ fails = 0

-----------------------------------------------------------------------------
(* Requests and their statements *)

\* do_POST: the route is found and its handler starts.
Receive(r, k, n) ==
    /\ req[r].kind = None
    /\ req' = [req EXCEPT ![r].kind = k, ![r].todo = Program[k],
                          ![r].size = IF k = "pool" THEN n ELSE Default]
    /\ UNCHANGED <<nodes, server, sole, fails>>

At(r, statement) == req[r].todo # <<>> /\ Head(req[r].todo) = statement

\* The handler goes on, with a result if this was the last statement.
Result(rest, answer) == IF rest = <<>> THEN answer ELSE "none"

Step(r, new) == req' = [req EXCEPT ![r] = new]

Go(r, answer) ==
    LET rest == Tail(req[r].todo)
    IN  Step(r, [req[r] EXCEPT !.todo = rest, !.answer = Result(rest, answer)])

End(r, answer) == Step(r, [req[r] EXCEPT !.todo = <<>>, !.answer = answer])

\* A statement of r changes something, which disturbs the resets of others.
Touch(r) == sole' = IF sole = r THEN r ELSE None

Change(r, tables) ==
    /\ log' = IF tables = Primary THEN log ELSE Append(log, tables)
    /\ Touch(r)
    /\ UNCHANGED <<applied, repl, server, fails>>

Look == UNCHANGED <<nodes, server, sole, fails>>

\* Faulty variant: the lock stays with a request that broke off.
Break_Holds(r) ==
    /\ req[r].todo # <<>>
    /\ fails < MaxFails
    /\ fails' = fails + 1
    /\ End(r, "error")
    /\ Touch(r)
    /\ UNCHANGED <<nodes, server>>

\* The connection breaks or the server stops: the exception is the answer, and leaving
\* "with" frees the lock.
Break(r) ==
    /\ req[r].todo # <<>>
    /\ fails < MaxFails
    /\ fails' = fails + 1
    /\ End(r, "error")
    /\ lock' = IF lock = r THEN None ELSE lock
    /\ Touch(r)
    /\ UNCHANGED <<nodes, asked, actual, build, bench>>

-----------------------------------------------------------------------------
(* replication_write, cap_test_divergence *)

Insert(r) ==
    /\ At(r, "insert")
    /\ Go(r, "ok")
    /\ Change(r, [Primary EXCEPT !.added = @ \cup {r}])

SelectPrimary(r) ==
    /\ At(r, "select")
    /\ Step(r, [req[r] EXCEPT !.todo = Tail(@), !.seen = r \in Primary.added])
    /\ Look

\* replica_running
IsRunning == repl # "stopped"

ReplicaStatus(r) ==
    /\ At(r, "status")
    /\ Step(r, [req[r] EXCEPT !.todo = Tail(@), !.running = IsRunning])
    /\ Look

\* What a write reports.  The replica status it reads last is only shown.
Visible(found) == IF found THEN "found" ELSE "missing"

\* Faulty variant: the replica counts as equal where replication runs.
Outcome_Trusting(r, found) ==
    IF req[r].kind = "write" THEN Visible(found)
    ELSE IF req[r].seen = found \/ req[r].running THEN "consistent" ELSE "partition"

Outcome(r, found) ==
    IF req[r].kind = "write" THEN Visible(found)
    ELSE IF req[r].seen = found THEN "consistent"
    ELSE IF req[r].running THEN "lagging" ELSE "partition"

\* poll_for_row: the row shows up, or the last read before the timeout misses it.
Poll(r) ==
    /\ At(r, "poll")
    /\ Go(r, Outcome(r, r \in Replica.added))
    /\ Look

-----------------------------------------------------------------------------
(* schema_index_change, views_create, views_drop, views_query_view *)

\* An index there is, or none to drop, is a result and no error.
CreateIndex(r) == At(r, "create_index") /\ Go(r, "ok") /\ Change(r, [Primary EXCEPT !.index = TRUE])
DropIndex(r) == At(r, "drop_index") /\ Go(r, "ok") /\ Change(r, [Primary EXCEPT !.index = FALSE])
DropView(r) == At(r, "drop_view") /\ Go(r, "ok") /\ Change(r, [Primary EXCEPT !.view = FALSE])

\* Another request may have created the table since this one dropped it.
CreateView(r) ==
    /\ At(r, "create_view")
    /\ IF Primary.view THEN End(r, "error") ELSE Go(r, "ok")
    /\ Change(r, [Primary EXCEPT !.view = TRUE])

\* Or have dropped the table since it was created or found.
ReadView(r) ==
    /\ At(r, "count_view") \/ At(r, "find_view")
    /\ IF Primary.view THEN Go(r, "ok") ELSE End(r, "error")
    /\ Look

-----------------------------------------------------------------------------
(* set_buffer_pool, ensure_bench_data *)

\* InnoDB refuses a new size while it resizes.
SetPool(r) ==
    /\ At(r, "set_pool")
    /\ IF asked = actual
       THEN Go(r, "ok") /\ asked' = req[r].size
       ELSE End(r, "error") /\ UNCHANGED asked
    /\ Touch(r)
    /\ UNCHANGED <<nodes, actual, build, bench, lock, fails>>

\* vertical_set_buffer: a pool of another size is an error.
SetBuffer(r, ok) == End(r, IF ok THEN "ok" ELSE "error")

\* Faulty variant: the size asked for is taken for the size of the pool.
PoolSettles_Asked(r) ==
    /\ At(r, "resizing")
    /\ LET ok == asked = req[r].size
       IN  IF req[r].kind = "reset"
           THEN Step(r, [req[r] EXCEPT !.todo = Tail(@), !.complete = ok])
           ELSE SetBuffer(r, ok)
    /\ Look

\* The pool has the size asked for, or there was not enough time.
PoolSettles(r) ==
    /\ At(r, "resizing")
    /\ LET ok == actual = req[r].size
       IN  IF req[r].kind = "reset"
           THEN Step(r, [req[r] EXCEPT !.todo = Tail(@), !.complete = ok])
           ELSE SetBuffer(r, ok)
    /\ Look

\* Faulty variant: no one waits for the lock.
Lock_Shared(r) ==
    /\ At(r, "lock")
    /\ Go(r, "ok")
    /\ UNCHANGED <<nodes, server, sole, fails>>

Lock(r) ==
    /\ At(r, "lock") /\ lock = None
    /\ lock' = r
    /\ Go(r, "ok")
    /\ UNCHANGED <<nodes, asked, actual, build, bench, sole, fails>>

\* _build_bench_data returns at once where the table exists: what comes after "rename" is next.
LookForBench(r) ==
    /\ At(r, "look")
    /\ IF bench = "absent"
       THEN Go(r, "ok") /\ UNCHANGED lock
       ELSE Step(r, [req[r] EXCEPT !.todo = SubSeq(@, 6, Len(@))]) /\ lock' = None
    /\ UNCHANGED <<nodes, asked, actual, build, bench, sole, fails>>

DropBuild(r) ==
    /\ At(r, "drop_build")
    /\ build' = "absent"
    /\ Go(r, "ok")
    /\ UNCHANGED <<nodes, asked, actual, bench, lock, sole, fails>>

CreateBuild(r) ==
    /\ At(r, "create_build")
    /\ IF build = "absent"
       THEN Go(r, "ok") /\ build' = "empty" /\ UNCHANGED lock
       ELSE End(r, "error") /\ lock' = None /\ UNCHANGED build
    /\ UNCHANGED <<nodes, asked, actual, bench, sole, fails>>

\* All rows in one statement: IDs there are, or a table there is not, refuse it.
FillBuild(r) ==
    /\ At(r, "fill")
    /\ IF build = "empty"
       THEN Go(r, "ok") /\ build' = "full" /\ UNCHANGED lock
       ELSE End(r, "error") /\ lock' = None /\ UNCHANGED build
    /\ UNCHANGED <<nodes, asked, actual, bench, sole, fails>>

\* The last statement of the build, after which the lock is free.
RenameBuild(r) ==
    /\ At(r, "rename")
    /\ lock' = None
    /\ IF build # "absent" /\ bench = "absent"
       THEN Go(r, "ok") /\ bench' = build /\ build' = "absent"
       ELSE End(r, "error") /\ UNCHANGED <<bench, build>>
    /\ UNCHANGED <<nodes, asked, actual, sole, fails>>

\* vertical_benchmark: the scan and the range queries need the table.
Measure(r) == At(r, "measure") /\ Go(r, IF bench = "full" THEN "ok" ELSE "error") /\ Look

-----------------------------------------------------------------------------
(* db_reset *)

DeleteStudents(r) ==
    /\ At(r, "delete_students")
    /\ Go(r, "ok")
    /\ log' = IF Primary.added = {} THEN log ELSE Append(log, [Primary EXCEPT !.added = {}])
    /\ sole' = r
    /\ UNCHANGED <<applied, repl, server, fails>>

\* What the replica is to have applied: everything up to here.
ReadGtids(r) ==
    /\ At(r, "read_gtids")
    /\ Step(r, [req[r] EXCEPT !.todo = Tail(@), !.upto = Len(log)])
    /\ Look

\* Replication that runs needs no start.
ShowReplica(r) ==
    /\ At(r, "show_replica")
    /\ Step(r, [req[r] EXCEPT !.todo = IF IsRunning THEN SubSeq(@, 4, Len(@)) ELSE Tail(@)])
    /\ Look

\* cap_start_replication is this statement alone.
StartReplica(r) ==
    /\ At(r, "start_replica")
    /\ repl' = IF repl = "stopped" THEN "connecting" ELSE repl
    /\ Go(r, "ok")
    /\ Touch(r)
    /\ UNCHANGED <<log, applied, server, fails>>

\* Both threads run, or they did not within 30 seconds.  Where one has failed there is
\* nothing to wait for.
ReplicaStarts(r) ==
    /\ At(r, "starting")
    /\ CASE repl = "running" -> Go(r, "ok")
         [] repl = "connecting" -> Step(r, [req[r] EXCEPT !.todo = Tail(@), !.complete = FALSE])
         [] OTHER -> End(r, "incomplete")
    /\ Look

\* The replica has applied the reset, or it has not within 30 seconds.
WaitGtids(r) ==
    /\ At(r, "wait_gtids")
    /\ Go(r, IF req[r].complete /\ applied >= req[r].upto THEN "ok" ELSE "incomplete")
    /\ Look

-----------------------------------------------------------------------------
(* cap_stop_replication, and the nodes *)

StopReplica(r) ==
    /\ At(r, "stop_replica")
    /\ repl' = "stopped"
    /\ Go(r, "ok")
    /\ Touch(r)
    /\ UNCHANGED <<log, applied, server, fails>>

\* The IO thread has reached the primary.
Connected ==
    /\ repl = "connecting"
    /\ repl' = "running"
    /\ UNCHANGED <<log, applied, server, req, sole, fails>>

\* The replica applies the next change.
Apply ==
    /\ repl # "stopped" /\ applied < Len(log)
    /\ applied' = applied + 1
    /\ UNCHANGED <<log, repl, server, req, sole, fails>>

Resize ==
    /\ asked # actual
    /\ actual' = asked
    /\ UNCHANGED <<nodes, asked, build, bench, lock, req, sole, fails>>

-----------------------------------------------------------------------------

Serve(r) ==
    \/ Insert(r) \/ SelectPrimary(r) \/ ReplicaStatus(r) \/ Poll(r)
    \/ CreateIndex(r) \/ DropIndex(r) \/ DropView(r) \/ CreateView(r) \/ ReadView(r)
    \/ Lock(r) \/ LookForBench(r) \/ DropBuild(r) \/ CreateBuild(r) \/ FillBuild(r) \/ RenameBuild(r)
    \/ Measure(r) \/ SetPool(r) \/ PoolSettles(r)
    \/ DeleteStudents(r) \/ ReadGtids(r) \/ ShowReplica(r) \/ StartReplica(r) \/ ReplicaStarts(r)
    \/ WaitGtids(r) \/ StopReplica(r)

Next ==
    \/ \E r \in Requests :
          \/ \E k \in Kinds, n \in Sizes : Receive(r, k, n)
          \/ Serve(r) \/ Break(r)
    \/ Connected \/ Apply \/ Resize

Spec == Init /\ [][Next]_vars

-----------------------------------------------------------------------------
(* Properties *)

\* "Database reset to initial state" (server.py:615): when a reset that nothing disturbed
\* answers OK, both nodes have the seeded tables and the buffer pool has its default size.
\* Disturbed or not, the replica has applied what the reset did.
ResetRestores ==
    \A r \in Requests : req[r].kind = "reset" /\ req[r].answer = "ok" =>
        /\ applied >= req[r].upto
        /\ sole = r => Primary = Seeded /\ actual = Default /\ Replica = Seeded

\* "bench_data only ever exists complete" (server.py:1027), whichever requests build it and
\* wherever they break off.
BenchIsWhole == bench # "empty"

\* What a write or a CAP test reports of the replica: a row that was found there, or is
\* the same on both nodes, stays on the replica for as long as the primary has it.
FoundIsReplicated ==
    \A r \in Requests : req[r].answer \in {"found", "consistent"} /\ r \in Primary.added =>
        r \in Replica.added
=============================================================================
