------------------------- MODULE Visualizer_proofs -------------------------
(***************************************************************************)
(* Proofs about Visualizer for any requests, routes, pool sizes and number  *)
(* of failures: type correctness, that the benchmark table is whole, that   *)
(* a row reported on the replica stays there, and that a reset restores     *)
(* what it says.  The invariant says what a request still has to run: the   *)
(* end of some route's statements, in order, and that the lock belongs to   *)
(* the request that is between the statements it guards; for a reset it     *)
(* adds what is restored already, by the number of statements left.         *)
(***************************************************************************)
EXTENDS Visualizer, SequenceTheorems, TLAPS

USE DefaultAssumption, NoneAssumption, BoundsAssumption

-----------------------------------------------------------------------------
(* The statements of a request *)

\* The statements that are run under _BENCH_LOCK.
Guarded == {"look", "drop_build", "create_build", "fill", "rename"}

\* Statement b comes after a, and what may begin a program only begins one.
Follows(a, b) ==
    /\ a = "lock" <=> b = "look"
    /\ a = "look" <=> b = "drop_build"
    /\ a = "drop_build" <=> b = "create_build"
    /\ a = "create_build" <=> b = "fill"
    /\ a = "fill" <=> b = "rename"
    /\ b \notin {"lock", "insert"}
    /\ b = "status" => a = "select"
    /\ b = "select" => a = "insert"

\* A sequence of statements in the order of some program, up to the program's end.
Ordered(s) ==
    /\ \A i \in 1..(Len(s) - 1) : Follows(s[i], s[i + 1])
    /\ s # <<>> => s[Len(s)] \notin {"lock", "look", "drop_build", "create_build", "fill"}

\* t is what is left of s after one or more statements.
Rest(t, s) ==
    /\ t \in Seq(Statements)
    /\ Len(t) < Len(s)
    /\ \A i \in 1..Len(t) : t[i] = s[Len(s) - Len(t) + i]

Words == Guarded \cup {"lock", "insert", "poll", "select", "status", "delete_students", "drop_view",
    "drop_index", "read_gtids", "set_pool", "resizing", "show_replica", "start_replica", "starting",
    "wait_gtids", "stop_replica", "create_index", "create_view", "count_view", "find_view", "measure"}

LEMMA KindCases ==
    ASSUME NEW k \in Kinds
    PROVE  k \in {"write", "cap", "reset", "stop", "start", "index", "unindex", "view", "unview",
                  "query", "pool", "benchmark"}
BY KindsAssumption DEF Program

LEMMA ProgramTypes == ASSUME NEW k \in Kinds PROVE Program[k] \in Seq(Statements) /\ Program[k] # <<>>
<1>1. k \in DOMAIN Program
  BY KindsAssumption
<1>2. \A i \in DOMAIN Program[k] : Program[k][i] \in Statements
  BY <1>1 DEF Statements
<1>3. Program[k] \in Seq(Words) /\ Program[k] # <<>>
  <2>1. CASE k = "write"   BY <2>1 DEF Program, Words, Guarded
  <2>2. CASE k = "cap"   BY <2>2 DEF Program, Words, Guarded
  <2>3. CASE k = "reset"   BY <2>3 DEF Program, Words, Guarded
  <2>4. CASE k = "stop"   BY <2>4 DEF Program, Words, Guarded
  <2>5. CASE k = "start"   BY <2>5 DEF Program, Words, Guarded
  <2>6. CASE k = "index"   BY <2>6 DEF Program, Words, Guarded
  <2>7. CASE k = "unindex"   BY <2>7 DEF Program, Words, Guarded
  <2>8. CASE k = "view"   BY <2>8 DEF Program, Words, Guarded
  <2>9. CASE k = "unview"   BY <2>9 DEF Program, Words, Guarded
  <2>10. CASE k = "query"   BY <2>10 DEF Program, Words, Guarded
  <2>11. CASE k = "pool"   BY <2>11 DEF Program, Words, Guarded
  <2>12. CASE k = "benchmark"   BY <2>12 DEF Program, Words, Guarded
  <2> QED
    BY <2>1, <2>2, <2>3, <2>4, <2>5, <2>6, <2>7, <2>8, <2>9, <2>10, <2>11, <2>12, KindCases
<1> QED
  BY <1>2, <1>3

LEMMA ProgramOrdered == ASSUME NEW k \in Kinds PROVE Ordered(Program[k])
<1>1. CASE k = "write"   BY <1>1 DEF Program, Ordered, Follows
<1>2. CASE k = "cap"   BY <1>2 DEF Program, Ordered, Follows
<1>3. CASE k = "reset"   BY <1>3 DEF Program, Ordered, Follows
<1>4. CASE k = "stop"   BY <1>4 DEF Program, Ordered, Follows
<1>5. CASE k = "start"   BY <1>5 DEF Program, Ordered, Follows
<1>6. CASE k = "index"   BY <1>6 DEF Program, Ordered, Follows
<1>7. CASE k = "unindex"   BY <1>7 DEF Program, Ordered, Follows
<1>8. CASE k = "view"   BY <1>8 DEF Program, Ordered, Follows
<1>9. CASE k = "unview"   BY <1>9 DEF Program, Ordered, Follows
<1>10. CASE k = "query"   BY <1>10 DEF Program, Ordered, Follows
<1>11. CASE k = "pool"   BY <1>11 DEF Program, Ordered, Follows
<1>12. CASE k = "benchmark"   BY <1>12 DEF Program, Ordered, Follows
<1> QED
  BY <1>1, <1>2, <1>3, <1>4, <1>5, <1>6, <1>7, <1>8, <1>9, <1>10, <1>11, <1>12, KindCases

LEMMA RestOrdered ==
    ASSUME NEW s \in Seq(Statements), NEW t, Rest(t, s), Ordered(s)
    PROVE  Ordered(t)
<1>1. ASSUME NEW i \in 1..(Len(t) - 1) PROVE Follows(t[i], t[i + 1])
  <2>1. t[i] = s[Len(s) - Len(t) + i] /\ t[i + 1] = s[Len(s) - Len(t) + i + 1]
    BY <1>1 DEF Rest
  <2>2. Len(s) - Len(t) + i \in 1..(Len(s) - 1)
    BY <1>1 DEF Rest
  <2> QED
    BY <2>1, <2>2 DEF Ordered
<1>2. t # <<>> => t[Len(t)] = s[Len(s)] /\ s # <<>>
  BY DEF Rest
<1> QED
  BY <1>1, <1>2 DEF Ordered

LEMMA TailRest ==
    ASSUME NEW s \in Seq(Statements), s # <<>>
    PROVE  Rest(Tail(s), s) /\ (Tail(s) # <<>> => Head(Tail(s)) = s[2] /\ Len(s) > 1)
BY DEF Rest

LEMMA SubSeqRest ==
    ASSUME NEW s \in Seq(Statements), s # <<>>, NEW m \in Nat, m > 1
    PROVE  Rest(SubSeq(s, m, Len(s)), s)
<1> DEFINE t == SubSeq(s, m, Len(s))
<1>1. /\ t \in Seq(Statements)
      /\ Len(t) = IF m <= Len(s) THEN Len(s) - m + 1 ELSE 0
      /\ \A i \in 1..(Len(s) - m + 1) : t[i] = s[m + i - 1]
  BY SubSeqProperties
<1>2. \A i \in 1..Len(t) : t[i] = s[Len(s) - Len(t) + i]
  <2> SUFFICES ASSUME NEW i \in 1..Len(t) PROVE t[i] = s[Len(s) - Len(t) + i]
    OBVIOUS
  <2>1. m <= Len(s) /\ Len(t) = Len(s) - m + 1
    BY <1>1
  <2>2. Len(s) - Len(t) + i = m + i - 1
    BY <2>1
  <2> QED
    BY <1>1, <2>1, <2>2
<1>3. Len(t) < Len(s)
  BY <1>1
<1> QED
  BY <1>1, <1>2, <1>3 DEF Rest

LEMMA RestHead ==
    ASSUME NEW s \in Seq(Statements), NEW t, Rest(t, s), t # <<>>
    PROVE  LET m == Len(s) - Len(t) + 1
           IN  Head(t) = s[m] /\ m \in 1..Len(s) /\ m > 1
<1>1. t \in Seq(Statements) /\ Len(t) < Len(s)
  BY DEF Rest
<1>2. Len(t) \in Nat /\ Len(s) \in Nat /\ Len(t) > 0 /\ Head(t) = t[1]
  BY <1>1
<1>3. t[1] = s[Len(s) - Len(t) + 1]
  BY <1>2 DEF Rest
<1> QED
  BY <1>1, <1>2, <1>3

LEMMA EmptyRest == ASSUME NEW s \in Seq(Statements), s # <<>> PROVE Rest(<<>>, s)
BY DEF Rest

\* Where the statements under the lock are, counted from the first statement left.
LEMMA Places ==
    ASSUME NEW s \in Seq(Statements), Ordered(s), NEW m \in 1..Len(s)
    PROVE  /\ s[m] = "lock" => m = 1
           /\ s[m] = "look" => m = 1 \/ (m = 2 /\ s[1] = "lock")
           /\ s[m] = "drop_build" => m = 1 \/ (m = 2 /\ s[1] = "look") \/ (m = 3 /\ s[1] = "lock")
           /\ s[m] \in Guarded => m < 7 /\ (m > 1 => s[1] \in Guarded \cup {"lock"})
           /\ s[m] \in Guarded /\ m = 6 => s[1] = "lock"
<1> DEFINE At1(n, w) == n \in 1..Len(s) /\ s[n] = w
<1>1. \A n \in 2..Len(s) : Follows(s[n - 1], s[n])
  <2> SUFFICES ASSUME NEW n \in 2..Len(s) PROVE Follows(s[n - 1], s[n])
    OBVIOUS
  <2>1. n - 1 \in 1..(Len(s) - 1) /\ (n - 1) + 1 = n
    OBVIOUS
  <2> QED
    BY <2>1 DEF Ordered
<1>2. \A n \in Int : At1(n, "lock") => n = 1
  BY <1>1 DEF Follows
<1>3. \A n \in Int : At1(n, "look") => n = 1 \/ (n = 2 /\ At1(1, "lock"))
  BY <1>1, <1>2 DEF Follows
<1>4. \A n \in Int : At1(n, "drop_build") =>
         n = 1 \/ (n = 2 /\ At1(1, "look")) \/ (n = 3 /\ At1(1, "lock"))
  BY <1>1, <1>3 DEF Follows
<1>5. \A n \in Int : At1(n, "create_build") =>
         n = 1 \/ (n \in 2..3 /\ s[1] \in Guarded) \/ (n = 4 /\ At1(1, "lock"))
  BY <1>1, <1>4 DEF Follows, Guarded
<1>6. \A n \in Int : At1(n, "fill") =>
         n = 1 \/ (n \in 2..4 /\ s[1] \in Guarded) \/ (n = 5 /\ At1(1, "lock"))
  BY <1>1, <1>5 DEF Follows, Guarded
<1>7. \A n \in Int : At1(n, "rename") =>
         n = 1 \/ (n \in 2..5 /\ s[1] \in Guarded) \/ (n = 6 /\ At1(1, "lock"))
  BY <1>1, <1>6 DEF Follows, Guarded
<1> HIDE DEF At1
<1>8. \A w : s[m] = w => At1(m, w)
  BY DEF At1
<1>9. \A w : At1(1, w) => s[1] = w
  BY DEF At1
<1> QED
  BY <1>2, <1>3, <1>4, <1>5, <1>6, <1>7, <1>8, <1>9 DEF Guarded

-----------------------------------------------------------------------------
(* Types, programs and the lock *)

InOrder ==
    \A r \in Requests :
        /\ Ordered(req[r].todo)
        /\ req[r].kind = None => req[r].todo = <<>> /\ req[r].answer = "none"

\* The lock is held by the request that is between its first and its last statement.
Holder ==
    \A r \in Requests : lock = r <=> req[r].todo # <<>> /\ Head(req[r].todo) \in Guarded

Inv == TypeOK /\ InOrder /\ Holder

\* What a statement of r, or its end, does to the requests.
Advances(r) ==
    /\ req' \in [Requests -> Request]
    /\ \A t \in Requests : t # r => req'[t] = req[t]
    /\ Rest(req'[r].todo, req[r].todo)
    /\ req'[r].kind = req[r].kind
    /\ req'[r].answer # "none" => req'[r].todo = <<>>

LEMMA StepRow ==
    ASSUME TypeOK, NEW r \in Requests, NEW q \in Request, Step(r, q),
           Rest(q.todo, req[r].todo), q.kind = req[r].kind, q.answer # "none" => q.todo = <<>>
    PROVE  Advances(r) /\ req'[r] = q
BY DEF TypeOK, Step, Advances

LEMMA TodoTypes ==
    ASSUME TypeOK, NEW r \in Requests
    PROVE  /\ req[r] \in Request /\ req[r].todo \in Seq(Statements)
           /\ req[r].todo # <<>> => req[r].answer = "none"
BY DEF TypeOK, Request

LEMMA GoRow ==
    ASSUME TypeOK, NEW r \in Requests, NEW a \in Answers, req[r].todo # <<>>, Go(r, a)
    PROVE  /\ Advances(r)
           /\ req'[r] = [req[r] EXCEPT !.todo = Tail(@), !.answer = Result(Tail(req[r].todo), a)]
<1> DEFINE s == req[r].todo
           q == [req[r] EXCEPT !.todo = Tail(@), !.answer = Result(Tail(req[r].todo), a)]
<1>1. s \in Seq(Statements) /\ req[r] \in Request
  BY TodoTypes
<1>2. Rest(Tail(s), s)
  BY <1>1, TailRest
<1>3. q = [req[r] EXCEPT !.todo = Tail(s), !.answer = Result(Tail(s), a)]
  OBVIOUS
<1>4. Result(Tail(s), a) \in Answers /\ (Result(Tail(s), a) # "none" => Tail(s) = <<>>)
  BY DEF Result, Answers
<1>5. q \in Request /\ q.todo = Tail(s) /\ q.kind = req[r].kind /\ q.answer = Result(Tail(s), a)
  BY <1>1, <1>2, <1>3, <1>4 DEF Request, Rest
<1>6. Step(r, q)
  BY DEF Go
<1> QED
  BY <1>2, <1>4, <1>5, <1>6, StepRow

LEMMA EndRow ==
    ASSUME TypeOK, NEW r \in Requests, NEW a \in Answers, req[r].todo # <<>>, End(r, a)
    PROVE  Advances(r) /\ req'[r] = [req[r] EXCEPT !.todo = <<>>, !.answer = a]
<1> DEFINE q == [req[r] EXCEPT !.todo = <<>>, !.answer = a]
<1>1. req[r].todo \in Seq(Statements) /\ req[r] \in Request
  BY TodoTypes
<1>2. Rest(<<>>, req[r].todo)
  BY <1>1, EmptyRest
<1>3. q \in Request /\ q.todo = <<>> /\ q.kind = req[r].kind
  BY <1>1, <1>2 DEF Request, Rest
<1> QED
  BY <1>2, <1>3, StepRow DEF End

LEMMA Heads ==
    ASSUME TypeOK, NEW r \in Requests, NEW w, At(r, w)
    PROVE  req[r].todo # <<>> /\ req[r].todo[1] = w /\ Len(req[r].todo) > 0
BY TodoTypes DEF At

\* A request with t left to do and these results.
Left(q, t, upto, seen, running, complete) ==
    [q EXCEPT !.todo = t, !.upto = upto, !.seen = seen, !.running = running, !.complete = complete]

\* Every statement advances its request.
LEMMA ServeAdvances ==
    ASSUME TypeOK, NEW r \in Requests, Serve(r)
    PROVE  Advances(r)
<1> DEFINE s == req[r].todo
<1>0. /\ s \in Seq(Statements) /\ req[r] \in Request
      /\ req[r].upto \in Nat /\ req[r].seen \in BOOLEAN /\ req[r].running \in BOOLEAN
      /\ req[r].complete \in BOOLEAN
  BY TodoTypes DEF Request
<1>1. \A a \in Answers : s # <<>> /\ (Go(r, a) \/ End(r, a)) => Advances(r)
  BY GoRow, EndRow
<1>2. {"ok", "error", "incomplete"} \subseteq Answers
  BY DEF Answers
<1>3. s # <<>> => Rest(Tail(s), s) /\ Rest(SubSeq(s, 4, Len(s)), s) /\ Rest(SubSeq(s, 6, Len(s)), s)
  BY <1>0, TailRest, SubSeqRest
<1>4. ASSUME NEW t, s # <<>>, Rest(t, s),
             NEW u \in Nat, NEW a \in BOOLEAN, NEW b \in BOOLEAN, NEW c \in BOOLEAN,
             Step(r, Left(req[r], t, u, a, b, c))
      PROVE  Advances(r)
  <2> DEFINE q == Left(req[r], t, u, a, b, c)
  <2>1. q \in Request /\ q.todo = t /\ q.kind = req[r].kind /\ q.answer = req[r].answer
    BY <1>0, <1>4 DEF Request, Rest, Left
  <2>2. q.answer = "none"
    BY <2>1, <1>4, TodoTypes
  <2> QED
    BY <2>1, <2>2, <1>4, StepRow
<1>5. ASSUME SelectPrimary(r) PROVE Advances(r)
  <2>1. [req[r] EXCEPT !.todo = Tail(@), !.seen = r \in Primary.added] =
        Left(req[r], Tail(s), req[r].upto, (r \in Primary.added), req[r].running, req[r].complete)
    BY <1>0 DEF Request, Left
  <2>8. /\ s # <<>>
        /\ Step(r, Left(req[r], Tail(s), req[r].upto, (r \in Primary.added), req[r].running, req[r].complete))
    BY <1>5, <2>1 DEF SelectPrimary, At
  <2>9. (r \in Primary.added) \in BOOLEAN
    OBVIOUS
  <2> QED
    BY <1>0, <1>3, <1>4, <2>8, <2>9
<1>6. ASSUME ReplicaStatus(r) PROVE Advances(r)
  <2>1. [req[r] EXCEPT !.todo = Tail(@), !.running = IsRunning] =
        Left(req[r], Tail(s), req[r].upto, req[r].seen, IsRunning, req[r].complete)
    BY <1>0 DEF Request, Left
  <2>2. IsRunning \in BOOLEAN
    BY DEF IsRunning
  <2>8. /\ s # <<>>
        /\ Step(r, Left(req[r], Tail(s), req[r].upto, req[r].seen, IsRunning, req[r].complete))
    BY <1>6, <2>1 DEF ReplicaStatus, At
  <2> QED
    BY <1>0, <1>3, <1>4, <2>2, <2>8
<1>7. ASSUME Poll(r) PROVE Advances(r)
  <2>1. Outcome(r, r \in Replica.added) \in Answers
    BY DEF Outcome, Visible, Answers
  <2> QED
    BY <1>1, <1>7, <2>1 DEF Poll, At
<1>8. ASSUME PoolSettles(r) PROVE Advances(r)
  <2> DEFINE ok == actual = req[r].size
  <2>1. CASE req[r].kind = "reset"
    <3>1. [req[r] EXCEPT !.todo = Tail(@), !.complete = ok] =
        Left(req[r], Tail(s), req[r].upto, req[r].seen, req[r].running, ok)
      BY <1>0 DEF Request, Left
    <3>8. /\ s # <<>>
          /\ Step(r, Left(req[r], Tail(s), req[r].upto, req[r].seen, req[r].running, ok))
      BY <1>8, <2>1, <3>1 DEF PoolSettles, SetBuffer, At
    <3> QED
      BY <1>0, <1>3, <1>4, <3>8
  <2>2. CASE req[r].kind # "reset"
    <3>1. (IF ok THEN "ok" ELSE "error") \in Answers
      BY DEF Answers
    <3> QED
      BY <1>1, <1>8, <2>2, <3>1 DEF PoolSettles, SetBuffer, At
  <2> QED
    BY <2>1, <2>2
<1>9. ASSUME LookForBench(r) PROVE Advances(r)
  <2>1. CASE bench = "absent"
    BY <1>1, <1>2, <1>9, <2>1 DEF LookForBench, At
  <2>2. CASE bench # "absent"
    <3>1. [req[r] EXCEPT !.todo = SubSeq(@, 6, Len(@))] =
        Left(req[r], SubSeq(s, 6, Len(s)), req[r].upto, req[r].seen, req[r].running, req[r].complete)
      BY <1>0 DEF Request, Left
    <3>8. /\ s # <<>>
          /\ Step(r, Left(req[r], SubSeq(s, 6, Len(s)), req[r].upto, req[r].seen, req[r].running, req[r].complete))
      BY <1>9, <2>2, <3>1 DEF LookForBench, At
    <3> QED
      BY <1>0, <1>3, <1>4, <3>8
  <2> QED
    BY <2>1, <2>2
<1>10. ASSUME ReadGtids(r) PROVE Advances(r)
  <2>1. [req[r] EXCEPT !.todo = Tail(@), !.upto = Len(log)] =
        Left(req[r], Tail(s), Len(log), req[r].seen, req[r].running, req[r].complete)
    BY <1>0 DEF Request, Left
  <2>2. Len(log) \in Nat
    BY DEF TypeOK
  <2>8. /\ s # <<>>
        /\ Step(r, Left(req[r], Tail(s), Len(log), req[r].seen, req[r].running, req[r].complete))
    BY <1>10, <2>1 DEF ReadGtids, At
  <2> QED
    BY <1>0, <1>3, <1>4, <2>2, <2>8
<1>11. ASSUME ShowReplica(r) PROVE Advances(r)
  <2> DEFINE t == IF IsRunning THEN SubSeq(s, 4, Len(s)) ELSE Tail(s)
  <2>1. [req[r] EXCEPT !.todo = IF IsRunning THEN SubSeq(@, 4, Len(@)) ELSE Tail(@)] =
        Left(req[r], t, req[r].upto, req[r].seen, req[r].running, req[r].complete)
    BY <1>0 DEF Request, Left
  <2>2. s # <<>> => Rest(t, s)
    BY <1>3
  <2> HIDE DEF t
  <2>8. /\ s # <<>>
        /\ Step(r, Left(req[r], t, req[r].upto, req[r].seen, req[r].running, req[r].complete))
    BY <1>11, <2>1 DEF ShowReplica, At
  <2> QED
    BY <1>0, <1>4, <2>2, <2>8
<1>12. ASSUME ReplicaStarts(r) PROVE Advances(r)
  <2>1. CASE repl = "connecting"
    <3>1. [req[r] EXCEPT !.todo = Tail(@), !.complete = FALSE] =
        Left(req[r], Tail(s), req[r].upto, req[r].seen, req[r].running, FALSE)
      BY <1>0 DEF Request, Left
    <3>8. /\ s # <<>>
          /\ Step(r, Left(req[r], Tail(s), req[r].upto, req[r].seen, req[r].running, FALSE))
      BY <1>12, <2>1, <3>1 DEF ReplicaStarts, At
    <3> QED
      BY <1>0, <1>3, <1>4, <3>8
  <2>2. CASE repl # "connecting"
    BY <1>1, <1>2, <1>12, <2>2 DEF ReplicaStarts, At
  <2> QED
    BY <2>1, <2>2
<1>13. ASSUME WaitGtids(r) \/ Measure(r) PROVE Advances(r)
  <2>1. \A x \in BOOLEAN : (IF x THEN "ok" ELSE "incomplete") \in Answers /\ (IF x THEN "ok" ELSE "error") \in Answers
    BY DEF Answers
  <2> QED
    BY <1>1, <1>13, <2>1 DEF WaitGtids, Measure, At
<1>14. ASSUME Insert(r) \/ DeleteStudents(r) \/ StartReplica(r) \/ StopReplica(r) \/ Lock(r) \/ DropBuild(r)
       PROVE  Advances(r)
  BY <1>1, <1>2, <1>14 DEF Insert, DeleteStudents, StartReplica, StopReplica, Lock, DropBuild, At
<1>15. ASSUME CreateIndex(r) \/ DropIndex(r) \/ DropView(r) \/ CreateView(r) \/ ReadView(r) \/ SetPool(r)
       PROVE  Advances(r)
  BY <1>1, <1>2, <1>15 DEF CreateIndex, DropIndex, DropView, CreateView, ReadView, SetPool, At
<1>16. ASSUME CreateBuild(r) \/ FillBuild(r) \/ RenameBuild(r) PROVE Advances(r)
  BY <1>1, <1>2, <1>16 DEF CreateBuild, FillBuild, RenameBuild, At
<1> QED
  BY <1>5, <1>6, <1>7, <1>8, <1>9, <1>10, <1>11, <1>12, <1>13, <1>14, <1>15, <1>16 DEF Serve

LEMMA AdvancesInOrder ==
    ASSUME TypeOK, InOrder, NEW r \in Requests, Advances(r)
    PROVE  InOrder'
<1> SUFFICES ASSUME NEW t \in Requests
             PROVE  /\ Ordered(req'[t].todo)
                    /\ req'[t].kind = None => req'[t].todo = <<>> /\ req'[t].answer = "none"
  BY DEF InOrder
<1>1. CASE t # r
  BY <1>1 DEF Advances, InOrder
<1>2. CASE t = r
  <2>1. Rest(req'[r].todo, req[r].todo) /\ req'[r].kind = req[r].kind
    BY DEF Advances
  <2>2. req[r].todo \in Seq(Statements) /\ Ordered(req[r].todo)
    BY TodoTypes DEF InOrder
  <2>3. Ordered(req'[r].todo)
    BY <2>1, <2>2, RestOrdered
  <2>4. req[r].todo # <<>>
    BY <2>1, <2>2 DEF Rest
  <2> QED
    BY <1>2, <2>1, <2>3, <2>4 DEF InOrder
<1> QED
  BY <1>1, <1>2

\* What a statement leaves to r, if r goes on: an unguarded one never leads to a guarded one.
LEMMA NextHead ==
    ASSUME TypeOK, InOrder, NEW r \in Requests, Advances(r), req'[r].todo # <<>>
    PROVE  LET s == req[r].todo
           IN  /\ Head(req'[r].todo) \in Guarded => s[1] \in Guarded \cup {"lock"}
               /\ req'[r].todo = Tail(s) => Len(s) > 1 /\ Follows(s[1], Head(req'[r].todo))
               /\ req'[r].todo = SubSeq(s, 6, Len(s)) /\ s[1] # "lock" => Head(req'[r].todo) \notin Guarded
<1> DEFINE s == req[r].todo
           t == req'[r].todo
           m == Len(s) - Len(t) + 1
<1>1. s \in Seq(Statements) /\ Ordered(s) /\ Rest(t, s) /\ t # <<>>
  BY TodoTypes DEF InOrder, Advances
<1>2. Head(t) = s[m] /\ m \in 1..Len(s) /\ m > 1
  BY <1>1, RestHead
<1>3. s[m] \in Guarded => s[1] \in Guarded \cup {"lock"}
  <2> HIDE DEF m, s
  <2> QED
    BY <1>1, <1>2, Places
<1>4. ASSUME t = Tail(s) PROVE Len(s) > 1 /\ Follows(s[1], Head(t))
  <2>1. Len(s) > 1 /\ Head(t) = s[2]
    BY <1>1, <1>4, TailRest DEF Rest
  <2>2. Follows(s[1], s[1 + 1])
    BY <1>1, <2>1 DEF Ordered
  <2> QED
    BY <2>1, <2>2
<1>5. ASSUME t = SubSeq(s, 6, Len(s)), s[1] # "lock" PROVE Head(t) \notin Guarded
  <2>1. Len(t) = IF 6 <= Len(s) THEN Len(s) - 6 + 1 ELSE 0
    BY <1>1, <1>5, SubSeqProperties
  <2>2. m = 6
    BY <1>1, <2>1 DEF Rest
  <2> QED
    BY <1>1, <1>2, <1>5, <2>2, Places
<1> QED
  BY <1>2, <1>3, <1>4, <1>5

\* A statement that the lock has nothing to do with.
LEMMA HolderPlain ==
    ASSUME Inv, NEW r \in Requests, Advances(r), req[r].todo[1] \notin Guarded \cup {"lock"},
           lock' = lock
    PROVE  Holder'
<1>1. req[r].todo # <<>> /\ req[r].todo \in Seq(Statements)
  BY TodoTypes DEF Inv, Advances, Rest
<1>2. lock # r
  BY <1>1 DEF Inv, Holder
<1>3. ~(req'[r].todo # <<>> /\ Head(req'[r].todo) \in Guarded)
  BY NextHead DEF Inv
<1> QED
  BY <1>2, <1>3 DEF Inv, Holder, Advances

\* r has, or gets, the lock, and its next statement is a guarded one.
LEMMA HolderKeeps ==
    ASSUME Inv, NEW r \in Requests, Advances(r), req[r].todo # <<>>, lock \in {r, None}, lock' = r,
           req'[r].todo = Tail(req[r].todo),
           req[r].todo[1] \in {"lock", "look", "drop_build", "create_build", "fill"}
    PROVE  Holder'
<1> DEFINE s == req[r].todo
<1>1. s \in Seq(Statements) /\ Ordered(s)
  BY TodoTypes DEF Inv, InOrder
<1>2. req'[r].todo # <<>>
  <2>1. Len(s) > 1
    BY <1>1 DEF Ordered
  <2> QED
    BY <1>1, <2>1
<1>3. Head(req'[r].todo) \in Guarded
  BY <1>2, NextHead DEF Inv, Follows, Guarded
<1>4. \A t \in Requests : t # r => lock # t
  BY DEF Inv, TypeOK
<1> QED
  BY <1>2, <1>3, <1>4 DEF Inv, Holder, Advances

\* r gives the lock back, or ends without it.
LEMMA HolderFrees ==
    ASSUME Inv, NEW r \in Requests, Advances(r), lock' = (IF lock = r THEN None ELSE lock),
           req'[r].todo # <<>> => Head(req'[r].todo) \notin Guarded
    PROVE  Holder'
BY DEF Inv, Holder, Advances, TypeOK

LEMMA LockOf ==
    ASSUME Inv, NEW r \in Requests, NEW w \in Guarded, At(r, w)
    PROVE  lock = r /\ req[r].todo[1] = w /\ req[r].todo # <<>>
BY Heads DEF Inv, Holder, At

LEMMA ServeHolder ==
    ASSUME Inv, NEW r \in Requests, Serve(r)
    PROVE  Holder'
<1> DEFINE s == req[r].todo
<1>0. Advances(r)
  BY ServeAdvances DEF Inv
<1>1. ASSUME NEW w \in Words \ (Guarded \cup {"lock"}), At(r, w), lock' = lock PROVE Holder'
  BY <1>0, <1>1, Heads, HolderPlain DEF Inv
<1>2. ASSUME lock = r, lock' = None, req'[r].todo = <<>> PROVE Holder'
  BY <1>0, <1>2, HolderFrees
<1>3. ASSUME NEW a, Go(r, a), s # <<>> PROVE req'[r].todo = Tail(s)
  BY <1>3, TodoTypes DEF Go, Step, Inv, TypeOK, Request
<1>4. ASSUME NEW a, End(r, a), s # <<>> PROVE req'[r].todo = <<>>
  BY <1>4, TodoTypes DEF End, Step, Inv, TypeOK, Request
<1>5. ASSUME Lock(r) PROVE Holder'
  <2>1. s # <<>> /\ s[1] = "lock" /\ lock = None /\ lock' = r /\ Go(r, "ok")
    BY <1>5, Heads DEF Lock, Inv
  <2> QED
    BY <1>0, <1>3, <2>1, HolderKeeps
<1>6. ASSUME LookForBench(r) PROVE Holder'
  <2>1. s # <<>> /\ s[1] = "look" /\ lock = r
    BY <1>6, LockOf DEF LookForBench, Guarded
  <2>2. CASE bench = "absent"
    BY <1>0, <1>3, <1>6, <2>1, <2>2, HolderKeeps DEF LookForBench, server
  <2>3. CASE bench # "absent"
    <3>1. req'[r].todo = SubSeq(s, 6, Len(s)) /\ lock' = None
      BY <1>6, <2>3 DEF LookForBench, Step, Inv, TypeOK, Request
    <3>2. req'[r].todo # <<>> => Head(req'[r].todo) \notin Guarded
      BY <1>0, <2>1, <3>1, NextHead DEF Inv
    <3> QED
      BY <1>0, <2>1, <3>1, <3>2, HolderFrees
  <2> QED
    BY <2>2, <2>3
<1>7. ASSUME DropBuild(r) PROVE Holder'
  <2>1. s # <<>> /\ s[1] = "drop_build" /\ lock = r
    BY <1>7, LockOf DEF DropBuild, Guarded
  <2> QED
    BY <1>0, <1>3, <1>7, <2>1, HolderKeeps DEF DropBuild
<1>8. ASSUME CreateBuild(r) PROVE Holder'
  <2>1. s # <<>> /\ s[1] = "create_build" /\ lock = r
    BY <1>8, LockOf DEF CreateBuild, Guarded
  <2> QED
    BY <1>0, <1>2, <1>3, <1>4, <1>8, <2>1, HolderKeeps DEF CreateBuild
<1>9. ASSUME FillBuild(r) PROVE Holder'
  <2>1. s # <<>> /\ s[1] = "fill" /\ lock = r
    BY <1>9, LockOf DEF FillBuild, Guarded
  <2> QED
    BY <1>0, <1>2, <1>3, <1>4, <1>9, <2>1, HolderKeeps DEF FillBuild
<1>10. ASSUME RenameBuild(r) PROVE Holder'
  <2>1. s # <<>> /\ s[1] = "rename" /\ lock = r /\ lock' = None
    BY <1>10, LockOf DEF RenameBuild, Guarded
  <2>2. req'[r].todo = <<>> \/ req'[r].todo = Tail(s)
    BY <1>3, <1>4, <1>10, <2>1 DEF RenameBuild
  <2>3. req'[r].todo # <<>> => Head(req'[r].todo) \notin Guarded
    BY <1>0, <2>1, <2>2, NextHead DEF Inv, Follows, Guarded
  <2> QED
    BY <1>0, <2>1, <2>3, HolderFrees
<1>11. ASSUME Insert(r) \/ SelectPrimary(r) \/ ReplicaStatus(r) \/ Poll(r) \/ CreateIndex(r) \/ DropIndex(r)
              \/ DropView(r) \/ CreateView(r) \/ ReadView(r)
       PROVE  Holder'
  <2>1. lock' = lock
    BY <1>11 DEF Insert, SelectPrimary, ReplicaStatus, Poll, CreateIndex, DropIndex, DropView, CreateView,
                 ReadView, Change, Look, server
  <2> QED
    BY <1>1, <1>11, <2>1 DEF Insert, SelectPrimary, ReplicaStatus, Poll, CreateIndex, DropIndex, DropView,
                             CreateView, ReadView, Words, Guarded
<1>12. ASSUME Measure(r) \/ SetPool(r) \/ PoolSettles(r) \/ DeleteStudents(r) \/ ReadGtids(r) \/ ShowReplica(r)
       PROVE  Holder'
  <2>1. lock' = lock
    BY <1>12 DEF Measure, SetPool, PoolSettles, SetBuffer, DeleteStudents, ReadGtids, ShowReplica, Look, server
  <2> QED
    BY <1>1, <1>12, <2>1 DEF Measure, SetPool, PoolSettles, SetBuffer, DeleteStudents, ReadGtids, ShowReplica, Words, Guarded
<1>13. ASSUME StartReplica(r) \/ ReplicaStarts(r) \/ WaitGtids(r) \/ StopReplica(r) PROVE Holder'
  <2>1. lock' = lock
    BY <1>13 DEF StartReplica, ReplicaStarts, WaitGtids, StopReplica, Look, server
  <2> QED
    BY <1>1, <1>13, <2>1 DEF StartReplica, ReplicaStarts, WaitGtids, StopReplica, Words, Guarded
<1> QED
  BY <1>5, <1>6, <1>7, <1>8, <1>9, <1>10, <1>11, <1>12, <1>13 DEF Serve

-----------------------------------------------------------------------------
(* The type invariant *)

\* The parts of TypeOK: what a request is, and what the server and the nodes are.
RowTypes ==
    /\ req \in [Requests -> Request]
    /\ \A r \in Requests : req[r].answer # "none" => req[r].todo = <<>> /\ lock # r

NodeTypes ==
    /\ log \in Seq(Tables) /\ log[1] = Seeded
    /\ applied \in 1..Len(log)
    /\ repl \in {"stopped", "connecting", "running"}

ServerTypes ==
    /\ asked \in Sizes /\ actual \in Sizes
    /\ build \in {"absent", "empty", "full"} /\ bench \in {"absent", "empty", "full"}
    /\ lock \in Requests \cup {None}
    /\ sole \in Requests \cup {None}
    /\ fails \in 0..MaxFails

LEMMA TypeParts == TypeOK <=> RowTypes /\ NodeTypes /\ ServerTypes
BY DEF TypeOK, RowTypes, NodeTypes, ServerTypes

LEMMA AdvancesRows ==
    ASSUME Inv, NEW r \in Requests, Advances(r), Holder'
    PROVE  RowTypes'
<1>1. ASSUME NEW t \in Requests, req'[t].answer # "none" PROVE req'[t].todo = <<>>
  BY <1>1 DEF Inv, TypeOK, Advances
<1> QED
  BY <1>1 DEF RowTypes, Holder, Advances

LEMMA TablesTypes ==
    ASSUME TypeOK, NEW r \in Requests
    PROVE  /\ Primary \in Tables
           /\ [Primary EXCEPT !.added = @ \cup {r}] \in Tables
           /\ [Primary EXCEPT !.added = {}] \in Tables
           /\ \A b \in BOOLEAN : [Primary EXCEPT !.index = b] \in Tables /\ [Primary EXCEPT !.view = b] \in Tables
<1>1. Len(log) \in 1..Len(log)
  BY DEF TypeOK
<1>2. Primary \in Tables
  BY <1>1 DEF TypeOK, Primary
<1> QED
  BY <1>2 DEF Tables

\* The log only grows.
LEMMA LogAppends ==
    ASSUME TypeOK, NEW tables \in Tables, log' = Append(log, tables)
    PROVE  /\ log' \in Seq(Tables) /\ Len(log') = Len(log) + 1 /\ log'[Len(log')] = tables
           /\ \A i \in 1..Len(log) : log'[i] = log[i]
BY DEF TypeOK

LEMMA LogTypes ==
    ASSUME TypeOK, NEW tables \in Tables, log' = log \/ log' = Append(log, tables)
    PROVE  log' \in Seq(Tables) /\ log'[1] = Seeded /\ applied \in 1..Len(log')
<1>1. CASE log' = log
  BY <1>1 DEF TypeOK
<1>2. CASE log' = Append(log, tables)
  BY <1>2, LogAppends DEF TypeOK
<1> QED
  BY <1>1, <1>2

LEMMA ServeNodes ==
    ASSUME TypeOK, NEW r \in Requests, Serve(r)
    PROVE  NodeTypes'
<1>1. ASSUME Insert(r) \/ CreateIndex(r) \/ DropIndex(r) \/ DropView(r) \/ CreateView(r) \/ DeleteStudents(r)
      PROVE  /\ log' = log \/ (\E tables \in Tables : log' = Append(log, tables))
             /\ UNCHANGED <<applied, repl>>
  BY <1>1, TablesTypes DEF Insert, CreateIndex, DropIndex, DropView, CreateView, DeleteStudents, Change
<1>2. ASSUME SelectPrimary(r) \/ ReplicaStatus(r) \/ Poll(r) \/ ReadView(r) \/ Lock(r) \/ LookForBench(r)
             \/ DropBuild(r) \/ CreateBuild(r) \/ FillBuild(r) \/ RenameBuild(r)
      PROVE  UNCHANGED nodes
  BY <1>2 DEF SelectPrimary, ReplicaStatus, Poll, ReadView, Lock, LookForBench, DropBuild, CreateBuild, FillBuild,
              RenameBuild, Look
<1>3. ASSUME Measure(r) \/ SetPool(r) \/ PoolSettles(r) \/ ReadGtids(r) \/ ShowReplica(r) \/ ReplicaStarts(r)
             \/ WaitGtids(r)
      PROVE  UNCHANGED nodes
  BY <1>3 DEF Measure, SetPool, PoolSettles, SetBuffer, ReadGtids, ShowReplica, ReplicaStarts, WaitGtids, Look
<1>4. ASSUME StartReplica(r) \/ StopReplica(r)
      PROVE  UNCHANGED <<log, applied>> /\ repl' \in {"stopped", "connecting", "running"}
  BY <1>4 DEF StartReplica, StopReplica, TypeOK
<1>5. UNCHANGED nodes => NodeTypes'
  BY DEF TypeOK, NodeTypes, nodes
<1>6. UNCHANGED <<log, applied>> /\ repl' \in {"stopped", "connecting", "running"} => NodeTypes'
  BY DEF TypeOK, NodeTypes
<1>7. ASSUME log' = log \/ (\E tables \in Tables : log' = Append(log, tables)), UNCHANGED <<applied, repl>>
      PROVE  NodeTypes'
  <2>1. CASE log' = log
    BY <1>7, <2>1 DEF TypeOK, NodeTypes
  <2>2. CASE \E tables \in Tables : log' = Append(log, tables)
    BY <1>7, <2>2, LogTypes DEF TypeOK, NodeTypes
  <2> QED
    BY <1>7, <2>1, <2>2
<1> QED
  BY <1>1, <1>2, <1>3, <1>4, <1>5, <1>6, <1>7 DEF Serve

LEMMA ServeServer ==
    ASSUME TypeOK, NEW r \in Requests, Serve(r)
    PROVE  ServerTypes'
<1>1. ASSUME sole' = (IF sole = r THEN r ELSE None) \/ sole' = r, UNCHANGED <<server, fails>>
      PROVE  ServerTypes'
  BY <1>1 DEF TypeOK, ServerTypes, server
<1>2. ASSUME UNCHANGED <<nodes, server, sole, fails>> PROVE ServerTypes'
  BY <1>2 DEF TypeOK, ServerTypes, server
<1>3. ASSUME Insert(r) \/ CreateIndex(r) \/ DropIndex(r) \/ DropView(r) \/ CreateView(r) \/ DeleteStudents(r)
             \/ StartReplica(r) \/ StopReplica(r)
      PROVE  (sole' = (IF sole = r THEN r ELSE None) \/ sole' = r) /\ UNCHANGED <<server, fails>>
  BY <1>3 DEF Insert, CreateIndex, DropIndex, DropView, CreateView, DeleteStudents, StartReplica, StopReplica,
              Change, Touch
<1>4. ASSUME SelectPrimary(r) \/ ReplicaStatus(r) \/ Poll(r) \/ ReadView(r) \/ Measure(r) \/ PoolSettles(r)
             \/ ReadGtids(r) \/ ShowReplica(r) \/ ReplicaStarts(r) \/ WaitGtids(r)
      PROVE  UNCHANGED <<nodes, server, sole, fails>>
  BY <1>4 DEF SelectPrimary, ReplicaStatus, Poll, ReadView, Measure, PoolSettles, SetBuffer, ReadGtids, ShowReplica,
              ReplicaStarts, WaitGtids, Look
<1>5. ASSUME Lock(r) \/ LookForBench(r) \/ DropBuild(r) PROVE ServerTypes'
  BY <1>5 DEF Lock, LookForBench, DropBuild, TypeOK, ServerTypes
<1>6. ASSUME CreateBuild(r) \/ FillBuild(r) PROVE ServerTypes'
  BY <1>6 DEF CreateBuild, FillBuild, TypeOK, ServerTypes
<1>7. ASSUME RenameBuild(r) PROVE ServerTypes'
  BY <1>7 DEF RenameBuild, TypeOK, ServerTypes
<1>8. ASSUME SetPool(r) PROVE ServerTypes'
  <2>1. req[r].size \in Sizes
    BY TodoTypes DEF Request
  <2> QED
    BY <1>8, <2>1 DEF SetPool, Touch, TypeOK, ServerTypes
<1> QED
  BY <1>1, <1>2, <1>3, <1>4, <1>5, <1>6, <1>7, <1>8 DEF Serve

LEMMA ServeInv == ASSUME Inv, NEW r \in Requests, Serve(r) PROVE Inv'
<1>1. Advances(r) /\ NodeTypes' /\ ServerTypes'
  BY ServeAdvances, ServeNodes, ServeServer DEF Inv
<1>2. Holder' /\ InOrder'
  BY <1>1, ServeHolder, AdvancesInOrder DEF Inv
<1>3. RowTypes'
  BY <1>1, <1>2, AdvancesRows
<1>4. TypeOK'
  BY <1>1, <1>3 DEF TypeOK, RowTypes, NodeTypes, ServerTypes
<1> QED
  BY <1>2, <1>4 DEF Inv

LEMMA BreakInv == ASSUME Inv, NEW r \in Requests, Break(r) PROVE Advances(r) /\ req'[r].todo = <<>> /\ Inv'
<1>1. "error" \in Answers
  BY DEF Answers
<1>2. Advances(r) /\ req'[r].todo = <<>>
  <2>1. Advances(r) /\ req'[r] = [req[r] EXCEPT !.todo = <<>>, !.answer = "error"]
    BY <1>1, EndRow DEF Inv, Break
  <2>2. req[r] \in Request
    BY TodoTypes DEF Inv
  <2> QED
    BY <2>1, <2>2 DEF Request
<1>3. Holder'
  BY <1>2, HolderFrees DEF Break
<1>4. InOrder' /\ RowTypes'
  BY <1>2, <1>3, AdvancesInOrder, AdvancesRows DEF Inv
<1>5. NodeTypes' /\ ServerTypes'
  BY DEF Inv, TypeOK, Break, Touch, NodeTypes, ServerTypes, nodes
<1>6. TypeOK'
  BY <1>4, <1>5 DEF TypeOK, RowTypes, NodeTypes, ServerTypes
<1> QED
  BY <1>2, <1>3, <1>4, <1>6 DEF Inv

\* No program begins with a statement that is run under the lock.
LEMMA ProgramBegins ==
    ASSUME NEW k \in Kinds
    PROVE  Head(Program[k]) \notin Guarded \cup {"status", "poll"}
<1>1. CASE k = "write"   BY <1>1 DEF Program, Guarded
<1>2. CASE k = "cap"   BY <1>2 DEF Program, Guarded
<1>3. CASE k = "reset"   BY <1>3 DEF Program, Guarded
<1>4. CASE k = "stop"   BY <1>4 DEF Program, Guarded
<1>5. CASE k = "start"   BY <1>5 DEF Program, Guarded
<1>6. CASE k = "index"   BY <1>6 DEF Program, Guarded
<1>7. CASE k = "unindex"   BY <1>7 DEF Program, Guarded
<1>8. CASE k = "view"   BY <1>8 DEF Program, Guarded
<1>9. CASE k = "unview"   BY <1>9 DEF Program, Guarded
<1>10. CASE k = "query"   BY <1>10 DEF Program, Guarded
<1>11. CASE k = "pool"   BY <1>11 DEF Program, Guarded
<1>12. CASE k = "benchmark"   BY <1>12 DEF Program, Guarded
<1> QED
  BY <1>1, <1>2, <1>3, <1>4, <1>5, <1>6, <1>7, <1>8, <1>9, <1>10, <1>11, <1>12, KindCases

LEMMA ReceiveRow ==
    ASSUME Inv, NEW r \in Requests, NEW k \in Kinds, NEW n \in Sizes, Receive(r, k, n)
    PROVE  /\ req' \in [Requests -> Request]
           /\ \A t \in Requests : t # r => req'[t] = req[t]
           /\ req[r].todo = <<>> /\ req'[r].kind = k /\ req'[r].todo = Program[k]
           /\ req'[r].answer = "none" /\ req'[r].seen = req[r].seen
<1> DEFINE size == IF k = "pool" THEN n ELSE Default
           q == [req[r] EXCEPT !.kind = k, !.todo = Program[k], !.size = size]
<1>1. req[r] \in Request /\ req[r].kind = None /\ req[r].todo = <<>> /\ req[r].answer = "none"
  BY TodoTypes DEF Inv, InOrder, Receive
<1>2. req' = [req EXCEPT ![r] = q]
  BY DEF Receive, Inv, TypeOK, Request
<1>3. q \in Request
  BY <1>1, ProgramTypes DEF Request
<1>4. q.kind = k /\ q.todo = Program[k] /\ q.answer = req[r].answer /\ q.seen = req[r].seen
  BY <1>1 DEF Request
<1> HIDE DEF q
<1>5. req'[r] = q /\ (\A t \in Requests : t # r => req'[t] = req[t])
  BY <1>2 DEF Inv, TypeOK
<1> QED
  BY <1>1, <1>2, <1>3, <1>4, <1>5 DEF Inv, TypeOK

LEMMA ReceiveInv == ASSUME Inv, NEW r \in Requests, NEW k \in Kinds, NEW n \in Sizes, Receive(r, k, n) PROVE Inv'
<1>1. Ordered(Program[k]) /\ Program[k] # <<>> /\ Head(Program[k]) \notin Guarded /\ k # None
  BY ProgramOrdered, ProgramTypes, ProgramBegins, KindsAssumption
<1>2. InOrder'
  BY <1>1, ReceiveRow DEF Inv, InOrder
<1>3. UNCHANGED <<nodes, server, sole, fails>>
  BY DEF Receive
<1>4. Holder'
  BY <1>1, <1>3, ReceiveRow DEF Inv, Holder, server
<1>5. RowTypes'
  <2> SUFFICES ASSUME NEW t \in Requests, req'[t].answer # "none" PROVE req'[t].todo = <<>> /\ lock' # t
    BY ReceiveRow DEF RowTypes
  <2>1. t # r
    BY ReceiveRow
  <2> QED
    BY <1>3, <2>1, ReceiveRow DEF Inv, TypeOK, server
<1>6. NodeTypes' /\ ServerTypes'
  BY <1>3 DEF Inv, TypeOK, NodeTypes, ServerTypes, nodes, server
<1> QED
  BY <1>2, <1>4, <1>5, <1>6 DEF Inv, TypeOK, RowTypes, NodeTypes, ServerTypes

\* The nodes and the buffer pool, which work by themselves.
Background == Connected \/ Apply \/ Resize

LEMMA BackgroundInv == ASSUME Inv, Background PROVE Inv'
<1>1. UNCHANGED <<req, lock>>
  BY DEF Background, Connected, Apply, Resize, server
<1>2. Holder' /\ InOrder' /\ RowTypes'
  BY <1>1 DEF Inv, Holder, InOrder, TypeOK, RowTypes
<1>3. NodeTypes'
  <2>1. UNCHANGED log
    BY DEF Background, Connected, Apply, Resize, nodes
  <2>2. /\ applied' = applied \/ (applied' = applied + 1 /\ applied < Len(log))
        /\ repl' \in {"stopped", "connecting", "running"}
    BY DEF Background, Connected, Apply, Resize, nodes, Inv, TypeOK
  <2>3. Len(log) \in Nat /\ applied \in 1..Len(log)
    BY DEF Inv, TypeOK
  <2> QED
    BY <2>1, <2>2, <2>3 DEF Inv, TypeOK, NodeTypes
<1>4. ServerTypes'
  BY DEF Background, Connected, Apply, Resize, server, Inv, TypeOK, ServerTypes
<1> QED
  BY <1>2, <1>3, <1>4 DEF Inv, TypeOK, RowTypes, NodeTypes, ServerTypes

LEMMA InvInit == Init => Inv
<1> SUFFICES ASSUME Init PROVE Inv
  OBVIOUS
<1>1. Seeded \in Tables
  BY DEF Seeded, Tables
<1>2. <<>> \in Seq(Statements) /\ "none" \in Answers
  BY DEF Answers
<1>3. [kind |-> None, todo |-> <<>>, size |-> Default, upto |-> 0, seen |-> FALSE, running |-> FALSE,
       complete |-> TRUE, answer |-> "none"] \in Request
  BY <1>2 DEF Request
<1>4. RowTypes
  BY <1>3 DEF Init, RowTypes
<1>5. NodeTypes
  <2>1. log = <<Seeded>> /\ applied = 1 /\ repl = "running"
    BY DEF Init
  <2>2. log \in Seq(Tables) /\ Len(log) = 1 /\ log[1] = Seeded
    BY <1>1, <2>1
  <2>3. applied \in 1..Len(log)
    BY <2>1, <2>2
  <2> QED
    BY <2>1, <2>2, <2>3 DEF NodeTypes
<1>6. ServerTypes
  BY DEF Init, ServerTypes
<1>7. Ordered(<<>>)
  BY DEF Ordered
<1>8. InOrder /\ Holder
  BY <1>7 DEF Init, InOrder, Holder
<1> QED
  BY <1>4, <1>5, <1>6, <1>8 DEF Inv, TypeOK, RowTypes, NodeTypes, ServerTypes

LEMMA InvStutter == Inv /\ UNCHANGED vars => Inv'
<1> SUFFICES ASSUME Inv, UNCHANGED vars PROVE Inv'
  OBVIOUS
<1> QED
  BY DEF Inv, TypeOK, InOrder, Holder, vars, nodes, server, Request

LEMMA NextCases ==
    ASSUME Next
    PROVE  \/ \E r \in Requests : Serve(r) \/ Break(r)
           \/ \E r \in Requests, k \in Kinds, n \in Sizes : Receive(r, k, n)
           \/ Background
BY DEF Next, Background

LEMMA InvNext == Inv /\ [Next]_vars => Inv'
<1> SUFFICES ASSUME Inv, [Next]_vars PROVE Inv'
  OBVIOUS
<1>1. CASE Next
  BY <1>1, NextCases, ServeInv, BreakInv, ReceiveInv, BackgroundInv
<1>2. CASE UNCHANGED vars
  BY <1>2, InvStutter
<1> QED
  BY <1>1, <1>2

LEMMA InvHolds == Spec => []Inv
BY InvInit, InvNext, PTL DEF Spec

\* Every state has its types: the replica has applied a place of the log, the log begins
\* with the seeded tables, and a request that has answered is through and has let go of
\* _BENCH_LOCK (server.py:1033-1066), however it ended.
THEOREM TypeCorrect == Spec => []TypeOK
<1>1. Inv => TypeOK
  BY DEF Inv
<1> QED
  BY <1>1, InvHolds, PTL

-----------------------------------------------------------------------------
(* The benchmark table *)

\* What the request that builds the table knows of it, because the lock keeps others away.
Built ==
    /\ bench # "empty"
    /\ \A r \in Requests : (At(r, "fill") => build = "empty") /\ (At(r, "rename") => build = "full")

\* Only the holder of the lock changes what is being built.
LEMMA OthersBuilt ==
    ASSUME Inv, Built, NEW r \in Requests, Advances(r), build' # build => lock = r,
           NEW t \in Requests, t # r
    PROVE  (At(t, "fill")' => build' = "empty") /\ (At(t, "rename")' => build' = "full")
BY DEF Inv, Holder, Built, Advances, At, Guarded

LEMMA PlainBuilt ==
    ASSUME Inv, Built, NEW r \in Requests, Advances(r), UNCHANGED <<build, bench>>,
           req'[r].todo # <<>> => Head(req'[r].todo) \notin {"fill", "rename"}
    PROVE  Built'
BY OthersBuilt DEF Built, At

LEMMA ServeBuilt == ASSUME Inv, Built, NEW r \in Requests, Serve(r) PROVE Built'
<1> DEFINE s == req[r].todo
<1>0. Advances(r)
  BY ServeAdvances DEF Inv
<1>1. ASSUME NEW w \in Words \ (Guarded \cup {"lock"}), At(r, w), UNCHANGED <<build, bench>> PROVE Built'
  <2>1. s[1] = w /\ s # <<>>
    BY <1>1, Heads DEF Inv
  <2> QED
    BY <1>0, <1>1, <2>1, NextHead, PlainBuilt DEF Inv, Guarded
<1>3. ASSUME NEW a, Go(r, a), s # <<>> PROVE req'[r].todo = Tail(s)
  BY <1>3, TodoTypes DEF Go, Step, Inv, TypeOK, Request
<1>4. ASSUME NEW a, End(r, a), s # <<>> PROVE req'[r].todo = <<>>
  BY <1>4, TodoTypes DEF End, Step, Inv, TypeOK, Request
<1>5. ASSUME Lock(r) PROVE Built'
  <2>1. At(r, "lock") /\ s # <<>> /\ s[1] = "lock" /\ UNCHANGED <<build, bench>> /\ req'[r].todo = Tail(s)
    BY <1>3, <1>5, Heads DEF Lock, Inv
  <2> QED
    BY <1>0, <2>1, NextHead, PlainBuilt DEF Inv, Follows
<1>6. ASSUME LookForBench(r) PROVE Built'
  <2>1. s # <<>> /\ s[1] = "look" /\ lock = r /\ UNCHANGED <<build, bench>>
    BY <1>6, LockOf DEF LookForBench, Guarded
  <2>2. CASE bench = "absent"
    BY <1>0, <1>3, <1>6, <2>1, <2>2, NextHead, PlainBuilt DEF LookForBench, Inv, Follows
  <2>3. CASE bench # "absent"
    <3>1. req'[r].todo = SubSeq(s, 6, Len(s))
      BY <1>6, <2>3 DEF LookForBench, Step, Inv, TypeOK, Request
    <3> QED
      BY <1>0, <2>1, <3>1, NextHead, PlainBuilt DEF Inv, Guarded
  <2> QED
    BY <2>2, <2>3
<1>7. ASSUME DropBuild(r) PROVE Built'
  <2>1. s # <<>> /\ s[1] = "drop_build" /\ lock = r /\ bench' = bench /\ req'[r].todo = Tail(s)
    BY <1>3, <1>7, LockOf DEF DropBuild, Guarded
  <2>2. req'[r].todo # <<>> => Head(req'[r].todo) \notin {"fill", "rename"}
    BY <1>0, <2>1, NextHead DEF Inv, Follows
  <2> QED
    BY <1>0, <2>1, <2>2, OthersBuilt DEF Built, At
<1>8. ASSUME CreateBuild(r) PROVE Built'
  <2>1. s # <<>> /\ s[1] = "create_build" /\ lock = r /\ bench' = bench
    BY <1>8, LockOf DEF CreateBuild, Guarded
  <2>2. CASE build = "absent"
    <3>1. build' = "empty" /\ req'[r].todo = Tail(s)
      BY <1>3, <1>8, <2>1, <2>2 DEF CreateBuild
    <3>2. req'[r].todo # <<>> => Head(req'[r].todo) # "rename"
      BY <1>0, <2>1, <3>1, NextHead DEF Inv, Follows
    <3> QED
      BY <1>0, <2>1, <3>1, <3>2, OthersBuilt DEF Built, At
  <2>3. CASE build # "absent"
    BY <1>0, <1>4, <1>8, <2>1, <2>3, PlainBuilt DEF CreateBuild
  <2> QED
    BY <2>2, <2>3
<1>9. ASSUME FillBuild(r) PROVE Built'
  <2>1. s # <<>> /\ s[1] = "fill" /\ lock = r /\ bench' = bench
    BY <1>9, LockOf DEF FillBuild, Guarded
  <2>2. CASE build = "empty"
    <3>1. build' = "full" /\ req'[r].todo = Tail(s)
      BY <1>3, <1>9, <2>1, <2>2 DEF FillBuild
    <3>2. req'[r].todo # <<>> => Head(req'[r].todo) # "fill"
      BY <1>0, <2>1, <3>1, NextHead DEF Inv, Follows
    <3> QED
      BY <1>0, <2>1, <3>1, <3>2, OthersBuilt DEF Built, At
  <2>3. CASE build # "empty"
    BY <1>0, <1>4, <1>9, <2>1, <2>3, PlainBuilt DEF FillBuild
  <2> QED
    BY <2>2, <2>3
<1>10. ASSUME RenameBuild(r) PROVE Built'
  <2>1. s # <<>> /\ s[1] = "rename" /\ lock = r /\ At(r, "rename")
    BY <1>10, LockOf DEF RenameBuild, Guarded
  <2>2. bench' # "empty"
    BY <1>10, <2>1 DEF RenameBuild, Built
  <2>3. req'[r].todo = <<>> \/ req'[r].todo = Tail(s)
    BY <1>3, <1>4, <1>10, <2>1 DEF RenameBuild
  <2>4. req'[r].todo # <<>> => Head(req'[r].todo) \notin {"fill", "rename"}
    BY <1>0, <2>1, <2>3, NextHead DEF Inv, Follows
  <2> QED
    BY <1>0, <2>1, <2>2, <2>4, OthersBuilt DEF Built, At
<1>11. ASSUME Insert(r) \/ SelectPrimary(r) \/ ReplicaStatus(r) \/ Poll(r) \/ CreateIndex(r) \/ DropIndex(r)
              \/ DropView(r) \/ CreateView(r) \/ ReadView(r)
       PROVE  Built'
  <2>1. UNCHANGED <<build, bench>>
    BY <1>11 DEF Insert, SelectPrimary, ReplicaStatus, Poll, CreateIndex, DropIndex, DropView, CreateView,
                 ReadView, Change, Look, server
  <2> QED
    BY <1>1, <1>11, <2>1 DEF Insert, SelectPrimary, ReplicaStatus, Poll, CreateIndex, DropIndex, DropView,
                             CreateView, ReadView, Words, Guarded
<1>12. ASSUME Measure(r) \/ SetPool(r) \/ PoolSettles(r) \/ DeleteStudents(r) \/ ReadGtids(r) \/ ShowReplica(r)
       PROVE  Built'
  <2>1. UNCHANGED <<build, bench>>
    BY <1>12 DEF Measure, SetPool, PoolSettles, SetBuffer, DeleteStudents, ReadGtids, ShowReplica, Look, server
  <2> QED
    BY <1>1, <1>12, <2>1 DEF Measure, SetPool, PoolSettles, SetBuffer, DeleteStudents, ReadGtids, ShowReplica, Words, Guarded
<1>13. ASSUME StartReplica(r) \/ ReplicaStarts(r) \/ WaitGtids(r) \/ StopReplica(r) PROVE Built'
  <2>1. UNCHANGED <<build, bench>>
    BY <1>13 DEF StartReplica, ReplicaStarts, WaitGtids, StopReplica, Look, server
  <2> QED
    BY <1>1, <1>13, <2>1 DEF StartReplica, ReplicaStarts, WaitGtids, StopReplica, Words, Guarded
<1> QED
  BY <1>5, <1>6, <1>7, <1>8, <1>9, <1>10, <1>11, <1>12, <1>13 DEF Serve

\* The table that a browser reads is never a half built one (_build_bench_data, server.py:
\* 1045-1066): what is renamed has been filled by the one request that holds the lock.
THEOREM BenchIsWholeHolds == Spec => []BenchIsWhole
<1>1. Init => Built
  BY DEF Init, Built, At
<1>2. ASSUME Inv, Built, [Next]_vars PROVE Built'
  <2>1. CASE \E r \in Requests : Serve(r)
    BY <1>2, <2>1, ServeBuilt
  <2>2. CASE \E r \in Requests : Break(r)
    BY <1>2, <2>2, BreakInv, PlainBuilt DEF Break
  <2>3. CASE \E r \in Requests, k \in Kinds, n \in Sizes : Receive(r, k, n)
    <3>1. PICK r \in Requests, k \in Kinds, n \in Sizes : Receive(r, k, n)
      BY <2>3
    <3>2. UNCHANGED <<build, bench>>
      BY <3>1 DEF Receive, server
    <3>3. Head(req'[r].todo) \notin {"fill", "rename"}
      BY <1>2, <3>1, ReceiveRow, ProgramBegins DEF Guarded
    <3> QED
      BY <1>2, <3>1, <3>2, <3>3, ReceiveRow DEF Built, At
  <2>4. CASE Background \/ UNCHANGED vars
    <3>1. UNCHANGED <<req, build, bench>>
      BY <2>4 DEF Background, Connected, Apply, Resize, server, vars
    <3> QED
      BY <1>2, <3>1 DEF Built, At
  <2> QED
    BY <1>2, <2>1, <2>2, <2>3, <2>4, NextCases
<1>3. Built => BenchIsWhole
  BY DEF Built, BenchIsWhole
<1> QED
  BY <1>1, <1>2, <1>3, InvHolds, PTL DEF Spec

-----------------------------------------------------------------------------
(* What was found on the replica *)

\* A CAP test asks for the state of replication between its two reads.
Noted(s) == \A i \in 2..Len(s) : s[i] = "poll" => s[i - 1] = "status"

LEMMA ProgramNoted == ASSUME NEW k \in Kinds, k # "write" PROVE Noted(Program[k])
<1>2. CASE k = "cap"   BY <1>2 DEF Program, Noted
<1>3. CASE k = "reset"   BY <1>3 DEF Program, Noted
<1>4. CASE k = "stop"   BY <1>4 DEF Program, Noted
<1>5. CASE k = "start"   BY <1>5 DEF Program, Noted
<1>6. CASE k = "index"   BY <1>6 DEF Program, Noted
<1>7. CASE k = "unindex"   BY <1>7 DEF Program, Noted
<1>8. CASE k = "view"   BY <1>8 DEF Program, Noted
<1>9. CASE k = "unview"   BY <1>9 DEF Program, Noted
<1>10. CASE k = "query"   BY <1>10 DEF Program, Noted
<1>11. CASE k = "pool"   BY <1>11 DEF Program, Noted
<1>12. CASE k = "benchmark"   BY <1>12 DEF Program, Noted
<1> QED
  BY <1>2, <1>3, <1>4, <1>5, <1>6, <1>7, <1>8, <1>9, <1>10, <1>11, <1>12, KindCases

LEMMA RestNoted ==
    ASSUME NEW s \in Seq(Statements), NEW t, Rest(t, s), Noted(s)
    PROVE  Noted(t)
<1> SUFFICES ASSUME NEW i \in 2..Len(t) PROVE t[i] = "poll" => t[i - 1] = "status"
  BY DEF Noted
<1>1. t[i] = s[Len(s) - Len(t) + i] /\ t[i - 1] = s[Len(s) - Len(t) + (i - 1)]
  BY DEF Rest
<1>2. Len(s) - Len(t) + i \in 2..Len(s) /\ (Len(s) - Len(t) + i) - 1 = Len(s) - Len(t) + (i - 1)
  BY DEF Rest
<1> QED
  BY <1>1, <1>2 DEF Noted

\* A CAP test comes to its last two statements from the one before them only.
LEMMA NotedHead ==
    ASSUME NEW s \in Seq(Statements), NEW t, Rest(t, s), t # <<>>, Ordered(s), Noted(s),
           Head(t) \in {"status", "poll"}
    PROVE  s[1] \in {"insert", "select", "status"}
<1> DEFINE m == Len(s) - Len(t) + 1
<1>1. Head(t) = s[m] /\ m \in 1..Len(s) /\ m > 1
  BY RestHead
<1> HIDE DEF m
<1>2. \A n \in 2..Len(s) : Follows(s[n - 1], s[n])
  <2> SUFFICES ASSUME NEW n \in 2..Len(s) PROVE Follows(s[n - 1], s[n])
    OBVIOUS
  <2>1. n - 1 \in 1..(Len(s) - 1) /\ (n - 1) + 1 = n
    OBVIOUS
  <2> QED
    BY <2>1 DEF Ordered
<1>3. \A n \in 1..Len(s) : s[n] = "insert" => n = 1
  BY <1>2 DEF Follows
<1>4. \A n \in 1..Len(s) : s[n] = "select" => n = 1 \/ s[1] = "insert"
  <2> SUFFICES ASSUME NEW n \in 1..Len(s), s[n] = "select", n # 1 PROVE s[1] = "insert"
    OBVIOUS
  <2>1. n - 1 \in 1..Len(s) /\ s[n - 1] = "insert"
    BY <1>2 DEF Follows
  <2> QED
    BY <2>1, <1>3
<1>5. \A n \in 1..Len(s) : s[n] = "status" => n = 1 \/ s[1] \in {"insert", "select"}
  <2> SUFFICES ASSUME NEW n \in 1..Len(s), s[n] = "status", n # 1 PROVE s[1] \in {"insert", "select"}
    OBVIOUS
  <2>1. n - 1 \in 1..Len(s) /\ s[n - 1] = "select"
    BY <1>2 DEF Follows
  <2> QED
    BY <2>1, <1>4
<1>6. CASE s[m] = "status"
  BY <1>1, <1>5, <1>6
<1>7. CASE s[m] = "poll"
  <2>1. m - 1 \in 1..Len(s) /\ s[m - 1] = "status"
    BY <1>1, <1>7 DEF Noted
  <2> QED
    BY <2>1, <1>5
<1> QED
  BY <1>1, <1>6, <1>7

\* The row of r enters the log once, by its own insert, and leaves it for good.
Once ==
    \A r \in Requests, i \in 1..Len(log) : r \in log[i].added => req[r].kind # None /\ ~At(r, "insert")

Contiguous ==
    \A r \in Requests, i \in 1..Len(log), j \in 1..Len(log), k \in 1..Len(log) :
        i <= j /\ j <= k /\ r \in log[i].added /\ r \in log[k].added => r \in log[j].added

\* A CAP test that has not seen its row on the primary: it is not there any more.
Seen ==
    \A r \in Requests : req[r].kind # "write" =>
        /\ Noted(req[r].todo)
        /\ (At(r, "status") \/ At(r, "poll")) /\ r \in Primary.added => req[r].seen

Found == Once /\ Contiguous /\ Seen /\ FoundIsReplicated

LEMMA PrimaryPlace ==
    ASSUME TypeOK
    PROVE  Len(log) \in 1..Len(log) /\ Len(log) \in Nat /\ applied \in 1..Len(log)
BY DEF TypeOK

\* What a step does to the rows of the log, if r moved in it.
Rows(r) ==
    \/ UNCHANGED log
    \/ \E tables \in Tables :
          /\ log' = Append(log, tables)
          /\ \A t \in Requests : t \in tables.added => t \in Primary.added \/ (t = r /\ At(r, "insert"))

LEMMA RowsBack ==
    ASSUME TypeOK, NEW r \in Requests, Rows(r), NEW t \in Requests, t \in Primary'.added
    PROVE  t \in Primary.added \/ (t = r /\ At(r, "insert"))
<1>1. CASE UNCHANGED log
  BY <1>1 DEF Primary
<1>2. CASE ~UNCHANGED log
  <2>1. PICK tables \in Tables :
          /\ log' = Append(log, tables)
          /\ \A u \in Requests : u \in tables.added => u \in Primary.added \/ (u = r /\ At(r, "insert"))
    BY <1>2 DEF Rows
  <2>2. Primary' = tables
    BY <2>1, LogAppends DEF Primary
  <2> QED
    BY <2>1, <2>2
<1> QED
  BY <1>1, <1>2

LEMMA RowsContiguous ==
    ASSUME Inv, Once, Contiguous, NEW r \in Requests, Rows(r)
    PROVE  Contiguous'
<1>1. CASE UNCHANGED log
  BY <1>1 DEF Contiguous
<1>2. CASE ~UNCHANGED log
  <2>1. PICK tables \in Tables :
          /\ log' = Append(log, tables)
          /\ \A t \in Requests : t \in tables.added => t \in Primary.added \/ (t = r /\ At(r, "insert"))
    BY <1>2 DEF Rows
  <2>2. /\ Len(log') = Len(log) + 1 /\ log'[Len(log) + 1] = tables
        /\ \A i \in 1..Len(log) : log'[i] = log[i]
    BY <2>1, LogAppends DEF Inv
  <2>3. Len(log) \in 1..Len(log) /\ Len(log) \in Nat
    BY PrimaryPlace DEF Inv
  <2> SUFFICES ASSUME NEW t \in Requests, NEW i \in 1..(Len(log) + 1), NEW j \in 1..(Len(log) + 1),
                      NEW k \in 1..(Len(log) + 1),
                      i <= j, j <= k, t \in log'[i].added, t \in log'[k].added
               PROVE  t \in log'[j].added
    BY <2>2 DEF Contiguous
  <2>4. CASE k <= Len(log)
    BY <2>2, <2>3, <2>4 DEF Contiguous
  <2>5. CASE j = Len(log) + 1
    BY <2>3, <2>5
  <2>6. CASE k = Len(log) + 1 /\ j <= Len(log)
    <3>1. i \in 1..Len(log) /\ j \in 1..Len(log)
      BY <2>3, <2>6
    <3>2. t \in log[i].added
      BY <2>2, <3>1
    <3>3. t \in Primary.added
      BY <2>1, <2>2, <2>6, <3>1, <3>2 DEF Once
    <3> QED
      BY <2>2, <2>3, <2>6, <3>1, <3>2, <3>3 DEF Contiguous, Primary
  <2> QED
    BY <2>3, <2>4, <2>5, <2>6
<1> QED
  BY <1>1, <1>2

LEMMA RowsOnce ==
    ASSUME Inv, Once, NEW r \in Requests, Rows(r), Advances(r)
    PROVE  Once'
<1>1. req[r].todo # <<>> /\ req[r].kind # None
  BY TodoTypes DEF Inv, Advances, Rest, InOrder
<1>2. ~At(r, "insert")'
  <2> SUFFICES ASSUME req'[r].todo # <<>>, Head(req'[r].todo) = "insert" PROVE FALSE
    BY DEF At
  <2> DEFINE s == req[r].todo
             m == Len(s) - Len(req'[r].todo) + 1
  <2>1. s \in Seq(Statements) /\ Ordered(s) /\ Rest(req'[r].todo, s)
    BY TodoTypes DEF Inv, InOrder, Advances
  <2>2. Head(req'[r].todo) = s[m] /\ m \in 1..Len(s) /\ m > 1
    BY <2>1, RestHead
  <2> HIDE DEF m, s
  <2>3. m - 1 \in 1..(Len(s) - 1) /\ (m - 1) + 1 = m
    BY <2>1, <2>2
  <2> QED
    BY <2>1, <2>2, <2>3 DEF Ordered, Follows
<1>3. \A t \in Requests : t # r => (At(t, "insert")' <=> At(t, "insert")) /\ req'[t].kind = req[t].kind
  BY DEF Advances, At
<1>4. req'[r].kind = req[r].kind
  BY DEF Advances
<1>5. CASE UNCHANGED log
  BY <1>1, <1>2, <1>3, <1>4, <1>5 DEF Once
<1>6. CASE ~UNCHANGED log
  <2>1. PICK tables \in Tables :
          /\ log' = Append(log, tables)
          /\ \A t \in Requests : t \in tables.added => t \in Primary.added \/ (t = r /\ At(r, "insert"))
    BY <1>6 DEF Rows
  <2>2. /\ Len(log') = Len(log) + 1 /\ log'[Len(log) + 1] = tables
        /\ \A i \in 1..Len(log) : log'[i] = log[i]
    BY <2>1, LogAppends DEF Inv
  <2>3. Len(log) \in 1..Len(log) /\ Len(log) \in Nat
    BY PrimaryPlace DEF Inv
  <2> SUFFICES ASSUME NEW t \in Requests, NEW i \in 1..(Len(log) + 1), t \in log'[i].added
               PROVE  req'[t].kind # None /\ ~At(t, "insert")'
    BY <2>2 DEF Once
  <2>4. CASE t = r
    BY <1>1, <1>2, <1>4, <2>4
  <2>5. CASE t # r
    <3>1. \E j \in 1..Len(log) : t \in log[j].added
      BY <2>1, <2>2, <2>3, <2>5 DEF Primary
    <3> QED
      BY <1>3, <2>5, <3>1 DEF Once
  <2> QED
    BY <2>4, <2>5
<1> QED
  BY <1>5, <1>6

LEMMA FoundKept ==
    ASSUME Inv, Found, NEW r \in Requests, Rows(r), Advances(r), applied' = applied,
           req'[r].answer \in {"found", "consistent"} /\ r \in Primary'.added => r \in Replica'.added
    PROVE  FoundIsReplicated'
<1>1. Replica' = Replica
  <2>1. applied \in 1..Len(log) /\ TypeOK
    BY PrimaryPlace DEF Inv
  <2>2. log'[applied] = log[applied]
    BY <2>1, LogAppends DEF Rows
  <2> QED
    BY <2>2 DEF Replica
<1> SUFFICES ASSUME NEW t \in Requests, req'[t].answer \in {"found", "consistent"}, t \in Primary'.added, t # r
             PROVE  t \in Replica.added
  BY <1>1 DEF FoundIsReplicated
<1>2. t \in Primary.added
  BY RowsBack DEF Inv
<1> QED
  BY <1>2 DEF Advances, Found, FoundIsReplicated

LEMMA SeenKept ==
    ASSUME Inv, Found, NEW r \in Requests, Rows(r), Advances(r),
           req'[r].kind # "write" /\ (At(r, "status")' \/ At(r, "poll")') /\ r \in Primary'.added => req'[r].seen
    PROVE  Seen'
<1> SUFFICES ASSUME NEW t \in Requests, req'[t].kind # "write"
             PROVE  /\ Noted(req'[t].todo)
                    /\ (At(t, "status")' \/ At(t, "poll")') /\ t \in Primary'.added => req'[t].seen
  BY DEF Seen
<1>1. CASE t = r
  <2>1. Noted(req[r].todo) /\ req[r].todo \in Seq(Statements) /\ Rest(req'[r].todo, req[r].todo)
    BY <1>1, TodoTypes DEF Inv, Found, Seen, Advances
  <2> QED
    BY <1>1, <2>1, RestNoted
<1>2. CASE t # r
  <2>1. req'[t] = req[t]
    BY <1>2 DEF Advances
  <2>2. t \in Primary'.added => t \in Primary.added
    BY <1>2, RowsBack DEF Inv
  <2> QED
    BY <2>1, <2>2 DEF Found, Seen, At
<1> QED
  BY <1>1, <1>2

\* A step of r that finds nothing out.
LEMMA PlainFound ==
    ASSUME Inv, Found, NEW r \in Requests, Rows(r), Advances(r), applied' = applied,
           req'[r].answer \notin {"found", "consistent"},
           req[r].kind # "write" => ~At(r, "status")' /\ ~At(r, "poll")'
    PROVE  Found'
<1>1. Once' /\ Contiguous'
  BY RowsOnce, RowsContiguous DEF Found
<1>2. FoundIsReplicated' /\ Seen'
  BY FoundKept, SeenKept DEF Advances
<1> QED
  BY <1>1, <1>2 DEF Found

\* What r comes to by a statement that is no part of a CAP test.
LEMMA OutsideTest ==
    ASSUME Inv, Found, NEW r \in Requests, Advances(r), NEW w \in Words \ {"insert", "select", "status"},
           At(r, w), req[r].kind # "write"
    PROVE  ~At(r, "status")' /\ ~At(r, "poll")'
<1> SUFFICES ASSUME req'[r].todo # <<>>, Head(req'[r].todo) \in {"status", "poll"} PROVE FALSE
  BY DEF At
<1>1. Ordered(req[r].todo) /\ Noted(req[r].todo) /\ Rest(req'[r].todo, req[r].todo)
  BY DEF Inv, InOrder, Found, Seen, Advances
<1>2. req[r].todo \in Seq(Statements) /\ req[r].todo[1] = w
  BY TodoTypes, Heads DEF Inv
<1> QED
  BY <1>1, <1>2, NotedHead

\* Statements that do not look for rows answer with what has become of themselves.
LEMMA PlainAnswers ==
    ASSUME Inv, NEW r \in Requests, Serve(r), ~Poll(r)
    PROVE  req'[r].answer \notin {"found", "consistent"}
<1>0. ASSUME NEW w, At(r, w)
      PROVE  req[r] \in Request /\ req[r].answer = "none" /\ req[r].todo # <<>>
  BY <1>0, TodoTypes, Heads DEF Inv
<1>1. ASSUME NEW a, Go(r, a), a \notin {"found", "consistent"}
      PROVE  req'[r].answer \notin {"found", "consistent"}
  BY <1>1, TodoTypes DEF Go, Step, Result, Inv, TypeOK, Request
<1>2. ASSUME NEW a, End(r, a), a \notin {"found", "consistent"}
      PROVE  req'[r].answer \notin {"found", "consistent"}
  BY <1>2, TodoTypes DEF End, Step, Inv, TypeOK, Request
<1>3. ASSUME Insert(r) \/ CreateIndex(r) \/ DropIndex(r) \/ DropView(r) \/ CreateView(r) \/ ReadView(r) \/ SetPool(r)
             \/ Lock(r) \/ DropBuild(r) \/ CreateBuild(r) \/ FillBuild(r) \/ RenameBuild(r)
      PROVE  req'[r].answer \notin {"found", "consistent"}
  BY <1>1, <1>2, <1>3 DEF Insert, CreateIndex, DropIndex, DropView, CreateView, ReadView, SetPool, Lock, DropBuild,
                          CreateBuild, FillBuild, RenameBuild
<1>4. ASSUME Measure(r) \/ DeleteStudents(r) \/ StartReplica(r) \/ WaitGtids(r) \/ StopReplica(r)
      PROVE  req'[r].answer \notin {"found", "consistent"}
  BY <1>1, <1>4 DEF Measure, DeleteStudents, StartReplica, WaitGtids, StopReplica
<1>4a. ASSUME NEW q, Step(r, q) PROVE req'[r] = q
  BY <1>4a DEF Step, Inv, TypeOK
<1>5. ASSUME SelectPrimary(r) \/ ReplicaStatus(r) \/ ReadGtids(r)
      PROVE  req'[r].answer \notin {"found", "consistent"}
  <2>1. req[r] \in Request /\ req[r].answer = "none"
    BY <1>0, <1>5 DEF SelectPrimary, ReplicaStatus, ReadGtids
  <2>2. \/ req'[r] = [req[r] EXCEPT !.todo = Tail(@), !.seen = r \in Primary.added]
        \/ req'[r] = [req[r] EXCEPT !.todo = Tail(@), !.running = IsRunning]
        \/ req'[r] = [req[r] EXCEPT !.todo = Tail(@), !.upto = Len(log)]
    BY <1>4a, <1>5 DEF SelectPrimary, ReplicaStatus, ReadGtids
  <2> QED
    BY <2>1, <2>2 DEF Request
<1>6. ASSUME ShowReplica(r) \/ LookForBench(r) PROVE req'[r].answer \notin {"found", "consistent"}
  <2>1. req[r] \in Request /\ req[r].answer = "none"
    BY <1>0, <1>6 DEF ShowReplica, LookForBench
  <2>2. \/ req'[r] = [req[r] EXCEPT !.todo = IF IsRunning THEN SubSeq(@, 4, Len(@)) ELSE Tail(@)]
        \/ req'[r] = [req[r] EXCEPT !.todo = SubSeq(@, 6, Len(@))]
        \/ Go(r, "ok")
    BY <1>4a, <1>6 DEF ShowReplica, LookForBench
  <2> QED
    BY <1>1, <2>1, <2>2 DEF Request
<1>7. ASSUME PoolSettles(r) \/ ReplicaStarts(r) PROVE req'[r].answer \notin {"found", "consistent"}
  <2>1. req[r] \in Request /\ req[r].answer = "none"
    BY <1>0, <1>7 DEF PoolSettles, SetBuffer, ReplicaStarts
  <2>2. \/ \E c : req'[r] = [req[r] EXCEPT !.todo = Tail(@), !.complete = c]
        \/ Go(r, "ok") \/ End(r, "ok") \/ End(r, "error") \/ End(r, "incomplete")
    <3>1. CASE PoolSettles(r)
      BY <1>4a, <3>1 DEF PoolSettles, SetBuffer
    <3>2. CASE ReplicaStarts(r)
      BY <1>4a, <3>2 DEF ReplicaStarts
    <3> QED
      BY <1>7, <3>1, <3>2
  <2> QED
    BY <1>1, <1>2, <2>1, <2>2 DEF Request
<1> QED
  BY <1>3, <1>4, <1>5, <1>6, <1>7 DEF Serve

LEMMA ServeRows == ASSUME Inv, NEW r \in Requests, Serve(r) PROVE Rows(r) /\ applied' = applied
<1>1. ASSUME NEW tables \in Tables, Change(r, tables),
             \A t \in Requests : t \in tables.added => t \in Primary.added \/ (t = r /\ At(r, "insert"))
      PROVE  Rows(r) /\ applied' = applied
  BY <1>1 DEF Change, Rows
<1>2. Primary \in Tables /\ TypeOK
  BY TablesTypes DEF Inv
<1>3. ASSUME Insert(r) PROVE Rows(r) /\ applied' = applied
  BY <1>1, <1>2, <1>3, TablesTypes DEF Insert, Tables
<1>4. ASSUME CreateIndex(r) \/ DropIndex(r) PROVE Rows(r) /\ applied' = applied
  BY <1>1, <1>2, <1>4, TablesTypes DEF CreateIndex, DropIndex, Tables
<1>5. ASSUME DropView(r) \/ CreateView(r) PROVE Rows(r) /\ applied' = applied
  BY <1>1, <1>2, <1>5, TablesTypes DEF DropView, CreateView, Tables
<1>6. ASSUME DeleteStudents(r) PROVE Rows(r) /\ applied' = applied
  <2>1. [Primary EXCEPT !.added = {}] \in Tables /\ [Primary EXCEPT !.added = {}].added = {}
    BY <1>2, TablesTypes DEF Tables
  <2> QED
    BY <1>6, <2>1 DEF DeleteStudents, Rows
<1>7. ASSUME SelectPrimary(r) \/ ReplicaStatus(r) \/ Poll(r) \/ ReadView(r) \/ Lock(r) \/ LookForBench(r)
             \/ DropBuild(r) \/ CreateBuild(r) \/ FillBuild(r) \/ RenameBuild(r)
      PROVE  UNCHANGED log /\ applied' = applied
  BY <1>7 DEF SelectPrimary, ReplicaStatus, Poll, ReadView, Lock, LookForBench, DropBuild, CreateBuild, FillBuild,
              RenameBuild, Look, nodes
<1>8. ASSUME Measure(r) \/ SetPool(r) \/ PoolSettles(r) \/ ReadGtids(r) \/ ShowReplica(r) \/ ReplicaStarts(r)
             \/ WaitGtids(r) \/ StartReplica(r) \/ StopReplica(r)
      PROVE  UNCHANGED log /\ applied' = applied
  BY <1>8 DEF Measure, SetPool, PoolSettles, SetBuffer, ReadGtids, ShowReplica, ReplicaStarts, WaitGtids, StartReplica,
              StopReplica, Look, nodes
<1> QED
  BY <1>3, <1>4, <1>5, <1>6, <1>7, <1>8 DEF Serve, Rows

\* Poll is the last statement of its program, or the next one is no part of a CAP test.
LEMMA PollFound == ASSUME Inv, Found, NEW r \in Requests, Poll(r) PROVE Found'
<1> DEFINE s == req[r].todo
           answer == Outcome(r, r \in Replica.added)
<1>0. Serve(r)
  BY DEF Serve
<1>1. Advances(r) /\ Rows(r) /\ applied' = applied
  BY <1>0, ServeAdvances, ServeRows DEF Inv
<1>2. UNCHANGED log /\ At(r, "poll")
  BY DEF Poll, Look, nodes
<1>3. s # <<>> /\ s \in Seq(Statements) /\ req[r] \in Request /\ s[1] = "poll"
  BY <1>2, TodoTypes, Heads DEF Inv
<1>4. req'[r] = [req[r] EXCEPT !.todo = Tail(@), !.answer = Result(Tail(s), answer)]
  BY DEF Poll, Go, Step, Inv, TypeOK
<1>5. req'[r].answer = Result(Tail(s), answer) /\ req'[r].seen = req[r].seen /\ req'[r].kind = req[r].kind
  BY <1>3, <1>4 DEF Request
<1>6. Primary' = Primary /\ Replica' = Replica
  BY <1>1, <1>2 DEF Primary, Replica
<1>7. req'[r].answer \in {"found", "consistent"} /\ r \in Primary'.added => r \in Replica'.added
  <2> SUFFICES ASSUME answer \in {"found", "consistent"}, r \in Primary.added PROVE r \in Replica.added
    BY <1>5, <1>6 DEF Result
  <2>1. CASE req[r].kind = "write"
    BY <2>1 DEF Outcome, Visible
  <2>2. CASE req[r].kind # "write"
    <3>1. req[r].seen
      BY <1>2, <2>2 DEF Found, Seen
    <3>2. req[r].seen = (r \in Replica.added)
      BY <2>2 DEF Outcome, Visible
    <3> QED
      BY <3>1, <3>2
  <2> QED
    BY <2>1, <2>2
<1>8. req[r].kind # "write" => ~At(r, "status")' /\ ~At(r, "poll")'
  BY <1>1, <1>2, OutsideTest DEF Words
<1>9. FoundIsReplicated' /\ Seen'
  BY <1>1, <1>5, <1>7, <1>8, FoundKept, SeenKept
<1> QED
  BY <1>1, <1>9, RowsOnce, RowsContiguous DEF Found

\* The three statements before it.
LEMMA TestFound ==
    ASSUME Inv, Found, NEW r \in Requests, Insert(r) \/ SelectPrimary(r) \/ ReplicaStatus(r)
    PROVE  Found'
<1> DEFINE s == req[r].todo
<1>0. Serve(r) /\ ~Poll(r)
  <2>1. Serve(r)
    BY DEF Serve
  <2>2. At(r, "insert") \/ At(r, "select") \/ At(r, "status")
    BY DEF Insert, SelectPrimary, ReplicaStatus
  <2> QED
    BY <2>1, <2>2 DEF Poll, At
<1>1. Advances(r) /\ Rows(r) /\ applied' = applied /\ req'[r].answer \notin {"found", "consistent"}
  BY <1>0, ServeAdvances, ServeRows, PlainAnswers DEF Inv
<1>2. req[r] \in Request /\ s \in Seq(Statements)
  BY TodoTypes DEF Inv
<1>3. req'[r].kind # "write" /\ (At(r, "status")' \/ At(r, "poll")') /\ r \in Primary'.added => req'[r].seen
  <2>1. CASE Insert(r)
    <3>1. s # <<>> /\ s[1] = "insert"
      BY <2>1, Heads DEF Insert, Inv
    <3>2. req'[r].todo = Tail(s)
      BY <1>2, <2>1 DEF Insert, Go, Step, Inv, TypeOK, Request
    <3> SUFFICES ASSUME req[r].kind # "write", req'[r].todo # <<>>, Head(req'[r].todo) \in {"status", "poll"}
                 PROVE  FALSE
      BY <1>1 DEF Advances, At
    <3>3. Len(s) > 1 /\ Head(req'[r].todo) = s[2] /\ Follows(s[1], Head(req'[r].todo))
      BY <1>1, <1>2, <3>1, <3>2, NextHead, TailRest DEF Inv
    <3>4. s[2] = "poll" => s[1] = "status"
      <4>1. Noted(s) /\ 2 \in 2..Len(s)
        BY <1>2, <3>3 DEF Found, Seen
      <4>2. s[2] = "poll" => s[2 - 1] = "status"
        BY <4>1 DEF Noted
      <4> QED
        BY <4>2
    <3> QED
      BY <3>1, <3>3, <3>4 DEF Follows
  <2>2. CASE SelectPrimary(r)
    <3>1. UNCHANGED log
      BY <2>2 DEF SelectPrimary, Look, nodes
    <3>2. req'[r] = [req[r] EXCEPT !.todo = Tail(@), !.seen = r \in Primary.added]
      BY <2>2 DEF SelectPrimary, Step, Inv, TypeOK
    <3>3. req'[r].seen = (r \in Primary.added)
      BY <1>2, <3>2 DEF Request
    <3> QED
      BY <3>1, <3>3 DEF Primary
  <2>3. CASE ReplicaStatus(r)
    <3>1. UNCHANGED log /\ At(r, "status")
      BY <2>3 DEF ReplicaStatus, Look, nodes
    <3>2. req'[r] = [req[r] EXCEPT !.todo = Tail(@), !.running = IsRunning]
      BY <2>3 DEF ReplicaStatus, Step, Inv, TypeOK
    <3>3. req'[r].seen = req[r].seen
      BY <1>2, <3>2 DEF Request
    <3> QED
      BY <1>1, <3>1, <3>3 DEF Primary, Found, Seen, Advances
  <2> QED
    BY <2>1, <2>2, <2>3
<1>4. FoundIsReplicated' /\ Seen'
  BY <1>1, <1>3, FoundKept, SeenKept
<1> QED
  BY <1>1, <1>4, RowsOnce, RowsContiguous DEF Found

LEMMA ServeFound == ASSUME Inv, Found, NEW r \in Requests, Serve(r) PROVE Found'
<1>0. Advances(r) /\ Rows(r) /\ applied' = applied
  BY ServeAdvances, ServeRows DEF Inv
<1>1. ASSUME NEW w \in Words \ {"insert", "select", "status", "poll"}, At(r, w) PROVE Found'
  <2>1. ~Poll(r)
    BY <1>1 DEF Poll, At
  <2>2. req'[r].answer \notin {"found", "consistent"}
    BY <2>1, PlainAnswers
  <2>3. req[r].kind # "write" => ~At(r, "status")' /\ ~At(r, "poll")'
    BY <1>0, <1>1, OutsideTest
  <2> QED
    BY <1>0, <2>2, <2>3, PlainFound
<1>2. CASE CreateIndex(r) \/ DropIndex(r) \/ DropView(r) \/ CreateView(r) \/ ReadView(r) \/ Lock(r)
           \/ LookForBench(r) \/ DropBuild(r) \/ CreateBuild(r) \/ FillBuild(r) \/ RenameBuild(r)
  BY <1>1, <1>2 DEF CreateIndex, DropIndex, DropView, CreateView, ReadView, Lock, LookForBench, DropBuild,
                    CreateBuild, FillBuild, RenameBuild, Words, Guarded
<1>3. CASE Measure(r) \/ SetPool(r) \/ PoolSettles(r) \/ DeleteStudents(r) \/ ReadGtids(r) \/ ShowReplica(r)
           \/ StartReplica(r) \/ ReplicaStarts(r) \/ WaitGtids(r) \/ StopReplica(r)
  BY <1>1, <1>3 DEF Measure, SetPool, PoolSettles, SetBuffer, DeleteStudents, ReadGtids, ShowReplica, StartReplica,
                    ReplicaStarts, WaitGtids, StopReplica, Words
<1> QED
  BY <1>2, <1>3, PollFound, TestFound DEF Serve

LEMMA BackgroundFound == ASSUME Inv, Found, Background \/ UNCHANGED vars PROVE Found'
<1>1. UNCHANGED <<log, req>>
  BY DEF Background, Connected, Apply, Resize, vars, nodes
<1>2. Once' /\ Contiguous' /\ Seen'
  BY <1>1 DEF Found, Once, Contiguous, Seen, At, Primary
<1>3. FoundIsReplicated'
  <2>1. applied' = applied \/ (applied' = applied + 1 /\ applied < Len(log))
    BY DEF Background, Connected, Apply, Resize, vars, nodes
  <2>2. Len(log) \in Nat /\ Len(log) \in 1..Len(log) /\ applied \in 1..Len(log)
    BY PrimaryPlace DEF Inv
  <2> SUFFICES ASSUME NEW t \in Requests, req[t].answer \in {"found", "consistent"}, t \in Primary.added
               PROVE  t \in log[applied'].added
    BY <1>1 DEF FoundIsReplicated, Primary, Replica
  <2>3. t \in log[applied].added
    BY DEF Found, FoundIsReplicated, Replica
  <2>4. CASE applied' = applied
    BY <2>3, <2>4
  <2>5. CASE applied' = applied + 1 /\ applied < Len(log)
    <3>1. applied + 1 \in 1..Len(log) /\ applied <= applied + 1 /\ applied + 1 <= Len(log)
      BY <2>2, <2>5
    <3> QED
      BY <2>2, <2>3, <2>5, <3>1 DEF Found, Contiguous, Primary
  <2> QED
    BY <2>1, <2>4, <2>5
<1> QED
  BY <1>2, <1>3 DEF Found

LEMMA ReceiveFound ==
    ASSUME Inv, Found, NEW r \in Requests, NEW k \in Kinds, NEW n \in Sizes, Receive(r, k, n)
    PROVE  Found'
<1>1. UNCHANGED <<log, applied>> /\ req[r].kind = None /\ k # None
  BY KindsAssumption DEF Receive, nodes
<1>2. \A t \in Requests : t # r => req'[t] = req[t]
  BY ReceiveRow
<1>3. req'[r].kind = k /\ req'[r].todo = Program[k] /\ req'[r].answer = "none"
  BY ReceiveRow
<1>4. ~At(r, "status")' /\ ~At(r, "poll")'
  BY <1>3, ProgramBegins DEF At
<1>5. Once'
  <2>1. \A i \in 1..Len(log) : r \notin log[i].added
    BY <1>1 DEF Found, Once
  <2> QED
    BY <1>1, <1>2, <2>1 DEF Found, Once, At
<1>6. Contiguous'
  BY <1>1 DEF Found, Contiguous
<1>7. Seen'
  <2>1. k # "write" => Noted(req'[r].todo)
    BY <1>3, ProgramNoted
  <2> QED
    BY <1>1, <1>2, <1>3, <1>4, <2>1 DEF Found, Seen, At, Primary
<1>8. FoundIsReplicated'
  BY <1>1, <1>2, <1>3 DEF Found, FoundIsReplicated, Primary, Replica
<1> QED
  BY <1>5, <1>6, <1>7, <1>8 DEF Found

LEMMA BreakFound == ASSUME Inv, Found, NEW r \in Requests, Break(r) PROVE Found'
<1>1. Advances(r) /\ req'[r].todo = <<>>
  BY BreakInv
<1>2. Rows(r) /\ applied' = applied
  BY DEF Break, Rows, nodes
<1>3. req'[r].answer = "error"
  <2>1. req[r] \in Request
    BY TodoTypes DEF Inv
  <2>2. req'[r] = [req[r] EXCEPT !.todo = <<>>, !.answer = "error"]
    BY DEF Break, End, Step, Inv, TypeOK
  <2> QED
    BY <2>1, <2>2 DEF Request
<1> QED
  BY <1>1, <1>2, <1>3, PlainFound DEF At

\* A row that a write found on the replica, or a CAP test the same on both nodes, is on the
\* replica for as long as it is on the primary (replication_write and cap_test_divergence,
\* server.py), whatever other requests and replication do after it was read: the rows of
\* the log are there once, without a gap, and the replica only goes forward.
THEOREM FoundStays == Spec => []FoundIsReplicated
<1>1. Init => Found
  <2> SUFFICES ASSUME Init PROVE Found
    OBVIOUS
  <2>1. log = <<Seeded>> /\ Seeded.added = {}
    BY DEF Init, Seeded
  <2>2. Len(log) = 1 /\ \A i \in 1..Len(log) : log[i].added = {}
    BY <2>1
  <2>3. \A r \in Requests : req[r].todo = <<>> /\ req[r].answer = "none"
    BY DEF Init
  <2>4. Once /\ Contiguous
    BY <2>2 DEF Once, Contiguous
  <2>5. Seen /\ FoundIsReplicated
    BY <2>3 DEF Seen, FoundIsReplicated, At, Noted
  <2> QED
    BY <2>4, <2>5 DEF Found
<1>2. ASSUME Inv, Found, [Next]_vars PROVE Found'
  BY <1>2, NextCases, ServeFound, BreakFound, ReceiveFound, BackgroundFound
<1>3. Found => FoundIsReplicated
  BY DEF Found
<1> QED
  BY <1>1, <1>2, <1>3, InvHolds, PTL DEF Spec

-----------------------------------------------------------------------------
(* What a reset restores *)

Reset == Program["reset"]

LEMMA ResetWords ==
    /\ Reset \in Seq(Words) /\ Len(Reset) = 10
    /\ Reset[1] = "delete_students" /\ Reset[2] = "drop_view" /\ Reset[3] = "drop_index"
    /\ Reset[4] = "read_gtids" /\ Reset[5] = "set_pool" /\ Reset[6] = "resizing"
    /\ Reset[7] = "show_replica" /\ Reset[8] = "start_replica" /\ Reset[9] = "starting"
    /\ Reset[10] = "wait_gtids"
BY DEF Reset, Program, Words

\* The end of a reset.
Suffix(t) ==
    /\ t \in Seq(Statements) /\ Len(t) <= 10
    /\ \A i \in 1..Len(t) : t[i] = Reset[10 - Len(t) + i]

LEMMA RestSuffix ==
    ASSUME NEW s, Suffix(s), NEW t, Rest(t, s)
    PROVE  Suffix(t)
<1>1. s \in Seq(Statements) /\ t \in Seq(Statements) /\ Len(t) < Len(s) /\ Len(s) <= 10
  BY DEF Suffix, Rest
<1>2. Len(t) \in Nat /\ Len(s) \in Nat
  BY <1>1
<1> SUFFICES ASSUME NEW i \in 1..Len(t) PROVE t[i] = Reset[10 - Len(t) + i]
  BY <1>1, <1>2 DEF Suffix
<1>3. t[i] = s[Len(s) - Len(t) + i]
  BY DEF Rest
<1>4. /\ Len(s) - Len(t) + i \in 1..Len(s)
      /\ 10 - Len(s) + (Len(s) - Len(t) + i) = 10 - Len(t) + i
  BY <1>1, <1>2
<1> QED
  BY <1>3, <1>4 DEF Suffix

\* How far a reset is, counted from its end.
LEMMA SuffixHead ==
    ASSUME NEW s, Suffix(s), s # <<>>
    PROVE  \E n \in 1..10 : n = Len(s) /\ Head(s) = Reset[11 - n]
<1>1. s \in Seq(Statements) /\ Len(s) <= 10
  BY DEF Suffix
<1>2. PICK n \in 1..10 : n = Len(s)
  <2>1. Len(s) \in Nat /\ Len(s) # 0
    BY <1>1, EmptySeq
  <2>2. \A k \in Nat : k # 0 /\ k <= 10 => k \in 1..10
    OBVIOUS
  <2> QED
    BY <1>1, <2>1, <2>2
<1>3. Head(s) = s[1] /\ 1 \in 1..n
  BY <1>1, <1>2
<1>4. s[1] = Reset[10 - n + 1] /\ 10 - n + 1 = 11 - n
  BY <1>2, <1>3 DEF Suffix
<1> QED
  BY <1>2, <1>3, <1>4

LEMMA ResetPlace ==
    ASSUME NEW r \in Requests, Suffix(req[r].todo), NEW w, At(r, w)
    PROVE  LET n == Len(req[r].todo)
           IN  \/ n = 10 /\ w = "delete_students"
               \/ n = 9 /\ w = "drop_view"
               \/ n = 8 /\ w = "drop_index"
               \/ n = 7 /\ w = "read_gtids"
               \/ n = 6 /\ w = "set_pool"
               \/ n = 5 /\ w = "resizing"
               \/ n = 4 /\ w = "show_replica"
               \/ n = 3 /\ w = "start_replica"
               \/ n = 2 /\ w = "starting"
               \/ n = 1 /\ w = "wait_gtids"
<1>1. PICK n \in 1..10 : n = Len(req[r].todo) /\ w = Reset[11 - n]
  BY SuffixHead DEF At
<1>2. \/ n = 1 \/ n = 2 \/ n = 3 \/ n = 4 \/ n = 5 \/ n = 6 \/ n = 7 \/ n = 8 \/ n = 9 \/ n = 10
  OBVIOUS
<1>3. \A i \in 1..10 : n = i => w = Reset[11 - i]
  BY <1>1
<1>4. \A i \in 1..10 : \A j \in 1..10 : n = i /\ j = 11 - i => w = Reset[j]
  BY <1>3
<1> QED
  BY <1>1, <1>2, <1>4, ResetWords

\* What a reset that nothing disturbed has restored when it has n statements left.
Restored(r) ==
    LET n == Len(req[r].todo)
    IN  /\ n <= 9 => Primary.added = {}
        /\ n <= 8 => ~Primary.view
        /\ n <= 7 => ~Primary.index
        /\ n <= 6 => req[r].upto = Len(log)
        /\ n <= 5 => asked = Default
        /\ n <= 4 /\ req[r].complete => actual = Default

ResetRow(r) ==
    /\ Suffix(req[r].todo)
    /\ req[r].size = Default
    /\ req[r].answer = "ok" => req[r].complete /\ applied >= req[r].upto
    /\ req[r].answer \in {"none", "ok"} /\ sole = r => Restored(r)

Resets == \A r \in Requests : req[r].kind = "reset" => ResetRow(r)

-----------------------------------------------------------------------------
(* The fields of a request after a step *)

LEMMA GoFields ==
    ASSUME TypeOK, NEW r \in Requests, NEW a \in Answers, req[r].todo # <<>>, Go(r, a)
    PROVE  /\ Advances(r)
           /\ req'[r].todo = Tail(req[r].todo) /\ Len(req'[r].todo) = Len(req[r].todo) - 1
           /\ req'[r].answer = Result(Tail(req[r].todo), a)
           /\ req'[r].size = req[r].size /\ req'[r].upto = req[r].upto
           /\ req'[r].complete = req[r].complete
<1>1. req[r] \in Request /\ req[r].todo \in Seq(Statements)
  BY TodoTypes
<1>2. PICK t, b : t = Tail(req[r].todo) /\ b = Result(Tail(req[r].todo), a)
  OBVIOUS
<1>3. Advances(r) /\ req'[r] = [req[r] EXCEPT !.todo = Tail(req[r].todo), !.answer = b]
  BY <1>2, GoRow
<1>4. Len(t) = Len(req[r].todo) - 1
  BY <1>1, <1>2
<1>5. req'[r] = [req[r] EXCEPT !.todo = t, !.answer = b]
  BY <1>2, <1>3
<1>6. /\ req'[r].todo = t /\ req'[r].answer = b /\ req'[r].size = req[r].size
      /\ req'[r].upto = req[r].upto /\ req'[r].complete = req[r].complete
  BY <1>1, <1>5 DEF Request
<1> QED
  BY <1>2, <1>3, <1>4, <1>6

LEMMA EndFields ==
    ASSUME TypeOK, NEW r \in Requests, NEW a \in Answers, req[r].todo # <<>>, End(r, a)
    PROVE  /\ Advances(r) /\ req'[r].todo = <<>> /\ req'[r].answer = a
           /\ req'[r].size = req[r].size
<1>1. req[r] \in Request
  BY TodoTypes
<1>2. Advances(r) /\ req'[r] = [req[r] EXCEPT !.todo = <<>>, !.answer = a]
  BY EndRow
<1> QED
  BY <1>1, <1>2 DEF Request

\* A request goes on with t left to do and notes something down.
Notes(r, t, u, c) == req' = [req EXCEPT ![r] = [req[r] EXCEPT !.todo = t, !.upto = u, !.complete = c]]

LEMMA LeftFields ==
    ASSUME TypeOK, NEW r \in Requests, req[r].todo # <<>>, NEW t, NEW u, NEW c, Notes(r, t, u, c)
    PROVE  /\ req'[r].todo = t /\ req'[r].answer = "none"
           /\ req'[r].size = req[r].size /\ req'[r].upto = u /\ req'[r].complete = c
<1>1. req[r] \in Request /\ req[r].answer = "none"
  BY TodoTypes
<1>2. req'[r] = [req[r] EXCEPT !.todo = t, !.upto = u, !.complete = c]
  BY DEF TypeOK, Notes
<1>3. req'[r].todo = t
  BY <1>1, <1>2 DEF Request
<1>4. req'[r].upto = u
  BY <1>1, <1>2 DEF Request
<1>5. req'[r].complete = c
  BY <1>1, <1>2 DEF Request
<1>6. req'[r].size = req[r].size
  BY <1>1, <1>2 DEF Request
<1>7. req'[r].answer = req[r].answer
  BY <1>1, <1>2 DEF Request
<1> QED
  BY <1>1, <1>3, <1>4, <1>5, <1>6, <1>7

-----------------------------------------------------------------------------
(* The steps of the others *)

\* What leaves a reset undisturbed leaves what it has restored.
LEMMA Undisturbed ==
    ASSUME TypeOK, NEW t \in Requests, Serve(t) \/ Break(t),
           NEW r \in Requests, r # t, sole' = r
    PROVE  sole = r /\ UNCHANGED <<log, asked, actual>>
<1>1. ~Touch(t) /\ sole' # t
  BY DEF Touch
<1>2. CASE Break(t)
  BY <1>1, <1>2 DEF Break
<1>3. CASE Insert(t) \/ CreateIndex(t) \/ DropIndex(t) \/ DropView(t) \/ CreateView(t)
           \/ DeleteStudents(t) \/ StartReplica(t) \/ StopReplica(t) \/ SetPool(t)
  BY <1>1, <1>3 DEF Insert, CreateIndex, DropIndex, DropView, CreateView, DeleteStudents, StartReplica,
                    StopReplica, SetPool, Change
<1>4. CASE SelectPrimary(t) \/ ReplicaStatus(t) \/ Poll(t) \/ ReadView(t) \/ Measure(t) \/ PoolSettles(t)
           \/ ReadGtids(t) \/ ShowReplica(t) \/ ReplicaStarts(t) \/ WaitGtids(t)
  BY <1>4 DEF SelectPrimary, ReplicaStatus, Poll, ReadView, Measure, PoolSettles, SetBuffer, ReadGtids, ShowReplica,
              ReplicaStarts, WaitGtids, Look, nodes, server
<1>5. CASE Lock(t) \/ LookForBench(t) \/ DropBuild(t) \/ CreateBuild(t) \/ FillBuild(t) \/ RenameBuild(t)
  BY <1>5 DEF Lock, LookForBench, DropBuild, CreateBuild, FillBuild, RenameBuild, nodes
<1> QED
  BY <1>2, <1>3, <1>4, <1>5 DEF Serve

LEMMA OthersKept ==
    ASSUME Inv, Resets, NEW t \in Requests, Serve(t) \/ Break(t), Advances(t), applied' = applied,
           NEW r \in Requests, r # t, req'[r].kind = "reset"
    PROVE  ResetRow(r)'
<1>1. req'[r] = req[r] /\ ResetRow(r)
  BY DEF Advances, Resets
<1>2. sole' = r => sole = r /\ UNCHANGED <<log, asked, actual>>
  BY Undisturbed DEF Inv
<1> QED
  BY <1>1, <1>2 DEF ResetRow, Restored, Primary
-----------------------------------------------------------------------------
(* The steps of a reset *)

LEMMA ChangedTables ==
    ASSUME TypeOK, NEW r \in Requests, NEW tables \in Tables, Change(r, tables)
    PROVE  Primary' = tables /\ (sole' = r => sole = r)
<1>1. CASE tables = Primary
  BY <1>1 DEF Change, Touch, Primary
<1>2. CASE tables # Primary
  <2>1. log' = Append(log, tables)
    BY <1>2 DEF Change
  <2>2. log'[Len(log')] = tables
    BY <2>1, LogAppends
  <2> QED
    BY <2>2 DEF Change, Touch, Primary
<1> QED
  BY <1>1, <1>2

\* A reset before a statement of its own.
LEMMA Before ==
    ASSUME Inv, Resets, NEW r \in Requests, req[r].kind = "reset", req[r].todo # <<>>
    PROVE  /\ TypeOK /\ ResetRow(r) /\ Suffix(req[r].todo)
           /\ req[r].size = Default /\ req[r].answer = "none" /\ req[r].todo \in Seq(Statements)
           /\ req[r].upto \in Nat /\ req[r].complete \in BOOLEAN /\ Len(req[r].todo) \in Nat
           /\ sole = r => Restored(r)
<1>1. TypeOK /\ ResetRow(r)
  BY DEF Inv, Resets
<1>2. req[r] \in Request /\ req[r].todo \in Seq(Statements) /\ req[r].answer = "none"
  BY <1>1, TodoTypes
<1> QED
  BY <1>1, <1>2 DEF ResetRow, Request

\* A reset that goes on: there is nothing to say of its answer yet.
LEMMA GoesOn ==
    ASSUME Inv, Resets, NEW r \in Requests, req[r].kind = "reset", req[r].todo # <<>>,
           Advances(r), req'[r].size = Default, req'[r].answer = "none",
           sole' = r => Restored(r)'
    PROVE  ResetRow(r)'
<1>1. Suffix(req'[r].todo)
  BY Before, RestSuffix DEF Advances
<1> QED
  BY <1>1 DEF ResetRow, Suffix

\* Or ends with something else than OK.
LEMMA GivesUp ==
    ASSUME Inv, Resets, NEW r \in Requests, req[r].kind = "reset", req[r].todo # <<>>,
           Advances(r), req'[r].size = Default, req'[r].answer \notin {"none", "ok"}
    PROVE  ResetRow(r)'
<1>1. Suffix(req'[r].todo)
  BY Before, RestSuffix DEF Advances
<1> QED
  BY <1>1 DEF ResetRow, Suffix

\* After any statement but the last one of a reset there is one more.
GoneOn(r) ==
    /\ Len(req'[r].todo) = Len(req[r].todo) - 1
    /\ req'[r].upto = req[r].upto /\ req'[r].complete = req[r].complete
    /\ (sole' = r => Restored(r)') => ResetRow(r)'

LEMMA GoStep ==
    ASSUME Inv, Resets, NEW r \in Requests, req[r].kind = "reset", req[r].todo # <<>>,
           NEW a \in Answers, Go(r, a), Len(req[r].todo) # 1
    PROVE  GoneOn(r)
<1>1. TypeOK /\ req[r].todo \in Seq(Statements) /\ req[r].size = Default
  BY Before
<1>2. /\ Advances(r) /\ req'[r].size = req[r].size /\ req'[r].upto = req[r].upto
      /\ req'[r].complete = req[r].complete /\ Len(req'[r].todo) = Len(req[r].todo) - 1
      /\ req'[r].answer = Result(Tail(req[r].todo), a) /\ req'[r].todo = Tail(req[r].todo)
  BY <1>1, GoFields
<1>3. Tail(req[r].todo) # <<>>
  <2>1. Len(req[r].todo) \in Nat
    BY <1>1
  <2>2. Len(Tail(req[r].todo)) # 0
    BY <1>2, <2>1
  <2> QED
    BY <1>1, <2>2, EmptySeq
<1>4. req'[r].answer = "none"
  BY <1>2, <1>3 DEF Result
<1> QED
  BY <1>1, <1>2, <1>4, GoesOn DEF GoneOn

LEMMA OkAnswers == {"ok", "error", "incomplete"} \subseteq Answers
BY DEF Answers

LEMMA OwnTables ==
    ASSUME Inv, Resets, NEW r \in Requests, req[r].kind = "reset",
           DeleteStudents(r) \/ DropView(r) \/ DropIndex(r)
    PROVE  ResetRow(r)'
<1>1. req[r].todo # <<>> /\ Go(r, "ok") /\ "ok" \in Answers
  BY OkAnswers DEF DeleteStudents, DropView, DropIndex, At
<1>2. Suffix(req[r].todo) /\ TypeOK /\ (sole = r => Restored(r))
  BY <1>1, Before
<1>3. Primary \in Tables
  BY <1>2, TablesTypes
<1>4. CASE DeleteStudents(r)
  <2>1. Len(req[r].todo) = 10
    BY <1>2, <1>4, ResetPlace DEF DeleteStudents
  <2>2. Primary'.added = {}
    <3>1. CASE Primary.added = {}
      BY <1>4, <3>1 DEF DeleteStudents, Primary
    <3>2. CASE Primary.added # {}
      <4>1. PICK tables \in Tables : tables = [Primary EXCEPT !.added = {}]
        BY <1>2, TablesTypes
      <4>2. log' = Append(log, tables)
        BY <1>4, <3>2, <4>1 DEF DeleteStudents
      <4>3. Primary' = tables
        BY <1>2, <4>2, LogAppends DEF Primary
      <4>4. tables.added = {}
        BY <1>3, <4>1 DEF Tables
      <4> QED
        BY <4>3, <4>4
    <3> QED
      BY <3>1, <3>2
  <2>3. Len(req'[r].todo) = 9 /\ (Restored(r)' => ResetRow(r)')
    <3>1. Len(req[r].todo) # 1
      BY <1>1, <2>1
    <3>2. GoneOn(r)
      BY <1>1, <2>1, <3>1, GoStep
    <3> QED
      BY <1>1, <2>1, <3>2 DEF GoneOn
  <2> QED
    BY <2>2, <2>3 DEF Restored
<1>5. CASE DropView(r)
  <2>1. Len(req[r].todo) = 9
    BY <1>2, <1>5, ResetPlace DEF DropView
  <2>2. PICK tables \in Tables : tables = [Primary EXCEPT !.view = FALSE]
    BY <1>2, TablesTypes
  <2>3. Primary' = tables /\ (sole' = r => sole = r)
    BY <1>2, <1>5, <2>2, ChangedTables DEF DropView
  <2>4. ~tables.view /\ tables.added = Primary.added
    BY <1>3, <2>2 DEF Tables
  <2>5. sole' = r => Primary.added = {}
    BY <1>2, <2>1, <2>3 DEF Restored
  <2>6. Len(req'[r].todo) = 8 /\ ((sole' = r => Restored(r)') => ResetRow(r)')
    <3>1. Len(req[r].todo) # 1
      BY <1>1, <2>1
    <3>2. GoneOn(r)
      BY <1>1, <2>1, <3>1, GoStep
    <3> QED
      BY <1>1, <2>1, <3>2 DEF GoneOn
  <2> QED
    BY <2>3, <2>4, <2>5, <2>6 DEF Restored
<1>6. CASE DropIndex(r)
  <2>1. Len(req[r].todo) = 8
    BY <1>2, <1>6, ResetPlace DEF DropIndex
  <2>2. PICK tables \in Tables : tables = [Primary EXCEPT !.index = FALSE]
    BY <1>2, TablesTypes
  <2>3. Primary' = tables /\ (sole' = r => sole = r)
    BY <1>2, <1>6, <2>2, ChangedTables DEF DropIndex
  <2>4. ~tables.index /\ tables.added = Primary.added /\ tables.view = Primary.view
    BY <1>3, <2>2 DEF Tables
  <2>5. sole' = r => Primary.added = {} /\ ~Primary.view
    BY <1>2, <2>1, <2>3 DEF Restored
  <2>6. Len(req'[r].todo) = 7 /\ ((sole' = r => Restored(r)') => ResetRow(r)')
    <3>1. Len(req[r].todo) # 1
      BY <1>1, <2>1
    <3>2. GoneOn(r)
      BY <1>1, <2>1, <3>1, GoStep
    <3> QED
      BY <1>1, <2>1, <3>2 DEF GoneOn
  <2> QED
    BY <2>3, <2>4, <2>5, <2>6 DEF Restored
<1> QED
  BY <1>4, <1>5, <1>6

LEMMA OwnPool ==
    ASSUME Inv, Resets, NEW r \in Requests, req[r].kind = "reset", SetPool(r)
    PROVE  ResetRow(r)'
<1>1. req[r].todo # <<>>
  BY DEF SetPool, At
<1>2. /\ Suffix(req[r].todo) /\ TypeOK /\ (sole = r => Restored(r)) /\ req[r].size = Default
  BY <1>1, Before
<1>3. Len(req[r].todo) = 6
  BY <1>2, ResetPlace DEF SetPool
<1>4. CASE asked = actual
  <2>1. Go(r, "ok") /\ "ok" \in Answers /\ asked' = Default
    BY <1>2, <1>4, OkAnswers DEF SetPool
  <2>2. Primary' = Primary /\ log' = log /\ (sole' = r => sole = r)
    BY DEF SetPool, nodes, Primary, Touch
  <2>3. sole' = r => Primary.added = {} /\ ~Primary.view /\ ~Primary.index /\ req[r].upto = Len(log)
    BY <1>2, <1>3, <2>2 DEF Restored
  <2>4. /\ Len(req'[r].todo) = 5 /\ req'[r].upto = req[r].upto
        /\ (sole' = r => Restored(r)') => ResetRow(r)'
    <3>1. Len(req[r].todo) # 1
      BY <1>1, <1>3, <2>1
    <3>2. GoneOn(r)
      BY <1>1, <1>3, <2>1, <3>1, GoStep
    <3> QED
      BY <1>1, <1>3, <2>1, <3>2 DEF GoneOn
  <2> QED
    BY <2>1, <2>2, <2>3, <2>4 DEF Restored
<1>5. CASE asked # actual
  <2>1. End(r, "error") /\ "error" \in Answers
    BY <1>5, OkAnswers DEF SetPool
  <2>2. Advances(r) /\ req'[r].answer = "error" /\ req'[r].size = Default
    BY <1>1, <1>2, <2>1, EndFields
  <2> QED
    BY <1>1, <2>2, GivesUp
<1> QED
  BY <1>4, <1>5

\* After a statement that only notes something down.
NotedDown(r, t, u, c) ==
    /\ req'[r].todo = t /\ req'[r].upto = u /\ req'[r].complete = c
    /\ UNCHANGED <<log, asked, actual, sole>>
    /\ (sole' = r => Restored(r)') => ResetRow(r)'

LEMMA OwnNotes ==
    ASSUME Inv, Resets, NEW r \in Requests, req[r].kind = "reset",
           req[r].todo # <<>>, Look, Advances(r), NEW t, NEW u, NEW c, Notes(r, t, u, c)
    PROVE  NotedDown(r, t, u, c)
<1>1. TypeOK /\ req[r].size = Default /\ Advances(r)
  BY Before
<1>2. /\ req'[r].todo = t /\ req'[r].answer = "none" /\ req'[r].size = req[r].size
      /\ req'[r].upto = u /\ req'[r].complete = c
  BY <1>1, LeftFields
<1>3. UNCHANGED <<log, asked, actual, sole>>
  BY DEF Look, nodes, server
<1> QED
  BY <1>1, <1>2, <1>3, GoesOn DEF NotedDown

LEMMA OwnGtids ==
    ASSUME Inv, Resets, NEW r \in Requests, req[r].kind = "reset", Advances(r), ReadGtids(r)
    PROVE  ResetRow(r)'
<1>1. req[r].todo # <<>>
  BY DEF ReadGtids, At
<1>2. /\ Suffix(req[r].todo) /\ TypeOK /\ (sole = r => Restored(r)) /\ req[r].todo \in Seq(Statements)
  BY <1>1, Before
<1>3. Len(req[r].todo) = 7
  BY <1>2, ResetPlace DEF ReadGtids
<1>4. Notes(r, Tail(req[r].todo), Len(log), req[r].complete)
  BY <1>2 DEF ReadGtids, Step, TypeOK, Request, Notes
<1>5. Len(Tail(req[r].todo)) = 6
  BY <1>1, <1>2, <1>3
<1>6. /\ Len(req'[r].todo) = 6 /\ req'[r].upto = Len(log)
      /\ UNCHANGED <<log, sole>> /\ ((sole' = r => Restored(r)') => ResetRow(r)')
  <2>1. NotedDown(r, Tail(req[r].todo), Len(log), req[r].complete)
    BY <1>1, <1>4, <1>5, OwnNotes DEF ReadGtids
  <2> QED
    BY <1>1, <1>4, <1>5, <2>1 DEF NotedDown
<1>7. sole' = r => Restored(r)'
  BY <1>2, <1>3, <1>6 DEF Restored, Primary
<1> QED
  BY <1>6, <1>7

LEMMA OwnSize ==
    ASSUME Inv, Resets, NEW r \in Requests, req[r].kind = "reset", Advances(r), PoolSettles(r)
    PROVE  ResetRow(r)'
<1>1. req[r].todo # <<>>
  BY DEF PoolSettles, SetBuffer, At
<1>2. /\ Suffix(req[r].todo) /\ TypeOK /\ (sole = r => Restored(r)) /\ req[r].todo \in Seq(Statements)
      /\ req[r].size = Default
  BY <1>1, Before
<1>3. Len(req[r].todo) = 5
  BY <1>2, ResetPlace DEF PoolSettles, SetBuffer
<1>4. Notes(r, Tail(req[r].todo), req[r].upto, actual = Default)
  BY <1>2 DEF PoolSettles, SetBuffer, Step, TypeOK, Request, Notes
<1>5. Len(Tail(req[r].todo)) = 4
  BY <1>1, <1>2, <1>3
<1>6. /\ Len(req'[r].todo) = 4 /\ req'[r].upto = req[r].upto /\ req'[r].complete = (actual = Default)
      /\ UNCHANGED <<log, asked, actual, sole>> /\ ((sole' = r => Restored(r)') => ResetRow(r)')
  <2>1. NotedDown(r, Tail(req[r].todo), req[r].upto, actual = Default)
    BY <1>1, <1>4, <1>5, OwnNotes DEF PoolSettles, SetBuffer
  <2> QED
    BY <1>1, <1>4, <1>5, <2>1 DEF NotedDown
<1>7. req'[r].complete => actual' = Default
  BY <1>6
<1>8. sole' = r => Restored(r)'
  BY <1>2, <1>3, <1>6, <1>7 DEF Restored, Primary
<1> QED
  BY <1>6, <1>8

LEMMA OwnLook ==
    ASSUME Inv, Resets, NEW r \in Requests, req[r].kind = "reset", Advances(r), ShowReplica(r)
    PROVE  ResetRow(r)'
<1>1. req[r].todo # <<>>
  BY DEF ShowReplica, At
<1>2. /\ Suffix(req[r].todo) /\ TypeOK /\ (sole = r => Restored(r)) /\ req[r].todo \in Seq(Statements)
  BY <1>1, Before
<1>3. Len(req[r].todo) = 4
  BY <1>2, ResetPlace DEF ShowReplica
<1>4. PICK t : /\ t = IF IsRunning THEN SubSeq(req[r].todo, 4, Len(req[r].todo)) ELSE Tail(req[r].todo)
               /\ Notes(r, t, req[r].upto, req[r].complete)
  BY <1>2 DEF ShowReplica, Step, TypeOK, Request, Notes
<1>5. Len(t) \in 0..3
  BY <1>1, <1>2, <1>3, <1>4
<1>6. /\ Len(req'[r].todo) \in 0..3 /\ req'[r].upto = req[r].upto /\ req'[r].complete = req[r].complete
      /\ UNCHANGED <<log, asked, actual, sole>> /\ ((sole' = r => Restored(r)') => ResetRow(r)')
  <2>1. NotedDown(r, t, req[r].upto, req[r].complete)
    BY <1>1, <1>4, <1>5, OwnNotes DEF ShowReplica
  <2> QED
    BY <1>1, <1>4, <1>5, <2>1 DEF NotedDown
<1>7. sole' = r => Restored(r)'
  BY <1>2, <1>3, <1>6 DEF Restored, Primary
<1> QED
  BY <1>6, <1>7

LEMMA OwnStart ==
    ASSUME Inv, Resets, NEW r \in Requests, req[r].kind = "reset", StartReplica(r)
    PROVE  ResetRow(r)'
<1>1. req[r].todo # <<>> /\ Go(r, "ok") /\ "ok" \in Answers
  BY OkAnswers DEF StartReplica, At
<1>2. Suffix(req[r].todo) /\ TypeOK /\ (sole = r => Restored(r))
  BY <1>1, Before
<1>3. Len(req[r].todo) = 3
  BY <1>2, ResetPlace DEF StartReplica
<1>4. UNCHANGED <<log, asked, actual>> /\ (sole' = r => sole = r)
  BY DEF StartReplica, server, Touch
<1>5. /\ Len(req'[r].todo) = 2 /\ req'[r].upto = req[r].upto /\ req'[r].complete = req[r].complete
      /\ (sole' = r => Restored(r)') => ResetRow(r)'
  <2>1. Len(req[r].todo) # 1
    BY <1>1, <1>3
  <2>2. GoneOn(r)
    BY <1>1, <1>3, <2>1, GoStep
  <2> QED
    BY <1>1, <1>3, <2>2 DEF GoneOn
<1> QED
  BY <1>2, <1>3, <1>4, <1>5 DEF Restored, Primary

LEMMA OwnThreads ==
    ASSUME Inv, Resets, NEW r \in Requests, req[r].kind = "reset", Advances(r), ReplicaStarts(r)
    PROVE  ResetRow(r)'
<1>1. req[r].todo # <<>> /\ UNCHANGED <<log, asked, actual, sole>>
  BY DEF ReplicaStarts, At, Look, nodes, server
<1>2. /\ Suffix(req[r].todo) /\ TypeOK /\ (sole = r => Restored(r)) /\ req[r].todo \in Seq(Statements)
      /\ req[r].size = Default
  BY <1>1, Before
<1>3. Len(req[r].todo) = 2
  BY <1>2, ResetPlace DEF ReplicaStarts
<1>4. CASE Go(r, "ok")
  <2>1. /\ Len(req'[r].todo) = 1 /\ req'[r].upto = req[r].upto /\ req'[r].complete = req[r].complete
        /\ (sole' = r => Restored(r)') => ResetRow(r)'
    <3>1. Len(req[r].todo) # 1
      BY <1>1, <1>3, <1>4, OkAnswers
    <3>2. GoneOn(r)
      BY <1>1, <1>3, <1>4, OkAnswers, <3>1, GoStep
    <3> QED
      BY <1>1, <1>3, <1>4, OkAnswers, <3>2 DEF GoneOn
  <2> QED
    BY <1>1, <1>2, <1>3, <2>1 DEF Restored, Primary
<1>5. CASE Step(r, [req[r] EXCEPT !.todo = Tail(@), !.complete = FALSE])
  <2>1. Notes(r, Tail(req[r].todo), req[r].upto, FALSE)
    BY <1>2, <1>5 DEF Step, TypeOK, Request, Notes
  <2>2. Len(Tail(req[r].todo)) = 1
    BY <1>1, <1>2, <1>3
  <2>3. /\ Len(req'[r].todo) = 1 /\ req'[r].upto = req[r].upto /\ ~req'[r].complete
        /\ (sole' = r => Restored(r)') => ResetRow(r)'
    <3>1. NotedDown(r, Tail(req[r].todo), req[r].upto, FALSE)
      BY <1>1, <2>1, <2>2, OwnNotes DEF ReplicaStarts
    <3> QED
      BY <1>1, <2>1, <2>2, <3>1 DEF NotedDown
  <2> QED
    BY <1>1, <1>2, <1>3, <2>3 DEF Restored, Primary
<1>6. CASE End(r, "incomplete")
  <2>1. Advances(r) /\ req'[r].answer = "incomplete" /\ req'[r].size = Default
    BY <1>1, <1>2, <1>6, OkAnswers, EndFields
  <2> QED
    BY <1>1, <2>1, GivesUp
<1> QED
  BY <1>4, <1>5, <1>6 DEF ReplicaStarts

LEMMA OwnWait ==
    ASSUME Inv, Resets, NEW r \in Requests, req[r].kind = "reset", WaitGtids(r)
    PROVE  ResetRow(r)'
<1> DEFINE a == IF req[r].complete /\ applied >= req[r].upto THEN "ok" ELSE "incomplete"
<1>1. req[r].todo # <<>> /\ UNCHANGED <<log, applied, asked, actual, sole>> /\ a \in Answers /\ Go(r, a)
  BY OkAnswers DEF WaitGtids, At, Look, nodes, server
<1>2. /\ Suffix(req[r].todo) /\ TypeOK /\ (sole = r => Restored(r)) /\ req[r].todo \in Seq(Statements)
      /\ req[r].size = Default
  BY <1>1, Before
<1>3. Len(req[r].todo) = 1
  BY <1>2, ResetPlace DEF WaitGtids
<1>4. /\ Advances(r) /\ req'[r].size = req[r].size /\ req'[r].upto = req[r].upto
      /\ req'[r].complete = req[r].complete /\ Len(req'[r].todo) = Len(req[r].todo) - 1
      /\ req'[r].answer = Result(Tail(req[r].todo), a) /\ req'[r].todo = Tail(req[r].todo)
  <2> HIDE DEF a
  <2> QED
    BY <1>1, <1>2, GoFields
<1>5. Tail(req[r].todo) = <<>> /\ Len(req'[r].todo) = 0
  <2>1. Len(Tail(req[r].todo)) = 0 /\ Tail(req[r].todo) \in Seq(Statements)
    BY <1>1, <1>2, <1>3
  <2> QED
    BY <1>4, <2>1, EmptySeq
<1>6. req'[r].answer = a
  BY <1>4, <1>5 DEF Result
<1>7. Suffix(req'[r].todo)
  BY <1>2, <1>4, RestSuffix DEF Advances
<1>8. sole' = r => Restored(r)'
  BY <1>1, <1>2, <1>3, <1>4, <1>5 DEF Restored, Primary
<1> QED
  BY <1>1, <1>2, <1>4, <1>6, <1>7, <1>8 DEF ResetRow

LEMMA OwnRow ==
    ASSUME Inv, Resets, NEW r \in Requests, req[r].kind = "reset", Serve(r)
    PROVE  ResetRow(r)'
<1>1. PICK w : At(r, w)
  BY DEF At, Serve, Insert, SelectPrimary, ReplicaStatus, Poll, CreateIndex, DropIndex, DropView, CreateView,
         ReadView, Lock, LookForBench, DropBuild, CreateBuild, FillBuild, RenameBuild, Measure, SetPool,
         PoolSettles, DeleteStudents, ReadGtids, ShowReplica, StartReplica, ReplicaStarts, WaitGtids, StopReplica
<1>2. Suffix(req[r].todo) /\ Advances(r)
  BY <1>1, Before, ServeAdvances DEF At
<1>3. w \in {"delete_students", "drop_view", "drop_index", "read_gtids", "set_pool", "resizing",
             "show_replica", "start_replica", "starting", "wait_gtids"}
  BY <1>1, <1>2, ResetPlace
<1>4. \/ DeleteStudents(r) \/ DropView(r) \/ DropIndex(r) \/ ReadGtids(r) \/ SetPool(r) \/ PoolSettles(r)
      \/ ShowReplica(r) \/ StartReplica(r) \/ ReplicaStarts(r) \/ WaitGtids(r)
  <2>1. Head(req[r].todo) = w
    BY <1>1 DEF At
  <2>2. ~Insert(r) /\ ~SelectPrimary(r) /\ ~ReplicaStatus(r) /\ ~Poll(r) /\ ~CreateIndex(r)
        /\ ~CreateView(r) /\ ~ReadView(r) /\ ~Measure(r) /\ ~StopReplica(r)
    BY <1>3, <2>1 DEF At, Insert, SelectPrimary, ReplicaStatus, Poll, CreateIndex, CreateView, ReadView, Measure,
                      StopReplica
  <2>3. ~Lock(r) /\ ~LookForBench(r) /\ ~DropBuild(r) /\ ~CreateBuild(r) /\ ~FillBuild(r) /\ ~RenameBuild(r)
    BY <1>3, <2>1 DEF At, Lock, LookForBench, DropBuild, CreateBuild, FillBuild, RenameBuild
  <2> QED
    BY <2>2, <2>3 DEF Serve
<1> QED
  BY <1>2, <1>4, OwnTables, OwnGtids, OwnPool, OwnSize, OwnLook, OwnStart, OwnThreads, OwnWait

LEMMA ServeResets == ASSUME Inv, Resets, NEW t \in Requests, Serve(t) PROVE Resets'
<1>1. Advances(t)
  BY ServeAdvances DEF Inv
<1>2. applied' = applied
  BY DEF Serve, Insert, SelectPrimary, ReplicaStatus, Poll, CreateIndex, DropIndex, DropView, CreateView,
         ReadView, Lock, LookForBench, DropBuild, CreateBuild, FillBuild, RenameBuild, Measure, SetPool,
         PoolSettles, DeleteStudents, ReadGtids, ShowReplica, StartReplica, ReplicaStarts, WaitGtids, StopReplica,
         Change, Look, nodes
<1> SUFFICES ASSUME NEW r \in Requests, req'[r].kind = "reset" PROVE ResetRow(r)'
  BY DEF Resets
<1>3. CASE r # t
  BY <1>1, <1>2, <1>3, OthersKept
<1>4. CASE r = t
  BY <1>1, <1>4, OwnRow DEF Advances
<1> QED
  BY <1>3, <1>4

LEMMA BreakResets == ASSUME Inv, Resets, NEW t \in Requests, Break(t) PROVE Resets'
<1>1. Advances(t) /\ applied' = applied /\ req[t].todo # <<>>
  BY BreakInv DEF Break, nodes
<1>2. req'[t].answer = "error" /\ req'[t].size = req[t].size
  BY <1>1, EndFields DEF Break, Inv, Answers
<1> SUFFICES ASSUME NEW r \in Requests, req'[r].kind = "reset" PROVE ResetRow(r)'
  BY DEF Resets
<1>3. CASE r # t
  BY <1>1, <1>3, OthersKept
<1>4. CASE r = t
  <2>1. req[t].kind = "reset"
    BY <1>1, <1>4 DEF Advances
  <2>2. req[t].size = Default
    BY <1>1, <2>1, Before
  <2> QED
    BY <1>1, <1>2, <1>4, <2>1, <2>2, GivesUp
<1> QED
  BY <1>3, <1>4

LEMMA ReceiveResets ==
    ASSUME Inv, Resets, NEW t \in Requests, NEW k \in Kinds, NEW n \in Sizes, Receive(t, k, n)
    PROVE  Resets'
<1>1. UNCHANGED <<log, applied, asked, actual, sole>>
  BY DEF Receive, nodes, server
<1> SUFFICES ASSUME NEW r \in Requests, req'[r].kind = "reset" PROVE ResetRow(r)'
  BY DEF Resets
<1>2. CASE r # t
  <2>1. req'[r] = req[r] /\ ResetRow(r)
    BY <1>2, ReceiveRow DEF Resets
  <2> QED
    BY <1>1, <2>1 DEF ResetRow, Restored, Primary
<1>3. CASE r = t
  <2>1. req'[r].todo = Reset /\ req'[r].answer = "none" /\ k = "reset"
    BY <1>3, ReceiveRow DEF Reset
  <2>2. req'[r].size = Default
    BY <1>3, <2>1, TodoTypes DEF Receive, Inv, TypeOK, Request
  <2>3. Suffix(Reset)
    BY <2>1, ProgramTypes, ResetWords DEF Suffix, Reset
  <2>4. Len(req'[r].todo) = 10
    BY <2>1, ResetWords
  <2> QED
    BY <2>1, <2>2, <2>3, <2>4 DEF ResetRow, Restored
<1> QED
  BY <1>2, <1>3

LEMMA BackgroundResets == ASSUME Inv, Resets, Background PROVE Resets'
<1>1. UNCHANGED <<log, req, asked, sole>> /\ (actual' = actual \/ actual' = asked)
  BY DEF Background, Connected, Apply, Resize, nodes, server
<1>2. applied' >= applied /\ applied \in Nat /\ applied' \in Nat
  BY DEF Background, Connected, Apply, Resize, nodes, Inv, TypeOK
<1> SUFFICES ASSUME NEW r \in Requests, req'[r].kind = "reset" PROVE ResetRow(r)'
  BY DEF Resets
<1>3. ResetRow(r) /\ req'[r] = req[r] /\ req[r].upto \in Nat
  BY <1>1, TodoTypes DEF Resets, Inv, Request
<1>4. Suffix(req'[r].todo) /\ req'[r].size = Default
  BY <1>3 DEF ResetRow
<1>5. req'[r].answer = "ok" => req'[r].complete /\ applied' >= req'[r].upto
  BY <1>2, <1>3 DEF ResetRow
<1>6. Restored(r) => Restored(r)'
  <2>1. Len(req[r].todo) \in Nat
    BY TodoTypes DEF Inv
  <2> QED
    BY <1>1, <1>3, <2>1 DEF Restored, Primary
<1> QED
  BY <1>1, <1>3, <1>4, <1>5, <1>6 DEF ResetRow

LEMMA ResetsInit == Init => Resets
<1> SUFFICES ASSUME Init, NEW r \in Requests PROVE ResetRow(r)
  BY DEF Resets
<1>1. req[r].todo = <<>> /\ req[r].size = Default /\ req[r].answer = "none" /\ sole # r
  BY NoneAssumption DEF Init
<1>2. Suffix(<<>>)
  BY DEF Suffix
<1> QED
  BY <1>1, <1>2 DEF ResetRow

LEMMA ResetsGiveRestores == ASSUME Inv, Resets PROVE ResetRestores
<1> SUFFICES ASSUME NEW r \in Requests, req[r].kind = "reset", req[r].answer = "ok"
             PROVE  /\ applied >= req[r].upto
                    /\ sole = r => Primary = Seeded /\ actual = Default /\ Replica = Seeded
  BY DEF ResetRestores
<1>1. ResetRow(r) /\ req[r].complete /\ applied >= req[r].upto
  BY DEF Resets, ResetRow
<1>2. Len(req[r].todo) = 0
  <2>1. req[r].todo = <<>>
    BY DEF Inv, TypeOK
  <2> QED
    BY <2>1
<1>3. ASSUME sole = r PROVE Primary = Seeded /\ actual = Default /\ Replica = Seeded
  <2>1. Restored(r)
    BY <1>1, <1>3 DEF ResetRow
  <2>2. /\ Primary.added = {} /\ ~Primary.view /\ ~Primary.index
        /\ req[r].upto = Len(log) /\ actual = Default
    BY <1>1, <1>2, <2>1 DEF Restored
  <2>3. Primary \in Tables
    BY TablesTypes DEF Inv
  <2>4. Primary = Seeded
    BY <2>2, <2>3 DEF Tables, Seeded
  <2>5. applied = Len(log)
    BY <1>1, <2>2 DEF Inv, TypeOK
  <2> QED
    BY <2>2, <2>4, <2>5 DEF Primary, Replica
<1> QED
  BY <1>1, <1>3

\* A reset that nothing disturbed, and that answers OK, has restored both nodes: what the
\* comment at ResetRestores says (server.py:615), for any requests and sizes.
THEOREM ResetsRestore == Spec => []ResetRestores
<1>1. Init => Inv /\ Resets
  BY InvInit, ResetsInit
<1>2. Inv /\ Resets /\ [Next]_vars => Inv' /\ Resets'
  <2> SUFFICES ASSUME Inv, Resets, [Next]_vars PROVE Resets'
    BY InvNext
  <2>1. CASE \E r \in Requests, k \in Kinds, n \in Sizes : Receive(r, k, n)
    BY <2>1, ReceiveResets
  <2>2. CASE \E r \in Requests : Serve(r)
    BY <2>2, ServeResets
  <2>3. CASE \E r \in Requests : Break(r)
    BY <2>3, BreakResets
  <2>4. CASE Background
    BY <2>4, BackgroundResets
  <2>5. CASE UNCHANGED vars
    BY <2>5 DEF vars, nodes, server, Resets, ResetRow, Restored, Primary
  <2> QED
    BY <2>1, <2>2, <2>3, <2>4, <2>5 DEF Next, Background
<1>3. Inv /\ Resets => ResetRestores
  BY ResetsGiveRestores
<1> QED
  BY <1>1, <1>2, <1>3, PTL DEF Spec
=============================================================================
