------------------------------- MODULE KVNode -------------------------------
(***************************************************************************)
(* The replicated key-value nodes of lab 05 (app/kv_node.py): every node    *)
(* keeps all data in memory, replicates its writes over HTTP, and resolves  *)
(* conflicts by last-writer-wins on a Lamport version.  In mode "ap" a      *)
(* write is acknowledged after the local store; in mode "cp" after a quorum *)
(* of nodes stored it.                                                      *)
(*                                                                          *)
(* Threads are interleaved at the granularity of the code's lock: each      *)
(* critical section of Store is one step, and so is each point at which a   *)
(* handler sends, gives up, or replies.                                     *)
(***************************************************************************)
EXTENDS Naturals, FiniteSets

CONSTANTS
    Nodes,        \* NODE_ID of every node; numbers ordered as the names are
    Keys,         \* keys of the store
    Writes,       \* PUT requests the clients make; a request is its own value
    NoWrite,      \* the value of no record
    KeyOf,        \* KeyOf[w]: the key in the path of PUT request w
    Reads,        \* GET requests the clients make
    ReadKeyOf,    \* ReadKeyOf[r]: the key in the path of GET request r
    ModeDefault,  \* the MODE environment variable
    Switchable,   \* nodes whose mode /admin/mode may change
    Isolable,     \* nodes scripts/partition.sh may isolate
    Crashable     \* nodes that may crash

ASSUME NodesAssumption == Nodes \subseteq Nat \ {0} /\ IsFiniteSet(Nodes)
ASSUME ClusterAssumption == Cardinality(Nodes) >= 2   \* main() exits without PEERS
ASSUME WritesAssumption == NoWrite \notin Writes
ASSUME KeyAssumption == KeyOf \in [Writes -> Keys] /\ ReadKeyOf \in [Reads -> Keys]
ASSUME ModeAssumption == ModeDefault \in {"ap", "cp"}

VARIABLES
    data,      \* data[n][k]: the record node n stores under k
    clock,     \* clock[n]: Lamport clock
    pending,   \* pending[n][p][k]: the record n still owes peer p under k
    mode,      \* mode[n] \in {"ap", "cp"}
    life,      \* life[n] \in {"down", "warming", "ready"}
    warm,      \* warm[n]: progress of the warm-up thread
    net,       \* calls to /internal/replicate not yet finished on both sides
    put,       \* put[w]: progress of PUT request w
    get,       \* get[r]: progress of GET request r
    cut        \* directed links that carry no requests

vars == <<data, clock, pending, mode, life, warm, net, put, get, cut>>

\* Faulty variant: PEERS names the node itself, too.
Peers_All(n) == Nodes

Peers(n) == Nodes \ {n}

\* Faulty variant: half of the nodes.
Quorum_Half == Cardinality(Nodes) \div 2

Quorum == (Cardinality(Nodes) \div 2) + 1

-----------------------------------------------------------------------------
(* Records and versions *)

Record == [val : Writes \cup {NoWrite}, ctr : Nat, node : Nodes \cup {0}]

\* None: its counter 0 is below that of every record a node makes.
NoRecord == [val |-> NoWrite, ctr |-> 0, node |-> 0]

Nothing == [k \in Keys |-> NoRecord]

\* Lexicographic order of [counter, node].
IsNewer(record, current) ==
    \/ record.ctr > current.ctr
    \/ record.ctr = current.ctr /\ record.node > current.node

AtLeast(current, record) == ~ IsNewer(record, current)

\* What a slot that holds current holds after it was offered record.
Newest(record, current) == IF IsNewer(record, current) THEN record ELSE current

\* The slots after record was offered under k.
Offer(slots, k, record) == [slots EXCEPT ![k] = Newest(record, slots[k])]

Later(a, b) == IF a > b THEN a ELSE b

\* Faulty variants: the clock ignores what arrives; what arrives always wins.
Apply_OwnClock(n, k, record) ==
    /\ UNCHANGED clock
    /\ data' = [data EXCEPT ![n] = Offer(data[n], k, record)]

Apply_Overwrite(n, k, record) ==
    /\ clock' = [clock EXCEPT ![n] = Later(@, record.ctr)]
    /\ data' = [data EXCEPT ![n][k] = record]

\* Store.apply at n: the clock moves forward even when the record loses.
Apply(n, k, record) ==
    /\ clock' = [clock EXCEPT ![n] = Later(@, record.ctr)]
    /\ data' = [data EXCEPT ![n] = Offer(data[n], k, record)]

\* Faulty variant: the record queued last replaces the one before it.
Enqueue_Replace(n, ps, k, record) ==
    pending' = [pending EXCEPT ![n] =
                  [p \in Nodes |-> IF p \in ps THEN [pending[n][p] EXCEPT ![k] = record]
                                               ELSE pending[n][p]]]

\* Store.enqueue at n, for the peers in ps.
Enqueue(n, ps, k, record) ==
    pending' = [pending EXCEPT ![n] =
                  [p \in Nodes |-> IF p \in ps THEN Offer(pending[n][p], k, record)
                                               ELSE pending[n][p]]]

-----------------------------------------------------------------------------
(* Calls between nodes *)

\* A POST /internal/replicate: call is the PUT that sent it, or NoWrite for the
\* sync loop; left are the keys whose record the receiver has still to apply;
\* waiting says that the sender has not given up; a lost call gets no answer.
\* A process that is down refuses the connection.
Batch(recs) == {k \in Keys : recs[k] # NoRecord}

Call(c, n, p, recs) ==
    [call |-> c, from |-> n, to |-> p, recs |-> recs,
     left |-> Batch(recs), waiting |-> TRUE, lost |-> life[p] = "down"]

CallType ==
    [call : Writes \cup {NoWrite}, from : Nodes, to : Nodes,
     recs : [Keys -> Record], left : SUBSET Keys, waiting : BOOLEAN, lost : BOOLEAN]

\* The receiver finished the request and its answer is on the way.
Answered(m) == m.left = {} /\ ~ m.lost

\* A call nobody waits for exists only while it may still reach its receiver.
Abandon(m) == IF m.lost \/ m.left = {} THEN {} ELSE {[m EXCEPT !.waiting = FALSE]}

\* The request is lost; an answer already sent is not.
Lose(m) == CASE m.left = {} -> {m}
             [] m.left # {} /\ m.waiting -> {[m EXCEPT !.lost = TRUE]}
             [] OTHER -> {}

\* The receiver has not begun: the request is still on the link.
OnLink(m) == m.left = Batch(m.recs)

SyncBusy(n) == \E m \in net : m.call = NoWrite /\ m.from = n /\ m.waiting

\* A request travels only over an open link to a running process.
CanReach(n, p) == <<n, p>> \notin cut /\ life[p] # "down"

-----------------------------------------------------------------------------
(* Initial states *)

IdlePut == [pc |-> "idle", via |-> "ap", rec |-> NoRecord, yes |-> {}, no |-> {}]

IdleGet == [pc |-> "idle", via |-> "ap", node |-> 0, seen |-> {},
            floor |-> {}, res |-> NoRecord]

NoWarmUp == [ask |-> {}, snap |-> Nothing, left |-> {}]

InitWith(start, warming) ==
    /\ data = [n \in Nodes |-> Nothing]
    /\ clock = [n \in Nodes |-> 0]
    /\ pending = [n \in Nodes |-> [p \in Nodes |-> Nothing]]
    /\ mode = [n \in Nodes |-> ModeDefault]
    /\ life = [n \in Nodes |-> start]
    /\ warm = [n \in Nodes |-> [NoWarmUp EXCEPT !.ask = IF warming THEN Peers(n) ELSE {}]]
    /\ net = {}
    /\ put = [w \in Writes |-> IdlePut]
    /\ get = [r \in Reads |-> IdleGet]
    /\ cut = {}

\* All processes have just started.
Init == InitWith("warming", TRUE)

\* All nodes have warmed up and no client has written yet.
InitUp == InitWith("ready", FALSE)

-----------------------------------------------------------------------------
(* PUT /kv/<key> *)

Fresh(w, n) == [val |-> w, ctr |-> clock[n] + 1, node |-> n]

\* A ready node takes a version for the write (new_record).
NewRecord(w, n) ==
    /\ put[w].pc = "idle"
    /\ life[n] = "ready"
    /\ clock' = [clock EXCEPT ![n] = @ + 1]
    /\ put' = [put EXCEPT ![w] = [@ EXCEPT !.pc = "made", !.rec = Fresh(w, n)]]
    /\ UNCHANGED <<data, pending, mode, life, warm, net, get, cut>>

\* Mode ap: store locally.  The mode is read after the version was taken.
ApplyAP(w) ==
    LET n == put[w].rec.node IN
    /\ put[w].pc = "made"
    /\ mode[n] = "ap"
    /\ Apply(n, KeyOf[w], put[w].rec)
    /\ put' = [put EXCEPT ![w] = [@ EXCEPT !.pc = "applied", !.via = "ap"]]
    /\ UNCHANGED <<pending, mode, life, warm, net, get, cut>>

\* Mode ap: queue for every peer and reply 200.
ReplyAP(w) ==
    LET n == put[w].rec.node IN
    /\ put[w].pc = "applied"
    /\ Enqueue(n, Peers(n), KeyOf[w], put[w].rec)
    /\ put' = [put EXCEPT ![w].pc = "acked"]
    /\ UNCHANGED <<data, clock, mode, life, warm, net, get, cut>>

\* Mode cp: replicate_sync sends the record to every peer in parallel.
ReplicateSync(w) ==
    LET n == put[w].rec.node IN
    /\ put[w].pc = "made"
    /\ mode[n] = "cp"
    /\ net' = net \cup {Call(w, n, p, [Nothing EXCEPT ![KeyOf[w]] = put[w].rec]) : p \in Peers(n)}
    /\ put' = [put EXCEPT ![w] = [@ EXCEPT !.pc = "sent", !.via = "cp"]]
    /\ UNCHANGED <<data, clock, pending, mode, life, warm, get, cut>>

\* Faulty variant: every answer counts, failures too.
Votes_AnyAnswer(w) == 1 + Cardinality(put[w].yes \cup put[w].no)

Votes(w) == 1 + Cardinality(put[w].yes)

\* A quorum acknowledged: peers that already failed are queued at once; one
\* that fails from now on is queued by the callback in CallFails.
Commit(w) ==
    LET n == put[w].rec.node IN
    /\ put[w].pc = "sent"
    /\ Votes(w) >= Quorum
    /\ Enqueue(n, put[w].no, KeyOf[w], put[w].rec)
    /\ put' = [put EXCEPT ![w].pc = "committed"]
    /\ UNCHANGED <<data, clock, mode, life, warm, net, get, cut>>

\* Every peer answered and there is no quorum: reply 503.  Peers that stored
\* the record keep it, nothing is queued and nothing is stored here.
Reject(w) ==
    LET n == put[w].rec.node IN
    /\ put[w].pc = "sent"
    /\ put[w].yes \cup put[w].no = Peers(n)
    /\ Votes(w) < Quorum
    /\ put' = [put EXCEPT ![w].pc = "rejected"]
    /\ UNCHANGED <<data, clock, pending, mode, life, warm, net, get, cut>>

\* Store a committed write locally and reply 200.
ReplyCP(w) ==
    LET n == put[w].rec.node IN
    /\ put[w].pc = "committed"
    /\ Apply(n, KeyOf[w], put[w].rec)
    /\ put' = [put EXCEPT ![w].pc = "acked"]
    /\ UNCHANGED <<pending, mode, life, warm, net, get, cut>>

-----------------------------------------------------------------------------
(* POST /internal/replicate, and the sync loop *)

\* The receiver, ready or warming up, applies one record of a request.
Replicate(m, k) ==
    /\ m \in net
    /\ ~ m.lost
    /\ k \in m.left
    /\ life[m.to] # "down"
    /\ OnLink(m) => <<m.from, m.to>> \notin cut
    /\ Apply(m.to, k, m.recs[k])
    /\ LET rest == [m EXCEPT !.left = @ \ {k}]
       IN net' = (net \ {m}) \cup (IF m.waiting \/ rest.left # {} THEN {rest} ELSE {})
    /\ UNCHANGED <<pending, mode, life, warm, put, get, cut>>

\* The queue without the records that were sent; a newer one stays.
Forget(queue, sent) ==
    [k \in Keys |-> IF queue[k] = sent[k] THEN NoRecord ELSE queue[k]]

\* Faulty variant: the sync loop forgets the peer's whole queue.
CallSucceeds_ClearQueue(m) ==
    /\ m \in net
    /\ m.waiting
    /\ Answered(m)
    /\ net' = net \ {m}
    /\ IF m.call = NoWrite
       THEN pending' = [pending EXCEPT ![m.from][m.to] = Nothing] /\ UNCHANGED put
       ELSE put' = [put EXCEPT ![m.call].yes = @ \cup {m.to}] /\ UNCHANGED pending
    /\ UNCHANGED <<data, clock, mode, life, warm, get, cut>>

\* send_to_peer returns True.  The sync loop then forgets what it sent, unless
\* a newer record took the place meanwhile.
CallSucceeds(m) ==
    /\ m \in net
    /\ m.waiting
    /\ Answered(m)
    /\ net' = net \ {m}
    /\ IF m.call = NoWrite
       THEN /\ pending' = [pending EXCEPT ![m.from][m.to] =
                             Forget(pending[m.from][m.to], m.recs)]
            /\ UNCHANGED put
       ELSE /\ put' = [put EXCEPT ![m.call].yes = @ \cup {m.to}]
            /\ UNCHANGED pending
    /\ UNCHANGED <<data, clock, mode, life, warm, get, cut>>

\* Faulty variant: the sync loop forgets a queue it could not deliver.
CallFails_ForgetQueue(m) ==
    /\ m \in net
    /\ m.waiting
    /\ m.call = NoWrite
    /\ net' = (net \ {m}) \cup Abandon(m)
    /\ pending' = [pending EXCEPT ![m.from][m.to] = Nothing]
    /\ UNCHANGED <<data, clock, mode, life, warm, put, get, cut>>

\* send_to_peer returns False: refused, cut off or slower than REPL_TIMEOUT.
\* The request may still arrive later.  If the write has committed, the done
\* callback queues it for the peer.
CallFails(m) ==
    /\ m \in net
    /\ m.waiting
    /\ net' = (net \ {m}) \cup Abandon(m)
    /\ IF m.call = NoWrite
       THEN UNCHANGED <<pending, put>>
       ELSE /\ put' = [put EXCEPT ![m.call].no = @ \cup {m.to}]
            /\ IF put[m.call].pc \in {"committed", "acked"}
               THEN Enqueue(m.from, {m.to}, KeyOf[m.call], put[m.call].rec)
               ELSE UNCHANGED pending
    /\ UNCHANGED <<data, clock, mode, life, warm, get, cut>>

\* One round of sync_loop for one peer: copy its queue under the lock and send.
SyncSend(n, p) ==
    /\ life[n] # "down"
    /\ p # n
    /\ ~ SyncBusy(n)
    /\ pending[n][p] # Nothing
    /\ net' = net \cup {Call(NoWrite, n, p, pending[n][p])}
    /\ UNCHANGED <<data, clock, pending, mode, life, warm, put, get, cut>>

-----------------------------------------------------------------------------
(* GET /kv/<key> *)

\* The writes of key k acknowledged so far (a history for the properties).
AckedWrites(k) == {w \in Writes : put[w].pc = "acked" /\ KeyOf[w] = k}

\* Mode ap: read the local copy.  Mode cp: probe the peers first.
StartGet(r, n) ==
    /\ get[r].pc = "idle"
    /\ life[n] = "ready"
    /\ get' = [get EXCEPT ![r] =
                 [pc |-> IF mode[n] = "cp" THEN "probing" ELSE "served",
                  via |-> mode[n], node |-> n, seen |-> {},
                  floor |-> AckedWrites(ReadKeyOf[r]),
                  res |-> IF mode[n] = "cp" THEN NoRecord ELSE data[n][ReadKeyOf[r]]]]
    /\ UNCHANGED <<data, clock, pending, mode, life, warm, net, put, cut>>

\* A peer answers the liveness probe; a node that is warming up does, too.
Probe(r, p) ==
    /\ get[r].pc = "probing"
    /\ p \in Peers(get[r].node) \ get[r].seen
    /\ CanReach(get[r].node, p)
    /\ get' = [get EXCEPT ![r].seen = @ \cup {p}]
    /\ UNCHANGED <<data, clock, pending, mode, life, warm, net, put, cut>>

\* A quorum is visible: answer from the local copy.
ServeCP(r) ==
    /\ get[r].pc = "probing"
    /\ 1 + Cardinality(get[r].seen) >= Quorum
    /\ get' = [get EXCEPT ![r] =
                 [@ EXCEPT !.pc = "served", !.res = data[get[r].node][ReadKeyOf[r]]]]
    /\ UNCHANGED <<data, clock, pending, mode, life, warm, net, put, cut>>

\* The other probes failed or timed out: 503.
RefuseCP(r) ==
    /\ get[r].pc = "probing"
    /\ 1 + Cardinality(get[r].seen) < Quorum
    /\ get' = [get EXCEPT ![r].pc = "refused"]
    /\ UNCHANGED <<data, clock, pending, mode, life, warm, net, put, cut>>

-----------------------------------------------------------------------------
(* Crash, restart and warm-up *)

\* Calls on a connection of a dead process: no answer reaches a call made to
\* it; a call it made may still be delivered.
Severed(m, n) ==
    IF m.to = n THEN Lose(m)
    ELSE IF m.from = n /\ m.waiting THEN Abandon(m) ELSE {m}

Sever(n) == UNION {Severed(m, n) : m \in net}

Running == {"made", "applied", "sent", "committed"}

\* The process exits: everything in memory is gone, the mode included.
Crash(n) ==
    /\ n \in Crashable
    /\ life[n] # "down"
    /\ life' = [life EXCEPT ![n] = "down"]
    /\ data' = [data EXCEPT ![n] = Nothing]
    /\ clock' = [clock EXCEPT ![n] = 0]
    /\ pending' = [pending EXCEPT ![n] = [p \in Nodes |-> Nothing]]
    /\ mode' = [mode EXCEPT ![n] = ModeDefault]
    /\ warm' = [warm EXCEPT ![n] = NoWarmUp]
    /\ net' = Sever(n)
    /\ put' = [w \in Writes |-> IF put[w].rec.node = n /\ put[w].pc \in Running
                                THEN [put[w] EXCEPT !.pc = "died"] ELSE put[w]]
    /\ get' = [r \in Reads |-> IF get[r].node = n /\ get[r].pc = "probing"
                               THEN [get[r] EXCEPT !.pc = "died"] ELSE get[r]]
    /\ UNCHANGED cut

\* Docker starts the process again (restart: on-failure).
Restart(n) ==
    /\ life[n] = "down"
    /\ life' = [life EXCEPT ![n] = "warming"]
    /\ warm' = [warm EXCEPT ![n].ask = Peers(n)]
    /\ UNCHANGED <<data, clock, pending, mode, net, put, get, cut>>

\* warm_up copies the data of the next peer; the peer's clock is not used.
FetchSnapshot(n, p) ==
    /\ life[n] = "warming"
    /\ p \in warm[n].ask
    /\ warm[n].left = {}
    /\ CanReach(n, p)
    /\ warm' = [warm EXCEPT ![n] =
                  [ask |-> warm[n].ask \ {p}, snap |-> data[p],
                   left |-> Batch(data[p])]]
    /\ UNCHANGED <<data, clock, pending, mode, life, net, put, get, cut>>

\* The peer did not answer within a second: continue with the next one.
SkipPeer(n, p) ==
    /\ life[n] = "warming"
    /\ p \in warm[n].ask
    /\ warm[n].left = {}
    /\ warm' = [warm EXCEPT ![n].ask = @ \ {p}]
    /\ UNCHANGED <<data, clock, pending, mode, life, net, put, get, cut>>

ApplySnapshot(n, k) ==
    /\ life[n] = "warming"
    /\ k \in warm[n].left
    /\ Apply(n, k, warm[n].snap[k])
    /\ warm' = [warm EXCEPT ![n] =
                  [ask |-> warm[n].ask, left |-> warm[n].left \ {k},
                   snap |-> [warm[n].snap EXCEPT ![k] = NoRecord]]]
    /\ UNCHANGED <<pending, mode, life, net, put, get, cut>>

FinishWarmUp(n) ==
    /\ life[n] = "warming"
    /\ warm[n].ask = {}
    /\ warm[n].left = {}
    /\ life' = [life EXCEPT ![n] = "ready"]
    /\ UNCHANGED <<data, clock, pending, mode, warm, net, put, get, cut>>

-----------------------------------------------------------------------------
(* Operator: partition.sh, set-mode.sh *)

Links(n) == {<<n, p>> : p \in Peers(n)} \cup {<<p, n>> : p \in Peers(n)}

Isolate(n) ==
    /\ n \in Isolable
    /\ ~ (Links(n) \subseteq cut)
    /\ cut' = cut \cup Links(n)
    /\ UNCHANGED <<data, clock, pending, mode, life, warm, net, put, get>>

Heal ==
    /\ cut # {}
    /\ cut' = {}
    /\ UNCHANGED <<data, clock, pending, mode, life, warm, net, put, get>>

\* The timeout toxic swallows a request on a cut link.
Drop(m) ==
    /\ m \in net
    /\ ~ m.lost
    /\ OnLink(m) /\ m.left # {}
    /\ <<m.from, m.to>> \in cut
    /\ net' = (net \ {m}) \cup Lose(m)
    /\ UNCHANGED <<data, clock, pending, mode, life, warm, put, get, cut>>

SetMode(n, md) ==
    /\ n \in Switchable
    /\ life[n] # "down"
    /\ mode[n] # md
    /\ mode' = [mode EXCEPT ![n] = md]
    /\ UNCHANGED <<data, clock, pending, life, warm, net, put, get, cut>>

-----------------------------------------------------------------------------

Client ==
    \/ \E w \in Writes, n \in Nodes : NewRecord(w, n)
    \/ \E r \in Reads, n \in Nodes : StartGet(r, n)

PutStep(w) ==
    \/ ApplyAP(w) \/ ReplyAP(w)
    \/ ReplicateSync(w) \/ Commit(w) \/ Reject(w) \/ ReplyCP(w)

GetStep(r) ==
    \/ \E p \in Nodes : Probe(r, p)
    \/ ServeCP(r)
    \/ RefuseCP(r)

CallStep(m) ==
    \/ \E k \in Keys : Replicate(m, k)
    \/ CallSucceeds(m)
    \/ CallFails(m)
    \/ Drop(m)

WarmStep(n) ==
    \/ \E p \in Nodes : FetchSnapshot(n, p) \/ SkipPeer(n, p)
    \/ \E k \in Keys : ApplySnapshot(n, k)
    \/ FinishWarmUp(n)

Operator ==
    \/ \E n \in Nodes : Isolate(n) \/ Crash(n)
    \/ Heal
    \/ \E n \in Nodes, md \in {"ap", "cp"} : SetMode(n, md)

Next ==
    \/ Client
    \/ \E w \in Writes : PutStep(w)
    \/ \E r \in Reads : GetStep(r)
    \/ \E m \in net : CallStep(m)
    \/ \E n \in Nodes, p \in Nodes : SyncSend(n, p)
    \/ \E n \in Nodes : WarmStep(n) \/ Restart(n)
    \/ Operator

Spec == Init /\ [][Next]_vars

SpecUp == InitUp /\ [][Next]_vars

(* Fairness: handler threads, the warm-up thread and Docker's restart policy *)
(* keep going; a request on an open link arrives; the sync loop visits every *)
(* peer in every round and each visit ends within REPL_TIMEOUT.              *)
Fairness ==
    /\ \A w \in Writes : WF_vars(PutStep(w))
    /\ \A r \in Reads : WF_vars(GetStep(r))
    /\ \A n \in Nodes : WF_vars(WarmStep(n)) /\ WF_vars(Restart(n))
    /\ \A n \in Nodes, p \in Nodes :
          /\ SF_vars(SyncSend(n, p))
          /\ \A k \in Keys :
                WF_vars(\E m \in net : m.from = n /\ m.to = p /\ Replicate(m, k))
          /\ WF_vars(\E m \in net : m.from = n /\ m.to = p
                                    /\ (CallSucceeds(m) \/ CallFails(m)))

FairSpec == SpecUp /\ Fairness

-----------------------------------------------------------------------------
(* Properties *)

PutType ==
    [pc : {"idle", "made", "applied", "sent", "committed", "acked", "rejected", "died"},
     via : {"ap", "cp"}, rec : Record, yes : SUBSET Nodes, no : SUBSET Nodes]

GetType ==
    [pc : {"idle", "probing", "served", "refused", "died"}, via : {"ap", "cp"},
     node : Nodes \cup {0}, seen : SUBSET Nodes, floor : SUBSET Writes, res : Record]

WarmType == [ask : SUBSET Nodes, snap : [Keys -> Record], left : SUBSET Keys]

StoreType ==
    /\ data \in [Nodes -> [Keys -> Record]]
    /\ clock \in [Nodes -> Nat]
    /\ pending \in [Nodes -> [Nodes -> [Keys -> Record]]]
    /\ \A n \in Nodes : pending[n][n] = Nothing

NodeType ==
    /\ mode \in [Nodes -> {"ap", "cp"}]
    /\ life \in [Nodes -> {"down", "warming", "ready"}]
    /\ warm \in [Nodes -> WarmType]
    /\ cut \subseteq Nodes \X Nodes

PutsTyped ==
    /\ put \in [Writes -> PutType]
    /\ \A w \in Writes : put[w].pc # "idle" =>
          /\ put[w].rec.val = w /\ put[w].rec.node \in Nodes
          /\ put[w].yes \cup put[w].no \subseteq Peers(put[w].rec.node)
    /\ \A w \in Writes : put[w].pc = "idle" => put[w].yes = {} /\ put[w].no = {}

CallsTyped ==
    /\ net \subseteq CallType
    /\ \A m \in net :
          /\ m.to # m.from
          /\ m.call # NoWrite => put[m.call].pc # "idle" /\ put[m.call].rec.node = m.from

GetsTyped ==
    /\ get \in [Reads -> GetType]
    /\ \A r \in Reads : get[r].pc # "idle" => get[r].node \in Nodes

\* Every variable has its type; a PUT that has begun carries a record of its own
\* and hears only from peers; a call goes to a peer, for the node that makes the
\* PUT it belongs to; and no node owes itself a record.
TypeOK ==
    /\ StoreType
    /\ NodeType
    /\ PutsTyped
    /\ CallsTyped
    /\ GetsTyped

DominatesMemory ==
    \A n \in Nodes, k \in Keys :
        /\ data[n][k].ctr <= clock[n]
        /\ \A p \in Nodes : pending[n][p][k].ctr <= clock[n]

DominatesWork ==
    /\ \A w \in Writes : put[w].pc \in Running => put[w].rec.ctr <= clock[put[w].rec.node]
    /\ \A m \in net : m.waiting /\ m.call # NoWrite => put[m.call].rec.ctr <= clock[m.from]

\* The Lamport condition (kv_node.py:67,73): the clock of a node is at least the
\* counter of every record it stores, still owes a peer, is writing, or has an open
\* call for, so a write it accepts next beats everything the node has seen.
\* Crashes included.
ClockDominates == DominatesMemory /\ DominatesWork

\* What a node stores under a key never goes back to an older version, whatever
\* order replication, the sync loop, snapshots and local writes come in.
NeverGoesBack ==
    [][\A n \in Nodes, k \in Keys :
          life'[n] # "down" => AtLeast(data'[n][k], data[n][k])]_vars

WaitingCall(w, p) == \E m \in net : m.call = w /\ m.to = p /\ m.waiting

\* A write that was acknowledged (or has its quorum) and that a peer has not
\* stored is still queued for that peer, or a call carrying it is open whose
\* failure will queue it: replicate_sync's callbacks, enqueue and the deletion
\* in sync_loop never lose it, in any mix of modes.  No crashes.
OwedWritesAreRemembered ==
    \A w \in Writes :
        put[w].pc \in {"committed", "acked"} =>
            LET n == put[w].rec.node
                k == KeyOf[w]
            IN \A p \in Peers(n) :
                  \/ AtLeast(data[p][k], put[w].rec)
                  \/ AtLeast(pending[n][p][k], put[w].rec)
                  \/ WaitingCall(w, p)

\* A write acknowledged in mode cp is stored, or superseded, on a quorum
\* (kv_node.py:10).  No crashes.
StoredOnQuorum ==
    \A w \in Writes :
        put[w].pc = "acked" /\ put[w].via = "cp" =>
            Cardinality({n \in Nodes : AtLeast(data[n][KeyOf[w]], put[w].rec)}) >= Quorum

(* What a node knows about its peers, without crashes.  Together these parts are *)
(* preserved by every step, and the two properties above follow from them.       *)

\* A call of a PUT carries its record and nothing else.
CallsCarry ==
    \A m \in net : m.call # NoWrite =>
        m.recs = [Nothing EXCEPT ![KeyOf[m.call]] = put[m.call].rec]

\* What the receiver of a call has worked off is stored there or superseded.
Delivered ==
    \A m \in net : \A k \in Keys \ m.left : AtLeast(data[m.to][k], m.recs[k])

\* A peer that voted for a write stores it or a newer one.
VotersStore ==
    \A w \in Writes : \A p \in put[w].yes : AtLeast(data[p][KeyOf[w]], put[w].rec)

\* A write waiting for its quorum has an answer or an open call for every peer.
PeersAccountedFor ==
    \A w \in Writes : put[w].pc = "sent" =>
        \A p \in Peers(put[w].rec.node) :
            p \in put[w].yes \cup put[w].no \/ WaitingCall(w, p)

\* A write is committed only with the votes of a quorum; one that was applied at
\* once needs none.
QuorumVoted ==
    \A w \in Writes :
        /\ put[w].pc = "applied" => put[w].via = "ap"
        /\ put[w].pc \in {"committed", "acked"} /\ put[w].via = "cp" => Votes(w) >= Quorum

\* The node that acknowledged a write stores it or a newer one.
AckedStored ==
    \A w \in Writes : put[w].pc \in {"applied", "acked"} =>
        AtLeast(data[put[w].rec.node][KeyOf[w]], put[w].rec)

\* The whole of the above (replicate_sync, its callbacks, enqueue and sync_loop
\* taken together), in any mix of modes and without crashes.
DurabilityInv ==
    /\ CallsCarry
    /\ Delivered
    /\ VotersStore
    /\ PeersAccountedFor
    /\ QuorumVoted
    /\ AckedStored
    /\ OwedWritesAreRemembered

\* Another PUT got the version of w, too: after a crash the clock of a node restarts from what
\* the peers it reaches still hold.
Reused(w) ==
    \E v \in Writes \ {w} :
        /\ put[v].pc # "idle"
        /\ put[v].rec.ctr = put[w].rec.ctr /\ put[v].rec.node = put[w].rec.node

\* The write itself, or one that beats it.
Keeps(record, w) == record = put[w].rec \/ IsNewer(record, put[w].rec)

\* When fewer nodes than a quorum may crash, a write acknowledged in mode cp, whose version
\* no other PUT got, stays on a node that does not crash until a newer one replaces it.
SurvivesMinorityCrash ==
    \A w \in Writes :
        put[w].pc = "acked" /\ put[w].via = "cp" /\ ~ Reused(w) =>
            \E n \in Nodes \ Crashable : Keeps(data[n][KeyOf[w]], w)

\* A read served by the node that acknowledged a write before the read began
\* returns that write or a newer one, in both modes, unless that node crashes.
ReadYourWrites ==
    \A r \in Reads :
        get[r].pc = "served" =>
            \A w \in get[r].floor :
                put[w].rec.node = get[r].node /\ get[r].node \notin Crashable =>
                    Keeps(get[r].res, w)

\* Writes acknowledged in mode cp outlive a minority of crashes, their node goes on
\* serving them, and a node that is back takes up a clock above everything it was
\* given, so that its next write beats what it replaces (kv_node.py:10, replicate_sync,
\* get_key, and warm_up with Store.apply).
AckedWritesSurvive == SurvivesMinorityCrash /\ ReadYourWrites /\ DominatesMemory

Agreement == \A n, p \in Nodes : data[n] = data[p]

\* Nothing is left to do: no request, no call, no queue, no warm-up.
Quiescent ==
    /\ net = {}
    /\ \A n \in Nodes : life[n] = "ready"
    /\ \A n, p \in Nodes : pending[n][p] = Nothing
    /\ \A w \in Writes : put[w].pc \notin Running

\* Once everything was delivered the replicas agree: "replicas can disagree
\* until the partition heals" (kv_node.py:9).  In any mix of modes, where no PUT
\* was refused half way: a peer may keep a write that was answered 503.
AgreeUnlessRefused ==
    Quiescent /\ (\A w \in Writes : put[w].pc # "rejected") => Agreement

\* If partitions are eventually healed for good and no PUT was refused half way, the
\* replicas come to agree for good, in any mix of modes.  No crashes.
Converges ==
    <>[](cut = {}) /\ [](\A w \in Writes : put[w].pc # "rejected") => <>[]Agreement

=============================================================================
