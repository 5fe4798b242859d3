--------------------------- MODULE KVNode_proofs ---------------------------
(* Proofs about KVNode, for every set of nodes, keys and requests: first types, clocks and *)
(* versions, with crashes; then what an acknowledged write is worth. *)
EXTENDS KVNode, FiniteSetTheorems, TLAPS

LEMMA RecordFacts ==
    /\ NoRecord \in Record
    /\ Nothing \in [Keys -> Record]
    /\ \A x, y \in Record : Newest(x, y) \in Record
    /\ \A a, b \in Nat : Later(a, b) \in Nat
    /\ \A slots \in [Keys -> Record], x \in Record : \A k : Offer(slots, k, x) \in [Keys -> Record]
    /\ \A queue, sent \in [Keys -> Record] : Forget(queue, sent) \in [Keys -> Record]
    /\ \A sent : Forget(Nothing, sent) = Nothing
BY DEF NoRecord, Nothing, Record, Newest, Later, Offer, Forget

LEMMA ApplyType ==
    ASSUME data \in [Nodes -> [Keys -> Record]], clock \in [Nodes -> Nat],
           NEW n, NEW k, NEW x \in Record, Apply(n, k, x)
    PROVE  data' \in [Nodes -> [Keys -> Record]] /\ clock' \in [Nodes -> Nat]
<1>1. x.ctr \in Nat
  BY DEF Record
<1>2. clock' \in [Nodes -> Nat]
  BY <1>1, RecordFacts DEF Apply
<1>3. data' \in [Nodes -> [Keys -> Record]]
  BY RecordFacts DEF Apply
<1> QED BY <1>2, <1>3

LEMMA EnqueueType ==
    ASSUME pending \in [Nodes -> [Nodes -> [Keys -> Record]]],
           \A i \in Nodes : pending[i][i] = Nothing,
           NEW n, NEW ps \in SUBSET Nodes, n \notin ps, NEW k, NEW x \in Record,
           Enqueue(n, ps, k, x)
    PROVE  /\ pending' \in [Nodes -> [Nodes -> [Keys -> Record]]]
           /\ \A i \in Nodes : pending'[i][i] = Nothing
BY RecordFacts DEF Enqueue

-----------------------------------------------------------------------------
(* Rows: the parts of put, net, warm and get that one step replaces. *)

\* What is known of the memory of one node.
LEMMA StoreRow ==
    ASSUME StoreType, NEW n \in Nodes
    PROVE  /\ clock[n] \in Nat
           /\ data[n] \in [Keys -> Record]
           /\ \A k \in Keys : data[n][k] \in Record
           /\ \A p \in Nodes : pending[n][p] \in [Keys -> Record]
<1>1. clock[n] \in Nat
  BY DEF StoreType
<1>2. data[n] \in [Keys -> Record]
  BY DEF StoreType
<1>3. \A p \in Nodes : pending[n][p] \in [Keys -> Record]
  <2>1. pending[n] \in [Nodes -> [Keys -> Record]]
    BY DEF StoreType
  <2> QED BY <2>1
<1> QED BY <1>1, <1>2, <1>3

\* What is known of a PUT that has begun.
LEMMA PutRow ==
    ASSUME PutsTyped, NEW w \in Writes
    PROVE  /\ put[w] \in PutType
           /\ put[w].rec \in Record /\ put[w].rec.ctr \in Nat
           /\ put[w].no \subseteq Nodes /\ put[w].yes \subseteq Nodes
           /\ put[w].pc = "idle" => put[w].yes = {} /\ put[w].no = {}
           /\ put[w].pc # "idle" => /\ put[w].rec.val = w
                                    /\ put[w].rec.node \in Nodes
                                    /\ put[w].rec.node \notin put[w].no
                                    /\ put[w].no \in SUBSET Peers(put[w].rec.node)
                                    /\ put[w].yes \in SUBSET Peers(put[w].rec.node)
<1>1. put[w] \in PutType
  BY DEF PutsTyped
<1>2. put[w].rec \in Record
  BY <1>1 DEF PutType
<1> QED BY <1>1, <1>2 DEF PutType, PutsTyped, Record, Peers

\* Replacing the row of one PUT by a row of the same write.
LEMMA PutRowReplaced ==
    ASSUME PutsTyped, NEW w \in Writes, NEW row \in PutType,
           put' = [put EXCEPT ![w] = row],
           row.pc # "idle", row.rec.val = w, row.rec.node \in Nodes,
           row.yes \subseteq Peers(row.rec.node), row.no \subseteq Peers(row.rec.node),
           put[w].pc # "idle" => row.rec = put[w].rec
    PROVE  /\ PutsTyped'
           /\ \A v \in Writes : put[v].pc # "idle" => /\ put'[v].pc # "idle"
                                                      /\ put'[v].rec = put[v].rec
<1>1. put' \in [Writes -> PutType]
  BY DEF PutsTyped
<1>2. \A v \in Writes : put'[v] = IF v = w THEN row ELSE put[v]
  BY DEF PutsTyped
<1>3. \A v \in Writes : put[v].pc # "idle" => put'[v].pc # "idle" /\ put'[v].rec = put[v].rec
  BY <1>2
<1>4. row.yes \cup row.no \subseteq Peers(row.rec.node)
  OBVIOUS
<1>5. ASSUME NEW v \in Writes, put'[v].pc # "idle"
      PROVE  /\ put'[v].rec.val = v /\ put'[v].rec.node \in Nodes
             /\ put'[v].yes \cup put'[v].no \subseteq Peers(put'[v].rec.node)
  <2>1. CASE v = w
    BY <2>1, <1>2, <1>4
  <2>2. CASE v # w
    BY <2>2, <1>2, <1>5 DEF PutsTyped
  <2> QED BY <2>1, <2>2
<1>6. \A v \in Writes : put'[v].pc = "idle" => put'[v].yes = {} /\ put'[v].no = {}
  BY <1>2 DEF PutsTyped
<1> QED BY <1>1, <1>3, <1>5, <1>6, Zenon DEF PutsTyped

\* What is known of a call.
LEMMA CallRow ==
    ASSUME CallsTyped, PutsTyped, NEW m \in net
    PROVE  /\ m \in CallType
           /\ m.from \in Nodes /\ m.to \in Nodes /\ m.to # m.from
           /\ m.recs \in [Keys -> Record] /\ m.left \subseteq Keys
           /\ m.call # NoWrite => /\ m.call \in Writes
                                  /\ put[m.call].pc # "idle"
                                  /\ put[m.call].rec.node = m.from
<1>1. m \in CallType
  BY DEF CallsTyped
<1> QED BY <1>1 DEF CallsTyped, CallType

SameCall(x, m) == x \in CallType /\ x.from = m.from /\ x.to = m.to /\ x.call = m.call

\* A call given up, lost, or served by one record is still the same call.
LEMMA CallFacts ==
    ASSUME NEW m \in CallType
    PROVE  /\ SameCall(m, m)
           /\ \A x \in Abandon(m) : SameCall(x, m)
           /\ \A x \in Lose(m) : SameCall(x, m)
           /\ \A k : SameCall([m EXCEPT !.left = @ \ {k}], m)
<1>1. SameCall(m, m)
  BY DEF SameCall
<1>2. SameCall([m EXCEPT !.waiting = FALSE], m)
  BY DEF SameCall, CallType
<1>3. SameCall([m EXCEPT !.lost = TRUE], m)
  BY DEF SameCall, CallType
<1>4. \A k : SameCall([m EXCEPT !.left = @ \ {k}], m)
  BY DEF SameCall, CallType
<1> QED BY <1>1, <1>2, <1>3, <1>4 DEF Abandon, Lose

LEMMA NewCall ==
    \A c \in Writes \cup {NoWrite}, n \in Nodes, p \in Nodes, recs \in [Keys -> Record] :
        /\ Call(c, n, p, recs) \in CallType
        /\ Call(c, n, p, recs).call = c
        /\ Call(c, n, p, recs).from = n
        /\ Call(c, n, p, recs).to = p
<1> TAKE c \in Writes \cup {NoWrite}, n \in Nodes, p \in Nodes, recs \in [Keys -> Record]
<1>1. Batch(recs) \in SUBSET Keys
  BY DEF Batch
<1>2. (life[p] = "down") \in BOOLEAN
  OBVIOUS
<1> QED BY <1>1, <1>2 DEF Call, CallType

\* The calls after a step that keeps every PUT that has begun.
LEMMA CallsKept ==
    ASSUME CallsTyped, PutsTyped,
           \A v \in Writes : put[v].pc # "idle" => /\ put'[v].pc # "idle"
                                                   /\ put'[v].rec = put[v].rec,
           \A x \in net' : \/ \E m \in net : SameCall(x, m)
                           \/ /\ x \in CallType /\ x.to # x.from
                              /\ x.call # NoWrite => put'[x.call].pc # "idle" /\ put'[x.call].rec.node = x.from
    PROVE  CallsTyped'
<1>1. ASSUME NEW x \in net' PROVE x \in CallType
  BY <1>1 DEF SameCall
<1>2. ASSUME NEW x \in net'
      PROVE  /\ x.to # x.from
             /\ x.call # NoWrite => put'[x.call].pc # "idle" /\ put'[x.call].rec.node = x.from
  <2>1. CASE \E m \in net : SameCall(x, m)
    <3>1. PICK m \in net : SameCall(x, m)
      BY <2>1
    <3>2. m.to # m.from /\ (m.call # NoWrite => m.call \in Writes /\ put[m.call].pc # "idle"
                                                /\ put[m.call].rec.node = m.from)
      BY CallRow
    <3> QED BY <3>1, <3>2 DEF SameCall
  <2> QED BY <1>2, <2>1
<1> QED BY <1>1, <1>2, Zenon DEF CallsTyped

-----------------------------------------------------------------------------
\* Every step keeps every type (each handler of kv_node.py writes values of the
\* shape the store, the queues and the calls have).
LEMMA TypeStep == TypeOK /\ [Next]_vars => TypeOK'
<1> USE KeyAssumption, WritesAssumption
<1> SUFFICES ASSUME TypeOK, [Next]_vars PROVE TypeOK'
  OBVIOUS
<1>1. ASSUME NEW w \in Writes, NEW n \in Nodes, NewRecord(w, n) PROVE TypeOK'
  <2> DEFINE row == [put[w] EXCEPT !.pc = "made", !.rec = Fresh(w, n)]
  <2>1. put[w].pc = "idle"
    BY <1>1 DEF NewRecord
  <2>2. put' = [put EXCEPT ![w] = row]
    BY <1>1 DEF NewRecord
  <2>3. Fresh(w, n) \in Record /\ Fresh(w, n).val = w /\ Fresh(w, n).node = n
    <3>1. clock[n] + 1 \in Nat
      <4>1. clock[n] \in Nat
        BY StoreRow DEF TypeOK
      <4> QED BY <4>1
    <3> QED BY <3>1 DEF Fresh, Record
  <2>4. put[w].yes = {} /\ put[w].no = {}
    BY <2>1, PutRow DEF TypeOK
  <2>5. row \in PutType
    <3>1. put[w] \in PutType
      BY PutRow DEF TypeOK
    <3> QED BY <2>3, <3>1 DEF PutType
  <2>6. row.pc # "idle" /\ row.rec.val = w /\ row.rec.node \in Nodes
        /\ row.yes \subseteq Peers(row.rec.node) /\ row.no \subseteq Peers(row.rec.node)
        /\ (put[w].pc # "idle" => row.rec = put[w].rec)
    BY <2>1, <2>3, <2>4, PutRow DEF TypeOK, PutType
  <2> HIDE DEF row
  <2>7. /\ PutsTyped'
        /\ \A v \in Writes : put[v].pc # "idle" => put'[v].pc # "idle" /\ put'[v].rec = put[v].rec
    BY <2>2, <2>5, <2>6, PutRowReplaced DEF TypeOK
  <2>13. PutsTyped'
    BY <2>7
  <2>11. StoreType'
    BY <1>1 DEF TypeOK, StoreType, NewRecord
  <2>14. CallsTyped'
    <3>1. net' = net
      BY <1>1 DEF NewRecord
    <3>2. \A x \in net' : \E m \in net : SameCall(x, m)
      BY <3>1, CallRow, CallFacts DEF TypeOK
    <3> QED BY <2>7, <3>2, CallsKept DEF TypeOK
  <2>12. NodeType'
    BY <1>1 DEF TypeOK, NodeType, NewRecord
  <2>15. GetsTyped'
    BY <1>1 DEF TypeOK, GetsTyped, NewRecord
  <2> QED BY <2>11, <2>12, <2>13, <2>14, <2>15 DEF TypeOK
<1>2. ASSUME NEW w \in Writes, ApplyAP(w) PROVE TypeOK'
  <2> DEFINE row == [put[w] EXCEPT !.pc = "applied", !.via = "ap"]
  <2>1. put[w].pc = "made"
    BY <1>2 DEF ApplyAP
  <2>2. put' = [put EXCEPT ![w] = row]
    BY <1>2 DEF ApplyAP
  <2>5. row \in PutType
    <3>1. put[w] \in PutType
      BY PutRow DEF TypeOK
    <3> QED BY <3>1 DEF PutType
  <2>6. row.pc # "idle" /\ row.rec.val = w /\ row.rec.node \in Nodes
        /\ row.yes \subseteq Peers(row.rec.node) /\ row.no \subseteq Peers(row.rec.node)
        /\ (put[w].pc # "idle" => row.rec = put[w].rec)
    BY <2>1, PutRow DEF TypeOK, PutType
  <2> HIDE DEF row
  <2>7. /\ PutsTyped'
        /\ \A v \in Writes : put[v].pc # "idle" => put'[v].pc # "idle" /\ put'[v].rec = put[v].rec
    BY <2>2, <2>5, <2>6, PutRowReplaced DEF TypeOK
  <2>13. PutsTyped'
    BY <2>7
  <2>11. StoreType'
    <3>1. put[w].rec \in Record
      BY PutRow DEF TypeOK
    <3>2. Apply(put[w].rec.node, KeyOf[w], put[w].rec) /\ UNCHANGED pending
      BY <1>2 DEF ApplyAP
    <3> QED BY <3>1, <3>2, ApplyType DEF TypeOK, StoreType
  <2>14. CallsTyped'
    <3>1. net' = net
      BY <1>2 DEF ApplyAP
    <3>2. \A x \in net' : \E m \in net : SameCall(x, m)
      BY <3>1, CallRow, CallFacts DEF TypeOK
    <3> QED BY <2>7, <3>2, CallsKept DEF TypeOK
  <2>12. NodeType'
    BY <1>2 DEF TypeOK, NodeType, ApplyAP
  <2>15. GetsTyped'
    BY <1>2 DEF TypeOK, GetsTyped, ApplyAP
  <2> QED BY <2>11, <2>12, <2>13, <2>14, <2>15 DEF TypeOK
<1>3. ASSUME NEW w \in Writes, ReplyAP(w) PROVE TypeOK'
  <2> DEFINE row == [put[w] EXCEPT !.pc = "acked"]
  <2>1. put[w].pc = "applied"
    BY <1>3 DEF ReplyAP
  <2>2. put' = [put EXCEPT ![w] = row]
    BY <1>3 DEF ReplyAP
  <2>5. row \in PutType
    <3>1. put[w] \in PutType
      BY PutRow DEF TypeOK
    <3> QED BY <3>1 DEF PutType
  <2>6. row.pc # "idle" /\ row.rec.val = w /\ row.rec.node \in Nodes
        /\ row.yes \subseteq Peers(row.rec.node) /\ row.no \subseteq Peers(row.rec.node)
        /\ (put[w].pc # "idle" => row.rec = put[w].rec)
    BY <2>1, PutRow DEF TypeOK, PutType
  <2> HIDE DEF row
  <2>7. /\ PutsTyped'
        /\ \A v \in Writes : put[v].pc # "idle" => put'[v].pc # "idle" /\ put'[v].rec = put[v].rec
    BY <2>2, <2>5, <2>6, PutRowReplaced DEF TypeOK
  <2>13. PutsTyped'
    BY <2>7
  <2>11. StoreType'
    <3>1. /\ put[w].rec \in Record
          /\ Peers(put[w].rec.node) \in SUBSET Nodes /\ put[w].rec.node \notin Peers(put[w].rec.node)
      BY <2>1, PutRow DEF TypeOK, Peers
    <3>2. Enqueue(put[w].rec.node, Peers(put[w].rec.node), KeyOf[w], put[w].rec) /\ UNCHANGED <<data, clock>>
      BY <1>3 DEF ReplyAP
    <3> QED BY <3>1, <3>2, EnqueueType DEF TypeOK, StoreType
  <2>14. CallsTyped'
    <3>1. net' = net
      BY <1>3 DEF ReplyAP
    <3>2. \A x \in net' : \E m \in net : SameCall(x, m)
      BY <3>1, CallRow, CallFacts DEF TypeOK
    <3> QED BY <2>7, <3>2, CallsKept DEF TypeOK
  <2>12. NodeType'
    BY <1>3 DEF TypeOK, NodeType, ReplyAP
  <2>15. GetsTyped'
    BY <1>3 DEF TypeOK, GetsTyped, ReplyAP
  <2> QED BY <2>11, <2>12, <2>13, <2>14, <2>15 DEF TypeOK
<1>4. ASSUME NEW w \in Writes, ReplicateSync(w) PROVE TypeOK'
  <2> DEFINE row == [put[w] EXCEPT !.pc = "sent", !.via = "cp"]
  <2>1. put[w].pc = "made"
    BY <1>4 DEF ReplicateSync
  <2>2. put' = [put EXCEPT ![w] = row]
    BY <1>4 DEF ReplicateSync
  <2>5. row \in PutType
    <3>1. put[w] \in PutType
      BY PutRow DEF TypeOK
    <3> QED BY <3>1 DEF PutType
  <2>6. row.pc # "idle" /\ row.rec.val = w /\ row.rec.node \in Nodes
        /\ row.yes \subseteq Peers(row.rec.node) /\ row.no \subseteq Peers(row.rec.node)
        /\ (put[w].pc # "idle" => row.rec = put[w].rec)
    BY <2>1, PutRow DEF TypeOK, PutType
  <2> HIDE DEF row
  <2>7. /\ PutsTyped'
        /\ \A v \in Writes : put[v].pc # "idle" => put'[v].pc # "idle" /\ put'[v].rec = put[v].rec
    BY <2>2, <2>5, <2>6, PutRowReplaced DEF TypeOK
  <2>13. PutsTyped'
    BY <2>7
  <2>11. StoreType'
    BY <1>4 DEF TypeOK, StoreType, ReplicateSync
  <2>14. CallsTyped'
    <3> DEFINE recs == [Nothing EXCEPT ![KeyOf[w]] = put[w].rec]
               n == put[w].rec.node
    <3>1. recs \in [Keys -> Record] /\ n \in Nodes
      BY <2>1, PutRow, RecordFacts DEF TypeOK
    <3>2. net' = net \cup {Call(w, n, p, recs) : p \in Peers(n)}
      BY <1>4 DEF ReplicateSync
    <3> HIDE DEF recs, n
    <3>3. ASSUME NEW x \in net'
          PROVE  \/ \E m \in net : SameCall(x, m)
                 \/ /\ x \in CallType /\ x.to # x.from
                    /\ x.call # NoWrite => put'[x.call].pc # "idle" /\ put'[x.call].rec.node = x.from
      <4>1. CASE x \in net
        BY <4>1, CallRow, CallFacts DEF TypeOK
      <4>2. CASE x \notin net
        <5>1. PICK p \in Peers(n) : x = Call(w, n, p, recs)
          BY <3>2, <3>3, <4>2
        <5>2. x \in CallType /\ x.call = w /\ x.from = n /\ x.to = p /\ p # n
          <6>1. p \in Nodes /\ p # n
            BY DEF Peers
          <6>2. w \in Writes \cup {NoWrite}
            OBVIOUS
          <6> QED BY <5>1, <6>1, <6>2, <3>1, NewCall
        <5>3. put'[w].pc # "idle" /\ put'[w].rec.node = n
          BY <2>1, <2>7 DEF n
        <5> QED BY <5>2, <5>3
      <4> QED BY <4>1, <4>2
    <3> QED BY <2>7, <3>3, CallsKept DEF TypeOK
  <2>12. NodeType'
    BY <1>4 DEF TypeOK, NodeType, ReplicateSync
  <2>15. GetsTyped'
    BY <1>4 DEF TypeOK, GetsTyped, ReplicateSync
  <2> QED BY <2>11, <2>12, <2>13, <2>14, <2>15 DEF TypeOK
<1>5. ASSUME NEW w \in Writes, Commit(w) PROVE TypeOK'
  <2> DEFINE row == [put[w] EXCEPT !.pc = "committed"]
  <2>1. put[w].pc = "sent"
    BY <1>5 DEF Commit
  <2>2. put' = [put EXCEPT ![w] = row]
    BY <1>5 DEF Commit
  <2>5. row \in PutType
    <3>1. put[w] \in PutType
      BY PutRow DEF TypeOK
    <3> QED BY <3>1 DEF PutType
  <2>6. row.pc # "idle" /\ row.rec.val = w /\ row.rec.node \in Nodes
        /\ row.yes \subseteq Peers(row.rec.node) /\ row.no \subseteq Peers(row.rec.node)
        /\ (put[w].pc # "idle" => row.rec = put[w].rec)
    BY <2>1, PutRow DEF TypeOK, PutType
  <2> HIDE DEF row
  <2>7. /\ PutsTyped'
        /\ \A v \in Writes : put[v].pc # "idle" => put'[v].pc # "idle" /\ put'[v].rec = put[v].rec
    BY <2>2, <2>5, <2>6, PutRowReplaced DEF TypeOK
  <2>13. PutsTyped'
    BY <2>7
  <2>11. StoreType'
    <3>1. /\ put[w].rec \in Record
          /\ put[w].no \in SUBSET Nodes /\ put[w].rec.node \notin put[w].no
      BY <2>1, PutRow DEF TypeOK, Peers
    <3>2. Enqueue(put[w].rec.node, put[w].no, KeyOf[w], put[w].rec) /\ UNCHANGED <<data, clock>>
      BY <1>5 DEF Commit
    <3> QED BY <3>1, <3>2, EnqueueType DEF TypeOK, StoreType
  <2>14. CallsTyped'
    <3>1. net' = net
      BY <1>5 DEF Commit
    <3>2. \A x \in net' : \E m \in net : SameCall(x, m)
      BY <3>1, CallRow, CallFacts DEF TypeOK
    <3> QED BY <2>7, <3>2, CallsKept DEF TypeOK
  <2>12. NodeType'
    BY <1>5 DEF TypeOK, NodeType, Commit
  <2>15. GetsTyped'
    BY <1>5 DEF TypeOK, GetsTyped, Commit
  <2> QED BY <2>11, <2>12, <2>13, <2>14, <2>15 DEF TypeOK
<1>6. ASSUME NEW w \in Writes, Reject(w) PROVE TypeOK'
  <2> DEFINE row == [put[w] EXCEPT !.pc = "rejected"]
  <2>1. put[w].pc = "sent"
    BY <1>6 DEF Reject
  <2>2. put' = [put EXCEPT ![w] = row]
    BY <1>6 DEF Reject
  <2>5. row \in PutType
    <3>1. put[w] \in PutType
      BY PutRow DEF TypeOK
    <3> QED BY <3>1 DEF PutType
  <2>6. row.pc # "idle" /\ row.rec.val = w /\ row.rec.node \in Nodes
        /\ row.yes \subseteq Peers(row.rec.node) /\ row.no \subseteq Peers(row.rec.node)
        /\ (put[w].pc # "idle" => row.rec = put[w].rec)
    BY <2>1, PutRow DEF TypeOK, PutType
  <2> HIDE DEF row
  <2>7. /\ PutsTyped'
        /\ \A v \in Writes : put[v].pc # "idle" => put'[v].pc # "idle" /\ put'[v].rec = put[v].rec
    BY <2>2, <2>5, <2>6, PutRowReplaced DEF TypeOK
  <2>13. PutsTyped'
    BY <2>7
  <2>11. StoreType'
    BY <1>6 DEF TypeOK, StoreType, Reject
  <2>14. CallsTyped'
    <3>1. net' = net
      BY <1>6 DEF Reject
    <3>2. \A x \in net' : \E m \in net : SameCall(x, m)
      BY <3>1, CallRow, CallFacts DEF TypeOK
    <3> QED BY <2>7, <3>2, CallsKept DEF TypeOK
  <2>12. NodeType'
    BY <1>6 DEF TypeOK, NodeType, Reject
  <2>15. GetsTyped'
    BY <1>6 DEF TypeOK, GetsTyped, Reject
  <2> QED BY <2>11, <2>12, <2>13, <2>14, <2>15 DEF TypeOK
<1>7. ASSUME NEW w \in Writes, ReplyCP(w) PROVE TypeOK'
  <2> DEFINE row == [put[w] EXCEPT !.pc = "acked"]
  <2>1. put[w].pc = "committed"
    BY <1>7 DEF ReplyCP
  <2>2. put' = [put EXCEPT ![w] = row]
    BY <1>7 DEF ReplyCP
  <2>5. row \in PutType
    <3>1. put[w] \in PutType
      BY PutRow DEF TypeOK
    <3> QED BY <3>1 DEF PutType
  <2>6. row.pc # "idle" /\ row.rec.val = w /\ row.rec.node \in Nodes
        /\ row.yes \subseteq Peers(row.rec.node) /\ row.no \subseteq Peers(row.rec.node)
        /\ (put[w].pc # "idle" => row.rec = put[w].rec)
    BY <2>1, PutRow DEF TypeOK, PutType
  <2> HIDE DEF row
  <2>7. /\ PutsTyped'
        /\ \A v \in Writes : put[v].pc # "idle" => put'[v].pc # "idle" /\ put'[v].rec = put[v].rec
    BY <2>2, <2>5, <2>6, PutRowReplaced DEF TypeOK
  <2>13. PutsTyped'
    BY <2>7
  <2>11. StoreType'
    <3>1. put[w].rec \in Record
      BY PutRow DEF TypeOK
    <3>2. Apply(put[w].rec.node, KeyOf[w], put[w].rec) /\ UNCHANGED pending
      BY <1>7 DEF ReplyCP
    <3> QED BY <3>1, <3>2, ApplyType DEF TypeOK, StoreType
  <2>14. CallsTyped'
    <3>1. net' = net
      BY <1>7 DEF ReplyCP
    <3>2. \A x \in net' : \E m \in net : SameCall(x, m)
      BY <3>1, CallRow, CallFacts DEF TypeOK
    <3> QED BY <2>7, <3>2, CallsKept DEF TypeOK
  <2>12. NodeType'
    BY <1>7 DEF TypeOK, NodeType, ReplyCP
  <2>15. GetsTyped'
    BY <1>7 DEF TypeOK, GetsTyped, ReplyCP
  <2> QED BY <2>11, <2>12, <2>13, <2>14, <2>15 DEF TypeOK
<1>8. ASSUME NEW m \in net, NEW k \in Keys, Replicate(m, k) PROVE TypeOK'
  <2>1. /\ m \in CallType /\ m.from \in Nodes /\ m.to \in Nodes /\ m.to # m.from
        /\ m.recs \in [Keys -> Record]
        /\ m.call # NoWrite => /\ m.call \in Writes /\ put[m.call].pc # "idle"
                               /\ put[m.call].rec.node = m.from
    BY CallRow DEF TypeOK
  <2>2. \A x \in net' : \E y \in net : SameCall(x, y)
    <3>1. \A y \in net : SameCall(y, y)
      BY CallRow, CallFacts DEF TypeOK
    <3>2. \A x \in net' : x \in net \/ SameCall(x, m)
      BY <1>8, <2>1, CallFacts DEF Replicate
    <3> QED BY <3>1, <3>2
  <2>14. CallsTyped'
    <3>1. UNCHANGED put
      BY <1>8 DEF Replicate
    <3> QED BY <3>1, <2>2, CallsKept DEF TypeOK
  <2>11. StoreType'
    <3>1. Apply(m.to, k, m.recs[k]) /\ UNCHANGED pending
      BY <1>8 DEF Replicate
    <3>2. m.recs[k] \in Record
      BY <2>1
    <3> QED BY <3>1, <3>2, ApplyType DEF TypeOK, StoreType
  <2>12. NodeType'
    BY <1>8 DEF TypeOK, NodeType, Replicate
  <2>13. PutsTyped'
    BY <1>8 DEF TypeOK, PutsTyped, Replicate
  <2>15. GetsTyped'
    BY <1>8 DEF TypeOK, GetsTyped, Replicate
  <2> QED BY <2>11, <2>12, <2>13, <2>14, <2>15 DEF TypeOK
<1>9. ASSUME NEW m \in net, CallSucceeds(m) PROVE TypeOK'
  <2>1. /\ m \in CallType /\ m.from \in Nodes /\ m.to \in Nodes /\ m.to # m.from
        /\ m.recs \in [Keys -> Record]
        /\ m.call # NoWrite => /\ m.call \in Writes /\ put[m.call].pc # "idle"
                               /\ put[m.call].rec.node = m.from
    BY CallRow DEF TypeOK
  <2>2. \A x \in net' : \E y \in net : SameCall(x, y)
    <3>1. \A y \in net : SameCall(y, y)
      BY CallRow, CallFacts DEF TypeOK
    <3>2. \A x \in net' : x \in net \/ SameCall(x, m)
      BY <1>9, <2>1, CallFacts DEF CallSucceeds
    <3> QED BY <3>1, <3>2
  <2>3. /\ PutsTyped'
        /\ \A v \in Writes : put[v].pc # "idle" => put'[v].pc # "idle" /\ put'[v].rec = put[v].rec
    <3>1. CASE m.call = NoWrite
      BY <1>9, <3>1 DEF TypeOK, PutsTyped, CallSucceeds
    <3>2. CASE m.call # NoWrite
      <4> DEFINE row == [put[m.call] EXCEPT !.yes = @ \cup {m.to}]
      <4>1. put' = [put EXCEPT ![m.call] = row]
        BY <1>9, <3>2 DEF CallSucceeds
      <4>2. row \in PutType
        BY <2>1, <3>2, PutRow DEF TypeOK, PutType
      <4>3. /\ row.pc # "idle" /\ row.rec.val = m.call /\ row.rec.node \in Nodes
            /\ row.yes \subseteq Peers(row.rec.node) /\ row.no \subseteq Peers(row.rec.node)
            /\ row.rec = put[m.call].rec
        BY <2>1, <3>2, PutRow DEF TypeOK, PutType, Peers
      <4> HIDE DEF row
      <4> QED BY <2>1, <3>2, <4>1, <4>2, <4>3, PutRowReplaced DEF TypeOK
    <3> QED BY <3>1, <3>2
  <2>13. PutsTyped'
    BY <2>3
  <2>14. CallsTyped'
    BY <2>2, <2>3, CallsKept DEF TypeOK
  <2>11. StoreType'
    <3>1. CASE m.call = NoWrite
      <4>1. /\ pending' = [pending EXCEPT ![m.from][m.to] = Forget(pending[m.from][m.to], m.recs)]
            /\ UNCHANGED <<data, clock>>
        BY <1>9, <3>1 DEF CallSucceeds
      <4>2. Forget(pending[m.from][m.to], m.recs) \in [Keys -> Record]
        <5>1. pending[m.from][m.to] \in [Keys -> Record]
          BY <2>1, StoreRow DEF TypeOK
        <5> QED BY <2>1, <5>1, RecordFacts
      <4> QED BY <2>1, <4>1, <4>2 DEF TypeOK, StoreType
    <3>2. CASE m.call # NoWrite
      BY <1>9, <3>2 DEF TypeOK, StoreType, CallSucceeds
    <3> QED BY <3>1, <3>2
  <2>12. NodeType'
    BY <1>9 DEF TypeOK, NodeType, CallSucceeds
  <2>15. GetsTyped'
    BY <1>9 DEF TypeOK, GetsTyped, CallSucceeds
  <2> QED BY <2>11, <2>12, <2>13, <2>14, <2>15 DEF TypeOK
<1>10. ASSUME NEW m \in net, CallFails(m) PROVE TypeOK'
  <2>1. /\ m \in CallType /\ m.from \in Nodes /\ m.to \in Nodes /\ m.to # m.from
        /\ m.recs \in [Keys -> Record]
        /\ m.call # NoWrite => /\ m.call \in Writes /\ put[m.call].pc # "idle"
                               /\ put[m.call].rec.node = m.from
    BY CallRow DEF TypeOK
  <2>2. \A x \in net' : \E y \in net : SameCall(x, y)
    <3>1. \A y \in net : SameCall(y, y)
      BY CallRow, CallFacts DEF TypeOK
    <3>2. \A x \in net' : x \in net \/ SameCall(x, m)
      BY <1>10, <2>1, CallFacts DEF CallFails
    <3> QED BY <3>1, <3>2
  <2>3. /\ PutsTyped'
        /\ \A v \in Writes : put[v].pc # "idle" => put'[v].pc # "idle" /\ put'[v].rec = put[v].rec
    <3>1. CASE m.call = NoWrite
      BY <1>10, <3>1 DEF TypeOK, PutsTyped, CallFails
    <3>2. CASE m.call # NoWrite
      <4> DEFINE row == [put[m.call] EXCEPT !.no = @ \cup {m.to}]
      <4>1. put' = [put EXCEPT ![m.call] = row]
        BY <1>10, <3>2 DEF CallFails
      <4>2. row \in PutType
        BY <2>1, <3>2, PutRow DEF TypeOK, PutType
      <4>3. /\ row.pc # "idle" /\ row.rec.val = m.call /\ row.rec.node \in Nodes
            /\ row.yes \subseteq Peers(row.rec.node) /\ row.no \subseteq Peers(row.rec.node)
            /\ row.rec = put[m.call].rec
        BY <2>1, <3>2, PutRow DEF TypeOK, PutType, Peers
      <4> HIDE DEF row
      <4> QED BY <2>1, <3>2, <4>1, <4>2, <4>3, PutRowReplaced DEF TypeOK
    <3> QED BY <3>1, <3>2
  <2>13. PutsTyped'
    BY <2>3
  <2>14. CallsTyped'
    BY <2>2, <2>3, CallsKept DEF TypeOK
  <2>11. StoreType'
    <3>1. CASE UNCHANGED pending
      BY <1>10, <3>1 DEF TypeOK, StoreType, CallFails
    <3>2. CASE ~ UNCHANGED pending
      <4>1. /\ m.call # NoWrite
            /\ Enqueue(m.from, {m.to}, KeyOf[m.call], put[m.call].rec)
            /\ UNCHANGED <<data, clock>>
        BY <1>10, <3>2 DEF CallFails
      <4>2. put[m.call].rec \in Record /\ {m.to} \in SUBSET Nodes /\ m.from \notin {m.to}
        BY <2>1, <4>1, PutRow DEF TypeOK
      <4> QED BY <4>1, <4>2, EnqueueType DEF TypeOK, StoreType
    <3> QED BY <3>1, <3>2
  <2>12. NodeType'
    BY <1>10 DEF TypeOK, NodeType, CallFails
  <2>15. GetsTyped'
    BY <1>10 DEF TypeOK, GetsTyped, CallFails
  <2> QED BY <2>11, <2>12, <2>13, <2>14, <2>15 DEF TypeOK
<1>11. ASSUME NEW m \in net, Drop(m) PROVE TypeOK'
  <2>1. /\ m \in CallType /\ m.from \in Nodes /\ m.to \in Nodes /\ m.to # m.from
        /\ m.recs \in [Keys -> Record]
        /\ m.call # NoWrite => /\ m.call \in Writes /\ put[m.call].pc # "idle"
                               /\ put[m.call].rec.node = m.from
    BY CallRow DEF TypeOK
  <2>2. \A x \in net' : \E y \in net : SameCall(x, y)
    <3>1. \A y \in net : SameCall(y, y)
      BY CallRow, CallFacts DEF TypeOK
    <3>2. \A x \in net' : x \in net \/ SameCall(x, m)
      BY <1>11, <2>1, CallFacts DEF Drop
    <3> QED BY <3>1, <3>2
  <2>14. CallsTyped'
    <3>1. UNCHANGED put
      BY <1>11 DEF Drop
    <3> QED BY <3>1, <2>2, CallsKept DEF TypeOK
  <2>11. StoreType'
    BY <1>11 DEF TypeOK, StoreType, Drop
  <2>12. NodeType'
    BY <1>11 DEF TypeOK, NodeType, Drop
  <2>13. PutsTyped'
    BY <1>11 DEF TypeOK, PutsTyped, Drop
  <2>15. GetsTyped'
    BY <1>11 DEF TypeOK, GetsTyped, Drop
  <2> QED BY <2>11, <2>12, <2>13, <2>14, <2>15 DEF TypeOK
<1>12. ASSUME NEW n \in Nodes, NEW p \in Nodes, SyncSend(n, p) PROVE TypeOK'
  <2>1. pending[n][p] \in [Keys -> Record]
    BY DEF TypeOK, StoreType
  <2>2. /\ Call(NoWrite, n, p, pending[n][p]) \in CallType
        /\ Call(NoWrite, n, p, pending[n][p]).call = NoWrite
        /\ Call(NoWrite, n, p, pending[n][p]).from = n
        /\ Call(NoWrite, n, p, pending[n][p]).to = p
    <3>1. NoWrite \in Writes \cup {NoWrite}
      OBVIOUS
    <3> QED BY <2>1, <3>1, NewCall
  <2>3. net' = net \cup {Call(NoWrite, n, p, pending[n][p])} /\ p # n /\ UNCHANGED put
    BY <1>12 DEF SyncSend
  <2>14. CallsTyped'
    <3>1. \A y \in net : SameCall(y, y)
      BY CallRow, CallFacts DEF TypeOK
    <3> HIDE DEF SameCall
    <3> QED BY <2>2, <2>3, <3>1, CallsKept DEF TypeOK
  <2>11. StoreType'
    BY <1>12 DEF TypeOK, StoreType, SyncSend
  <2>12. NodeType'
    BY <1>12 DEF TypeOK, NodeType, SyncSend
  <2>13. PutsTyped'
    BY <1>12 DEF TypeOK, PutsTyped, SyncSend
  <2>15. GetsTyped'
    BY <1>12 DEF TypeOK, GetsTyped, SyncSend
  <2> QED BY <2>11, <2>12, <2>13, <2>14, <2>15 DEF TypeOK
<1>13. ASSUME NEW r \in Reads, NEW n \in Nodes, StartGet(r, n) PROVE TypeOK'
  <2>15. GetsTyped'
    <3> DEFINE row == [pc |-> IF mode[n] = "cp" THEN "probing" ELSE "served",
                       via |-> mode[n], node |-> n, seen |-> {},
                       floor |-> AckedWrites(ReadKeyOf[r]),
                       res |-> IF mode[n] = "cp" THEN NoRecord ELSE data[n][ReadKeyOf[r]]]
    <3>1. AckedWrites(ReadKeyOf[r]) \in SUBSET Writes
      BY DEF AckedWrites
    <3>2. mode[n] \in {"ap", "cp"} /\ data[n][ReadKeyOf[r]] \in Record
      BY DEF TypeOK, NodeType, StoreType
    <3>3. row \in GetType
      BY <3>1, <3>2, RecordFacts DEF GetType
    <3>4. get' = [get EXCEPT ![r] = row]
      BY <1>13 DEF StartGet
    <3>5. row.node \in Nodes
      OBVIOUS
    <3> HIDE DEF row
    <3> QED BY <3>3, <3>4, <3>5 DEF TypeOK, GetsTyped
  <2>11. StoreType'
    BY <1>13 DEF TypeOK, StoreType, StartGet
  <2>12. NodeType'
    BY <1>13 DEF TypeOK, NodeType, StartGet
  <2>13. PutsTyped'
    BY <1>13 DEF TypeOK, PutsTyped, StartGet
  <2>14. CallsTyped'
    BY <1>13 DEF TypeOK, CallsTyped, StartGet
  <2> QED BY <2>11, <2>12, <2>13, <2>14, <2>15 DEF TypeOK
<1>14. ASSUME NEW r \in Reads, NEW p \in Nodes, Probe(r, p) PROVE TypeOK'
  <2>15. GetsTyped'
    <3> DEFINE row == [get[r] EXCEPT !.seen = @ \cup {p}]
    <3>1. get[r] \in GetType
      BY DEF TypeOK, GetsTyped
    <3>3. row \in GetType
      BY <3>1 DEF GetType
    <3>4. get' = [get EXCEPT ![r] = row]
      BY <1>14 DEF Probe
    <3>5. row.node \in Nodes
      BY <1>14, <3>1 DEF Probe, TypeOK, GetsTyped
    <3> HIDE DEF row
    <3> QED BY <3>3, <3>4, <3>5 DEF TypeOK, GetsTyped
  <2>11. StoreType'
    BY <1>14 DEF TypeOK, StoreType, Probe
  <2>12. NodeType'
    BY <1>14 DEF TypeOK, NodeType, Probe
  <2>13. PutsTyped'
    BY <1>14 DEF TypeOK, PutsTyped, Probe
  <2>14. CallsTyped'
    BY <1>14 DEF TypeOK, CallsTyped, Probe
  <2> QED BY <2>11, <2>12, <2>13, <2>14, <2>15 DEF TypeOK
<1>15. ASSUME NEW r \in Reads, ServeCP(r) PROVE TypeOK'
  <2>15. GetsTyped'
    <3> DEFINE row == [get[r] EXCEPT !.pc = "served", !.res = data[get[r].node][ReadKeyOf[r]]]
    <3>1. get[r] \in GetType
      BY DEF TypeOK, GetsTyped
    <3>2. data[get[r].node][ReadKeyOf[r]] \in Record
      <4>1. get[r].node \in Nodes
        BY <1>15, <3>1 DEF ServeCP, TypeOK, GetsTyped
      <4>2. ReadKeyOf[r] \in Keys
        OBVIOUS
      <4> QED BY <4>1, <4>2, StoreRow DEF TypeOK
    <3>3. row \in GetType
      BY <3>1, <3>2 DEF GetType
    <3>4. get' = [get EXCEPT ![r] = row]
      BY <1>15 DEF ServeCP
    <3>5. row.node \in Nodes
      BY <1>15, <3>1 DEF ServeCP, TypeOK, GetsTyped
    <3> HIDE DEF row
    <3> QED BY <3>3, <3>4, <3>5 DEF TypeOK, GetsTyped
  <2>11. StoreType'
    BY <1>15 DEF TypeOK, StoreType, ServeCP
  <2>12. NodeType'
    BY <1>15 DEF TypeOK, NodeType, ServeCP
  <2>13. PutsTyped'
    BY <1>15 DEF TypeOK, PutsTyped, ServeCP
  <2>14. CallsTyped'
    BY <1>15 DEF TypeOK, CallsTyped, ServeCP
  <2> QED BY <2>11, <2>12, <2>13, <2>14, <2>15 DEF TypeOK
<1>16. ASSUME NEW r \in Reads, RefuseCP(r) PROVE TypeOK'
  <2>15. GetsTyped'
    <3> DEFINE row == [get[r] EXCEPT !.pc = "refused"]
    <3>1. get[r] \in GetType
      BY DEF TypeOK, GetsTyped
    <3>3. row \in GetType
      BY <3>1 DEF GetType
    <3>4. get' = [get EXCEPT ![r] = row]
      BY <1>16 DEF RefuseCP
    <3>5. row.node \in Nodes
      BY <1>16, <3>1 DEF RefuseCP, TypeOK, GetsTyped
    <3> HIDE DEF row
    <3> QED BY <3>3, <3>4, <3>5 DEF TypeOK, GetsTyped
  <2>11. StoreType'
    BY <1>16 DEF TypeOK, StoreType, RefuseCP
  <2>12. NodeType'
    BY <1>16 DEF TypeOK, NodeType, RefuseCP
  <2>13. PutsTyped'
    BY <1>16 DEF TypeOK, PutsTyped, RefuseCP
  <2>14. CallsTyped'
    BY <1>16 DEF TypeOK, CallsTyped, RefuseCP
  <2> QED BY <2>11, <2>12, <2>13, <2>14, <2>15 DEF TypeOK
<1>17. ASSUME NEW n \in Nodes, Crash(n) PROVE TypeOK'
  <2>1. /\ data' = [data EXCEPT ![n] = Nothing] /\ clock' = [clock EXCEPT ![n] = 0]
        /\ pending' = [pending EXCEPT ![n] = [p \in Nodes |-> Nothing]]
        /\ mode' = [mode EXCEPT ![n] = ModeDefault] /\ life' = [life EXCEPT ![n] = "down"]
        /\ warm' = [warm EXCEPT ![n] = NoWarmUp]
        /\ net' = Sever(n) /\ UNCHANGED cut
    BY <1>17 DEF Crash
  <2>11. StoreType'
    BY <2>1 DEF TypeOK, StoreType
  <2>12. NodeType'
    <3>1. NoWarmUp \in WarmType
      BY RecordFacts DEF NoWarmUp, WarmType
    <3> QED BY <2>1, <3>1, ModeAssumption DEF TypeOK, NodeType
  <2>2. put' = [w \in Writes |-> IF put[w].rec.node = n /\ put[w].pc \in Running
                                 THEN [put[w] EXCEPT !.pc = "died"] ELSE put[w]]
    BY <1>17 DEF Crash
  <2>3. ASSUME NEW w \in Writes
        PROVE  /\ put'[w] \in PutType /\ put'[w].rec = put[w].rec
               /\ put'[w].yes = put[w].yes /\ put'[w].no = put[w].no
               /\ (put'[w].pc = "idle") = (put[w].pc = "idle")
    BY <2>2, PutRow DEF TypeOK, PutType, Running
  <2>13. PutsTyped'
    <3>1. put' \in [Writes -> PutType]
      BY <2>2, <2>3
    <3> QED BY <2>3, <3>1, Zenon DEF TypeOK, PutsTyped
  <2>14. CallsTyped'
    <3>1. \A m \in net : m \in CallType
      BY CallRow DEF TypeOK
    <3>2. ASSUME NEW x \in net' PROVE \E m \in net : SameCall(x, m)
      <4>1. PICK m \in net : \/ x \in Lose(m) \/ x \in Abandon(m) \/ x = m
        BY <2>1, <3>2 DEF Sever, Severed
      <4> QED BY <3>1, <4>1, CallFacts
    <3> QED BY <2>3, <3>2, CallsKept DEF TypeOK
  <2>15. GetsTyped'
    <3>1. \A r \in Reads : [get[r] EXCEPT !.pc = "died"] \in GetType
      BY DEF TypeOK, GetType, GetsTyped
    <3>2. get' = [r \in Reads |-> IF get[r].node = n /\ get[r].pc = "probing"
                                  THEN [get[r] EXCEPT !.pc = "died"] ELSE get[r]]
      BY <1>17 DEF Crash
    <3> QED BY <3>1, <3>2 DEF TypeOK, GetsTyped, GetType
  <2> QED BY <2>11, <2>12, <2>13, <2>14, <2>15 DEF TypeOK
<1>18. ASSUME NEW n \in Nodes, Restart(n) PROVE TypeOK'
  <2>1. warm[n] \in WarmType /\ data \in [Nodes -> [Keys -> Record]]
    BY DEF TypeOK, NodeType, StoreType
  <2>12. NodeType'
    <3> DEFINE row == [warm[n] EXCEPT !.ask = Peers(n)]
    <3>1. row \in WarmType
      BY <2>1, RecordFacts DEF WarmType, Peers, Batch
    <3>2. warm' = [warm EXCEPT ![n] = row]
      BY <1>18 DEF Restart
    <3>3. /\ mode' \in [Nodes -> {"ap", "cp"}] /\ cut' \subseteq Nodes \X Nodes
          /\ life' \in [Nodes -> {"down", "warming", "ready"}]
      BY <1>18 DEF Restart, TypeOK, NodeType
    <3> HIDE DEF row
    <3> QED BY <3>1, <3>2, <3>3 DEF TypeOK, NodeType
  <2>11. StoreType'
    BY <1>18 DEF TypeOK, StoreType, Restart
  <2>13. PutsTyped'
    BY <1>18 DEF TypeOK, PutsTyped, Restart
  <2>14. CallsTyped'
    BY <1>18 DEF TypeOK, CallsTyped, Restart
  <2>15. GetsTyped'
    BY <1>18 DEF TypeOK, GetsTyped, Restart
  <2> QED BY <2>11, <2>12, <2>13, <2>14, <2>15 DEF TypeOK
<1>19. ASSUME NEW n \in Nodes, NEW p \in Nodes, FetchSnapshot(n, p) PROVE TypeOK'
  <2>1. warm[n] \in WarmType /\ data \in [Nodes -> [Keys -> Record]]
    BY DEF TypeOK, NodeType, StoreType
  <2>12. NodeType'
    <3> DEFINE row == [ask |-> warm[n].ask \ {p}, snap |-> data[p], left |-> Batch(data[p])]
    <3>1. row \in WarmType
      BY <2>1, RecordFacts DEF WarmType, Peers, Batch
    <3>2. warm' = [warm EXCEPT ![n] = row]
      BY <1>19 DEF FetchSnapshot
    <3>3. /\ mode' \in [Nodes -> {"ap", "cp"}] /\ cut' \subseteq Nodes \X Nodes
          /\ life' \in [Nodes -> {"down", "warming", "ready"}]
      BY <1>19 DEF FetchSnapshot, TypeOK, NodeType
    <3> HIDE DEF row
    <3> QED BY <3>1, <3>2, <3>3 DEF TypeOK, NodeType
  <2>11. StoreType'
    BY <1>19 DEF TypeOK, StoreType, FetchSnapshot
  <2>13. PutsTyped'
    BY <1>19 DEF TypeOK, PutsTyped, FetchSnapshot
  <2>14. CallsTyped'
    BY <1>19 DEF TypeOK, CallsTyped, FetchSnapshot
  <2>15. GetsTyped'
    BY <1>19 DEF TypeOK, GetsTyped, FetchSnapshot
  <2> QED BY <2>11, <2>12, <2>13, <2>14, <2>15 DEF TypeOK
<1>20. ASSUME NEW n \in Nodes, NEW p \in Nodes, SkipPeer(n, p) PROVE TypeOK'
  <2>1. warm[n] \in WarmType /\ data \in [Nodes -> [Keys -> Record]]
    BY DEF TypeOK, NodeType, StoreType
  <2>12. NodeType'
    <3> DEFINE row == [warm[n] EXCEPT !.ask = @ \ {p}]
    <3>1. row \in WarmType
      BY <2>1, RecordFacts DEF WarmType, Peers, Batch
    <3>2. warm' = [warm EXCEPT ![n] = row]
      BY <1>20 DEF SkipPeer
    <3>3. /\ mode' \in [Nodes -> {"ap", "cp"}] /\ cut' \subseteq Nodes \X Nodes
          /\ life' \in [Nodes -> {"down", "warming", "ready"}]
      BY <1>20 DEF SkipPeer, TypeOK, NodeType
    <3> HIDE DEF row
    <3> QED BY <3>1, <3>2, <3>3 DEF TypeOK, NodeType
  <2>11. StoreType'
    BY <1>20 DEF TypeOK, StoreType, SkipPeer
  <2>13. PutsTyped'
    BY <1>20 DEF TypeOK, PutsTyped, SkipPeer
  <2>14. CallsTyped'
    BY <1>20 DEF TypeOK, CallsTyped, SkipPeer
  <2>15. GetsTyped'
    BY <1>20 DEF TypeOK, GetsTyped, SkipPeer
  <2> QED BY <2>11, <2>12, <2>13, <2>14, <2>15 DEF TypeOK
<1>21. ASSUME NEW n \in Nodes, NEW k \in Keys, ApplySnapshot(n, k) PROVE TypeOK'
  <2>1. warm[n] \in WarmType /\ data \in [Nodes -> [Keys -> Record]]
    BY DEF TypeOK, NodeType, StoreType
  <2>12. NodeType'
    <3> DEFINE row == [ask |-> warm[n].ask, left |-> warm[n].left \ {k},
                       snap |-> [warm[n].snap EXCEPT ![k] = NoRecord]]
    <3>1. row \in WarmType
      BY <2>1, RecordFacts DEF WarmType, Peers, Batch
    <3>2. warm' = [warm EXCEPT ![n] = row]
      BY <1>21 DEF ApplySnapshot
    <3>3. /\ mode' \in [Nodes -> {"ap", "cp"}] /\ cut' \subseteq Nodes \X Nodes
          /\ life' \in [Nodes -> {"down", "warming", "ready"}]
      BY <1>21 DEF ApplySnapshot, TypeOK, NodeType
    <3> HIDE DEF row
    <3> QED BY <3>1, <3>2, <3>3 DEF TypeOK, NodeType
  <2>11. StoreType'
    <3>1. Apply(n, k, warm[n].snap[k]) /\ UNCHANGED pending
      BY <1>21 DEF ApplySnapshot
    <3>2. warm[n].snap[k] \in Record
      BY <2>1 DEF WarmType
    <3> QED BY <3>1, <3>2, ApplyType DEF TypeOK, StoreType
  <2>13. PutsTyped'
    BY <1>21 DEF TypeOK, PutsTyped, ApplySnapshot
  <2>14. CallsTyped'
    BY <1>21 DEF TypeOK, CallsTyped, ApplySnapshot
  <2>15. GetsTyped'
    BY <1>21 DEF TypeOK, GetsTyped, ApplySnapshot
  <2> QED BY <2>11, <2>12, <2>13, <2>14, <2>15 DEF TypeOK
<1>22. ASSUME NEW n \in Nodes, FinishWarmUp(n) PROVE TypeOK'
  <2>11. StoreType'
    BY <1>22 DEF TypeOK, StoreType, FinishWarmUp
  <2>12. NodeType'
    BY <1>22 DEF TypeOK, NodeType, FinishWarmUp
  <2>13. PutsTyped'
    BY <1>22 DEF TypeOK, PutsTyped, FinishWarmUp
  <2>14. CallsTyped'
    BY <1>22 DEF TypeOK, CallsTyped, FinishWarmUp
  <2>15. GetsTyped'
    BY <1>22 DEF TypeOK, GetsTyped, FinishWarmUp
  <2> QED BY <2>11, <2>12, <2>13, <2>14, <2>15 DEF TypeOK
<1>23. ASSUME NEW n \in Nodes, Isolate(n) PROVE TypeOK'
  <2>12. NodeType'
    <3>1. Links(n) \subseteq Nodes \X Nodes
      <4>1. \A q \in Peers(n) : <<n, q>> \in Nodes \X Nodes /\ <<q, n>> \in Nodes \X Nodes
        BY DEF Peers
      <4> QED BY <4>1 DEF Links
    <3> QED BY <1>23, <3>1 DEF TypeOK, NodeType, Isolate
  <2>11. StoreType'
    BY <1>23 DEF TypeOK, StoreType, Isolate
  <2>13. PutsTyped'
    BY <1>23 DEF TypeOK, PutsTyped, Isolate
  <2>14. CallsTyped'
    BY <1>23 DEF TypeOK, CallsTyped, Isolate
  <2>15. GetsTyped'
    BY <1>23 DEF TypeOK, GetsTyped, Isolate
  <2> QED BY <2>11, <2>12, <2>13, <2>14, <2>15 DEF TypeOK
<1>24. CASE Heal
  <2>11. StoreType'
    BY <1>24 DEF TypeOK, StoreType, Heal
  <2>12. NodeType'
    BY <1>24 DEF TypeOK, NodeType, Heal
  <2>13. PutsTyped'
    BY <1>24 DEF TypeOK, PutsTyped, Heal
  <2>14. CallsTyped'
    BY <1>24 DEF TypeOK, CallsTyped, Heal
  <2>15. GetsTyped'
    BY <1>24 DEF TypeOK, GetsTyped, Heal
  <2> QED BY <2>11, <2>12, <2>13, <2>14, <2>15 DEF TypeOK
<1>25. ASSUME NEW n \in Nodes, NEW md \in {"ap", "cp"}, SetMode(n, md) PROVE TypeOK'
  <2>11. StoreType'
    BY <1>25 DEF TypeOK, StoreType, SetMode
  <2>12. NodeType'
    BY <1>25 DEF TypeOK, NodeType, SetMode
  <2>13. PutsTyped'
    BY <1>25 DEF TypeOK, PutsTyped, SetMode
  <2>14. CallsTyped'
    BY <1>25 DEF TypeOK, CallsTyped, SetMode
  <2>15. GetsTyped'
    BY <1>25 DEF TypeOK, GetsTyped, SetMode
  <2> QED BY <2>11, <2>12, <2>13, <2>14, <2>15 DEF TypeOK
<1>26. CASE UNCHANGED vars
  BY <1>26 DEF TypeOK, StoreType, NodeType, PutsTyped, CallsTyped, GetsTyped, vars
<1> QED
  BY <1>1, <1>2, <1>3, <1>4, <1>5, <1>6, <1>7, <1>8, <1>9, <1>10, <1>11, <1>12, <1>13, <1>14, <1>15, <1>16, <1>17, <1>18, <1>19, <1>20, <1>21, <1>22, <1>23, <1>24, <1>25, <1>26
  DEF Next, Client, PutStep, GetStep, CallStep, WarmStep, Operator

\* Type correctness of the whole run, from a cold start, with crashes, partitions
\* and mode switches: no handler of kv_node.py leaves a store, queue, call or
\* request in a shape another handler does not expect.
THEOREM TypeCorrect == Spec => []TypeOK
<1>1. Init => TypeOK
  <2> SUFFICES ASSUME Init PROVE TypeOK
    OBVIOUS
  <2> USE NodesAssumption, KeyAssumption, ModeAssumption, RecordFacts
  <2>1. StoreType
    BY DEF Init, InitWith, StoreType
  <2>2. NodeType
    <3>1. \A n \in Nodes : [NoWarmUp EXCEPT !.ask = Peers(n)] \in WarmType
      BY DEF NoWarmUp, WarmType, Peers
    <3> QED BY <3>1 DEF Init, InitWith, NodeType
  <2>3. PutsTyped
    <3>1. IdlePut \in PutType /\ IdlePut.pc = "idle" /\ IdlePut.yes = {} /\ IdlePut.no = {}
      BY DEF IdlePut, PutType
    <3> QED BY <3>1 DEF Init, InitWith, PutsTyped
  <2>4. CallsTyped
    BY DEF Init, InitWith, CallsTyped
  <2>5. GetsTyped
    <3>1. IdleGet \in GetType /\ IdleGet.pc = "idle"
      BY DEF IdleGet, GetType
    <3> QED BY <3>1 DEF Init, InitWith, GetsTyped
  <2> QED BY <2>1, <2>2, <2>3, <2>4, <2>5 DEF TypeOK
<1> QED BY <1>1, TypeStep, PTL DEF Spec

-----------------------------------------------------------------------------
(* Versions *)

\* The version order is total, and Newest picks the larger record.
LEMMA VersionOrder ==
    /\ \A x \in Record : x.ctr \in Nat /\ x.node \in Nat
    /\ \A x \in Record : AtLeast(x, x) /\ AtLeast(x, NoRecord)
    /\ \A x, y \in Record : AtLeast(Newest(x, y), x) /\ AtLeast(Newest(x, y), y)
    /\ \A x, y, z \in Record : AtLeast(x, y) /\ AtLeast(y, z) => AtLeast(x, z)
<1>1. ASSUME NEW x \in Record PROVE x.ctr \in Nat /\ x.node \in Nat
  <2>1. x.ctr \in Nat /\ x.node \in Nodes \cup {0}
    BY DEF Record
  <2>2. Nodes \subseteq Nat
    BY NodesAssumption
  <2>3. CASE x.node \in Nodes
    BY <2>1, <2>2, <2>3, Zenon
  <2>4. CASE x.node = 0
    <3>1. 0 \in Nat
      OBVIOUS
    <3> QED BY <2>1, <2>4, <3>1, Zenon
  <2> QED BY <2>1, <2>3, <2>4, Zenon
<1>2. \A x \in Record : AtLeast(x, x) /\ AtLeast(x, NoRecord)
  BY <1>1 DEF AtLeast, IsNewer, NoRecord
<1>3. \A x, y \in Record : AtLeast(Newest(x, y), x) /\ AtLeast(Newest(x, y), y)
  BY <1>1 DEF AtLeast, IsNewer, Newest
<1>4. \A x, y, z \in Record : AtLeast(x, y) /\ AtLeast(y, z) => AtLeast(x, z)
  BY <1>1 DEF AtLeast, IsNewer
<1> QED BY <1>1, <1>2, <1>3, <1>4

\* What Apply changes: one slot and one clock.
LEMMA ApplyEffect ==
    ASSUME StoreType, NEW n \in Nodes, NEW k \in Keys, NEW x \in Record, Apply(n, k, x)
    PROVE  /\ \A i \in Nodes, j \in Keys :
                 data'[i][j] = IF i = n /\ j = k THEN Newest(x, data[n][k]) ELSE data[i][j]
           /\ \A i \in Nodes : clock'[i] = IF i = n THEN Later(clock[n], x.ctr) ELSE clock[i]
<1>1. /\ data' = [data EXCEPT ![n] = Offer(data[n], k, x)]
      /\ clock' = [clock EXCEPT ![n] = Later(clock[n], x.ctr)]
  BY DEF Apply
<1>2. \A j \in Keys : Offer(data[n], k, x)[j] = IF j = k THEN Newest(x, data[n][k]) ELSE data[n][j]
  BY StoreRow DEF Offer
<1>3. DOMAIN data = Nodes /\ DOMAIN clock = Nodes
  BY DEF StoreType
<1> QED BY <1>1, <1>2, <1>3

\* What Enqueue changes: the slots of key k for the peers in ps.
LEMMA EnqueueEffect ==
    ASSUME StoreType, NEW n \in Nodes, NEW ps, NEW k \in Keys, NEW x, Enqueue(n, ps, k, x)
    PROVE  \A i \in Nodes, p \in Nodes, j \in Keys :
              pending'[i][p][j] = IF i = n /\ p \in ps /\ j = k THEN Newest(x, pending[n][p][k])
                                                               ELSE pending[i][p][j]
<1> DEFINE row == [p \in Nodes |-> IF p \in ps THEN Offer(pending[n][p], k, x) ELSE pending[n][p]]
<1>1. pending' = [pending EXCEPT ![n] = row]
  BY DEF Enqueue
<1>2. DOMAIN pending = Nodes
  BY DEF StoreType
<1>3. \A p \in Nodes, j \in Keys :
          Offer(pending[n][p], k, x)[j] = IF j = k THEN Newest(x, pending[n][p][k]) ELSE pending[n][p][j]
  BY StoreRow DEF Offer
<1>4. \A p \in Nodes : row[p] = IF p \in ps THEN Offer(pending[n][p], k, x) ELSE pending[n][p]
  OBVIOUS
<1> HIDE DEF row
<1> QED BY <1>1, <1>2, <1>3, <1>4

-----------------------------------------------------------------------------
(* The Lamport condition *)

LEMMA MemoryAfterApply ==
    ASSUME StoreType, DominatesMemory, NEW n \in Nodes, NEW k \in Keys, NEW x \in Record,
           Apply(n, k, x), UNCHANGED pending
    PROVE  DominatesMemory' /\ \A i \in Nodes : clock[i] <= clock'[i]
<1>1. \A i \in Nodes : clock[i] \in Nat /\ x.ctr \in Nat
  BY StoreRow, VersionOrder
<1>2. \A i \in Nodes : clock[i] <= clock'[i] /\ clock'[i] \in Nat
  BY <1>1, ApplyEffect DEF Later
<1>3. x.ctr <= clock'[n]
  BY <1>1, ApplyEffect DEF Later
<1>4. ASSUME NEW i \in Nodes, NEW j \in Keys PROVE data'[i][j].ctr <= clock'[i]
  <2>1. data[i][j].ctr \in Nat /\ data[i][j].ctr <= clock[i]
    BY StoreRow, VersionOrder DEF DominatesMemory
  <2>2. data'[i][j] = data[i][j] \/ (i = n /\ data'[i][j] = x)
    BY ApplyEffect DEF Newest
  <2> QED BY <1>1, <1>2, <1>3, <2>1, <2>2
<1>5. ASSUME NEW i \in Nodes, NEW p \in Nodes, NEW j \in Keys PROVE pending'[i][p][j].ctr <= clock'[i]
  <2>1. pending[i][p][j].ctr \in Nat /\ pending[i][p][j].ctr <= clock[i]
    <3>1. pending[i][p][j] \in Record
      BY StoreRow
    <3> QED BY <3>1, VersionOrder DEF DominatesMemory
  <2> QED BY <1>1, <1>2, <2>1
<1> QED BY <1>2, <1>4, <1>5 DEF DominatesMemory

LEMMA MemoryAfterEnqueue ==
    ASSUME StoreType, DominatesMemory, NEW n \in Nodes, NEW ps, NEW k \in Keys, NEW x \in Record,
           x.ctr <= clock[n], Enqueue(n, ps, k, x), UNCHANGED <<data, clock>>
    PROVE  DominatesMemory'
<1>1. ASSUME NEW i \in Nodes, NEW p \in Nodes, NEW j \in Keys PROVE pending'[i][p][j].ctr <= clock'[i]
  <2>1. pending'[i][p][j] = pending[i][p][j] \/ (i = n /\ pending'[i][p][j] = x)
    BY EnqueueEffect DEF Newest
  <2> QED BY <2>1 DEF DominatesMemory
<1> QED BY <1>1 DEF DominatesMemory

LEMMA WorkKept ==
    ASSUME StoreType, StoreType', PutsTyped, CallsTyped, DominatesWork,
           \A i \in Nodes : clock[i] <= clock'[i],
           \A v \in Writes : put'[v].pc \in Running => put[v].pc \in Running,
           \A v \in Writes : put[v].pc # "idle" => put'[v].rec = put[v].rec,
           \A x \in net' : x.waiting => \E m \in net : m.waiting /\ x.call = m.call /\ x.from = m.from
    PROVE  DominatesWork'
<1>1. \A i \in Nodes : clock[i] \in Nat /\ clock'[i] \in Nat
  BY DEF StoreType
<1>2. ASSUME NEW v \in Writes, put'[v].pc \in Running
      PROVE  put'[v].rec.ctr <= clock'[put'[v].rec.node]
  <2>1. put[v].pc \in Running /\ put[v].pc # "idle" /\ put'[v].rec = put[v].rec
    BY <1>2 DEF Running
  <2>2. put[v].rec.ctr \in Nat /\ put[v].rec.node \in Nodes
    BY <2>1, PutRow
  <2>3. put[v].rec.ctr <= clock[put[v].rec.node]
    BY <2>1 DEF DominatesWork
  <2> QED BY <1>1, <2>1, <2>2, <2>3
<1>3. ASSUME NEW x \in net', x.waiting, x.call # NoWrite
      PROVE  put'[x.call].rec.ctr <= clock'[x.from]
  <2>1. PICK m \in net : m.waiting /\ x.call = m.call /\ x.from = m.from
    BY <1>3
  <2>2. m.call \in Writes /\ m.from \in Nodes /\ put[m.call].pc # "idle"
    BY <1>3, <2>1, CallRow
  <2>3. put[m.call].rec.ctr \in Nat /\ put[m.call].rec.ctr <= clock[m.from]
    BY <1>3, <2>1, <2>2, PutRow DEF DominatesWork
  <2> QED BY <1>1, <2>1, <2>2, <2>3
<1> QED BY <1>2, <1>3 DEF DominatesWork

\* No step lets a record get ahead of the clock of a node that holds it.
LEMMA ClockStep == TypeOK /\ TypeOK' /\ ClockDominates /\ [Next]_vars => ClockDominates'
<1> SUFFICES ASSUME TypeOK, TypeOK', ClockDominates, [Next]_vars PROVE ClockDominates'
  OBVIOUS
<1>1. ASSUME NEW w \in Writes, NEW n \in Nodes, NewRecord(w, n) PROVE ClockDominates'
  <2>1. /\ put[w].pc = "idle" /\ UNCHANGED <<data, pending, net>>
        /\ clock' = [clock EXCEPT ![n] = @ + 1]
        /\ put' = [put EXCEPT ![w] = [put[w] EXCEPT !.pc = "made", !.rec = Fresh(w, n)]]
    BY <1>1 DEF NewRecord
  <2>2. \A i \in Nodes : clock[i] \in Nat /\ clock'[i] = IF i = n THEN clock[i] + 1 ELSE clock[i]
    BY <2>1 DEF TypeOK, StoreType
  <2>3. DominatesMemory'
    <3>1. ASSUME NEW i \in Nodes, NEW j \in Keys PROVE data'[i][j].ctr <= clock'[i]
      <4>1. data[i][j].ctr \in Nat /\ data[i][j].ctr <= clock[i]
        BY StoreRow, VersionOrder DEF TypeOK, ClockDominates, DominatesMemory
      <4> QED BY <2>1, <2>2, <4>1
    <3>2. ASSUME NEW i \in Nodes, NEW p \in Nodes, NEW j \in Keys PROVE pending'[i][p][j].ctr <= clock'[i]
      <4>1. pending[i][p][j] \in Record
        BY StoreRow DEF TypeOK
      <4>2. pending[i][p][j].ctr \in Nat /\ pending[i][p][j].ctr <= clock[i]
        BY <4>1, VersionOrder DEF ClockDominates, DominatesMemory
      <4> QED BY <2>1, <2>2, <4>2
    <3> QED BY <3>1, <3>2 DEF DominatesMemory
  <2>4. put'[w].rec.ctr = clock'[n] /\ put'[w].rec.node = n
    <3>1. put'[w].rec = Fresh(w, n)
      <4>1. put[w] \in PutType /\ put \in [Writes -> PutType]
        BY PutRow DEF TypeOK, PutsTyped
      <4> QED BY <2>1, <4>1 DEF PutType
    <3> QED BY <2>2, <3>1 DEF Fresh
  <2>5. \A v \in Writes \ {w} : put'[v] = put[v]
    BY <2>1 DEF TypeOK, PutsTyped
  <2>6. ASSUME NEW v \in Writes, put'[v].pc \in Running
        PROVE  put'[v].rec.ctr <= clock'[put'[v].rec.node]
    <3>1. CASE v = w
      BY <2>2, <2>4, <3>1
    <3>2. CASE v # w
      <4>1. put[v].pc \in Running /\ put'[v].rec = put[v].rec
        BY <2>5, <2>6, <3>2
      <4>2. put[v].rec.ctr \in Nat /\ put[v].rec.node \in Nodes /\ put[v].rec.ctr <= clock[put[v].rec.node]
        BY <4>1, PutRow DEF TypeOK, Running, ClockDominates, DominatesWork
      <4> QED BY <2>2, <4>1, <4>2
    <3> QED BY <3>1, <3>2
  <2>7. ASSUME NEW m \in net', m.waiting, m.call # NoWrite
        PROVE  put'[m.call].rec.ctr <= clock'[m.from]
    <3>1. m \in net
      BY <2>1
    <3>2. m.call \in Writes /\ m.from \in Nodes /\ put[m.call].pc # "idle"
      BY <2>7, <3>1, CallRow DEF TypeOK
    <3>3. put[m.call].rec.ctr \in Nat /\ put[m.call].rec.ctr <= clock[m.from]
      BY <2>7, <3>1, <3>2, PutRow DEF TypeOK, ClockDominates, DominatesWork
    <3>4. put'[m.call].rec = put[m.call].rec
      BY <2>1, <2>5, <3>2
    <3> QED BY <2>2, <3>2, <3>3, <3>4
  <2> QED BY <2>3, <2>6, <2>7 DEF ClockDominates, DominatesWork
<1>2. ASSUME NEW w \in Writes, ApplyAP(w) PROVE ClockDominates'
  <2>1. /\ put[w].pc = "made"
        /\ \A v \in Writes : put'[v].pc = (IF v = w THEN "applied" ELSE put[v].pc) /\ put'[v].rec = put[v].rec
    <3>1. put[w] \in PutType /\ put \in [Writes -> PutType]
      BY PutRow DEF TypeOK, PutsTyped
    <3> QED BY <1>2, <3>1 DEF ApplyAP, PutType
  <2>2. put[w].rec \in Record /\ put[w].rec.node \in Nodes /\ KeyOf[w] \in Keys
        /\ put[w].rec.ctr \in Nat /\ put[w].rec.ctr <= clock[put[w].rec.node]
    BY <2>1, PutRow, KeyAssumption DEF TypeOK, DominatesWork, ClockDominates, Running
  <2>3. \A x \in net' : x.waiting => \E m \in net : m.waiting /\ x.call = m.call /\ x.from = m.from
    BY <1>2 DEF ApplyAP
  <2>4. DominatesMemory' /\ \A j \in Nodes : clock[j] <= clock'[j]
    <3>1. Apply(put[w].rec.node, KeyOf[w], put[w].rec) /\ UNCHANGED pending
      BY <1>2 DEF ApplyAP
    <3> QED BY <2>2, <3>1, MemoryAfterApply DEF TypeOK, ClockDominates
  <2>5. \A v \in Writes : /\ put'[v].pc \in Running => put[v].pc \in Running
                          /\ put[v].pc # "idle" => put'[v].rec = put[v].rec
    BY <2>1 DEF Running
  <2>6. DominatesWork'
    BY <2>3, <2>4, <2>5, WorkKept DEF TypeOK, ClockDominates
  <2> QED BY <2>4, <2>6 DEF ClockDominates
<1>3. ASSUME NEW w \in Writes, ReplyAP(w) PROVE ClockDominates'
  <2>1. /\ put[w].pc = "applied"
        /\ \A v \in Writes : put'[v].pc = (IF v = w THEN "acked" ELSE put[v].pc) /\ put'[v].rec = put[v].rec
    <3>1. put[w] \in PutType /\ put \in [Writes -> PutType]
      BY PutRow DEF TypeOK, PutsTyped
    <3> QED BY <1>3, <3>1 DEF ReplyAP, PutType
  <2>2. put[w].rec \in Record /\ put[w].rec.node \in Nodes /\ KeyOf[w] \in Keys
        /\ put[w].rec.ctr \in Nat /\ put[w].rec.ctr <= clock[put[w].rec.node]
    BY <2>1, PutRow, KeyAssumption DEF TypeOK, DominatesWork, ClockDominates, Running
  <2>3. \A x \in net' : x.waiting => \E m \in net : m.waiting /\ x.call = m.call /\ x.from = m.from
    BY <1>3 DEF ReplyAP
  <2>4. DominatesMemory' /\ \A j \in Nodes : clock[j] <= clock'[j]
    <3>1. Enqueue(put[w].rec.node, Peers(put[w].rec.node), KeyOf[w], put[w].rec) /\ UNCHANGED <<data, clock>>
      BY <1>3 DEF ReplyAP
    <3>2. \A j \in Nodes : clock[j] <= clock'[j]
      BY <3>1, StoreRow DEF TypeOK
    <3> QED BY <2>2, <3>1, <3>2, MemoryAfterEnqueue DEF TypeOK, ClockDominates
  <2>5. \A v \in Writes : /\ put'[v].pc \in Running => put[v].pc \in Running
                          /\ put[v].pc # "idle" => put'[v].rec = put[v].rec
    BY <2>1 DEF Running
  <2>6. DominatesWork'
    BY <2>3, <2>4, <2>5, WorkKept DEF TypeOK, ClockDominates
  <2> QED BY <2>4, <2>6 DEF ClockDominates
<1>4. ASSUME NEW w \in Writes, ReplicateSync(w) PROVE ClockDominates'
  <2>1. /\ put[w].pc = "made"
        /\ \A v \in Writes : put'[v].pc = (IF v = w THEN "sent" ELSE put[v].pc) /\ put'[v].rec = put[v].rec
    <3>1. put[w] \in PutType /\ put \in [Writes -> PutType]
      BY PutRow DEF TypeOK, PutsTyped
    <3> QED BY <1>4, <3>1 DEF ReplicateSync, PutType
  <2>2. put[w].rec \in Record /\ put[w].rec.node \in Nodes /\ KeyOf[w] \in Keys
        /\ put[w].rec.ctr \in Nat /\ put[w].rec.ctr <= clock[put[w].rec.node]
    BY <2>1, PutRow, KeyAssumption DEF TypeOK, DominatesWork, ClockDominates, Running
  <2>3. UNCHANGED <<data, clock, pending>>
    BY <1>4 DEF ReplicateSync
  <2>4. DominatesMemory'
    BY <2>3 DEF ClockDominates, DominatesMemory
  <2>5. ASSUME NEW v \in Writes, put'[v].pc \in Running
        PROVE  put'[v].rec.ctr <= clock'[put'[v].rec.node]
    BY <2>1, <2>2, <2>3, <2>5 DEF ClockDominates, DominatesWork
  <2>6. ASSUME NEW m \in net', m.waiting, m.call # NoWrite
        PROVE  put'[m.call].rec.ctr <= clock'[m.from]
    <3>1. CASE m \in net
      <4>1. m.call \in Writes
        BY <2>6, <3>1, CallRow DEF TypeOK
      <4> QED BY <2>1, <2>3, <2>6, <3>1, <4>1 DEF ClockDominates, DominatesWork
    <3>2. CASE m \notin net
      <4>1. m.call = w /\ m.from = put[w].rec.node
        BY <1>4, <2>6, <3>2 DEF ReplicateSync, Call
      <4> QED BY <2>1, <2>2, <2>3, <4>1
    <3> QED BY <3>1, <3>2
  <2> QED BY <2>4, <2>5, <2>6 DEF ClockDominates, DominatesWork
<1>5. ASSUME NEW w \in Writes, Commit(w) PROVE ClockDominates'
  <2>1. /\ put[w].pc = "sent"
        /\ \A v \in Writes : put'[v].pc = (IF v = w THEN "committed" ELSE put[v].pc) /\ put'[v].rec = put[v].rec
    <3>1. put[w] \in PutType /\ put \in [Writes -> PutType]
      BY PutRow DEF TypeOK, PutsTyped
    <3> QED BY <1>5, <3>1 DEF Commit, PutType
  <2>2. put[w].rec \in Record /\ put[w].rec.node \in Nodes /\ KeyOf[w] \in Keys
        /\ put[w].rec.ctr \in Nat /\ put[w].rec.ctr <= clock[put[w].rec.node]
    BY <2>1, PutRow, KeyAssumption DEF TypeOK, DominatesWork, ClockDominates, Running
  <2>3. \A x \in net' : x.waiting => \E m \in net : m.waiting /\ x.call = m.call /\ x.from = m.from
    BY <1>5 DEF Commit
  <2>4. DominatesMemory' /\ \A j \in Nodes : clock[j] <= clock'[j]
    <3>1. Enqueue(put[w].rec.node, put[w].no, KeyOf[w], put[w].rec) /\ UNCHANGED <<data, clock>>
      BY <1>5 DEF Commit
    <3>2. \A j \in Nodes : clock[j] <= clock'[j]
      BY <3>1, StoreRow DEF TypeOK
    <3> QED BY <2>2, <3>1, <3>2, MemoryAfterEnqueue DEF TypeOK, ClockDominates
  <2>5. \A v \in Writes : /\ put'[v].pc \in Running => put[v].pc \in Running
                          /\ put[v].pc # "idle" => put'[v].rec = put[v].rec
    BY <2>1 DEF Running
  <2>6. DominatesWork'
    BY <2>3, <2>4, <2>5, WorkKept DEF TypeOK, ClockDominates
  <2> QED BY <2>4, <2>6 DEF ClockDominates
<1>6. ASSUME NEW w \in Writes, Reject(w) PROVE ClockDominates'
  <2>1. /\ put[w].pc = "sent"
        /\ \A v \in Writes : put'[v].pc = (IF v = w THEN "rejected" ELSE put[v].pc) /\ put'[v].rec = put[v].rec
    <3>1. put[w] \in PutType /\ put \in [Writes -> PutType]
      BY PutRow DEF TypeOK, PutsTyped
    <3> QED BY <1>6, <3>1 DEF Reject, PutType
  <2>2. put[w].rec \in Record /\ put[w].rec.node \in Nodes /\ KeyOf[w] \in Keys
        /\ put[w].rec.ctr \in Nat /\ put[w].rec.ctr <= clock[put[w].rec.node]
    BY <2>1, PutRow, KeyAssumption DEF TypeOK, DominatesWork, ClockDominates, Running
  <2>3. \A x \in net' : x.waiting => \E m \in net : m.waiting /\ x.call = m.call /\ x.from = m.from
    BY <1>6 DEF Reject
  <2>4. DominatesMemory' /\ \A j \in Nodes : clock[j] <= clock'[j]
    <3>1. UNCHANGED <<data, clock, pending>>
      BY <1>6 DEF Reject
    <3> QED BY <3>1, StoreRow DEF TypeOK, ClockDominates, DominatesMemory
  <2>5. \A v \in Writes : /\ put'[v].pc \in Running => put[v].pc \in Running
                          /\ put[v].pc # "idle" => put'[v].rec = put[v].rec
    BY <2>1 DEF Running
  <2>6. DominatesWork'
    BY <2>3, <2>4, <2>5, WorkKept DEF TypeOK, ClockDominates
  <2> QED BY <2>4, <2>6 DEF ClockDominates
<1>7. ASSUME NEW w \in Writes, ReplyCP(w) PROVE ClockDominates'
  <2>1. /\ put[w].pc = "committed"
        /\ \A v \in Writes : put'[v].pc = (IF v = w THEN "acked" ELSE put[v].pc) /\ put'[v].rec = put[v].rec
    <3>1. put[w] \in PutType /\ put \in [Writes -> PutType]
      BY PutRow DEF TypeOK, PutsTyped
    <3> QED BY <1>7, <3>1 DEF ReplyCP, PutType
  <2>2. put[w].rec \in Record /\ put[w].rec.node \in Nodes /\ KeyOf[w] \in Keys
        /\ put[w].rec.ctr \in Nat /\ put[w].rec.ctr <= clock[put[w].rec.node]
    BY <2>1, PutRow, KeyAssumption DEF TypeOK, DominatesWork, ClockDominates, Running
  <2>3. \A x \in net' : x.waiting => \E m \in net : m.waiting /\ x.call = m.call /\ x.from = m.from
    BY <1>7 DEF ReplyCP
  <2>4. DominatesMemory' /\ \A j \in Nodes : clock[j] <= clock'[j]
    <3>1. Apply(put[w].rec.node, KeyOf[w], put[w].rec) /\ UNCHANGED pending
      BY <1>7 DEF ReplyCP
    <3> QED BY <2>2, <3>1, MemoryAfterApply DEF TypeOK, ClockDominates
  <2>5. \A v \in Writes : /\ put'[v].pc \in Running => put[v].pc \in Running
                          /\ put[v].pc # "idle" => put'[v].rec = put[v].rec
    BY <2>1 DEF Running
  <2>6. DominatesWork'
    BY <2>3, <2>4, <2>5, WorkKept DEF TypeOK, ClockDominates
  <2> QED BY <2>4, <2>6 DEF ClockDominates
<1>8. ASSUME NEW m \in net, NEW k \in Keys, Replicate(m, k) PROVE ClockDominates'
  <2>1. /\ m.from \in Nodes /\ m.to \in Nodes /\ m.recs \in [Keys -> Record] /\ m \in CallType
        /\ m.call # NoWrite => m.call \in Writes /\ put[m.call].pc # "idle"
    BY CallRow DEF TypeOK
  <2>2. UNCHANGED put
    BY <1>8 DEF Replicate
  <2>3. \A x \in net' : x.waiting => \E y \in net : y.waiting /\ x.call = y.call /\ x.from = y.from
    <3>1. \A x \in net' : x.waiting => x \in net \/ (m.waiting /\ SameCall(x, m))
      BY <1>8, <2>1, CallFacts DEF Replicate, Abandon, Lose, CallType
    <3> QED BY <3>1 DEF SameCall
  <2>4. DominatesMemory' /\ \A j \in Nodes : clock[j] <= clock'[j]
    <3>1. Apply(m.to, k, m.recs[k]) /\ UNCHANGED pending
      BY <1>8 DEF Replicate
    <3>2. m.recs[k] \in Record
      BY <2>1 DEF TypeOK, NodeType, WarmType
    <3> QED BY <2>1, <3>1, <3>2, MemoryAfterApply DEF TypeOK, ClockDominates
  <2>5. \A v \in Writes : /\ put'[v].pc \in Running => put[v].pc \in Running
                          /\ put[v].pc # "idle" => put'[v].rec = put[v].rec
    BY <2>2
  <2>6. DominatesWork'
    BY <2>3, <2>4, <2>5, WorkKept DEF TypeOK, ClockDominates
  <2> QED BY <2>4, <2>6 DEF ClockDominates
<1>9. ASSUME NEW m \in net, CallSucceeds(m) PROVE ClockDominates'
  <2>1. /\ m.from \in Nodes /\ m.to \in Nodes /\ m.recs \in [Keys -> Record] /\ m \in CallType
        /\ m.call # NoWrite => m.call \in Writes /\ put[m.call].pc # "idle"
    BY CallRow DEF TypeOK
  <2>2. \A v \in Writes : put'[v].pc = put[v].pc /\ put'[v].rec = put[v].rec
    <3>1. put \in [Writes -> PutType]
      BY DEF TypeOK, PutsTyped
    <3>2. put' = put \/ put' = [put EXCEPT ![m.call] = [put[m.call] EXCEPT !.yes = @ \cup {m.to}]]
      BY <1>9 DEF CallSucceeds
    <3>3. \A v \in Writes : put[v] \in PutType
      BY <3>1
    <3> QED BY <3>1, <3>2, <3>3 DEF PutType
  <2>3. \A x \in net' : x.waiting => \E y \in net : y.waiting /\ x.call = y.call /\ x.from = y.from
    <3>1. \A x \in net' : x.waiting => x \in net \/ (m.waiting /\ SameCall(x, m))
      BY <1>9, <2>1, CallFacts DEF CallSucceeds, Abandon, Lose, CallType
    <3> QED BY <3>1 DEF SameCall
  <2>4. DominatesMemory' /\ \A j \in Nodes : clock[j] <= clock'[j]
    <3>1. UNCHANGED <<data, clock>> /\ \A j \in Nodes : clock[j] <= clock'[j]
      BY <1>9, StoreRow DEF CallSucceeds, TypeOK
    <3>2. CASE UNCHANGED pending
      BY <3>1, <3>2 DEF ClockDominates, DominatesMemory
    <3>3. CASE ~ UNCHANGED pending
      <4>1. pending' = [pending EXCEPT ![m.from][m.to] = Forget(pending[m.from][m.to], m.recs)]
        BY <1>9, <3>3 DEF CallSucceeds
      <4>2. \A i \in Nodes, p \in Nodes, j \in Keys :
               pending'[i][p][j] = pending[i][p][j] \/ pending'[i][p][j] = NoRecord
        <5>1. pending \in [Nodes -> [Nodes -> [Keys -> Record]]]
          BY DEF TypeOK, StoreType
        <5>2. \A j \in Keys : \/ Forget(pending[m.from][m.to], m.recs)[j] = pending[m.from][m.to][j]
                             \/ Forget(pending[m.from][m.to], m.recs)[j] = NoRecord
          BY DEF Forget
        <5> QED BY <2>1, <4>1, <5>1, <5>2
      <4>3. NoRecord.ctr = 0
        BY DEF NoRecord
      <4>4. \A i \in Nodes : clock[i] \in Nat
        BY StoreRow DEF TypeOK
      <4> QED BY <3>1, <4>2, <4>3, <4>4 DEF ClockDominates, DominatesMemory
    <3> QED BY <3>1, <3>2, <3>3
  <2>5. \A v \in Writes : /\ put'[v].pc \in Running => put[v].pc \in Running
                          /\ put[v].pc # "idle" => put'[v].rec = put[v].rec
    BY <2>2
  <2>6. DominatesWork'
    BY <2>3, <2>4, <2>5, WorkKept DEF TypeOK, ClockDominates
  <2> QED BY <2>4, <2>6 DEF ClockDominates
<1>10. ASSUME NEW m \in net, CallFails(m) PROVE ClockDominates'
  <2>1. /\ m.from \in Nodes /\ m.to \in Nodes /\ m.recs \in [Keys -> Record] /\ m \in CallType
        /\ m.call # NoWrite => m.call \in Writes /\ put[m.call].pc # "idle"
    BY CallRow DEF TypeOK
  <2>2. \A v \in Writes : put'[v].pc = put[v].pc /\ put'[v].rec = put[v].rec
    <3>1. put \in [Writes -> PutType]
      BY DEF TypeOK, PutsTyped
    <3>2. put' = put \/ put' = [put EXCEPT ![m.call] = [put[m.call] EXCEPT !.no = @ \cup {m.to}]]
      BY <1>10 DEF CallFails
    <3>3. \A v \in Writes : put[v] \in PutType
      BY <3>1
    <3> QED BY <3>1, <3>2, <3>3 DEF PutType
  <2>3. \A x \in net' : x.waiting => \E y \in net : y.waiting /\ x.call = y.call /\ x.from = y.from
    <3>1. \A x \in net' : x.waiting => x \in net \/ (m.waiting /\ SameCall(x, m))
      BY <1>10, <2>1, CallFacts DEF CallFails, Abandon, Lose, CallType
    <3> QED BY <3>1 DEF SameCall
  <2>4. DominatesMemory' /\ \A j \in Nodes : clock[j] <= clock'[j]
    <3>1. UNCHANGED <<data, clock>> /\ \A j \in Nodes : clock[j] <= clock'[j]
      BY <1>10, StoreRow DEF CallFails, TypeOK
    <3>2. CASE UNCHANGED pending
      BY <3>1, <3>2 DEF ClockDominates, DominatesMemory
    <3>3. CASE ~ UNCHANGED pending
      <4>1. /\ m.call # NoWrite /\ m.waiting
            /\ Enqueue(m.from, {m.to}, KeyOf[m.call], put[m.call].rec)
        BY <1>10, <3>3 DEF CallFails
      <4>2. put[m.call].rec \in Record /\ put[m.call].rec.ctr <= clock[m.from] /\ KeyOf[m.call] \in Keys
        BY <2>1, <4>1, PutRow, KeyAssumption DEF TypeOK, ClockDominates, DominatesWork
      <4> QED BY <2>1, <3>1, <4>1, <4>2, MemoryAfterEnqueue DEF TypeOK, ClockDominates
    <3> QED BY <3>1, <3>2, <3>3
  <2>5. \A v \in Writes : /\ put'[v].pc \in Running => put[v].pc \in Running
                          /\ put[v].pc # "idle" => put'[v].rec = put[v].rec
    BY <2>2
  <2>6. DominatesWork'
    BY <2>3, <2>4, <2>5, WorkKept DEF TypeOK, ClockDominates
  <2> QED BY <2>4, <2>6 DEF ClockDominates
<1>11. ASSUME NEW m \in net, Drop(m) PROVE ClockDominates'
  <2>1. /\ m.from \in Nodes /\ m.to \in Nodes /\ m.recs \in [Keys -> Record] /\ m \in CallType
        /\ m.call # NoWrite => m.call \in Writes /\ put[m.call].pc # "idle"
    BY CallRow DEF TypeOK
  <2>2. UNCHANGED put
    BY <1>11 DEF Drop
  <2>3. \A x \in net' : x.waiting => \E y \in net : y.waiting /\ x.call = y.call /\ x.from = y.from
    <3>1. \A x \in net' : x.waiting => x \in net \/ (m.waiting /\ SameCall(x, m))
      BY <1>11, <2>1, CallFacts DEF Drop, Abandon, Lose, CallType
    <3> QED BY <3>1 DEF SameCall
  <2>4. DominatesMemory' /\ \A j \in Nodes : clock[j] <= clock'[j]
    <3>1. UNCHANGED <<data, clock, pending>>
      BY <1>11 DEF Drop
    <3> QED BY <3>1, StoreRow DEF TypeOK, ClockDominates, DominatesMemory
  <2>5. \A v \in Writes : /\ put'[v].pc \in Running => put[v].pc \in Running
                          /\ put[v].pc # "idle" => put'[v].rec = put[v].rec
    BY <2>2
  <2>6. DominatesWork'
    BY <2>3, <2>4, <2>5, WorkKept DEF TypeOK, ClockDominates
  <2> QED BY <2>4, <2>6 DEF ClockDominates
<1>12. ASSUME NEW n \in Nodes, NEW p \in Nodes, SyncSend(n, p) PROVE ClockDominates'
  <2>1. UNCHANGED <<data, clock, pending, put>> /\ net' = net \cup {Call(NoWrite, n, p, pending[n][p])}
    BY <1>12 DEF SyncSend
  <2>2. \A x \in net' : x.call # NoWrite => x \in net
    BY <2>1 DEF Call
  <2> QED BY <2>1, <2>2 DEF ClockDominates, DominatesMemory, DominatesWork
<1>13. ASSUME NEW r \in Reads, NEW n \in Nodes, StartGet(r, n) PROVE ClockDominates'
  BY <1>13 DEF ClockDominates, DominatesMemory, DominatesWork, StartGet
<1>14. ASSUME NEW r \in Reads, NEW p \in Nodes, Probe(r, p) PROVE ClockDominates'
  BY <1>14 DEF ClockDominates, DominatesMemory, DominatesWork, Probe
<1>15. ASSUME NEW r \in Reads, ServeCP(r) PROVE ClockDominates'
  BY <1>15 DEF ClockDominates, DominatesMemory, DominatesWork, ServeCP
<1>16. ASSUME NEW r \in Reads, RefuseCP(r) PROVE ClockDominates'
  BY <1>16 DEF ClockDominates, DominatesMemory, DominatesWork, RefuseCP
<1>17. ASSUME NEW n \in Nodes, Crash(n) PROVE ClockDominates'
  <2>1. /\ data' = [data EXCEPT ![n] = Nothing] /\ clock' = [clock EXCEPT ![n] = 0]
        /\ pending' = [pending EXCEPT ![n] = [p \in Nodes |-> Nothing]]
        /\ net' = Sever(n)
        /\ put' = [w \in Writes |-> IF put[w].rec.node = n /\ put[w].pc \in Running
                                    THEN [put[w] EXCEPT !.pc = "died"] ELSE put[w]]
    BY <1>17 DEF Crash
  <2>2. \A k \in Keys : Nothing[k].ctr = 0
    BY DEF Nothing, NoRecord
  <2>3. DominatesMemory'
    <3>1. \A i \in Nodes : i # n => data'[i] = data[i] /\ pending'[i] = pending[i] /\ clock'[i] = clock[i]
      BY <2>1 DEF TypeOK, StoreType
    <3>2. data'[n] = Nothing /\ clock'[n] = 0 /\ \A p \in Nodes : pending'[n][p] = Nothing
      BY <2>1 DEF TypeOK, StoreType
    <3> QED BY <2>2, <3>1, <3>2 DEF ClockDominates, DominatesMemory
  <2>4. \A i \in Nodes \ {n} : clock'[i] = clock[i]
    BY <2>1 DEF TypeOK, StoreType
  <2>5. \A w \in Writes : /\ put'[w].rec = put[w].rec
                          /\ put'[w].pc \in Running => put[w].pc \in Running /\ put[w].rec.node # n
    <3>1. \A w \in Writes : put[w] \in PutType
      BY PutRow DEF TypeOK
    <3> QED BY <2>1, <3>1 DEF PutType, Running
  <2>6. ASSUME NEW w \in Writes, put'[w].pc \in Running
        PROVE  put'[w].rec.ctr <= clock'[put'[w].rec.node]
    <3>1. put[w].pc \in Running /\ put[w].rec.node # n /\ put'[w].rec = put[w].rec
      BY <2>5, <2>6, Zenon
    <3>2. put[w].rec.node \in Nodes
      BY <3>1, PutRow DEF TypeOK, Running
    <3>3. put[w].rec.ctr <= clock[put[w].rec.node]
      BY <3>1, Zenon DEF ClockDominates, DominatesWork
    <3>4. clock'[put[w].rec.node] = clock[put[w].rec.node]
      BY <2>4, <3>1, <3>2
    <3> QED BY <3>1, <3>3, <3>4
  <2>7. ASSUME NEW x \in net', x.waiting, x.call # NoWrite
        PROVE  put'[x.call].rec.ctr <= clock'[x.from]
    <3>1. PICK m \in net : IF m.to = n THEN x \in Lose(m)
                           ELSE IF m.from = n /\ m.waiting THEN x \in Abandon(m) ELSE x = m
      BY <2>1, <2>7 DEF Sever, Severed
    <3>2. /\ m \in CallType /\ m.from \in Nodes /\ m.to # m.from
          /\ m.call # NoWrite => m.call \in Writes
      BY CallRow DEF TypeOK
    <3>3. x.call = m.call /\ x.from = m.from /\ m.waiting /\ m.from # n
      <4>1. SameCall(x, m)
        BY <3>1, <3>2, CallFacts
      <4>2. m.waiting /\ m.from # n
        BY <2>7, <3>1, <3>2 DEF Lose, Abandon, CallType
      <4> QED BY <4>1, <4>2 DEF SameCall
    <3>4. put[x.call].rec.ctr <= clock[x.from]
      BY <2>7, <3>3 DEF ClockDominates, DominatesWork
    <3>5. put'[x.call].rec = put[x.call].rec
      BY <2>5, <2>7, <3>2, <3>3
    <3>6. clock'[x.from] = clock[x.from]
      BY <2>4, <3>2, <3>3
    <3> QED BY <3>4, <3>5, <3>6
  <2> QED BY <2>3, <2>6, <2>7 DEF ClockDominates, DominatesWork
<1>18. ASSUME NEW n \in Nodes, Restart(n) PROVE ClockDominates'
  BY <1>18 DEF ClockDominates, DominatesMemory, DominatesWork, Restart
<1>19. ASSUME NEW n \in Nodes, NEW p \in Nodes, FetchSnapshot(n, p) PROVE ClockDominates'
  BY <1>19 DEF ClockDominates, DominatesMemory, DominatesWork, FetchSnapshot
<1>20. ASSUME NEW n \in Nodes, NEW p \in Nodes, SkipPeer(n, p) PROVE ClockDominates'
  BY <1>20 DEF ClockDominates, DominatesMemory, DominatesWork, SkipPeer
<1>21. ASSUME NEW n \in Nodes, NEW k \in Keys, ApplySnapshot(n, k) PROVE ClockDominates'
  <2>2. UNCHANGED put
    BY <1>21 DEF ApplySnapshot
  <2>3. \A x \in net' : x.waiting => \E m \in net : m.waiting /\ x.call = m.call /\ x.from = m.from
    BY <1>21 DEF ApplySnapshot
  <2>4. DominatesMemory' /\ \A j \in Nodes : clock[j] <= clock'[j]
    <3>1. Apply(n, k, warm[n].snap[k]) /\ UNCHANGED pending
      BY <1>21 DEF ApplySnapshot
    <3>2. warm[n].snap[k] \in Record
      BY DEF TypeOK, NodeType, WarmType
    <3> QED BY <3>1, <3>2, MemoryAfterApply DEF TypeOK, ClockDominates
  <2>5. \A v \in Writes : /\ put'[v].pc \in Running => put[v].pc \in Running
                          /\ put[v].pc # "idle" => put'[v].rec = put[v].rec
    BY <2>2
  <2>6. DominatesWork'
    BY <2>3, <2>4, <2>5, WorkKept DEF TypeOK, ClockDominates
  <2> QED BY <2>4, <2>6 DEF ClockDominates
<1>22. ASSUME NEW n \in Nodes, FinishWarmUp(n) PROVE ClockDominates'
  BY <1>22 DEF ClockDominates, DominatesMemory, DominatesWork, FinishWarmUp
<1>23. ASSUME NEW n \in Nodes, Isolate(n) PROVE ClockDominates'
  BY <1>23 DEF ClockDominates, DominatesMemory, DominatesWork, Isolate
<1>24. CASE Heal
  BY <1>24 DEF ClockDominates, DominatesMemory, DominatesWork, Heal
<1>25. ASSUME NEW n \in Nodes, NEW md \in {"ap", "cp"}, SetMode(n, md) PROVE ClockDominates'
  BY <1>25 DEF ClockDominates, DominatesMemory, DominatesWork, SetMode
<1>26. CASE UNCHANGED vars
  BY <1>26 DEF ClockDominates, DominatesMemory, DominatesWork, vars
<1> QED
  BY <1>1, <1>2, <1>3, <1>4, <1>5, <1>6, <1>7, <1>8, <1>9, <1>10, <1>11, <1>12, <1>13, <1>14, <1>15, <1>16, <1>17, <1>18, <1>19, <1>20, <1>21, <1>22, <1>23, <1>24, <1>25, <1>26
  DEF Next, Client, PutStep, GetStep, CallStep, WarmStep, Operator

\* The Lamport condition of new_record and Store.apply for the whole run, crashes
\* included: whatever a node holds, owes or is writing is not newer than its clock.
THEOREM ClockAlwaysDominates == Spec => []ClockDominates
<1>1. Init => ClockDominates
  <2> SUFFICES ASSUME Init PROVE ClockDominates
    OBVIOUS
  <2>1. \A k \in Keys : Nothing[k].ctr = 0
    BY DEF Nothing, NoRecord
  <2>2. DominatesMemory
    BY <2>1 DEF Init, InitWith, DominatesMemory
  <2>3. DominatesWork
    BY DEF Init, InitWith, IdlePut, Running, DominatesWork
  <2> QED BY <2>2, <2>3 DEF ClockDominates
<1> QED BY <1>1, ClockStep, TypeCorrect, PTL DEF Spec

-----------------------------------------------------------------------------
(* Stored versions only move forward *)

Forward(i, j) ==
    \/ AtLeast(data'[i][j], data[i][j])
    \/ i \in Crashable /\ life'[i] = "down"

LEMMA ForwardUnchanged ==
    ASSUME StoreType, NEW i \in Nodes, NEW j \in Keys, data'[i] = data[i]
    PROVE  AtLeast(data'[i][j], data[i][j])
BY StoreRow, VersionOrder

LEMMA ForwardAfterApply ==
    ASSUME StoreType, NEW n \in Nodes, NEW k \in Keys, NEW x \in Record, Apply(n, k, x)
    PROVE  \A i \in Nodes, j \in Keys : AtLeast(data'[i][j], data[i][j])
<1> TAKE i \in Nodes, j \in Keys
<1>1. data[i][j] \in Record
  BY StoreRow
<1>2. data'[i][j] = data[i][j] \/ data'[i][j] = Newest(x, data[i][j])
  BY ApplyEffect
<1> QED BY <1>1, <1>2, VersionOrder

\* Except for a crash, a step never replaces a stored record by an older one.
LEMMA DataStep == TypeOK /\ [Next]_vars => \A i \in Nodes, j \in Keys : Forward(i, j)
<1> SUFFICES ASSUME TypeOK, [Next]_vars PROVE \A i \in Nodes, j \in Keys : Forward(i, j)
  OBVIOUS
<1>1. ASSUME NEW w \in Writes, NEW n \in Nodes, NewRecord(w, n) PROVE \A i \in Nodes, j \in Keys : Forward(i, j)
  BY <1>1, ForwardUnchanged DEF TypeOK, Forward, NewRecord
<1>2. ASSUME NEW w \in Writes, ApplyAP(w) PROVE \A i \in Nodes, j \in Keys : Forward(i, j)
  <2>1. put[w].pc = "made"
    BY <1>2 DEF ApplyAP
  <2>2. put[w].rec.node \in Nodes /\ KeyOf[w] \in Keys /\ put[w].rec \in Record
    BY <2>1, PutRow, KeyAssumption DEF TypeOK
  <2>3. Apply(put[w].rec.node, KeyOf[w], put[w].rec)
    BY <1>2 DEF ApplyAP
  <2> QED BY <2>2, <2>3, ForwardAfterApply DEF TypeOK, Forward
<1>3. ASSUME NEW w \in Writes, ReplyAP(w) PROVE \A i \in Nodes, j \in Keys : Forward(i, j)
  BY <1>3, ForwardUnchanged DEF TypeOK, Forward, ReplyAP
<1>4. ASSUME NEW w \in Writes, ReplicateSync(w) PROVE \A i \in Nodes, j \in Keys : Forward(i, j)
  BY <1>4, ForwardUnchanged DEF TypeOK, Forward, ReplicateSync
<1>5. ASSUME NEW w \in Writes, Commit(w) PROVE \A i \in Nodes, j \in Keys : Forward(i, j)
  BY <1>5, ForwardUnchanged DEF TypeOK, Forward, Commit
<1>6. ASSUME NEW w \in Writes, Reject(w) PROVE \A i \in Nodes, j \in Keys : Forward(i, j)
  BY <1>6, ForwardUnchanged DEF TypeOK, Forward, Reject
<1>7. ASSUME NEW w \in Writes, ReplyCP(w) PROVE \A i \in Nodes, j \in Keys : Forward(i, j)
  <2>1. put[w].pc = "committed"
    BY <1>7 DEF ReplyCP
  <2>2. put[w].rec.node \in Nodes /\ KeyOf[w] \in Keys /\ put[w].rec \in Record
    BY <2>1, PutRow, KeyAssumption DEF TypeOK
  <2>3. Apply(put[w].rec.node, KeyOf[w], put[w].rec)
    BY <1>7 DEF ReplyCP
  <2> QED BY <2>2, <2>3, ForwardAfterApply DEF TypeOK, Forward
<1>8. ASSUME NEW m \in net, NEW k \in Keys, Replicate(m, k) PROVE \A i \in Nodes, j \in Keys : Forward(i, j)
  <2>2. m.to \in Nodes /\ k \in Keys /\ m.recs[k] \in Record
    BY CallRow DEF TypeOK
  <2>3. Apply(m.to, k, m.recs[k])
    BY <1>8 DEF Replicate
  <2> QED BY <2>2, <2>3, ForwardAfterApply DEF TypeOK, Forward
<1>9. ASSUME NEW m \in net, CallSucceeds(m) PROVE \A i \in Nodes, j \in Keys : Forward(i, j)
  BY <1>9, ForwardUnchanged DEF TypeOK, Forward, CallSucceeds
<1>10. ASSUME NEW m \in net, CallFails(m) PROVE \A i \in Nodes, j \in Keys : Forward(i, j)
  BY <1>10, ForwardUnchanged DEF TypeOK, Forward, CallFails
<1>11. ASSUME NEW m \in net, Drop(m) PROVE \A i \in Nodes, j \in Keys : Forward(i, j)
  BY <1>11, ForwardUnchanged DEF TypeOK, Forward, Drop
<1>12. ASSUME NEW n \in Nodes, NEW p \in Nodes, SyncSend(n, p) PROVE \A i \in Nodes, j \in Keys : Forward(i, j)
  BY <1>12, ForwardUnchanged DEF TypeOK, Forward, SyncSend
<1>13. ASSUME NEW r \in Reads, NEW n \in Nodes, StartGet(r, n) PROVE \A i \in Nodes, j \in Keys : Forward(i, j)
  BY <1>13, ForwardUnchanged DEF TypeOK, Forward, StartGet
<1>14. ASSUME NEW r \in Reads, NEW p \in Nodes, Probe(r, p) PROVE \A i \in Nodes, j \in Keys : Forward(i, j)
  BY <1>14, ForwardUnchanged DEF TypeOK, Forward, Probe
<1>15. ASSUME NEW r \in Reads, ServeCP(r) PROVE \A i \in Nodes, j \in Keys : Forward(i, j)
  BY <1>15, ForwardUnchanged DEF TypeOK, Forward, ServeCP
<1>16. ASSUME NEW r \in Reads, RefuseCP(r) PROVE \A i \in Nodes, j \in Keys : Forward(i, j)
  BY <1>16, ForwardUnchanged DEF TypeOK, Forward, RefuseCP
<1>17. ASSUME NEW n \in Nodes, Crash(n) PROVE \A i \in Nodes, j \in Keys : Forward(i, j)
  <2>1. \A i \in Nodes : i # n => data'[i] = data[i]
    BY <1>17 DEF Crash, TypeOK, StoreType
  <2>2. n \in Crashable /\ life'[n] = "down"
    BY <1>17 DEF Crash, TypeOK, NodeType
  <2> QED BY <2>1, <2>2, ForwardUnchanged DEF TypeOK, Forward
<1>18. ASSUME NEW n \in Nodes, Restart(n) PROVE \A i \in Nodes, j \in Keys : Forward(i, j)
  BY <1>18, ForwardUnchanged DEF TypeOK, Forward, Restart
<1>19. ASSUME NEW n \in Nodes, NEW p \in Nodes, FetchSnapshot(n, p) PROVE \A i \in Nodes, j \in Keys : Forward(i, j)
  BY <1>19, ForwardUnchanged DEF TypeOK, Forward, FetchSnapshot
<1>20. ASSUME NEW n \in Nodes, NEW p \in Nodes, SkipPeer(n, p) PROVE \A i \in Nodes, j \in Keys : Forward(i, j)
  BY <1>20, ForwardUnchanged DEF TypeOK, Forward, SkipPeer
<1>21. ASSUME NEW n \in Nodes, NEW k \in Keys, ApplySnapshot(n, k) PROVE \A i \in Nodes, j \in Keys : Forward(i, j)
  <2>2. n \in Nodes /\ k \in Keys /\ warm[n].snap[k] \in Record
    BY DEF TypeOK, NodeType, WarmType
  <2>3. Apply(n, k, warm[n].snap[k])
    BY <1>21 DEF ApplySnapshot
  <2> QED BY <2>2, <2>3, ForwardAfterApply DEF TypeOK, Forward
<1>22. ASSUME NEW n \in Nodes, FinishWarmUp(n) PROVE \A i \in Nodes, j \in Keys : Forward(i, j)
  BY <1>22, ForwardUnchanged DEF TypeOK, Forward, FinishWarmUp
<1>23. ASSUME NEW n \in Nodes, Isolate(n) PROVE \A i \in Nodes, j \in Keys : Forward(i, j)
  BY <1>23, ForwardUnchanged DEF TypeOK, Forward, Isolate
<1>24. CASE Heal
  BY <1>24, ForwardUnchanged DEF TypeOK, Forward, Heal
<1>25. ASSUME NEW n \in Nodes, NEW md \in {"ap", "cp"}, SetMode(n, md) PROVE \A i \in Nodes, j \in Keys : Forward(i, j)
  BY <1>25, ForwardUnchanged DEF TypeOK, Forward, SetMode
<1>26. CASE UNCHANGED vars
  BY <1>26, ForwardUnchanged DEF TypeOK, Forward, vars
<1> QED
  BY <1>1, <1>2, <1>3, <1>4, <1>5, <1>6, <1>7, <1>8, <1>9, <1>10, <1>11, <1>12, <1>13, <1>14, <1>15, <1>16, <1>17, <1>18, <1>19, <1>20, <1>21, <1>22, <1>23, <1>24, <1>25, <1>26
  DEF Next, Client, PutStep, GetStep, CallStep, WarmStep, Operator

\* Last-writer-wins for the whole run: whatever order replication, the sync loop,
\* warm-up snapshots and local writes come in, what a running node stores under a
\* key never goes back to an older version.
THEOREM StoredVersionsMoveForward == Spec => NeverGoesBack
<1>1. TypeOK /\ [Next]_vars => [\A n \in Nodes, k \in Keys :
                                    life'[n] # "down" => AtLeast(data'[n][k], data[n][k])]_vars
  BY DataStep DEF Forward
<1> QED BY <1>1, TypeCorrect, PTL DEF Spec, NeverGoesBack

-----------------------------------------------------------------------------
(*****************************************************************************)
(* What an acknowledged write is worth.  While no node crashes it is never   *)
(* forgotten for a peer, in mode cp it is on a quorum, and once everything   *)
(* was delivered the replicas agree.  When fewer nodes than a quorum crash,  *)
(* a write acknowledged in mode cp stays on one that does not.  Partitions,  *)
(* late answers and mode switches are all included.                          *)
(*****************************************************************************)

NoCrash == Crashable = {}

\* The step is no crash.
Calm == \A c \in Nodes : ~ Crash(c)

LEMMA CalmWithoutCrashes == NoCrash => Calm
BY DEF NoCrash, Calm, Crash

\* Whatever a node that does not crash stores at least as new as a record stays so.
LEMMA StoredLasts ==
    ASSUME TypeOK, TypeOK', [Next]_vars, NEW i \in Nodes, i \notin Crashable,
           NEW j \in Keys, NEW x \in Record, AtLeast(data[i][j], x)
    PROVE  AtLeast(data'[i][j], x)
<1>1. AtLeast(data'[i][j], data[i][j])
  BY DataStep DEF Forward
<1>2. data[i][j] \in Record /\ data'[i][j] \in Record
  <2>1. data[i][j] \in Record
    BY StoreRow DEF TypeOK
  <2>2. data' \in [Nodes -> [Keys -> Record]]
    BY DEF TypeOK, StoreType
  <2> QED BY <2>1, <2>2
<1> QED BY <1>1, <1>2, VersionOrder

LEMMA StoredStays ==
    ASSUME NoCrash, TypeOK, TypeOK', [Next]_vars,
           NEW i \in Nodes, NEW j \in Keys, NEW x \in Record, AtLeast(data[i][j], x)
    PROVE  AtLeast(data'[i][j], x)
BY StoredLasts DEF NoCrash

-----------------------------------------------------------------------------
(* Which steps touch what *)

LEMMA NetChanges ==
    ASSUME [Next]_vars, net' # net
    PROVE  \/ \E w \in Writes : ReplicateSync(w)
           \/ \E m \in net : CallStep(m)
           \/ \E n \in Nodes, p \in Nodes : SyncSend(n, p)
           \/ \E n \in Nodes : Crash(n)
<1>1. ~ Client
  BY DEF Client, NewRecord, StartGet
<1>2. ASSUME NEW w \in Writes, PutStep(w) PROVE ReplicateSync(w)
  BY <1>2 DEF PutStep, ApplyAP, ReplyAP, Commit, Reject, ReplyCP
<1>3. \A r \in Reads : ~ GetStep(r)
  BY DEF GetStep, Probe, ServeCP, RefuseCP
<1>4. \A n \in Nodes : ~ WarmStep(n) /\ ~ Restart(n)
  BY DEF WarmStep, FetchSnapshot, SkipPeer, ApplySnapshot, FinishWarmUp, Restart
<1>5. Operator => \E n \in Nodes : Crash(n)
  BY DEF Operator, Isolate, Heal, SetMode
<1> QED BY <1>1, <1>2, <1>3, <1>4, <1>5 DEF Next, vars

LEMMA QueueChanges ==
    ASSUME Calm, [Next]_vars, pending' # pending
    PROVE  \/ \E w \in Writes : ReplyAP(w) \/ Commit(w)
           \/ \E m \in net : CallSucceeds(m) \/ CallFails(m)
<1>1. ~ Client
  BY DEF Client, NewRecord, StartGet
<1>2. ASSUME NEW w \in Writes, PutStep(w) PROVE ReplyAP(w) \/ Commit(w)
  BY <1>2 DEF PutStep, ApplyAP, ReplicateSync, Reject, ReplyCP
<1>3. \A r \in Reads : ~ GetStep(r)
  BY DEF GetStep, Probe, ServeCP, RefuseCP
<1>4. ASSUME NEW m \in net, CallStep(m) PROVE CallSucceeds(m) \/ CallFails(m)
  BY <1>4 DEF CallStep, Replicate, Drop
<1>5. \A n \in Nodes : ~ WarmStep(n) /\ ~ Restart(n)
  BY DEF WarmStep, FetchSnapshot, SkipPeer, ApplySnapshot, FinishWarmUp, Restart
<1>6. ~ Operator
  BY DEF Operator, Isolate, Calm, Heal, SetMode
<1>7. \A n \in Nodes, p \in Nodes : ~ SyncSend(n, p)
  BY DEF SyncSend
<1> QED BY <1>1, <1>2, <1>3, <1>4, <1>5, <1>6, <1>7 DEF Next, vars

LEMMA PutChanges ==
    ASSUME [Next]_vars, put' # put
    PROVE  \/ \E w \in Writes, n \in Nodes : NewRecord(w, n)
           \/ \E w \in Writes : PutStep(w)
           \/ \E m \in net : CallSucceeds(m) \/ CallFails(m)
           \/ \E n \in Nodes : Crash(n)
<1>1. \A r \in Reads, n \in Nodes : ~ StartGet(r, n)
  BY DEF StartGet
<1>2. \A r \in Reads : ~ GetStep(r)
  BY DEF GetStep, Probe, ServeCP, RefuseCP
<1>3. ASSUME NEW m \in net, CallStep(m) PROVE CallSucceeds(m) \/ CallFails(m)
  BY <1>3 DEF CallStep, Replicate, Drop
<1>4. \A n \in Nodes : ~ WarmStep(n) /\ ~ Restart(n)
  BY DEF WarmStep, FetchSnapshot, SkipPeer, ApplySnapshot, FinishWarmUp, Restart
<1>5. Operator => \E n \in Nodes : Crash(n)
  BY DEF Operator, Isolate, Heal, SetMode
<1>6. \A n \in Nodes, p \in Nodes : ~ SyncSend(n, p)
  BY DEF SyncSend
<1> QED BY <1>1, <1>2, <1>3, <1>4, <1>5, <1>6 DEF Next, Client, vars

-----------------------------------------------------------------------------
(* How one step changes requests, calls and queues *)

\* A PUT that has begun keeps its record, and its mode once that was read;
\* answers are only added, and a vote is added only by a call that succeeds; the
\* state advances only by a step of the PUT itself, or ends with its process.
Evolves(w) ==
    /\ put[w].pc # "idle" => put'[w].pc # "idle" /\ put'[w].rec = put[w].rec
    /\ put[w].pc \notin {"idle", "made"} => put'[w].via = put[w].via
    /\ put[w].yes \subseteq put'[w].yes
    /\ \A p \in put'[w].yes \ put[w].yes :
          \E m \in net : m.call = w /\ m.to = p /\ m.left = {}
    /\ put[w].no \subseteq put'[w].no
    /\ \/ put'[w].pc = put[w].pc \/ put'[w].pc \in {"made", "rejected", "died"}
       \/ ApplyAP(w) \/ ReplyAP(w) \/ ReplicateSync(w) \/ Commit(w) \/ ReplyCP(w)

LEMMA PutsEvolve ==
    ASSUME TypeOK, [Next]_vars
    PROVE  \A v \in Writes : Evolves(v)
<1>1. put \in [Writes -> PutType] /\ \A v \in Writes : put[v] \in PutType
  BY DEF TypeOK, PutsTyped
<1>2. ASSUME NEW v \in Writes, put'[v] = put[v] PROVE Evolves(v)
  BY <1>2 DEF Evolves
<1>3. ASSUME NEW w \in Writes, NEW n \in Nodes, NewRecord(w, n) PROVE \A v \in Writes : Evolves(v)
  <2>1. /\ put[w].pc = "idle"
        /\ put'[w] = [put[w] EXCEPT !.pc = "made", !.rec = Fresh(w, n)]
        /\ \A v \in Writes : v # w => put'[v] = put[v]
    BY <1>1, <1>3 DEF NewRecord
  <2>2. Evolves(w)
    BY <1>1, <2>1 DEF Evolves, PutType
  <2> QED BY <1>2, <2>1, <2>2
<1>4. ASSUME NEW w \in Writes, PutStep(w) PROVE \A v \in Writes : Evolves(v)
  <2>1. /\ put[w].pc # "idle"
        /\ \/ put[w].pc = "made" \/ put'[w].via = put[w].via
        /\ put'[w].rec = put[w].rec /\ put'[w].yes = put[w].yes /\ put'[w].no = put[w].no
        /\ put'[w].pc # "idle"
        /\ \A v \in Writes : v # w => put'[v] = put[v]
    <3>1. CASE ApplyAP(w)
      BY <1>1, <3>1 DEF ApplyAP, PutType
    <3>2. CASE ReplyAP(w)
      BY <1>1, <3>2 DEF ReplyAP, PutType
    <3>3. CASE ReplicateSync(w)
      BY <1>1, <3>3 DEF ReplicateSync, PutType
    <3>4. CASE Commit(w)
      BY <1>1, <3>4 DEF Commit, PutType
    <3>5. CASE Reject(w)
      BY <1>1, <3>5 DEF Reject, PutType
    <3>6. CASE ReplyCP(w)
      BY <1>1, <3>6 DEF ReplyCP, PutType
    <3> QED BY <1>4, <3>1, <3>2, <3>3, <3>4, <3>5, <3>6 DEF PutStep
  <2>2. Reject(w) => put'[w].pc = "rejected"
    BY <1>1 DEF Reject, PutType
  <2>3. Evolves(w)
    BY <1>4, <2>1, <2>2 DEF Evolves, PutStep
  <2> QED BY <1>2, <2>1, <2>3
<1>5. ASSUME NEW m \in net, CallSucceeds(m), put' # put PROVE \A v \in Writes : Evolves(v)
  <2>1. m.left = {} /\ m.call # NoWrite /\ put' = [put EXCEPT ![m.call].yes = @ \cup {m.to}]
    BY <1>5 DEF CallSucceeds, Answered
  <2>2. m.call \in Writes
    BY <2>1, CallRow DEF TypeOK
  <2>3. /\ put'[m.call] = [put[m.call] EXCEPT !.yes = @ \cup {m.to}]
        /\ \A v \in Writes : v # m.call => put'[v] = put[v]
    BY <1>1, <2>1, <2>2
  <2>4. Evolves(m.call)
    <3>1. put[m.call] \in PutType
      BY <1>1, <2>2
    <3>2. /\ put'[m.call].pc = put[m.call].pc /\ put'[m.call].rec = put[m.call].rec
          /\ put'[m.call].via = put[m.call].via /\ put'[m.call].no = put[m.call].no
          /\ put'[m.call].yes = put[m.call].yes \cup {m.to}
      BY <2>3, <3>1 DEF PutType
    <3> QED BY <2>1, <3>2 DEF Evolves
  <2> QED BY <1>2, <2>3, <2>4
<1>6. ASSUME NEW m \in net, CallFails(m), put' # put PROVE \A v \in Writes : Evolves(v)
  <2>1. m.call # NoWrite /\ put' = [put EXCEPT ![m.call].no = @ \cup {m.to}]
    BY <1>6 DEF CallFails
  <2>2. m.call \in Writes
    BY <2>1, CallRow DEF TypeOK
  <2>3. /\ put'[m.call] = [put[m.call] EXCEPT !.no = @ \cup {m.to}]
        /\ \A v \in Writes : v # m.call => put'[v] = put[v]
    BY <1>1, <2>1, <2>2
  <2>4. Evolves(m.call)
    BY <1>1, <2>2, <2>3 DEF Evolves, PutType
  <2> QED BY <1>2, <2>3, <2>4
<1>7. CASE put' = put
  BY <1>7, <1>2
<1>8. ASSUME NEW n \in Nodes, Crash(n) PROVE \A v \in Writes : Evolves(v)
  <2> TAKE v \in Writes
  <2>1. \/ put'[v] = put[v]
        \/ put[v].pc \in Running /\ put'[v] = [put[v] EXCEPT !.pc = "died"]
    BY <1>8 DEF Crash
  <2>2. CASE put[v].pc \in Running /\ put'[v] = [put[v] EXCEPT !.pc = "died"]
    BY <1>1, <2>2 DEF Evolves, PutType
  <2> QED BY <1>2, <2>1, <2>2
<1> QED BY <1>3, <1>4, <1>5, <1>6, <1>7, <1>8, PutChanges

\* The same call, and what its receiver has worked off in this step is stored.
KeptCall(x, m) ==
    /\ x.call = m.call /\ x.to = m.to /\ x.recs = m.recs
    /\ \A k \in Keys : k \notin x.left => k \notin m.left \/ AtLeast(data'[x.to][k], x.recs[k])

\* A call of the next state is one of this state, or new with nothing worked off: the record of
\* its PUT, or the queue of a peer.
NetFrom(x) ==
    \/ \E m \in net : KeptCall(x, m)
    \/ /\ x.left = Batch(x.recs)
       /\ \/ x.call = NoWrite /\ \E n \in Nodes, p \in Nodes : x.recs = pending[n][p]
          \/ /\ x.call \in Writes /\ put[x.call].pc # "idle"
             /\ x.recs = [Nothing EXCEPT ![KeyOf[x.call]] = put'[x.call].rec]

LEMMA KeptCallHolds == \A x \in net : KeptCall(x, x)
BY DEF KeptCall

LEMMA NetStep ==
    ASSUME TypeOK, [Next]_vars
    PROVE  \A x \in net' : NetFrom(x)
<1> SUFFICES ASSUME NEW x \in net', x \notin net PROVE NetFrom(x)
  BY KeptCallHolds DEF NetFrom
<1>1. ASSUME NEW w \in Writes, ReplicateSync(w) PROVE NetFrom(x)
  <2> DEFINE recs == [Nothing EXCEPT ![KeyOf[w]] = put[w].rec]
             n == put[w].rec.node
  <2>1. put[w].pc = "made" /\ net' = net \cup {Call(w, n, p, recs) : p \in Peers(n)}
    BY <1>1 DEF ReplicateSync
  <2>2. put'[w].rec = put[w].rec
    BY <2>1, PutsEvolve DEF Evolves
  <2>3. PICK p \in Peers(n) : x = Call(w, n, p, recs)
    BY <2>1
  <2>4. x.left = Batch(recs) /\ x.call = w /\ x.recs = recs
    BY <2>3 DEF Call
  <2> QED BY <2>1, <2>2, <2>4 DEF NetFrom
<1>2. ASSUME NEW m \in net, NEW k \in Keys, Replicate(m, k) PROVE KeptCall(x, m)
  <2>1. m \in CallType /\ m.to \in Nodes /\ m.recs \in [Keys -> Record]
    BY CallRow DEF TypeOK
  <2>2. AtLeast(data'[m.to][k], m.recs[k])
    <3>1. Apply(m.to, k, m.recs[k])
      BY <1>2 DEF Replicate
    <3>2. data'[m.to][k] = Newest(m.recs[k], data[m.to][k])
      BY <2>1, <3>1, ApplyEffect DEF TypeOK
    <3> QED BY <2>1, <3>2, StoreRow, VersionOrder DEF TypeOK
  <2>3. x = [m EXCEPT !.left = @ \ {k}]
    BY <1>2 DEF Replicate
  <2>4. x.call = m.call /\ x.to = m.to /\ x.recs = m.recs /\ x.left = m.left \ {k}
    BY <2>1, <2>3 DEF CallType
  <2> QED BY <2>2, <2>4 DEF KeptCall
<1>3. ASSUME NEW m \in net, CallSucceeds(m) \/ CallFails(m) \/ Drop(m) PROVE KeptCall(x, m)
  <2>1. m \in CallType
    BY CallRow DEF TypeOK
  <2>2. x = [m EXCEPT !.waiting = FALSE] \/ x = [m EXCEPT !.lost = TRUE]
    BY <1>3 DEF CallSucceeds, CallFails, Drop, Abandon, Lose
  <2> QED BY <2>1, <2>2 DEF KeptCall, CallType
<1>4. ASSUME NEW n \in Nodes, NEW p \in Nodes, SyncSend(n, p) PROVE NetFrom(x)
  <2>1. x = Call(NoWrite, n, p, pending[n][p])
    BY <1>4 DEF SyncSend
  <2>2. x.left = Batch(x.recs) /\ x.call = NoWrite /\ x.recs = pending[n][p]
    BY <2>1 DEF Call
  <2> QED BY <2>2 DEF NetFrom
<1>5. ASSUME NEW n \in Nodes, Crash(n) PROVE \E m \in net : KeptCall(x, m)
  <2>1. PICK m \in net : x \in Severed(m, n)
    BY <1>5 DEF Crash, Sever
  <2>2. m \in CallType
    BY CallRow DEF TypeOK
  <2>3. x = m \/ x = [m EXCEPT !.waiting = FALSE] \/ x = [m EXCEPT !.lost = TRUE]
    BY <2>1 DEF Severed, Abandon, Lose
  <2> QED BY <2>2, <2>3 DEF KeptCall, CallType
<1> QED BY <1>1, <1>2, <1>3, <1>4, <1>5, NetChanges DEF CallStep, NetFrom

\* A queued record stays queued, is replaced by a newer one, or has been stored.
StillOwed(i, p, j) ==
    \/ AtLeast(pending'[i][p][j], pending[i][p][j])
    \/ AtLeast(data[p][j], pending[i][p][j])

LEMMA StillOwedUnchanged ==
    ASSUME StoreType, UNCHANGED pending
    PROVE  \A i \in Nodes, p \in Nodes, j \in Keys : StillOwed(i, p, j)
<1> TAKE i \in Nodes, p \in Nodes, j \in Keys
<1>1. pending[i][p][j] \in Record
  BY StoreRow
<1> QED BY <1>1, VersionOrder DEF StillOwed

LEMMA OwedAfterEnqueue ==
    ASSUME StoreType, NEW n \in Nodes, NEW ps, NEW k \in Keys, NEW x \in Record, Enqueue(n, ps, k, x)
    PROVE  /\ \A i \in Nodes, p \in Nodes, j \in Keys :
                 AtLeast(pending'[i][p][j], pending[i][p][j])
           /\ \A p \in Nodes : p \in ps => AtLeast(pending'[n][p][k], x)
<1>1. \A i \in Nodes, p \in Nodes, j \in Keys : pending[i][p][j] \in Record
  BY StoreRow
<1>2. ASSUME NEW i \in Nodes, NEW p \in Nodes, NEW j \in Keys
      PROVE  AtLeast(pending'[i][p][j], pending[i][p][j])
  <2>1. \/ pending'[i][p][j] = pending[i][p][j]
        \/ pending'[i][p][j] = Newest(x, pending[i][p][j])
    BY EnqueueEffect
  <2> QED BY <1>1, <2>1, VersionOrder
<1>3. ASSUME NEW p \in Nodes, p \in ps PROVE AtLeast(pending'[n][p][k], x)
  <2>1. pending'[n][p][k] = Newest(x, pending[n][p][k])
    BY <1>3, EnqueueEffect
  <2> QED BY <1>1, <2>1, VersionOrder
<1> QED BY <1>2, <1>3

LEMMA PendingStep ==
    ASSUME NoCrash, TypeOK, Delivered, [Next]_vars
    PROVE  \A i \in Nodes, p \in Nodes, j \in Keys : StillOwed(i, p, j)
<1> DEFINE AllStillOwed == \A i \in Nodes, p \in Nodes, j \in Keys : StillOwed(i, p, j)
<1>1. ASSUME NEW w \in Writes, ReplyAP(w) PROVE AllStillOwed
  <2>1. put[w].pc = "applied" /\ Enqueue(put[w].rec.node, Peers(put[w].rec.node), KeyOf[w], put[w].rec)
    BY <1>1 DEF ReplyAP
  <2>2. put[w].rec.node \in Nodes /\ KeyOf[w] \in Keys /\ put[w].rec \in Record
    BY <2>1, PutRow, KeyAssumption DEF TypeOK
  <2> QED BY <2>1, <2>2, OwedAfterEnqueue DEF TypeOK, StillOwed
<1>2. ASSUME NEW w \in Writes, Commit(w) PROVE AllStillOwed
  <2>1. put[w].pc = "sent" /\ Enqueue(put[w].rec.node, put[w].no, KeyOf[w], put[w].rec)
    BY <1>2 DEF Commit
  <2>2. put[w].rec.node \in Nodes /\ KeyOf[w] \in Keys /\ put[w].rec \in Record
    BY <2>1, PutRow, KeyAssumption DEF TypeOK
  <2> QED BY <2>1, <2>2, OwedAfterEnqueue DEF TypeOK, StillOwed
<1>3. ASSUME NEW m \in net, CallSucceeds(m) PROVE AllStillOwed
  <2>1. CASE UNCHANGED pending
    BY <2>1, StillOwedUnchanged DEF TypeOK
  <2>2. CASE ~ UNCHANGED pending
    <3>1. /\ pending' = [pending EXCEPT ![m.from][m.to] = Forget(pending[m.from][m.to], m.recs)]
          /\ m.left = {}
      BY <1>3, <2>2 DEF CallSucceeds, Answered
    <3>2. m.from \in Nodes /\ m.to \in Nodes
      BY CallRow DEF TypeOK
    <3>3. ASSUME NEW i \in Nodes, NEW p \in Nodes, NEW j \in Keys PROVE StillOwed(i, p, j)
      <4>1. pending[i][p][j] \in Record
        BY StoreRow DEF TypeOK
      <4>2. CASE pending'[i][p][j] = pending[i][p][j]
        BY <4>1, <4>2, VersionOrder DEF StillOwed
      <4>3. CASE pending'[i][p][j] # pending[i][p][j]
        <5>1. i = m.from /\ p = m.to /\ Forget(pending[i][p], m.recs)[j] # pending[i][p][j]
          BY <3>1, <3>2, <4>3 DEF TypeOK, StoreType
        <5>2. pending[i][p][j] = m.recs[j]
          BY <5>1 DEF Forget
        <5>3. AtLeast(data[m.to][j], m.recs[j])
          BY <3>1 DEF Delivered
        <5> QED BY <5>1, <5>2, <5>3 DEF StillOwed
      <4> QED BY <4>2, <4>3
    <3> QED BY <3>3
  <2> QED BY <2>1, <2>2
<1>4. ASSUME NEW m \in net, CallFails(m) PROVE AllStillOwed
  <2>1. CASE UNCHANGED pending
    BY <2>1, StillOwedUnchanged DEF TypeOK
  <2>2. CASE ~ UNCHANGED pending
    <3>1. m.call # NoWrite /\ Enqueue(m.from, {m.to}, KeyOf[m.call], put[m.call].rec)
      BY <1>4, <2>2 DEF CallFails
    <3>2. m.from \in Nodes /\ KeyOf[m.call] \in Keys /\ put[m.call].rec \in Record
      BY <3>1, CallRow, PutRow, KeyAssumption DEF TypeOK
    <3> QED BY <3>1, <3>2, OwedAfterEnqueue DEF TypeOK, StillOwed
  <2> QED BY <2>1, <2>2
<1>5. CASE UNCHANGED pending
  BY <1>5, StillOwedUnchanged DEF TypeOK
<1> QED BY <1>1, <1>2, <1>3, <1>4, <1>5, CalmWithoutCrashes, QueueChanges

\* An open call of a PUT stays open, becomes a vote, or fails; if the write has
\* its quorum, a failure puts the record into the peer's queue.
CallContinues(w, p) ==
    WaitingCall(w, p) =>
        \/ WaitingCall(w, p)'
        \/ p \in put'[w].yes
        \/ /\ p \in put'[w].no
           /\ put[w].pc \in {"committed", "acked"} =>
                 AtLeast(pending'[put[w].rec.node][p][KeyOf[w]], put[w].rec)

LEMMA WaitStep ==
    ASSUME NoCrash, TypeOK, [Next]_vars
    PROVE  \A v \in Writes, q \in Nodes : CallContinues(v, q)
<1> DEFINE AllContinue == \A v \in Writes, q \in Nodes : CallContinues(v, q)
<1>1. ASSUME NEW w \in Writes, ReplicateSync(w) PROVE AllContinue
  <2>1. net \subseteq net'
    BY <1>1 DEF ReplicateSync
  <2> QED BY <2>1 DEF CallContinues, WaitingCall
<1>2. ASSUME NEW m \in net, NEW k \in Keys, Replicate(m, k) PROVE AllContinue
  <2>1. m \in CallType
    BY CallRow DEF TypeOK
  <2>2. net \ {m} \subseteq net' /\ (m.waiting => [m EXCEPT !.left = @ \ {k}] \in net')
    BY <1>2 DEF Replicate
  <2>3. [m EXCEPT !.left = @ \ {k}].call = m.call /\ [m EXCEPT !.left = @ \ {k}].to = m.to /\ [m EXCEPT !.left = @ \ {k}].waiting = m.waiting
    BY <2>1 DEF CallType
  <2>4. ASSUME NEW w \in Writes, NEW p \in Nodes, WaitingCall(w, p) PROVE WaitingCall(w, p)'
    <3>1. PICK y \in net : y.call = w /\ y.to = p /\ y.waiting
      BY <2>4 DEF WaitingCall
    <3> QED BY <2>2, <2>3, <3>1 DEF WaitingCall
  <2> QED BY <2>4 DEF CallContinues
<1>3. ASSUME NEW m \in net, CallSucceeds(m) PROVE AllContinue
  <2>1. /\ m \in CallType /\ m.to \in Nodes
        /\ m.call # NoWrite => /\ m.call \in Writes /\ put[m.call].rec.node = m.from
                               /\ m.from \in Nodes /\ put[m.call].pc # "idle"
    BY CallRow DEF TypeOK
  <2>2. net \ {m} \subseteq net'
    BY <1>3 DEF CallSucceeds
  <2>3. ASSUME NEW w \in Writes, NEW p \in Nodes, WaitingCall(w, p) PROVE CallContinues(w, p)
    <3>1. PICK y \in net : y.call = w /\ y.to = p /\ y.waiting
      BY <2>3 DEF WaitingCall
    <3>2. CASE y # m
      BY <2>2, <3>1, <3>2 DEF CallContinues, WaitingCall
    <3>3. CASE y = m
      <4>1. m.call # NoWrite /\ m.call = w /\ m.to = p
        BY <3>1, <3>3, WritesAssumption
      <4>2. put' = [put EXCEPT ![m.call].yes = @ \cup {m.to}] /\ m.left = {}
        BY <1>3, <4>1 DEF CallSucceeds, Answered
      <4>3. p \in put'[w].yes
        BY <4>1, <4>2 DEF TypeOK, PutsTyped, PutType
      <4> QED BY <4>3 DEF CallContinues
    <3> QED BY <3>2, <3>3
  <2> QED BY <2>3 DEF CallContinues
<1>4. ASSUME NEW m \in net, CallFails(m) PROVE AllContinue
  <2>1. /\ m \in CallType /\ m.to \in Nodes
        /\ m.call # NoWrite => /\ m.call \in Writes /\ put[m.call].rec.node = m.from
                               /\ m.from \in Nodes /\ put[m.call].pc # "idle"
    BY CallRow DEF TypeOK
  <2>2. net \ {m} \subseteq net'
    BY <1>4 DEF CallFails
  <2>3. ASSUME NEW w \in Writes, NEW p \in Nodes, WaitingCall(w, p) PROVE CallContinues(w, p)
    <3>1. PICK y \in net : y.call = w /\ y.to = p /\ y.waiting
      BY <2>3 DEF WaitingCall
    <3>2. CASE y # m
      BY <2>2, <3>1, <3>2 DEF CallContinues, WaitingCall
    <3>3. CASE y = m
      <4>1. m.call # NoWrite /\ m.call = w /\ m.to = p
        BY <3>1, <3>3, WritesAssumption
      <4>2. /\ put' = [put EXCEPT ![m.call].no = @ \cup {m.to}]
            /\ put[m.call].pc \in {"committed", "acked"} =>
                  Enqueue(m.from, {m.to}, KeyOf[m.call], put[m.call].rec)
        BY <1>4, <4>1 DEF CallFails
      <4>3. p \in put'[w].no
        BY <4>1, <4>2 DEF TypeOK, PutsTyped, PutType
      <4>4. ASSUME put[w].pc \in {"committed", "acked"}
            PROVE  AtLeast(pending'[put[w].rec.node][p][KeyOf[w]], put[w].rec)
        <5>1. put[w].rec \in Record /\ KeyOf[w] \in Keys
          BY PutRow, KeyAssumption DEF TypeOK
        <5>2. put[w].rec.node = m.from /\ m.from \in Nodes
          BY <2>1, <4>1
        <5>3. Enqueue(put[w].rec.node, {p}, KeyOf[w], put[w].rec)
          BY <4>1, <4>2, <4>4, <5>2
        <5> QED BY <5>1, <5>3, <5>2, OwedAfterEnqueue DEF TypeOK
      <4> QED BY <4>3, <4>4 DEF CallContinues
    <3> QED BY <3>2, <3>3
  <2> QED BY <2>3 DEF CallContinues
<1>5. ASSUME NEW m \in net, Drop(m) PROVE AllContinue
  <2>1. m \in CallType
    BY CallRow DEF TypeOK
  <2>2. net \ {m} \subseteq net' /\ (m.waiting => [m EXCEPT !.lost = TRUE] \in net')
    BY <1>5 DEF Drop, Lose
  <2>3. [m EXCEPT !.lost = TRUE].call = m.call /\ [m EXCEPT !.lost = TRUE].to = m.to /\ [m EXCEPT !.lost = TRUE].waiting = m.waiting
    BY <2>1 DEF CallType
  <2>4. ASSUME NEW w \in Writes, NEW p \in Nodes, WaitingCall(w, p) PROVE WaitingCall(w, p)'
    <3>1. PICK y \in net : y.call = w /\ y.to = p /\ y.waiting
      BY <2>4 DEF WaitingCall
    <3> QED BY <2>2, <2>3, <3>1 DEF WaitingCall
  <2> QED BY <2>4 DEF CallContinues
<1>6. ASSUME NEW n \in Nodes, NEW p \in Nodes, SyncSend(n, p) PROVE AllContinue
  <2>1. net \subseteq net'
    BY <1>6 DEF SyncSend
  <2> QED BY <2>1 DEF CallContinues, WaitingCall
<1>7. CASE UNCHANGED net
  BY <1>7 DEF CallContinues, WaitingCall
<1> QED BY <1>1, <1>2, <1>3, <1>4, <1>5, <1>6, <1>7, NetChanges DEF CallStep, Crash, NoCrash

-----------------------------------------------------------------------------
(* The invariant, part by part *)

\* Three parts of DurabilityInv, for the nodes that do not crash.
DeliveredLasts ==
    \A m \in net : m.to \notin Crashable => \A k \in Keys \ m.left : AtLeast(data[m.to][k], m.recs[k])

VotersLast ==
    \A w \in Writes : \A p \in put[w].yes \ Crashable : AtLeast(data[p][KeyOf[w]], put[w].rec)

AckedLasts ==
    \A w \in Writes : put[w].pc \in {"applied", "acked"} /\ put[w].rec.node \notin Crashable =>
        AtLeast(data[put[w].rec.node][KeyOf[w]], put[w].rec)

LEMMA AllLast ==
    ASSUME NoCrash
    PROVE  (Delivered <=> DeliveredLasts) /\ (VotersStore <=> VotersLast) /\ (AckedStored <=> AckedLasts)
BY DEF NoCrash, Delivered, DeliveredLasts, VotersStore, VotersLast, AckedStored, AckedLasts

\* What PutsEvolve says of a record, in the form the parts use.
LEMMA RecordKept ==
    ASSUME TypeOK, [Next]_vars, NEW w \in Writes, put[w].pc # "idle"
    PROVE  /\ put[w].rec \in Record /\ KeyOf[w] \in Keys /\ put[w].rec.node \in Nodes
           /\ put'[w].pc # "idle" /\ put'[w].rec = put[w].rec
<1>1. Evolves(w)
  BY PutsEvolve
<1> QED BY <1>1, PutRow, KeyAssumption DEF TypeOK, Evolves

\* How far the steps of a PUT take it.
LEMMA Progress ==
    ASSUME TypeOK, NEW w \in Writes
    PROVE  /\ ApplyAP(w) => put'[w].pc = "applied" /\ put'[w].via = "ap"
           /\ ReplyAP(w) => put[w].pc = "applied" /\ put'[w].pc = "acked"
           /\ ReplicateSync(w) => put'[w].pc = "sent"
           /\ Commit(w) => put[w].pc = "sent" /\ put'[w].pc = "committed"
           /\ ReplyCP(w) => put[w].pc = "committed" /\ put'[w].pc = "acked"
<1>1. put[w] \in PutType /\ put \in [Writes -> PutType]
  BY DEF TypeOK, PutsTyped
<1>2. ApplyAP(w) => put'[w].pc = "applied" /\ put'[w].via = "ap"
  BY <1>1 DEF ApplyAP, PutType
<1>3. ReplyAP(w) => put[w].pc = "applied" /\ put'[w].pc = "acked"
  BY <1>1 DEF ReplyAP, PutType
<1>4. ReplicateSync(w) => put'[w].pc = "sent"
  BY <1>1 DEF ReplicateSync, PutType
<1>5. Commit(w) => put[w].pc = "sent" /\ put'[w].pc = "committed"
  BY <1>1 DEF Commit, PutType
<1>6. ReplyCP(w) => put[w].pc = "committed" /\ put'[w].pc = "acked"
  BY <1>1 DEF ReplyCP, PutType
<1> QED BY <1>2, <1>3, <1>4, <1>5, <1>6

LEMMA CallsCarryStep ==
    ASSUME TypeOK, [Next]_vars, CallsCarry
    PROVE  CallsCarry'
<1> SUFFICES ASSUME NEW x \in net', x.call # NoWrite
             PROVE  x.recs = [Nothing EXCEPT ![KeyOf[x.call]] = put'[x.call].rec]
  BY DEF CallsCarry
<1>1. CASE \E m \in net : KeptCall(x, m)
  <2>1. PICK m \in net : KeptCall(x, m)
    BY <1>1
  <2>2. /\ x.call = m.call /\ x.recs = m.recs
        /\ m.call \in Writes /\ put[m.call].pc # "idle"
    BY <2>1, CallRow DEF KeptCall, TypeOK
  <2>3. x.recs = [Nothing EXCEPT ![KeyOf[x.call]] = put[x.call].rec]
    BY <2>2 DEF CallsCarry
  <2> QED BY <2>2, <2>3, RecordKept
<1>2. CASE ~ \E m \in net : KeptCall(x, m)
  BY <1>2, NetStep DEF NetFrom
<1> QED BY <1>1, <1>2

LEMMA DeliveredStep ==
    ASSUME TypeOK, TypeOK', [Next]_vars, DeliveredLasts
    PROVE  DeliveredLasts'
<1> SUFFICES ASSUME NEW x \in net', x.to \notin Crashable, NEW k \in Keys, k \notin x.left
             PROVE  AtLeast(data'[x.to][k], x.recs[k])
  BY DEF DeliveredLasts
<1>1. CASE \E m \in net : KeptCall(x, m)
  <2>1. PICK m \in net : KeptCall(x, m)
    BY <1>1
  <2>2. x.to = m.to /\ x.recs = m.recs /\ (k \notin m.left \/ AtLeast(data'[x.to][k], x.recs[k]))
    BY <2>1 DEF KeptCall
  <2>3. m.to \in Nodes /\ m.recs[k] \in Record
    BY CallRow DEF TypeOK
  <2>4. CASE k \notin m.left
    <3>1. AtLeast(data[m.to][k], m.recs[k])
      BY <2>2, <2>4 DEF DeliveredLasts
    <3>2. AtLeast(data'[m.to][k], m.recs[k])
      BY <2>2, <2>3, <3>1, StoredLasts
    <3> QED BY <2>2, <3>2
  <2> QED BY <2>2, <2>4
<1>2. CASE ~ \E m \in net : KeptCall(x, m)
  <2>1. x.left = Batch(x.recs)
    BY <1>2, NetStep DEF NetFrom
  <2>2. x.recs[k] = NoRecord
    BY <2>1 DEF Batch
  <2>3. data'[x.to][k] \in Record
    BY DEF TypeOK, StoreType, CallsTyped, CallType
  <2> QED BY <2>2, <2>3, VersionOrder
<1> QED BY <1>1, <1>2

LEMMA VotersStoreStep ==
    ASSUME TypeOK, TypeOK', [Next]_vars, CallsCarry, DeliveredLasts, VotersLast
    PROVE  VotersLast'
<1> SUFFICES ASSUME NEW w \in Writes, NEW p \in put'[w].yes, p \notin Crashable
             PROVE  AtLeast(data'[p][KeyOf[w]], put'[w].rec)
  BY DEF VotersLast
<1>1. CASE p \in put[w].yes
  <2>1. put[w].pc # "idle" /\ p \in Nodes
    BY <1>1, PutRow DEF TypeOK
  <2>2. AtLeast(data[p][KeyOf[w]], put[w].rec)
    BY <1>1 DEF VotersLast
  <2>3. AtLeast(data'[p][KeyOf[w]], put[w].rec)
    BY <2>1, <2>2, RecordKept, StoredLasts
  <2> QED BY <2>1, <2>3, RecordKept
<1>2. CASE p \notin put[w].yes
  <2>1. PICK m \in net : m.call = w /\ m.to = p /\ m.left = {}
    BY <1>2, PutsEvolve DEF Evolves
  <2>2. w # NoWrite
    BY WritesAssumption
  <2>3. put[w].pc # "idle" /\ p \in Nodes
    BY <2>1, <2>2, CallRow DEF TypeOK
  <2>4. put[w].rec \in Record /\ KeyOf[w] \in Keys
    BY <2>3, RecordKept
  <2>5. m.recs[KeyOf[w]] = put[w].rec
    BY <2>1, <2>2, <2>4 DEF CallsCarry, Nothing
  <2>6. AtLeast(data[p][KeyOf[w]], put[w].rec)
    BY <2>1, <2>4, <2>5 DEF DeliveredLasts
  <2>7. AtLeast(data'[p][KeyOf[w]], put[w].rec)
    BY <2>3, <2>4, <2>6, StoredLasts
  <2> QED BY <2>3, <2>7, RecordKept
<1> QED BY <1>1, <1>2

LEMMA PeersAccountedForStep ==
    ASSUME NoCrash, TypeOK, [Next]_vars, PeersAccountedFor
    PROVE  PeersAccountedFor'
<1> SUFFICES ASSUME NEW w \in Writes, put'[w].pc = "sent", NEW p \in Peers(put'[w].rec.node)
             PROVE  p \in put'[w].yes \cup put'[w].no \/ WaitingCall(w, p)'
  BY DEF PeersAccountedFor, Peers
<1>1. put[w].pc = "sent" \/ ReplicateSync(w)
  BY PutsEvolve, Progress DEF Evolves
<1>2. put[w].pc # "idle"
  BY <1>1 DEF ReplicateSync
<1>3. p \in Peers(put[w].rec.node) /\ p \in Nodes
  BY <1>2, RecordKept DEF Peers
<1>4. CASE put[w].pc = "sent"
  <2>1. p \in put[w].yes \cup put[w].no \/ WaitingCall(w, p)
    BY <1>3, <1>4 DEF PeersAccountedFor
  <2>2. put[w].yes \subseteq put'[w].yes /\ put[w].no \subseteq put'[w].no
    BY PutsEvolve DEF Evolves
  <2>3. CallContinues(w, p)
    BY <1>3, WaitStep
  <2> QED BY <2>1, <2>2, <2>3 DEF CallContinues
<1>5. CASE ReplicateSync(w)
  <2> DEFINE recs == [Nothing EXCEPT ![KeyOf[w]] = put[w].rec]
  <2>1. Call(w, put[w].rec.node, p, recs) \in net'
    BY <1>3, <1>5 DEF ReplicateSync
  <2>2. /\ Call(w, put[w].rec.node, p, recs).call = w
        /\ Call(w, put[w].rec.node, p, recs).to = p
        /\ Call(w, put[w].rec.node, p, recs).waiting
    BY DEF Call
  <2> QED BY <2>1, <2>2 DEF WaitingCall
<1> QED BY <1>1, <1>4, <1>5

\* Votes are only added.
LEMMA VotesGrow ==
    ASSUME TypeOK, TypeOK', [Next]_vars, NEW w \in Writes
    PROVE  Votes(w)' >= Votes(w) /\ Votes(w) \in Nat
<1>1. put[w].yes \subseteq put'[w].yes
  BY PutsEvolve DEF Evolves
<1>2. put'[w].yes \subseteq Nodes
  BY DEF TypeOK, PutsTyped, PutType
<1>3. IsFiniteSet(put'[w].yes)
  BY <1>2, NodesAssumption, FS_Subset
<1>4. /\ IsFiniteSet(put[w].yes)
      /\ Cardinality(put[w].yes) <= Cardinality(put'[w].yes)
  BY <1>1, <1>3, FS_Subset
<1>5. Cardinality(put[w].yes) \in Nat /\ Cardinality(put'[w].yes) \in Nat
  BY <1>3, <1>4, FS_CardinalityType
<1> QED BY <1>4, <1>5 DEF Votes

LEMMA QuorumVotedStep ==
    ASSUME TypeOK, TypeOK', [Next]_vars, QuorumVoted
    PROVE  QuorumVoted'
<1> SUFFICES ASSUME NEW w \in Writes
             PROVE  /\ put'[w].pc = "applied" => put'[w].via = "ap"
                    /\ put'[w].pc \in {"committed", "acked"} /\ put'[w].via = "cp"
                       => Votes(w)' >= Quorum
  BY DEF QuorumVoted
<1>1. Evolves(w)
  BY PutsEvolve
<1>2. put[w] \in PutType /\ put \in [Writes -> PutType]
  BY DEF TypeOK, PutsTyped
<1>3. ASSUME put'[w].pc = "applied" PROVE put'[w].via = "ap"
  <2>1. CASE ApplyAP(w)
    BY <2>1, Progress
  <2>2. CASE put[w].pc = "applied"
    BY <1>1, <2>2 DEF Evolves, QuorumVoted
  <2>3. put'[w].pc = put[w].pc \/ ApplyAP(w)
    BY <1>1, <1>3, Progress DEF Evolves
  <2> QED BY <1>3, <2>1, <2>2, <2>3
<1>4. ASSUME put'[w].pc \in {"committed", "acked"}, put'[w].via = "cp"
      PROVE  Votes(w) >= Quorum
  <2>1. put[w].pc \in {"committed", "acked"} \/ ReplyAP(w) \/ Commit(w)
    BY <1>1, <1>4, Progress DEF Evolves
  <2>2. put[w].pc \notin {"idle", "made"}
    BY <2>1 DEF ReplyAP, Commit
  <2>3. put[w].via = "cp"
    BY <1>1, <1>4, <2>2 DEF Evolves
  <2>4. ~ ReplyAP(w)
    BY <2>3 DEF ReplyAP, QuorumVoted
  <2> QED BY <2>1, <2>3, <2>4 DEF Commit, QuorumVoted
<1>5. Quorum \in Nat
  BY NodesAssumption, FS_CardinalityType DEF Quorum
<1> QED
  <2>1. Votes(w)' \in Nat
    <3>1. put'[w].yes \subseteq Nodes
      BY DEF TypeOK, PutsTyped, PutType
    <3>2. Cardinality(put'[w].yes) \in Nat
      BY <3>1, NodesAssumption, FS_Subset, FS_CardinalityType
    <3> QED BY <3>2 DEF Votes
  <2> QED BY <1>3, <1>4, <1>5, <2>1, VotesGrow

LEMMA AckedStoredStep ==
    ASSUME TypeOK, TypeOK', [Next]_vars, AckedLasts
    PROVE  AckedLasts'
<1> SUFFICES ASSUME NEW w \in Writes, put'[w].pc \in {"applied", "acked"}, put'[w].rec.node \notin Crashable
             PROVE  AtLeast(data'[put'[w].rec.node][KeyOf[w]], put'[w].rec)
  BY DEF AckedLasts
<1>1. put[w] \in PutType /\ put \in [Writes -> PutType] /\ Evolves(w)
  BY PutsEvolve DEF TypeOK, PutsTyped
<1>2. put[w].pc \in {"applied", "acked"} \/ ApplyAP(w) \/ ReplyCP(w)
  BY <1>1, Progress DEF Evolves
<1>3. put[w].pc # "idle"
  BY <1>2 DEF ApplyAP, ReplyCP
<1>4. CASE put[w].pc \in {"applied", "acked"}
  <2>1. AtLeast(data[put[w].rec.node][KeyOf[w]], put[w].rec)
    BY <1>3, <1>4, RecordKept DEF AckedLasts
  <2> QED BY <1>3, <2>1, RecordKept, StoredLasts
<1>5. CASE ApplyAP(w) \/ ReplyCP(w)
  <2>1. Apply(put[w].rec.node, KeyOf[w], put[w].rec)
    BY <1>5 DEF ApplyAP, ReplyCP
  <2>2. /\ put[w].rec \in Record /\ KeyOf[w] \in Keys /\ put[w].rec.node \in Nodes
        /\ put'[w].rec = put[w].rec
    BY <1>3, RecordKept
  <2>3. data'[put[w].rec.node][KeyOf[w]] = Newest(put[w].rec, data[put[w].rec.node][KeyOf[w]])
    BY <2>1, <2>2, ApplyEffect DEF TypeOK
  <2> QED BY <2>2, <2>3, StoreRow, VersionOrder DEF TypeOK
<1> QED BY <1>2, <1>4, <1>5

LEMMA OwedStep ==
    ASSUME NoCrash, TypeOK, TypeOK', [Next]_vars, Delivered, PeersAccountedFor,
           VotersStore, VotersStore', OwedWritesAreRemembered
    PROVE  OwedWritesAreRemembered'
<1> SUFFICES ASSUME NEW w \in Writes, put'[w].pc \in {"committed", "acked"},
                    NEW p \in Peers(put'[w].rec.node)
             PROVE  \/ AtLeast(data'[p][KeyOf[w]], put'[w].rec)
                    \/ AtLeast(pending'[put'[w].rec.node][p][KeyOf[w]], put'[w].rec)
                    \/ WaitingCall(w, p)'
  BY DEF OwedWritesAreRemembered, Peers
<1> DEFINE n == put[w].rec.node
           k == KeyOf[w]
           rec == put[w].rec
<1>1. put[w] \in PutType /\ put \in [Writes -> PutType] /\ Evolves(w)
  BY PutsEvolve DEF TypeOK, PutsTyped
<1>2. put[w].pc \in {"committed", "acked"} \/ ReplyAP(w) \/ Commit(w)
  BY <1>1, Progress DEF Evolves
<1>3. put[w].pc # "idle"
  BY <1>2 DEF ReplyAP, Commit
<1>4. n \in Nodes /\ k \in Keys /\ rec \in Record /\ put'[w].rec = rec
  BY <1>3, RecordKept
<1>5. p \in Peers(n) /\ p \in Nodes
  BY <1>4 DEF Peers
<1>6. CASE put[w].pc \in {"committed", "acked"}
  <2>1. CASE AtLeast(data[p][k], rec)
    BY <1>4, <1>5, <2>1, StoredStays
  <2>2. CASE AtLeast(pending[n][p][k], rec)
    <3>1. pending[n][p][k] \in Record /\ pending'[n][p][k] \in Record /\ data[p][k] \in Record
      <4>1. pending[n][p] \in [Keys -> Record] /\ data[p][k] \in Record
        BY <1>4, <1>5, StoreRow DEF TypeOK
      <4>2. pending' \in [Nodes -> [Nodes -> [Keys -> Record]]]
        BY DEF TypeOK, StoreType
      <4> QED BY <1>4, <1>5, <4>1, <4>2
    <3>2. StillOwed(n, p, k)
      BY <1>4, <1>5, PendingStep
    <3>3. AtLeast(pending'[n][p][k], rec) \/ AtLeast(data[p][k], rec)
      BY <1>4, <2>2, <3>1, <3>2, VersionOrder DEF StillOwed
    <3> QED BY <1>4, <1>5, <3>3, StoredStays
  <2>3. CASE WaitingCall(w, p)
    <3>1. CallContinues(w, p)
      BY <1>5, WaitStep
    <3>2. p \in put'[w].yes => AtLeast(data'[p][k], put'[w].rec)
      BY DEF VotersStore
    <3> QED BY <1>4, <1>6, <2>3, <3>1, <3>2 DEF CallContinues
  <2> QED BY <1>5, <1>6, <2>1, <2>2, <2>3 DEF OwedWritesAreRemembered
<1>7. CASE ReplyAP(w)
  <2>1. Enqueue(n, Peers(n), k, rec)
    BY <1>7 DEF ReplyAP
  <2>2. AtLeast(pending'[n][p][k], rec)
    BY <1>4, <1>5, <2>1, OwedAfterEnqueue DEF TypeOK
  <2> QED BY <1>4, <2>2
<1>8. CASE Commit(w)
  <2>1. put[w].pc = "sent" /\ Enqueue(n, put[w].no, k, rec) /\ net' = net
    BY <1>8 DEF Commit
  <2>2. p \in put[w].yes \/ p \in put[w].no \/ WaitingCall(w, p)
    BY <1>5, <2>1 DEF PeersAccountedFor
  <2>3. CASE p \in put[w].yes
    <3>1. AtLeast(data[p][k], rec)
      BY <2>3 DEF VotersStore
    <3> QED BY <1>4, <1>5, <3>1, StoredStays
  <2>4. CASE p \in put[w].no
    <3>1. AtLeast(pending'[n][p][k], rec)
      BY <1>4, <1>5, <2>1, <2>4, OwedAfterEnqueue DEF TypeOK
    <3> QED BY <1>4, <3>1
  <2>5. CASE WaitingCall(w, p)
    BY <2>1, <2>5 DEF WaitingCall
  <2> QED BY <2>2, <2>3, <2>4, <2>5
<1> QED BY <1>2, <1>6, <1>7, <1>8

LEMMA DurabilityStep ==
    ASSUME NoCrash
    PROVE  TypeOK /\ TypeOK' /\ DurabilityInv /\ [Next]_vars => DurabilityInv'
<1> SUFFICES ASSUME TypeOK, TypeOK', DurabilityInv, [Next]_vars PROVE DurabilityInv'
  OBVIOUS
<1>1. DeliveredLasts /\ VotersLast /\ AckedLasts
  BY AllLast DEF DurabilityInv
<1>2. (DeliveredLasts /\ VotersLast /\ AckedLasts)'
  BY <1>1, DeliveredStep, VotersStoreStep, AckedStoredStep DEF DurabilityInv
<1>3. (Delivered /\ VotersStore /\ AckedStored)'
  BY <1>2 DEF NoCrash, Delivered, DeliveredLasts, VotersStore, VotersLast, AckedStored, AckedLasts
<1> QED
  BY <1>3, CallsCarryStep, PeersAccountedForStep, QuorumVotedStep, OwedStep DEF DurabilityInv

\* While no node crashes, every part of the durability invariant holds, whatever
\* the partitions, the order of answers and the mode switches: votes come from
\* nodes that store the write, and what a peer has not stored is queued for it or
\* in an open call (replicate_sync, enqueue and sync_loop of kv_node.py).
THEOREM WritesAreDurable == ASSUME NoCrash PROVE Spec => []DurabilityInv
<1>1. Init => DurabilityInv
  BY DEF Init, InitWith, IdlePut, DurabilityInv, CallsCarry, Delivered, VotersStore,
         PeersAccountedFor, QuorumVoted, AckedStored, OwedWritesAreRemembered
<1> QED BY <1>1, DurabilityStep, TypeCorrect, PTL DEF Spec

\* An acknowledged write that a peer has not stored is never forgotten: it is
\* queued for the peer or in an open call whose failure will queue it.
THEOREM AckedWritesAreNeverForgotten ==
    ASSUME NoCrash PROVE Spec => []OwedWritesAreRemembered
<1>1. DurabilityInv => OwedWritesAreRemembered
  BY DEF DurabilityInv
<1> QED BY <1>1, WritesAreDurable, PTL

\* A write acknowledged in mode cp is stored, or superseded, on a quorum of nodes.
THEOREM AckedInCPOnQuorum == ASSUME NoCrash PROVE Spec => []StoredOnQuorum
<1>1. TypeOK /\ DurabilityInv => StoredOnQuorum
  <2> SUFFICES ASSUME TypeOK, DurabilityInv, NEW w \in Writes,
                      put[w].pc = "acked", put[w].via = "cp"
               PROVE  Cardinality({i \in Nodes : AtLeast(data[i][KeyOf[w]], put[w].rec)}) >= Quorum
    BY DEF StoredOnQuorum
  <2> DEFINE S == {i \in Nodes : AtLeast(data[i][KeyOf[w]], put[w].rec)}
             T == put[w].yes \cup {put[w].rec.node}
  <2>1. put[w].rec.node \in Nodes /\ put[w].yes \subseteq Peers(put[w].rec.node)
    BY PutRow DEF TypeOK
  <2>2. T \subseteq S
    BY <2>1 DEF DurabilityInv, VotersStore, AckedStored, Peers
  <2>3. IsFiniteSet(S) /\ IsFiniteSet(put[w].yes)
    <3>1. S \subseteq Nodes /\ put[w].yes \subseteq Nodes
      BY <2>1 DEF Peers
    <3> QED BY <3>1, NodesAssumption, FS_Subset
  <2>4. Cardinality(T) = Cardinality(put[w].yes) + 1
    <3>1. put[w].rec.node \notin put[w].yes
      BY <2>1 DEF Peers
    <3> QED BY <2>3, <3>1, FS_AddElement
  <2>5. IsFiniteSet(T) /\ Cardinality(T) <= Cardinality(S)
    BY <2>2, <2>3, FS_Subset
  <2>6. Votes(w) >= Quorum
    BY DEF DurabilityInv, QuorumVoted
  <2>7. Cardinality(S) \in Nat /\ Cardinality(put[w].yes) \in Nat /\ Quorum \in Nat
    BY <2>3, NodesAssumption, FS_CardinalityType DEF Quorum
  <2> HIDE DEF S, T
  <2>8. Cardinality(S) >= Quorum
    BY <2>4, <2>5, <2>6, <2>7 DEF Votes
  <2> QED BY <2>8 DEF S
<1> QED BY <1>1, WritesAreDurable, TypeCorrect, PTL

-----------------------------------------------------------------------------
(* Whose records they are *)

\* A record under k that some PUT of k has made, or none.
Made(x, k) == x = NoRecord \/ \E w \in Writes : put[w].pc # "idle" /\ KeyOf[w] = k /\ x = put[w].rec

MadeData == \A n \in Nodes, k \in Keys : Made(data[n][k], k)
MadeQueues == \A n \in Nodes, p \in Nodes, k \in Keys : Made(pending[n][p][k], k)
MadeCalls == \A m \in net, k \in Keys : Made(m.recs[k], k)
MadeSnaps == \A n \in Nodes, k \in Keys : Made(warm[n].snap[k], k)

MadeReads == \A r \in Reads : Made(get[r].res, ReadKeyOf[r])

MadeInv == MadeData /\ MadeQueues /\ MadeCalls /\ MadeSnaps /\ MadeReads

\* The same after a step.
MadeThen(x, k) == x = NoRecord \/ \E w \in Writes : put'[w].pc # "idle" /\ KeyOf[w] = k /\ x = put'[w].rec

LEMMA MadeStays ==
    ASSUME TypeOK, [Next]_vars, NEW x, NEW k, Made(x, k)
    PROVE  MadeThen(x, k)
BY RecordKept DEF Made, MadeThen

LEMMA NewestMade ==
    ASSUME NEW x, NEW y, NEW k, Made(x, k), Made(y, k)
    PROVE  Made(Newest(x, y), k)
BY DEF Newest

LEMMA DataChanges ==
    ASSUME Calm, TypeOK, [Next]_vars, ~ UNCHANGED <<data, clock>>
    PROVE  \/ \E w \in Writes, n \in Nodes : NewRecord(w, n)
           \/ \E w \in Writes : ApplyAP(w) \/ ReplyCP(w)
           \/ \E m \in net, k \in Keys : Replicate(m, k)
           \/ \E n \in Nodes, k \in Keys : ApplySnapshot(n, k)
<1>1. \A r \in Reads, n \in Nodes : ~ StartGet(r, n)
  BY DEF StartGet
<1>2. ASSUME NEW w \in Writes, PutStep(w) PROVE ApplyAP(w) \/ ReplyCP(w)
  BY <1>2 DEF PutStep, ReplyAP, ReplicateSync, Commit, Reject
<1>3. \A r \in Reads : ~ GetStep(r)
  BY DEF GetStep, Probe, ServeCP, RefuseCP
<1>4. ASSUME NEW m \in net, CallStep(m) PROVE \E k \in Keys : Replicate(m, k)
  BY <1>4 DEF CallStep, CallSucceeds, CallFails, Drop
<1>5. ASSUME NEW n \in Nodes, WarmStep(n) PROVE \E k \in Keys : ApplySnapshot(n, k)
  BY <1>5 DEF WarmStep, FetchSnapshot, SkipPeer, FinishWarmUp
<1>6. ~ Operator /\ \A n \in Nodes : ~ Restart(n)
  BY DEF Operator, Isolate, Calm, Heal, SetMode, Restart
<1>7. \A n \in Nodes, p \in Nodes : ~ SyncSend(n, p)
  BY DEF SyncSend
<1> QED BY <1>1, <1>2, <1>3, <1>4, <1>5, <1>6, <1>7 DEF Next, Client, vars

\* Every Apply is of a record that some PUT of the key has made.
LEMMA Applied ==
    ASSUME Calm, TypeOK, [Next]_vars, MadeCalls, MadeSnaps, ~ UNCHANGED <<data, clock>>
    PROVE  \/ \E w \in Writes, n \in Nodes : NewRecord(w, n)
           \/ \E n \in Nodes, k \in Keys, x \in Record : Apply(n, k, x) /\ Made(x, k)
<1>1. ASSUME NEW w \in Writes, ApplyAP(w) \/ ReplyCP(w)
      PROVE  \E n \in Nodes, k \in Keys, x \in Record : Apply(n, k, x) /\ Made(x, k)
  <2>1. put[w].pc # "idle" /\ Apply(put[w].rec.node, KeyOf[w], put[w].rec)
    BY <1>1 DEF ApplyAP, ReplyCP
  <2>2. Made(put[w].rec, KeyOf[w])
    BY <2>1 DEF Made
  <2> QED BY <2>1, <2>2, PutRow, KeyAssumption DEF TypeOK
<1>2. ASSUME NEW m \in net, NEW k \in Keys, Replicate(m, k)
      PROVE  \E n \in Nodes, j \in Keys, x \in Record : Apply(n, j, x) /\ Made(x, j)
  <2>1. m.to \in Nodes /\ m.recs[k] \in Record
    BY CallRow DEF TypeOK
  <2> QED BY <1>2, <2>1 DEF Replicate, MadeCalls
<1>3. ASSUME NEW n \in Nodes, NEW k \in Keys, ApplySnapshot(n, k)
      PROVE  \E i \in Nodes, j \in Keys, x \in Record : Apply(i, j, x) /\ Made(x, j)
  <2>1. warm[n].snap[k] \in Record
    BY DEF TypeOK, NodeType, WarmType
  <2> QED BY <1>3, <2>1 DEF ApplySnapshot, MadeSnaps
<1> QED BY <1>1, <1>2, <1>3, DataChanges

LEMMA MadeDataStep ==
    ASSUME Calm, TypeOK, [Next]_vars, MadeData, MadeCalls, MadeSnaps
    PROVE  MadeData'
<1> SUFFICES ASSUME NEW i \in Nodes, NEW j \in Keys PROVE MadeThen(data'[i][j], j)
  BY DEF MadeData, Made, MadeThen
<1>1. Made(data'[i][j], j) => MadeThen(data'[i][j], j)
  BY MadeStays
<1>2. CASE data'[i][j] = data[i][j]
  BY <1>1, <1>2 DEF MadeData
<1>3. ASSUME NEW n \in Nodes, NEW k \in Keys, NEW x \in Record, Apply(n, k, x), Made(x, k)
      PROVE  Made(data'[i][j], j)
  <2>1. data'[i][j] = IF i = n /\ j = k THEN Newest(x, data[n][k]) ELSE data[i][j]
    BY <1>3, ApplyEffect DEF TypeOK
  <2>2. Made(data[i][j], j)
    BY DEF MadeData
  <2> QED BY <1>3, <2>1, <2>2, NewestMade
<1>4. ASSUME NEW w \in Writes, NEW n \in Nodes, NewRecord(w, n) PROVE data' = data
  BY <1>4 DEF NewRecord
<1> QED BY <1>1, <1>2, <1>3, <1>4, Applied

LEMMA MadeQueuesStep ==
    ASSUME Calm, TypeOK, [Next]_vars, MadeQueues
    PROVE  MadeQueues'
<1> SUFFICES ASSUME NEW i \in Nodes, NEW p \in Nodes, NEW j \in Keys PROVE MadeThen(pending'[i][p][j], j)
  BY DEF MadeQueues, Made, MadeThen
<1>0. Made(pending[i][p][j], j)
  BY DEF MadeQueues
<1>1. ASSUME NEW n \in Nodes, NEW ps, NEW k \in Keys, NEW y \in Record, Made(y, k), Enqueue(n, ps, k, y)
      PROVE  Made(pending'[i][p][j], j)
  <2>1. pending'[i][p][j] = IF i = n /\ p \in ps /\ j = k THEN Newest(y, pending[n][p][k])
                                                         ELSE pending[i][p][j]
    BY <1>1, EnqueueEffect DEF TypeOK
  <2> QED BY <1>0, <1>1, <2>1, NewestMade
<1>2. ASSUME NEW w \in Writes, ReplyAP(w) \/ Commit(w) PROVE Made(pending'[i][p][j], j)
  <2>1. put[w].pc # "idle" /\ \E ps : Enqueue(put[w].rec.node, ps, KeyOf[w], put[w].rec)
    BY <1>2 DEF ReplyAP, Commit
  <2>2. put[w].rec.node \in Nodes /\ KeyOf[w] \in Keys /\ put[w].rec \in Record
    BY <2>1, PutRow, KeyAssumption DEF TypeOK
  <2>3. Made(put[w].rec, KeyOf[w])
    BY <2>1 DEF Made
  <2> QED BY <1>1, <2>1, <2>2, <2>3
<1>3. ASSUME NEW m \in net, CallFails(m) PROVE Made(pending'[i][p][j], j)
  <2>1. CASE UNCHANGED pending
    BY <1>0, <2>1
  <2>2. CASE ~ UNCHANGED pending
    <3>1. m.call # NoWrite /\ Enqueue(m.from, {m.to}, KeyOf[m.call], put[m.call].rec)
      BY <1>3, <2>2 DEF CallFails
    <3>2. m.call \in Writes /\ put[m.call].pc # "idle" /\ m.from \in Nodes
      BY <3>1, CallRow DEF TypeOK
    <3>3. KeyOf[m.call] \in Keys /\ put[m.call].rec \in Record /\ Made(put[m.call].rec, KeyOf[m.call])
      BY <3>2, PutRow, KeyAssumption DEF TypeOK, Made
    <3> QED BY <1>1, <3>1, <3>2, <3>3
  <2> QED BY <2>1, <2>2
<1>4. ASSUME NEW m \in net, CallSucceeds(m) PROVE Made(pending'[i][p][j], j)
  <2>1. CASE UNCHANGED pending
    BY <1>0, <2>1
  <2>2. CASE ~ UNCHANGED pending
    <3>1. pending' = [pending EXCEPT ![m.from][m.to] = Forget(pending[m.from][m.to], m.recs)]
      BY <1>4, <2>2 DEF CallSucceeds
    <3>2. pending'[i][p][j] = pending[i][p][j] \/ pending'[i][p][j] = Forget(pending[i][p], m.recs)[j]
      BY <3>1 DEF TypeOK, StoreType
    <3>3. pending'[i][p][j] = pending[i][p][j] \/ pending'[i][p][j] = NoRecord
      BY <3>2 DEF Forget
    <3> QED BY <1>0, <3>3 DEF Made
  <2> QED BY <2>1, <2>2
<1>5. Made(pending'[i][p][j], j)
  <2>1. CASE pending' = pending
    BY <1>0, <2>1
  <2>2. CASE pending' # pending
    BY <1>2, <1>3, <1>4, <2>2, QueueChanges
  <2> QED BY <2>1, <2>2
<1> QED BY <1>5, MadeStays

LEMMA MadeCallsStep ==
    ASSUME TypeOK, TypeOK', [Next]_vars, MadeQueues, MadeCalls
    PROVE  MadeCalls'
<1> SUFFICES ASSUME NEW x \in net', NEW k \in Keys PROVE MadeThen(x.recs[k], k)
  BY DEF MadeCalls, Made, MadeThen
<1>1. CASE \E m \in net : KeptCall(x, m)
  <2>1. PICK m \in net : x.recs = m.recs
    BY <1>1 DEF KeptCall
  <2>2. Made(x.recs[k], k)
    BY <2>1 DEF MadeCalls
  <2> QED BY <2>2, MadeStays
<1>2. CASE /\ x.call \in Writes /\ put[x.call].pc # "idle"
           /\ x.recs = [Nothing EXCEPT ![KeyOf[x.call]] = put'[x.call].rec]
  <2>1. x.recs[k] = NoRecord \/ (k = KeyOf[x.call] /\ x.recs[k] = put'[x.call].rec)
    BY <1>2 DEF Nothing
  <2>2. put'[x.call].pc # "idle"
    BY <1>2, RecordKept
  <2> QED BY <1>2, <2>1, <2>2 DEF MadeThen
<1>3. CASE \E n \in Nodes, p \in Nodes : x.recs = pending[n][p]
  <2>1. Made(x.recs[k], k)
    BY <1>3 DEF MadeQueues
  <2> QED BY <2>1, MadeStays
<1> QED BY <1>1, <1>2, <1>3, NetStep DEF NetFrom

LEMMA SnapChanges ==
    ASSUME Calm, TypeOK, [Next]_vars, NEW n \in Nodes
    PROVE  \/ warm'[n].snap = warm[n].snap
           \/ \E p \in Nodes : warm'[n].snap = data[p]
           \/ \E k \in Keys : warm'[n].snap = [warm[n].snap EXCEPT ![k] = NoRecord]
<1>1. warm \in [Nodes -> WarmType]
  BY DEF TypeOK, NodeType
<1>2. ASSUME NEW i \in Nodes, NEW p \in Nodes, FetchSnapshot(i, p)
      PROVE  warm'[n].snap = warm[n].snap \/ warm'[n].snap = data[p]
  BY <1>1, <1>2 DEF FetchSnapshot
<1>3. ASSUME NEW i \in Nodes, NEW p \in Nodes, SkipPeer(i, p) PROVE warm'[n].snap = warm[n].snap
  BY <1>1, <1>3 DEF SkipPeer, WarmType
<1>4. ASSUME NEW i \in Nodes, NEW k \in Keys, ApplySnapshot(i, k)
      PROVE  warm'[n].snap = warm[n].snap \/ warm'[n].snap = [warm[n].snap EXCEPT ![k] = NoRecord]
  BY <1>1, <1>4 DEF ApplySnapshot
<1>5. ASSUME NEW i \in Nodes, Restart(i) PROVE warm'[n].snap = warm[n].snap
  BY <1>1, <1>5 DEF Restart, WarmType
<1>6. CASE ~ \E i \in Nodes : WarmStep(i) \/ Restart(i)
  <2>2. Client => UNCHANGED warm
    BY DEF Client, NewRecord, StartGet
  <2>3. \A w \in Writes : PutStep(w) => UNCHANGED warm
    BY DEF PutStep, ApplyAP, ReplyAP, ReplicateSync, Commit, Reject, ReplyCP
  <2>4. \A r \in Reads : GetStep(r) => UNCHANGED warm
    BY DEF GetStep, Probe, ServeCP, RefuseCP
  <2>5. \A m \in net : CallStep(m) => UNCHANGED warm
    BY DEF CallStep, Replicate, CallSucceeds, CallFails, Drop
  <2>6. \A i \in Nodes, p \in Nodes : SyncSend(i, p) => UNCHANGED warm
    BY DEF SyncSend
  <2>7. Operator => UNCHANGED warm
    BY DEF Operator, Isolate, Calm, Heal, SetMode
  <2> QED BY <1>6, <2>2, <2>3, <2>4, <2>5, <2>6, <2>7 DEF Next, vars
<1>7. ASSUME NEW i \in Nodes, FinishWarmUp(i) PROVE warm'[n].snap = warm[n].snap
  BY <1>7 DEF FinishWarmUp
<1> QED BY <1>2, <1>3, <1>4, <1>5, <1>6, <1>7 DEF WarmStep

LEMMA MadeSnapsStep ==
    ASSUME Calm, TypeOK, [Next]_vars, MadeData, MadeSnaps
    PROVE  MadeSnaps'
<1> SUFFICES ASSUME NEW n \in Nodes, NEW k \in Keys PROVE MadeThen(warm'[n].snap[k], k)
  BY DEF MadeSnaps, Made, MadeThen
<1>1. warm[n].snap \in [Keys -> Record]
  BY DEF TypeOK, NodeType, WarmType
<1>2. \/ warm'[n].snap[k] = warm[n].snap[k] \/ warm'[n].snap[k] = NoRecord
      \/ \E p \in Nodes : warm'[n].snap[k] = data[p][k]
  BY <1>1, SnapChanges
<1>3. Made(warm'[n].snap[k], k)
  BY <1>2 DEF MadeSnaps, MadeData, Made
<1> QED BY <1>3, MadeStays

\* A crash leaves a node with nothing and the others with what they had.
LEMMA MadeAfterCrash ==
    ASSUME TypeOK, [Next]_vars, NEW c \in Nodes, Crash(c), MadeData, MadeQueues, MadeSnaps
    PROVE  MadeData' /\ MadeQueues' /\ MadeSnaps'
<1>0. /\ data \in [Nodes -> [Keys -> Record]]
      /\ pending \in [Nodes -> [Nodes -> [Keys -> Record]]]
      /\ warm \in [Nodes -> WarmType]
  BY DEF TypeOK, StoreType, NodeType
<1>1. \A k : MadeThen(NoRecord, k)
  BY DEF MadeThen
<1>2. ASSUME NEW n \in Nodes, NEW k \in Keys PROVE MadeThen(data'[n][k], k)
  <2>1. data'[n][k] = data[n][k] \/ data'[n][k] = NoRecord
    BY <1>0 DEF Crash, Nothing
  <2> QED BY <1>1, <2>1, MadeStays DEF MadeData
<1>3. ASSUME NEW n \in Nodes, NEW p \in Nodes, NEW k \in Keys PROVE MadeThen(pending'[n][p][k], k)
  <2>1. pending'[n][p][k] = pending[n][p][k] \/ pending'[n][p][k] = NoRecord
    BY <1>0 DEF Crash, Nothing
  <2> QED BY <1>1, <2>1, MadeStays DEF MadeQueues
<1>4. ASSUME NEW n \in Nodes, NEW k \in Keys PROVE MadeThen(warm'[n].snap[k], k)
  <2>1. warm'[n].snap[k] = warm[n].snap[k] \/ warm'[n].snap[k] = NoRecord
    BY <1>0 DEF Crash, NoWarmUp, Nothing
  <2> QED BY <1>1, <2>1, MadeStays DEF MadeSnaps
<1> QED
  BY <1>2, <1>3, <1>4 DEF MadeData, MadeQueues, MadeSnaps, Made, MadeThen

LEMMA GetChanges ==
    ASSUME [Next]_vars, get' # get
    PROVE  \/ \E r \in Reads, n \in Nodes : StartGet(r, n)
           \/ \E r \in Reads : GetStep(r)
           \/ \E n \in Nodes : Crash(n)
<1>1. \A w \in Writes, n \in Nodes : ~ NewRecord(w, n)
  BY DEF NewRecord
<1>2. \A w \in Writes : ~ PutStep(w)
  BY DEF PutStep, ApplyAP, ReplyAP, ReplicateSync, Commit, Reject, ReplyCP
<1>3. \A m \in net : ~ CallStep(m)
  BY DEF CallStep, Replicate, CallSucceeds, CallFails, Drop
<1>4. \A n \in Nodes : ~ WarmStep(n) /\ ~ Restart(n)
  BY DEF WarmStep, FetchSnapshot, SkipPeer, ApplySnapshot, FinishWarmUp, Restart
<1>5. Operator => \E n \in Nodes : Crash(n)
  BY DEF Operator, Isolate, Heal, SetMode
<1>6. \A n \in Nodes, p \in Nodes : ~ SyncSend(n, p)
  BY DEF SyncSend
<1> QED BY <1>1, <1>2, <1>3, <1>4, <1>5, <1>6 DEF Next, Client, vars

\* What a step does to a read: nothing its answer depends on, or it begins, or it is served
\* from the store of its node.
GetEvolves(r) ==
    \/ /\ get'[r].floor = get[r].floor /\ get'[r].res = get[r].res
       /\ get'[r].pc = "served" =>
             get[r].pc = "served" /\ get'[r].node = get[r].node
    \/ /\ put' = put
       /\ get'[r].floor = AckedWrites(ReadKeyOf[r])
       /\ \/ get'[r].pc # "served" /\ get'[r].res = NoRecord
          \/ get'[r].node \in Nodes /\ get'[r].res = data[get'[r].node][ReadKeyOf[r]]
    \/ /\ put' = put
       /\ get'[r].floor = get[r].floor /\ get'[r].node = get[r].node /\ get[r].node \in Nodes
       /\ get'[r].res = data[get[r].node][ReadKeyOf[r]]

LEMMA GetsEvolve ==
    ASSUME TypeOK, [Next]_vars
    PROVE  \A q \in Reads : GetEvolves(q)
<1>1. get \in [Reads -> GetType] /\ \A q \in Reads : get[q] \in GetType
  BY DEF TypeOK, GetsTyped
<1>2. ASSUME NEW q \in Reads, get'[q] = get[q] PROVE GetEvolves(q)
  BY <1>2 DEF GetEvolves
<1>3. ASSUME NEW r \in Reads, NEW n \in Nodes, StartGet(r, n) PROVE \A q \in Reads : GetEvolves(q)
  <2>1. /\ put' = put /\ \A q \in Reads : q # r => get'[q] = get[q]
        /\ get'[r].floor = AckedWrites(ReadKeyOf[r]) /\ get'[r].node = n
        /\ \/ get'[r].pc # "served" /\ get'[r].res = NoRecord
           \/ get'[r].res = data[n][ReadKeyOf[r]]
    BY <1>1, <1>3 DEF StartGet
  <2>2. GetEvolves(r)
    BY <2>1 DEF GetEvolves
  <2> QED BY <1>2, <2>1, <2>2
<1>4. ASSUME NEW r \in Reads, ServeCP(r) PROVE \A q \in Reads : GetEvolves(q)
  <2>1. /\ put' = put /\ \A q \in Reads : q # r => get'[q] = get[q]
        /\ get[r].pc = "probing"
        /\ get'[r] = [get[r] EXCEPT !.pc = "served", !.res = data[get[r].node][ReadKeyOf[r]]]
    BY <1>1, <1>4 DEF ServeCP
  <2>2. /\ get'[r].floor = get[r].floor /\ get'[r].node = get[r].node
        /\ get'[r].res = data[get[r].node][ReadKeyOf[r]]
    BY <1>1, <2>1 DEF GetType
  <2>3. get[r].node \in Nodes
    BY <2>1 DEF TypeOK, GetsTyped
  <2>4. GetEvolves(r)
    BY <2>1, <2>2, <2>3 DEF GetEvolves
  <2> QED BY <1>2, <2>1, <2>4
<1>5. ASSUME NEW r \in Reads, RefuseCP(r) \/ (\E p \in Nodes : Probe(r, p)) PROVE \A q \in Reads : GetEvolves(q)
  <2>1. /\ \A q \in Reads : q # r => get'[q] = get[q]
        /\ get'[r].floor = get[r].floor /\ get'[r].res = get[r].res /\ get'[r].pc # "served"
    BY <1>1, <1>5 DEF RefuseCP, Probe, GetType
  <2>2. GetEvolves(r)
    BY <2>1 DEF GetEvolves
  <2> QED BY <1>2, <2>1, <2>2
<1>6. ASSUME NEW n \in Nodes, Crash(n) PROVE \A q \in Reads : GetEvolves(q)
  <2> TAKE q \in Reads
  <2>1. get'[q] = get[q] \/ get'[q] = [get[q] EXCEPT !.pc = "died"]
    BY <1>6 DEF Crash
  <2>2. CASE get'[q] = [get[q] EXCEPT !.pc = "died"]
    BY <1>1, <2>2 DEF GetEvolves, GetType
  <2> QED BY <1>2, <2>1, <2>2
<1>7. CASE get' = get
  BY <1>2, <1>7
<1> QED
  BY <1>3, <1>4, <1>5, <1>6, <1>7, GetChanges DEF GetStep

LEMMA MadeReadsStep ==
    ASSUME TypeOK, [Next]_vars, MadeData, MadeReads
    PROVE  MadeReads'
<1> SUFFICES ASSUME NEW r \in Reads PROVE MadeThen(get'[r].res, ReadKeyOf[r])
  BY DEF MadeReads, Made, MadeThen
<1>1. GetEvolves(r) /\ ReadKeyOf[r] \in Keys
  BY GetsEvolve, KeyAssumption
<1>2. CASE get'[r].res = get[r].res
  BY <1>2, MadeStays DEF MadeReads
<1>3. CASE get'[r].res = NoRecord
  BY <1>3 DEF MadeThen
<1>4. ASSUME NEW n \in Nodes, get'[r].res = data[n][ReadKeyOf[r]] PROVE MadeThen(get'[r].res, ReadKeyOf[r])
  BY <1>1, <1>4, MadeStays DEF MadeData
<1> QED BY <1>1, <1>2, <1>3, <1>4 DEF GetEvolves

LEMMA MadeStep == TypeOK /\ TypeOK' /\ MadeInv /\ [Next]_vars => MadeInv'
<1> SUFFICES ASSUME TypeOK, TypeOK', MadeInv, [Next]_vars PROVE MadeInv'
  OBVIOUS
<1>1. MadeCalls' /\ MadeReads'
  BY MadeCallsStep, MadeReadsStep DEF MadeInv
<1>2. CASE Calm
  BY <1>1, <1>2, MadeDataStep, MadeQueuesStep, MadeSnapsStep DEF MadeInv
<1>3. CASE ~ Calm
  BY <1>1, <1>3, MadeAfterCrash DEF MadeInv, Calm
<1> QED BY <1>2, <1>3

LEMMA MadeInit == Init => MadeInv
<1> SUFFICES ASSUME Init PROVE MadeInv
  OBVIOUS
<1>1. \A k : Made(NoRecord, k)
  BY DEF Made
<1>2. \A k \in Keys : Nothing[k] = NoRecord
  BY DEF Nothing
<1>3. /\ \A n \in Nodes : data[n] = Nothing /\ \A p \in Nodes : pending[n][p] = Nothing
      /\ net = {}
  BY DEF Init, InitWith
<1>4. \A n \in Nodes : warm[n].snap = Nothing
  BY DEF Init, InitWith, NoWarmUp
<1>5. \A r \in Reads : get[r].res = NoRecord
  BY DEF Init, InitWith, IdleGet
<1> QED BY <1>1, <1>2, <1>3, <1>4, <1>5 DEF MadeInv, MadeData, MadeQueues, MadeCalls, MadeSnaps, MadeReads

-----------------------------------------------------------------------------
(* Versions of nodes that do not crash *)

\* There a version names one write, because the clock is past those it has taken.
VersionsTaken ==
    /\ \A w \in Writes : put[w].pc # "idle" /\ put[w].rec.node \notin Crashable =>
          put[w].rec.ctr <= clock[put[w].rec.node]
    /\ \A v, w \in Writes :
          /\ put[v].pc # "idle" /\ put[w].pc # "idle" /\ put[w].rec.node \notin Crashable
          /\ put[v].rec.ctr = put[w].rec.ctr /\ put[v].rec.node = put[w].rec.node
          => v = w

\* Its clock never goes back.
LEMMA ClockGrows ==
    ASSUME TypeOK, [Next]_vars, MadeCalls, MadeSnaps, NEW i \in Nodes, i \notin Crashable
    PROVE  clock[i] \in Nat /\ clock'[i] \in Nat /\ clock[i] <= clock'[i]
<1>1. clock[i] \in Nat /\ clock \in [Nodes -> Nat]
  BY DEF TypeOK, StoreType
<1>2. CASE UNCHANGED <<data, clock>>
  BY <1>1, <1>2
<1>3. ASSUME NEW w \in Writes, NEW n \in Nodes, NewRecord(w, n)
      PROVE  clock'[i] \in Nat /\ clock[i] <= clock'[i]
  BY <1>1, <1>3 DEF NewRecord
<1>4. ASSUME NEW n \in Nodes, NEW k \in Keys, NEW x \in Record, Apply(n, k, x)
      PROVE  clock'[i] \in Nat /\ clock[i] <= clock'[i]
  <2>1. clock'[i] = IF i = n THEN Later(clock[n], x.ctr) ELSE clock[i]
    BY <1>4, ApplyEffect DEF TypeOK
  <2>2. x.ctr \in Nat
    BY VersionOrder
  <2> QED BY <1>1, <2>1, <2>2 DEF Later
<1>5. ASSUME NEW c \in Nodes, Crash(c) PROVE clock'[i] = clock[i]
  BY <1>1, <1>5 DEF Crash
<1> QED BY <1>1, <1>2, <1>3, <1>4, <1>5, Applied DEF Calm

LEMMA VersionsStep ==
    ASSUME TypeOK, [Next]_vars, MadeCalls, MadeSnaps, VersionsTaken
    PROVE  VersionsTaken'
<1>1. put \in [Writes -> PutType]
  BY DEF TypeOK, PutsTyped
<1>2. ASSUME NEW w \in Writes, NEW n \in Nodes, NewRecord(w, n) PROVE VersionsTaken'
  <2>1. /\ put[w].pc = "idle"
        /\ put'[w].pc = "made" /\ put'[w].rec.ctr = clock[n] + 1 /\ put'[w].rec.node = n
        /\ \A v \in Writes : v # w => put'[v] = put[v]
    <3>1. put[w].pc = "idle" /\ put' = [put EXCEPT ![w] = [put[w] EXCEPT !.pc = "made", !.rec = Fresh(w, n)]]
      BY <1>2 DEF NewRecord
    <3>2. put'[w].pc = "made" /\ put'[w].rec = Fresh(w, n)
      BY <1>1, <3>1 DEF PutType
    <3> QED BY <1>1, <3>1, <3>2 DEF Fresh
  <2>2. clock[n] \in Nat /\ clock'[n] = clock[n] + 1 /\ \A i \in Nodes : i # n => clock'[i] = clock[i]
    BY <1>2 DEF NewRecord, TypeOK, StoreType
  <2>3. \A v \in Writes : put[v].pc # "idle" => put[v].rec.node \in Nodes /\ put[v].rec.ctr \in Nat
    BY PutRow DEF TypeOK
  <2>4. \A v \in Writes : put[v].pc # "idle" /\ put[v].rec.node = n /\ n \notin Crashable => put[v].rec.ctr # clock[n] + 1
    BY <2>2, <2>3 DEF VersionsTaken
  <2>5. ASSUME NEW v \in Writes, put'[v].pc # "idle", put'[v].rec.node \notin Crashable
        PROVE  put'[v].rec.ctr <= clock'[put'[v].rec.node]
    <3>1. CASE v = w
      BY <2>1, <2>2, <3>1
    <3>2. CASE v # w
      <4>1. put'[v] = put[v] /\ put[v].rec.ctr <= clock[put[v].rec.node]
        BY <2>1, <2>5, <3>2 DEF VersionsTaken
      <4> QED BY <2>2, <2>3, <2>5, <4>1
    <3> QED BY <3>1, <3>2
  <2>6. ASSUME NEW u \in Writes, NEW v \in Writes, put'[u].pc # "idle", put'[v].pc # "idle", put'[v].rec.node \notin Crashable,
               put'[u].rec.ctr = put'[v].rec.ctr, put'[u].rec.node = put'[v].rec.node
        PROVE  u = v
    <3>1. CASE u # w /\ v # w
      BY <2>1, <2>6, <3>1 DEF VersionsTaken
    <3>2. CASE u = w /\ v # w
      BY <2>1, <2>4, <2>6, <3>2
    <3>3. CASE u # w /\ v = w
      BY <2>1, <2>4, <2>6, <3>3
    <3> QED BY <3>1, <3>2, <3>3
  <2> QED BY <2>5, <2>6 DEF VersionsTaken
<1>3. CASE ~ \E w \in Writes, n \in Nodes : NewRecord(w, n)
  <2>1. ASSUME NEW v \in Writes, put'[v].pc # "idle" PROVE put[v].pc # "idle" /\ put'[v].rec = put[v].rec
    <3>1. put[v].pc # "idle"
      <4>1. CASE put' = put
        BY <2>1, <4>1
      <4>2. ASSUME NEW w \in Writes, PutStep(w) PROVE put[v].pc # "idle"
        <5>1. put[w].pc # "idle" /\ (v # w => put'[v] = put[v])
          BY <1>1, <4>2 DEF PutStep, ApplyAP, ReplyAP, ReplicateSync, Commit, Reject, ReplyCP
        <5> QED BY <2>1, <5>1
      <4>3. ASSUME NEW m \in net, CallSucceeds(m) \/ CallFails(m) PROVE put[v].pc # "idle"
        <5>1. put'[v].pc = put[v].pc
          BY <1>1, <4>3 DEF CallSucceeds, CallFails, PutType
        <5> QED BY <2>1, <5>1
      <4>4. ASSUME NEW c \in Nodes, Crash(c) PROVE put[v].pc # "idle"
        BY <1>1, <2>1, <4>4 DEF Crash, Running, PutType
      <4> QED BY <1>3, <4>1, <4>2, <4>3, <4>4, PutChanges
    <3> QED BY <3>1, RecordKept
  <2>2. \A v \in Writes : put[v].pc # "idle" => put[v].rec.node \in Nodes /\ put[v].rec.ctr \in Nat
    BY PutRow DEF TypeOK
  <2>3. ASSUME NEW v \in Writes, put'[v].pc # "idle", put'[v].rec.node \notin Crashable
        PROVE  put'[v].rec.ctr <= clock'[put'[v].rec.node]
    <3>1. /\ put[v].rec.ctr <= clock[put[v].rec.node] /\ put'[v].rec = put[v].rec
          /\ put[v].rec.node \in Nodes \ Crashable /\ put[v].rec.ctr \in Nat
      BY <2>1, <2>2, <2>3 DEF VersionsTaken
    <3>2. /\ clock[put[v].rec.node] \in Nat /\ clock'[put[v].rec.node] \in Nat
          /\ clock[put[v].rec.node] <= clock'[put[v].rec.node]
      BY <3>1, ClockGrows
    <3> QED BY <3>1, <3>2
  <2> QED BY <2>1, <2>3 DEF VersionsTaken
<1> QED BY <1>2, <1>3

\* So where a node does not crash none of its versions is used again.
LEMMA NotReused ==
    ASSUME VersionsTaken, NEW w \in Writes, put[w].pc # "idle", put[w].rec.node \notin Crashable
    PROVE  ~ Reused(w)
BY DEF VersionsTaken, Reused

LEMMA SameVersion ==
    ASSUME NEW x \in Record, NEW y \in Record, AtLeast(x, y), ~ IsNewer(x, y)
    PROVE  x.ctr = y.ctr /\ x.node = y.node
<1>1. x.ctr \in Nat /\ x.node \in Nat /\ y.ctr \in Nat /\ y.node \in Nat
  BY VersionOrder
<1> QED BY <1>1 DEF AtLeast, IsNewer

\* A record of the same key that is not older than a write is the write or beats it.
LEMMA NotOlderKeeps ==
    ASSUME TypeOK, NEW w \in Writes, put[w].pc # "idle", ~ Reused(w),
           NEW x \in Record, Made(x, KeyOf[w]), AtLeast(x, put[w].rec)
    PROVE  Keeps(x, w)
<1> SUFFICES ASSUME ~ IsNewer(x, put[w].rec) PROVE x = put[w].rec
  BY DEF Keeps
<1>1. put[w].rec \in Record /\ put[w].rec.node \in Nodes
  BY PutRow DEF TypeOK
<1>2. x.ctr = put[w].rec.ctr /\ x.node = put[w].rec.node
  BY <1>1, SameVersion
<1>3. x # NoRecord
  BY <1>1, <1>2, NodesAssumption DEF NoRecord
<1>4. PICK v \in Writes : put[v].pc # "idle" /\ x = put[v].rec
  BY <1>3 DEF Made
<1> QED BY <1>2, <1>4 DEF Reused

-----------------------------------------------------------------------------
(* Crashes of a minority *)

MinorityCrashes == Crashable \subseteq Nodes /\ Cardinality(Crashable) < Quorum

\* What a read may count on: the writes it has to return or supersede were acknowledged.
FloorsKept ==
    \A r \in Reads : \A w \in get[r].floor :
        /\ put[w].pc = "acked" /\ KeyOf[w] = ReadKeyOf[r]
        /\ get[r].pc = "served" /\ put[w].rec.node = get[r].node /\ get[r].node \notin Crashable =>
              AtLeast(get[r].res, put[w].rec)

SurvivalInv ==
    /\ CallsCarry
    /\ DeliveredLasts
    /\ VotersLast
    /\ AckedLasts
    /\ QuorumVoted
    /\ FloorsKept

LEMMA AckedStays ==
    ASSUME TypeOK, [Next]_vars, NEW w \in Writes, put[w].pc = "acked"
    PROVE  put'[w].pc = "acked"
<1>1. put \in [Writes -> PutType] /\ put[w] \in PutType
  BY DEF TypeOK, PutsTyped
<1>2. ASSUME NEW v \in Writes, NEW n \in Nodes, NewRecord(v, n) PROVE put'[w].pc = "acked"
  BY <1>1, <1>2 DEF NewRecord
<1>3. ASSUME NEW v \in Writes, PutStep(v) PROVE put'[w].pc = "acked"
  BY <1>1, <1>3 DEF PutStep, ApplyAP, ReplyAP, ReplicateSync, Commit, Reject, ReplyCP, PutType
<1>4. ASSUME NEW m \in net, CallSucceeds(m) PROVE put'[w].pc = "acked"
  BY <1>1, <1>4 DEF CallSucceeds, PutType
<1>5. ASSUME NEW m \in net, CallFails(m) PROVE put'[w].pc = "acked"
  BY <1>1, <1>5 DEF CallFails, PutType
<1>6. ASSUME NEW n \in Nodes, Crash(n) PROVE put'[w].pc = "acked"
  BY <1>1, <1>6 DEF Crash, Running
<1>7. CASE put' = put
  BY <1>7
<1> QED
  BY <1>2, <1>3, <1>4, <1>5, <1>6, <1>7, PutChanges

\* A node that does not crash serves what it has acknowledged.
LEMMA ServesAcked ==
    ASSUME TypeOK, AckedLasts, NEW r \in Reads, NEW w \in Writes, put[w].pc = "acked",
           KeyOf[w] = ReadKeyOf[r], put[w].rec.node \notin Crashable
    PROVE  AtLeast(data[put[w].rec.node][ReadKeyOf[r]], put[w].rec)
BY DEF AckedLasts

LEMMA FloorsStep ==
    ASSUME TypeOK, TypeOK', [Next]_vars, AckedLasts, FloorsKept
    PROVE  FloorsKept'
<1> SUFFICES ASSUME NEW r \in Reads, NEW w \in get'[r].floor
             PROVE  /\ put'[w].pc = "acked" /\ KeyOf[w] = ReadKeyOf[r]
                    /\ get'[r].pc = "served" /\ put'[w].rec.node = get'[r].node
                       /\ get'[r].node \notin Crashable => AtLeast(get'[r].res, put'[w].rec)
  BY DEF FloorsKept
<1>1. w \in Writes /\ GetEvolves(r)
  BY GetsEvolve DEF TypeOK, GetsTyped, GetType
<1>2. put[w].pc = "acked" => put'[w].pc = "acked" /\ put'[w].rec = put[w].rec
  BY <1>1, AckedStays, RecordKept
<1>3. CASE /\ get'[r].floor = get[r].floor
           /\ get'[r].pc = "served" =>
                 /\ get[r].pc = "served" /\ get'[r].node = get[r].node /\ get'[r].res = get[r].res
  BY <1>2, <1>3 DEF FloorsKept
<1>4. CASE /\ put' = put
           /\ get'[r].floor = AckedWrites(ReadKeyOf[r])
           /\ get'[r].pc = "served" => get'[r].node \in Nodes /\ get'[r].res = data[get'[r].node][ReadKeyOf[r]]
  <2>1. put[w].pc = "acked" /\ KeyOf[w] = ReadKeyOf[r]
    BY <1>4 DEF AckedWrites
  <2> QED BY <1>1, <1>4, <2>1, ServesAcked
<1>5. CASE /\ put' = put
           /\ get'[r].floor = get[r].floor /\ get'[r].node = get[r].node /\ get[r].node \in Nodes
           /\ get'[r].res = data[get[r].node][ReadKeyOf[r]]
  <2>1. put[w].pc = "acked" /\ KeyOf[w] = ReadKeyOf[r]
    BY <1>5 DEF FloorsKept
  <2> QED BY <1>1, <1>5, <2>1, ServesAcked
<1> QED
  BY <1>1, <1>3, <1>4, <1>5 DEF GetEvolves

LEMMA SurvivalStep == TypeOK /\ TypeOK' /\ SurvivalInv /\ [Next]_vars => SurvivalInv'
BY CallsCarryStep, DeliveredStep, VotersStoreStep, AckedStoredStep, QuorumVotedStep, FloorsStep DEF SurvivalInv

\* A quorum has a member that does not crash.
LEMMA QuorumSurvives ==
    ASSUME TypeOK, SurvivalInv, MinorityCrashes, NEW w \in Writes, put[w].pc = "acked", put[w].via = "cp"
    PROVE  \E n \in Nodes \ Crashable : AtLeast(data[n][KeyOf[w]], put[w].rec)
<1> DEFINE T == put[w].yes \cup {put[w].rec.node}
<1>1. put[w].rec.node \in Nodes /\ put[w].yes \subseteq Peers(put[w].rec.node)
  BY PutRow DEF TypeOK
<1>2. IsFiniteSet(put[w].yes) /\ put[w].rec.node \notin put[w].yes /\ put[w].yes \subseteq Nodes
  BY <1>1, NodesAssumption, FS_Subset DEF Peers
<1>3. IsFiniteSet(Crashable)
  BY NodesAssumption, FS_Subset DEF MinorityCrashes
<1>4. Cardinality(T) = Cardinality(put[w].yes) + 1
  BY <1>2, FS_AddElement
<1>5. Cardinality(put[w].yes) + 1 >= Quorum
  <2>1. Votes(w) >= Quorum
    BY DEF SurvivalInv, QuorumVoted
  <2>2. Cardinality(put[w].yes) \in Nat /\ Quorum \in Nat
    BY <1>2, NodesAssumption, FS_CardinalityType DEF Quorum
  <2> QED BY <2>1, <2>2 DEF Votes
<1>6. ~ (T \subseteq Crashable)
  <2>1. T \subseteq Crashable => Cardinality(T) <= Cardinality(Crashable)
    BY <1>3, FS_Subset
  <2>2. Cardinality(put[w].yes) \in Nat /\ Cardinality(Crashable) \in Nat /\ Quorum \in Nat
    BY <1>2, <1>3, NodesAssumption, FS_CardinalityType DEF Quorum
  <2> HIDE DEF T
  <2> QED BY <1>4, <1>5, <2>1, <2>2 DEF MinorityCrashes
<1>7. PICK n \in T : n \notin Crashable
  BY <1>6
<1>8. CASE n \in put[w].yes
  BY <1>2, <1>7, <1>8 DEF SurvivalInv, VotersLast
<1>9. CASE n = put[w].rec.node
  BY <1>1, <1>7, <1>9 DEF SurvivalInv, AckedLasts
<1> QED
  BY <1>7, <1>8, <1>9

\* Crashes of fewer nodes than a quorum, any number of times: a write acknowledged in mode
\* cp, whose version no other PUT got, stays on a node that does not crash until a newer one
\* replaces it; in both modes a node that does not crash goes on serving what it acknowledged;
\* and a node that is back is past all it was given (kv_node.py:10, replicate_sync, get_key, warm_up).
THEOREM AcksSurviveMinority == ASSUME MinorityCrashes PROVE Spec => []AckedWritesSurvive
<1> DEFINE Inv == SurvivalInv /\ MadeInv /\ VersionsTaken
<1>1. Init => Inv
  <2>1. Init => SurvivalInv
    BY DEF Init, InitWith, IdlePut, IdleGet, SurvivalInv, CallsCarry, DeliveredLasts, VotersLast,
           AckedLasts, QuorumVoted, FloorsKept
  <2>2. Init => VersionsTaken
    BY DEF Init, InitWith, IdlePut, VersionsTaken
  <2> QED BY <2>1, <2>2, MadeInit
<1>2. TypeOK /\ TypeOK' /\ Inv /\ [Next]_vars => Inv'
  BY SurvivalStep, MadeStep, VersionsStep DEF MadeInv
<1>3. TypeOK /\ Inv => SurvivesMinorityCrash
  <2> SUFFICES ASSUME TypeOK, Inv, NEW w \in Writes,
                      put[w].pc = "acked", put[w].via = "cp", ~ Reused(w)
               PROVE  \E n \in Nodes \ Crashable : Keeps(data[n][KeyOf[w]], w)
    BY DEF SurvivesMinorityCrash
  <2>1. PICK n \in Nodes \ Crashable : AtLeast(data[n][KeyOf[w]], put[w].rec)
    BY QuorumSurvives
  <2>2. KeyOf[w] \in Keys
    BY KeyAssumption
  <2>3. data[n][KeyOf[w]] \in Record /\ Made(data[n][KeyOf[w]], KeyOf[w])
    BY <2>2, StoreRow DEF TypeOK, MadeInv, MadeData
  <2> QED BY <2>1, <2>3, NotOlderKeeps
<1>4. TypeOK /\ Inv => ReadYourWrites
  <2> SUFFICES ASSUME TypeOK, Inv, NEW r \in Reads, get[r].pc = "served", NEW w \in get[r].floor,
                      put[w].rec.node = get[r].node, get[r].node \notin Crashable
               PROVE  Keeps(get[r].res, w)
    BY DEF ReadYourWrites
  <2>1. w \in Writes /\ get[r].res \in Record
    BY DEF TypeOK, GetsTyped, GetType
  <2>2. put[w].pc = "acked" /\ KeyOf[w] = ReadKeyOf[r] /\ AtLeast(get[r].res, put[w].rec)
    BY DEF SurvivalInv, FloorsKept
  <2>3. ~ Reused(w)
    BY <2>1, <2>2, NotReused
  <2>4. Made(get[r].res, KeyOf[w])
    BY <2>2 DEF MadeInv, MadeReads
  <2> QED BY <2>1, <2>2, <2>3, <2>4, NotOlderKeeps
<1>5. ClockDominates => DominatesMemory
  BY DEF ClockDominates
<1> HIDE DEF Inv
<1> QED
  BY <1>1, <1>2, <1>3, <1>4, <1>5, TypeCorrect, ClockAlwaysDominates, PTL DEF Spec, AckedWritesSurvive

-----------------------------------------------------------------------------
(* Agreement *)

NoneDied == \A w \in Writes : put[w].pc # "died"

AgreeInv == MadeInv /\ VersionsTaken /\ NoneDied

LEMMA NoneDiedStep ==
    ASSUME NoCrash, TypeOK, [Next]_vars, NoneDied
    PROVE  NoneDied'
<1> SUFFICES ASSUME NEW v \in Writes PROVE put'[v].pc # "died"
  BY DEF NoneDied
<1>1. put \in [Writes -> PutType] /\ put[v].pc # "died"
  BY DEF TypeOK, PutsTyped, NoneDied
<1>2. ASSUME NEW w \in Writes, NEW n \in Nodes, NewRecord(w, n) PROVE put'[v].pc # "died"
  BY <1>1, <1>2 DEF NewRecord, PutType
<1>3. ASSUME NEW w \in Writes, PutStep(w) PROVE put'[v].pc # "died"
  <2>1. Reject(w) => put'[v].pc # "died"
    BY <1>1 DEF Reject, PutType
  <2>2. v # w => put'[v] = put[v]
    BY <1>1, <1>3 DEF PutStep, ApplyAP, ReplyAP, ReplicateSync, Commit, Reject, ReplyCP
  <2> QED BY <1>1, <1>3, <2>1, <2>2, Progress DEF PutStep
<1>4. ASSUME NEW m \in net, CallSucceeds(m) \/ CallFails(m) PROVE put'[v].pc # "died"
  BY <1>1, <1>4 DEF CallSucceeds, CallFails, PutType
<1>5. CASE put' = put
  BY <1>1, <1>5
<1> QED BY <1>2, <1>3, <1>4, <1>5, PutChanges DEF Crash, NoCrash

LEMMA AgreeStep == ASSUME NoCrash PROVE TypeOK /\ TypeOK' /\ AgreeInv /\ [Next]_vars => AgreeInv'
BY MadeStep, VersionsStep, NoneDiedStep DEF AgreeInv, MadeInv

\* Where nothing is left to do, what one node stores another stores or supersedes.
LEMMA QuietCovers ==
    ASSUME TypeOK, DurabilityInv, AgreeInv, Quiescent, \A w \in Writes : put[w].pc # "rejected",
           NEW n \in Nodes, NEW p \in Nodes, NEW k \in Keys
    PROVE  AtLeast(data[p][k], data[n][k])
<1>1. data[p][k] \in Record /\ data[n][k] \in Record
  BY StoreRow DEF TypeOK
<1>2. CASE data[n][k] = NoRecord
  BY <1>1, <1>2, VersionOrder
<1>3. CASE data[n][k] # NoRecord
  <2>1. PICK w \in Writes : put[w].pc # "idle" /\ KeyOf[w] = k /\ data[n][k] = put[w].rec
    BY <1>3 DEF AgreeInv, MadeInv, MadeData, Made
  <2>2. put[w].pc = "acked"
    BY <2>1, PutRow DEF Quiescent, Running, AgreeInv, NoneDied, TypeOK, PutType
  <2>3. CASE p = put[w].rec.node
    BY <2>1, <2>2, <2>3 DEF DurabilityInv, AckedStored
  <2>4. CASE p # put[w].rec.node
    <3>1. put[w].rec.node \in Nodes /\ p \in Peers(put[w].rec.node)
      BY <2>1, <2>4, PutRow DEF TypeOK, Peers
    <3>2. \/ AtLeast(data[p][k], put[w].rec)
          \/ AtLeast(pending[put[w].rec.node][p][k], put[w].rec)
          \/ WaitingCall(w, p)
      BY <2>1, <2>2, <3>1 DEF DurabilityInv, OwedWritesAreRemembered
    <3>3. ~ WaitingCall(w, p)
      BY DEF Quiescent, WaitingCall
    <3>4. pending[put[w].rec.node][p][k] = NoRecord
      BY <3>1 DEF Quiescent, Nothing
    <3>5. ~ AtLeast(NoRecord, put[w].rec)
      <4>1. put[w].rec.ctr \in Nat /\ put[w].rec.node \in Nat \ {0}
        BY <3>1, PutRow, NodesAssumption DEF TypeOK
      <4> QED BY <4>1 DEF AtLeast, IsNewer, NoRecord
    <3> QED BY <2>1, <3>2, <3>3, <3>4, <3>5
  <2> QED BY <2>3, <2>4
<1> QED BY <1>2, <1>3

\* Once everything was delivered, and where no PUT was refused half way, the replicas agree
\* for any number of nodes and writes and any mix of modes: what is owed was delivered, and
\* records with the same version are the same (Store.apply, enqueue and sync_loop).
THEOREM QuietReplicasAgree == ASSUME NoCrash PROVE Spec => []AgreeUnlessRefused
<1>1. Init => AgreeInv
  <2>1. Init => VersionsTaken /\ NoneDied
    BY DEF Init, InitWith, IdlePut, VersionsTaken, NoneDied
  <2> QED BY <2>1, MadeInit DEF AgreeInv
<1>2. TypeOK /\ DurabilityInv /\ AgreeInv => AgreeUnlessRefused
  <2> SUFFICES ASSUME TypeOK, DurabilityInv, AgreeInv, Quiescent, \A w \in Writes : put[w].pc # "rejected",
                      NEW n \in Nodes, NEW p \in Nodes
               PROVE  data[n] = data[p]
    BY DEF AgreeUnlessRefused, Agreement
  <2>1. ASSUME NEW k \in Keys PROVE data[n][k] = data[p][k]
    <3>1. data[n][k] \in Record /\ data[p][k] \in Record
      BY StoreRow DEF TypeOK
    <3>2. data[n][k].ctr = data[p][k].ctr /\ data[n][k].node = data[p][k].node
      BY <3>1, QuietCovers, SameVersion DEF AtLeast
    <3>3. \A w \in Writes : put[w].pc # "idle" => put[w].rec.node # NoRecord.node
      BY PutRow, NodesAssumption DEF TypeOK, NoRecord
    <3>4. Made(data[n][k], k) /\ Made(data[p][k], k)
      BY DEF AgreeInv, MadeInv, MadeData
    <3> QED BY <3>2, <3>3, <3>4 DEF Made, AgreeInv, VersionsTaken, NoCrash
  <2>2. data[n] \in [Keys -> Record] /\ data[p] \in [Keys -> Record]
    BY StoreRow DEF TypeOK
  <2> QED BY <2>1, <2>2
<1> QED
  BY <1>1, <1>2, AgreeStep, WritesAreDurable, TypeCorrect, PTL DEF Spec
=============================================================================
