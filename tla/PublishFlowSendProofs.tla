------------------------ MODULE PublishFlowSendProofs -------------------------
(*****************************************************************************)
(* The side of the sender: every step of PublishFlow keeps ConnectionInv,    *)
(* NoForgottenRequest, Line, PidsApart, NoneCancelled and QuotaOK, and is    *)
(* a step of the window of SendQuota or changes nothing that it sees.        *)
(*                                                                           *)
(* Zenon is the prover to try; a leaf about numbers or sequences cites SMT.  *)
(*****************************************************************************)
EXTENDS PublishFlowStepProofs
-------------------------------------------------------------------------------
USE Zenon

\* do_write keeps OnConnection: a write that starts is on the current connection
\* and has sent nothing yet.
LEMMA ConnectionWork ==
    ASSUME Laws, Basic, NEW called \in BOOLEAN, NEW b, b = batch \/ b = <<>>,
           NEW q \in Seq(ReqSet), NEW k \in Int, NEW f, NEW o, gen' = gen,
           NEW rcur, NEW w, OnConnection(o, b, SentOf(b), CurrentOf(b), rcur, w),
           DoWrite(called, b, q, k, f)
    PROVE  OnConnection(o, batch', sent', Current', rcur, w)
<1>1. b \in Seq(ReqSet)
  <2>1. batch \in Seq(ReqSet)
    BY DEF Basic, FlowTypeOK, SenderTypeOK
  <2>2. CASE b = <<>>
    BY <2>2, SMT
  <2> QED
    BY <2>1, <2>2
<1>2. CASE called /\ Starts(b, q, k)
  <2>1. Current' /\ sent' = 0 /\ batch' # <<>> /\ CurrentOf(b)
    BY <1>2 DEF Starts, Current, CurrentOf
  <2> QED
    BY <2>1, SMT DEF OnConnection
<1>3. CASE Leaves(called, b, q, k, f)
  <2>1. batch' = b /\ sent' = SentOf(b) /\ (Current' <=> CurrentOf(b))
    BY <1>3 DEF Leaves, Current, CurrentOf, SentOf
  <2> QED
    BY <2>1 DEF OnConnection
<1> QED
  BY <1>1, <1>2, <1>3, DoWriteFacts

\* What operations do that have nothing in the write and end up waiting for
\* nothing.
LEMMA ConnectionOps ==
    ASSUME NEW o, NEW p, NEW q, NEW b, NEW s, NEW cur, NEW rcur, NEW w,
           Requests(o, q, b), b \in Seq(ReqSet), s \in 0..Len(b),
           OnConnection(o, b, s, cur, rcur, w),
           \A n \in Msgs : \/ p[n].stage = o[n].stage /\ p[n].phase = o[n].phase
                           \/ /\ o[n].phase # "sending"
                              /\ p[n].phase \notin {"waiting", "posted"}
    PROVE  OnConnection(p, b, s, cur, rcur, w)
<1>1. ASSUME NEW i \in 1..s, b[i].op # Disc PROVE b[i].op \in Msgs /\ o[b[i].op].phase = "sending"
  <2>1. i \in DOMAIN b
    BY SMT
  <2>2. ReqOK(b[i], o)
    BY <2>1 DEF Requests
  <2> QED
    BY <1>1, <2>2, SMT DEF ReqOK, DisconnectReq
<1>2. ASSUME NEW n \in Msgs, p[n].stage = o[n].stage PROVE OnWire(w, p, n) <=> OnWire(w, o, n)
  BY <1>2 DEF OnWire, Packet
<1>3. cur => \A i \in 1..s : b[i].op # Disc => OnWire(w, p, b[i].op)
  BY <1>1, <1>2 DEF OnConnection
<1>4. cur => \A m \in Msgs : p[m].phase = "waiting" => OnWire(w, p, m)
  BY <1>2 DEF OnConnection
<1> QED
  BY <1>3, <1>4 DEF OnConnection

\* The handler of a reply keeps ConnectionInv.
LEMMA ConnectionReply ==
    ASSUME Laws, Basic, ConnectionInv, open, NEW m \in Msgs, ops[m].phase \in {"waiting", "posted"},
           NEW res \in Outcomes, res = "aborted" \/ ops[m].qos # 0,
           OnReply(m, res), gen' = gen, rgen' = rgen, wire' = wire
    PROVE  ConnectionInv'
<1>1. /\ \A n \in Msgs \ {m} : ops'[n] = ops[n]
      /\ ops'[m].phase \notin {"idle", "waiting", "posted"}
  BY OnReplyShape
<1>2. PICK called \in BOOLEAN, q \in Seq(ReqSet), k \in Int :
         DoWrite(called, batch, q, k, fast)
  BY OnReplyShape
<1>3. OnConnection(ops, batch, SentOf(batch), CurrentOf(batch), rgen = gen, wire)
  BY SMT DEF ConnectionInv, Basic, FlowTypeOK, SenderTypeOK, Current, CurrentOf, SentOf
<1>4. batch \in Seq(ReqSet) /\ SentOf(batch) \in 0..Len(batch)
  BY SMT DEF Basic, FlowTypeOK, SenderTypeOK, SentOf
<1>5. \A n \in Msgs : \/ ops'[n].stage = ops[n].stage /\ ops'[n].phase = ops[n].phase
                      \/ /\ ops[n].phase # "sending"
                         /\ ops'[n].phase \notin {"waiting", "posted"}
  BY <1>1
<1>6. OnConnection(ops', batch, SentOf(batch), CurrentOf(batch), rgen = gen, wire)
  BY <1>3, <1>4, <1>5, ConnectionOps, SMT DEF Basic
<1>7. OnConnection(ops', batch', sent', Current', rgen = gen, wire)
  BY <1>2, <1>6, ConnectionWork
<1> QED
  BY <1>7 DEF ConnectionInv

\* Every step keeps ConnectionInv.
LEMMA ConnectionNext ==
    ASSUME Laws, Basic, ConnectionInv, [Next]_vars
    PROVE  ConnectionInv'
<1> SUFFICES ASSUME Basic, ConnectionInv, [Next]_vars, open' PROVE ConnectionInv'
  BY DEF ConnectionInv
<1>1. /\ batch \in Seq(ReqSet) /\ sent \in 0..Len(batch) /\ gen \in Nat
      /\ wgen \in 0..gen /\ rgen \in 0..gen /\ Requests(ops, queue, batch)
      /\ queue \in Seq(ReqSet) /\ quota \in Int
      /\ SentOf(batch) = sent /\ (CurrentOf(batch) <=> Current)
  BY SMT DEF Basic, FlowTypeOK, SenderTypeOK, NetTypeOK, SentOf, CurrentOf, Current
<1>2. ASSUME open PROVE OnConnection(ops, batch, sent, Current, rgen = gen, wire)
  BY <1>2 DEF ConnectionInv
<1>3. ASSUME open, UNCHANGED <<batch, sent, wgen, rgen, gen, wire>>,
             \A n \in Msgs : \/ ops'[n].stage = ops[n].stage /\ ops'[n].phase = ops[n].phase
                             \/ /\ ops[n].phase # "sending"
                                /\ ops'[n].phase \notin {"waiting", "posted"}
      PROVE  ConnectionInv'
  <2>1. OnConnection(ops', batch, sent, Current, rgen = gen, wire)
    BY <1>1, <1>2, <1>3, ConnectionOps, SMT
  <2>2. Current' <=> Current
    BY <1>3 DEF Current
  <2> QED
    BY <1>3, <2>1, <2>2 DEF ConnectionInv, OnConnection
<1>4. ASSUME NEW m \in Msgs, NEW q \in QosSet, Publish(m, q) PROVE ConnectionInv'
  <2>1. /\ ops[m].phase = "idle" /\ ops'[m].phase = "sending"
        /\ \A n \in Msgs \ {m} : ops'[n] = ops[n]
        /\ PublishReq(m, ops'[m]) \in ReqSet
        /\ DoWrite(TRUE, batch, Append(queue, PublishReq(m, ops'[m])), quota, fast)
    BY <1>4, PublishBasic
  <2>2. open /\ UNCHANGED <<gen, rgen, wire>>
    BY <1>4 DEF Publish, NextMsg
  <2>3. \A n \in Msgs : \/ ops'[n].stage = ops[n].stage /\ ops'[n].phase = ops[n].phase
                        \/ /\ ops[n].phase # "sending"
                           /\ ops'[n].phase \notin {"waiting", "posted"}
    BY <2>1
  <2>4. OnConnection(ops', batch, SentOf(batch), CurrentOf(batch), rgen = gen, wire)
    <3>1. OnConnection(ops', batch, sent, Current, rgen = gen, wire)
      BY <1>1, <1>2, <2>2, <2>3, ConnectionOps, SMT
    <3> QED
      BY <1>1, <3>1 DEF OnConnection
  <2>5. PICK a \in Seq(ReqSet) : DoWrite(TRUE, batch, a, quota, fast)
    <3>1. Append(queue, PublishReq(m, ops'[m])) \in Seq(ReqSet)
      BY <1>1, <2>1, SMT
    <3> QED
      BY <2>1, <3>1
  <2>6. OnConnection(ops', batch', sent', Current', rgen = gen, wire)
    BY <1>1, <2>2, <2>4, <2>5, ConnectionWork
  <2> QED
    BY <2>2, <2>6 DEF ConnectionInv
<1>5. ASSUME NEW m \in Msgs, NEW q \in QosSet, PublishFails(m, q) PROVE ConnectionInv'
  <2>1. /\ ops[m].phase = "idle" /\ ops'[m].phase = "done"
        /\ \A n \in Msgs \ {m} : ops'[n] = ops[n]
        /\ UNCHANGED <<batch, sent, wgen, rgen, gen, open, wire>>
    BY <1>5, PublishFailsBasic
  <2> QED
    BY <1>3, <2>1
<1>6. ASSUME NEW m \in Msgs, CancelOp(m) PROVE ConnectionInv'
  <2>1. /\ ops' = [ops EXCEPT ![m].cancelled = TRUE] /\ ops \in [Msgs -> OpSet]
        /\ UNCHANGED <<batch, sent, wgen, rgen, gen, open, wire>>
    BY <1>6 DEF CancelOp, network, Basic, FlowTypeOK
  <2>2. \A n \in Msgs : ops'[n].stage = ops[n].stage /\ ops'[n].phase = ops[n].phase
    BY <2>1 DEF OpSet
  <2> QED
    BY <1>3, <2>1, <2>2
<1>7. ASSUME NEW m \in Msgs, RunPosted(m) PROVE ConnectionInv'
  <2>1. ops[m].res \in Outcomes /\ (ops[m].res = "aborted" \/ ops[m].qos # 0)
    BY <1>7, RunPostedBasic
  <2>2. ops[m].phase = "posted" /\ OnReply(m, ops[m].res)
        /\ UNCHANGED <<gen, rgen, wire, open>>
    BY <1>7 DEF RunPosted
  <2> QED
    BY <2>1, <2>2, ConnectionReply
<1>8. CASE Cancel \/ NoRecovery
  BY <1>8, CloseBasic
<1>9. CASE WriteSome
  <2> DEFINE i == sent + 1
  <2>1. /\ i \in 1..Len(batch) /\ i \in DOMAIN batch
        /\ batch[i].op # Disc =>
              /\ batch[i].op \in Msgs /\ ops[batch[i].op].phase = "sending"
              /\ wire' = Append(wire, Packet(ops, batch[i].op))
        /\ batch[i].op = Disc => wire' = Append(wire, [type |-> "DISCONNECT", msg |-> Disc])
    BY <1>1, <1>9, WriteSomeBasic, SMT
  <2>2. /\ open /\ wgen = gen /\ sent' = i
        /\ UNCHANGED <<ops, batch, wgen, rgen, gen>>
    BY <1>9 DEF WriteSome
  <2>3. wire \in Seq(WireSet)
    BY DEF Basic, FlowTypeOK, NetTypeOK
  <2>4. \A x : LET a == Append(wire, x)
               IN  /\ \A j \in DOMAIN wire : j \in DOMAIN a /\ a[j] = wire[j]
                   /\ Len(wire) + 1 \in DOMAIN a /\ a[Len(wire) + 1] = x
    BY <2>3, SMT
  <2>5. \A m : OnWire(wire, ops, m) => OnWire(wire', ops, m)
    BY <2>1, <2>4 DEF OnWire
  <2>6. batch[i].op # Disc => OnWire(wire', ops, batch[i].op)
    BY <2>1, <2>4 DEF OnWire
  <2>7. Current /\ Current' /\ batch # <<>>
    BY <1>1, <2>1, <2>2, SMT DEF Current
  <2>8. \A j \in 1..i : j \in 1..sent \/ j = i
    BY <1>1, SMT
  <2> HIDE DEF i
  <2>9. OnConnection(ops, batch, i, TRUE, rgen = gen, wire')
    BY <1>2, <2>2, <2>5, <2>6, <2>7, <2>8 DEF OnConnection
  <2> QED
    BY <2>2, <2>7, <2>9 DEF ConnectionInv, OnConnection
<1>10. CASE WriteDone
  <2>1. /\ \A m \in Msgs :
              /\ ops'[m].stage = ops[m].stage
              /\ m \notin OpsOf(batch) => ops'[m] = ops[m]
        /\ \E f \in Seq(ReplySet) : DoWrite(TRUE, <<>>, queue, quota, f)
    BY <1>10, WriteDoneBasic
  <2>2. /\ open /\ batch # <<>> /\ sent = Len(batch) /\ (wgen = gen => rgen = gen)
        /\ UNCHANGED <<gen, rgen, wire>>
    BY <1>10 DEF WriteDone
  <2>3. Current /\ rgen = gen
    BY <1>1, <1>2, <2>2, SMT DEF OnConnection, Current
  <2>4. ASSUME NEW m \in Msgs, ops'[m].phase = "waiting" PROVE OnWire(wire, ops, m)
    <3>1. CASE m \in OpsOf(batch)
      <4>1. PICK i \in DOMAIN batch : batch[i].op = m /\ m # Disc
        BY <3>1 DEF OpsOf
      <4>2. i \in 1..sent
        BY <1>1, <2>2, <4>1, SMT
      <4> QED
        BY <1>2, <2>2, <2>3, <4>1, <4>2 DEF OnConnection
    <3>2. CASE m \notin OpsOf(batch)
      BY <1>2, <2>1, <2>2, <2>3, <2>4, <3>2 DEF OnConnection
    <3> QED
      BY <3>1, <3>2
  <2>5. \A m \in Msgs : OnWire(wire, ops', m) <=> OnWire(wire, ops, m)
    BY <2>1 DEF OnWire, Packet
  <2>6. OnConnection(ops', <<>>, SentOf(<<>>), CurrentOf(<<>>), rgen = gen, wire)
    BY <2>3, <2>4, <2>5, SMT DEF OnConnection, SentOf, CurrentOf
  <2>7. OnConnection(ops', batch', sent', Current', rgen = gen, wire)
    BY <1>1, <2>1, <2>2, <2>6, ConnectionWork
  <2> QED
    BY <2>2, <2>7 DEF ConnectionInv
<1>11. CASE WriteAborted
  BY <1>11 DEF WriteAborted
<1>12. CASE ReadReply
  <2>1. open /\ UNCHANGED <<gen, rgen, wire>>
    BY <1>12 DEF ReadReply
  <2>2. CASE UNCHANGED <<ops, queue, batch, sent, wgen, quota>>
    BY <1>3, <2>1, <2>2
  <2>3. CASE \E m \in Msgs : /\ ops[m].phase = "waiting" /\ ops[m].qos # 0
                             /\ Head(b2c).res \in Outcomes /\ OnReply(m, Head(b2c).res)
    BY <2>1, <2>3, ConnectionReply
  <2> QED
    BY <1>12, <2>2, <2>3, ReadReplyBasic
<1>13. CASE Sentry
  <2>1. /\ open /\ UNCHANGED <<ops, gen, rgen, wire>>
        /\ DoWrite(TRUE, batch, Append(queue, DisconnectReq), quota, fast)
    BY <1>13 DEF Sentry
  <2>2. PICK a \in Seq(ReqSet) : DoWrite(TRUE, batch, a, quota, fast)
    BY <1>1, <2>1, RequestsDisconnect
  <2>3. OnConnection(ops', batch, SentOf(batch), CurrentOf(batch), rgen = gen, wire)
    BY <1>1, <1>2, <2>1 DEF OnConnection
  <2>4. OnConnection(ops', batch', sent', Current', rgen = gen, wire)
    BY <1>1, <2>1, <2>2, <2>3, ConnectionWork
  <2> QED
    BY <2>1, <2>4 DEF ConnectionInv
<1>14. CASE Reconnect
  <2>1. /\ open /\ gen' \in Nat /\ recvMax' \in 1..MAX_LIMIT
        /\ gen' = gen => wire' = wire
        /\ gen' # gen => /\ gen' = gen + 1 /\ wire' = <<>>
                         /\ \A m \in Msgs : ops[m].phase # "posted"
                         /\ batch # <<>> => sent < Len(batch)
        /\ \/ /\ Resends /\ rgen' = rgen /\ sent < Len(batch)
              /\ IF gen' = gen THEN wgen < gen ELSE wgen = gen
           \/ /\ Resends /\ rgen' = gen' /\ batch = <<>>
              /\ gen' = gen => rgen < gen
           \/ /\ rgen' = gen' /\ batch # <<>>
              /\ UNCHANGED <<ops, queue, batch, sent, wgen, limit, quota, fast>>
              /\ gen' = gen => rgen < gen
    BY <1>14, ReconnectShape DEF NetTypeOK
  <2>2. ASSUME Resends, wire' = <<>>, \A m \in Msgs : ops[m].phase # "posted"
        PROVE  ConnectionInv'
    <3>1. \A m \in Msgs : /\ m \in Resent => ops'[m].phase = "sending"
                          /\ m \in Outs \ Resent => ops'[m].phase = "done"
                          /\ m \notin Outs => ops'[m] = ops[m]
      BY <2>1, <2>2, ResendsFacts
    <3>2. \A m \in Msgs : ops'[m].phase \notin {"waiting", "posted"}
      BY <2>2, <3>1 DEF Outs, Resent
    <3>3. Current' /\ sent' = 0
      BY <2>2 DEF Resends, DoWrite, Current
    <3> QED
      BY <2>2, <3>2, <3>3, SMT DEF ConnectionInv, OnConnection
  <2>3. CASE /\ Resends /\ sent < Len(batch)
             /\ IF gen' = gen THEN wgen < gen ELSE wgen = gen
    <3>1. CASE gen' = gen
      <4>1. ~Current
        BY <1>1, <2>3, <3>1, SMT DEF Current
      <4> QED
        BY <1>2, <2>1, <2>2, <2>3, <3>1, <4>1 DEF OnConnection
    <3>2. CASE gen' # gen
      BY <2>1, <2>2, <2>3, <3>2
    <3> QED
      BY <3>1, <3>2
  <2>4. CASE Resends /\ batch = <<>> /\ (gen' = gen => rgen < gen)
    <3>1. CASE gen' = gen
      <4>1. rgen # gen
        BY <1>1, <2>4, <3>1, SMT
      <4> QED
        BY <1>2, <2>1, <2>2, <2>4, <3>1, <4>1 DEF OnConnection
    <3>2. CASE gen' # gen
      BY <2>1, <2>2, <2>4, <3>2
    <3> QED
      BY <3>1, <3>2
  <2>5. CASE /\ rgen' = gen' /\ batch # <<>>
             /\ UNCHANGED <<ops, queue, batch, sent, wgen, limit, quota, fast>>
             /\ gen' = gen => rgen < gen
    <3>1. CASE gen' = gen
      <4>1. rgen # gen /\ (Current' <=> Current) /\ wire' = wire
        BY <1>1, <2>1, <2>5, <3>1, SMT DEF Current
      <4> QED
        BY <1>2, <2>1, <2>5, <4>1 DEF ConnectionInv, OnConnection
    <3>2. CASE gen' # gen
      <4>1. ~Current'
        BY <1>1, <2>1, <2>5, <3>2, SMT DEF Current
      <4> QED
        BY <2>1, <2>5, <3>2, <4>1 DEF ConnectionInv, OnConnection
    <3> QED
      BY <3>1, <3>2
  <2> QED
    BY <2>1, <2>3, <2>4, <2>5
<1>15. CASE Break \/ BrokerReceive
  <2>1. UNCHANGED <<ops, batch, sent, wgen, rgen, gen, open, wire>>
    BY <1>15, NetworkBasic
  <2> QED
    BY <1>3, <2>1
<1>16. CASE UNCHANGED vars
  <2>1. UNCHANGED <<ops, batch, sent, wgen, rgen, gen, open, wire>>
    BY <1>16 DEF vars, client, network
  <2> QED
    BY <1>3, <2>1
<1> QED
  BY <1>4, <1>5, <1>6, <1>7, <1>8, <1>9, <1>10, <1>11, <1>12, <1>13, <1>14, <1>15, <1>16
  DEF Next, Reconnect

\* A handler that called do_write leaves nothing behind that could be written.
LEMMA CalledDoWrite ==
    ASSUME Laws, NEW b \in Seq(ReqSet), NEW q \in Seq(ReqSet), NEW k \in Int, NEW f,
           DoWrite(TRUE, b, q, k, f)
    PROVE  NoForgottenRequest'
<1>1. CASE Starts(b, q, k)
  BY <1>1 DEF Starts, NoForgottenRequest
<1>2. CASE Leaves(TRUE, b, q, k, f)
  BY <1>2 DEF Leaves, NoForgottenRequest
<1> QED
  BY <1>1, <1>2, DoWriteFacts

\* The handler of a reply forgets no request.
LEMMA NoForgottenReply ==
    ASSUME Laws, Basic, NoForgottenRequest, NEW m \in Msgs, ops[m].phase \in {"waiting", "posted"},
           NEW res \in Outcomes, res = "aborted" \/ ops[m].qos # 0,
           OnReply(m, res), limit' = limit, open' = open
    PROVE  NoForgottenRequest'
<1>1. PICK called \in BOOLEAN, q \in Seq(ReqSet), k \in Int :
         ReplyShape(m, called, q, k) /\ DoWrite(called, batch, q, k, fast)
  BY OnReplyShape
<1>2. batch \in Seq(ReqSet)
  BY DEF Basic, FlowTypeOK, SenderTypeOK
<1>3. CASE called
  <2>1. DoWrite(TRUE, batch, q, k, fast)
    BY <1>1, <1>3
  <2> QED
    BY <1>2, <2>1, CalledDoWrite
<1>4. CASE ~called
  <2>1. q = queue /\ k = quota
    BY <1>1, <1>4 DEF ReplyShape, Returned
  <2>2. batch' = batch /\ queue' = q /\ quota' = k
    BY <1>1, <1>4 DEF DoWrite
  <2> QED
    BY <2>1, <2>2 DEF NoForgottenRequest
<1> QED
  BY <1>3, <1>4

\* No step leaves a request that could be written.
LEMMA NoForgottenNext ==
    ASSUME Laws, Basic, NoForgottenRequest, [Next]_vars
    PROVE  NoForgottenRequest'
<1>1. batch \in Seq(ReqSet) /\ queue \in Seq(ReqSet) /\ quota \in Int
      /\ fast \in Seq(ReplySet) /\ <<>> \in Seq(ReqSet)
  BY SMT DEF Basic, FlowTypeOK, SenderTypeOK
<1>2. ASSUME UNCHANGED <<queue, batch, limit, quota, open>> PROVE NoForgottenRequest'
  BY <1>2 DEF NoForgottenRequest
<1>3. ASSUME NEW m \in Msgs, NEW q \in QosSet, Publish(m, q) PROVE NoForgottenRequest'
  <2>1. /\ PublishReq(m, ops'[m]) \in ReqSet
        /\ DoWrite(TRUE, batch, Append(queue, PublishReq(m, ops'[m])), quota, fast)
    BY <1>3, PublishBasic
  <2>2. PICK a \in Seq(ReqSet) : DoWrite(TRUE, batch, a, quota, fast)
    <3>1. Append(queue, PublishReq(m, ops'[m])) \in Seq(ReqSet)
      BY <1>1, <2>1, SMT
    <3> QED
      BY <2>1, <3>1
  <2> QED
    BY <1>1, <2>2, CalledDoWrite
<1>4. ASSUME NEW m \in Msgs, NEW q \in QosSet, PublishFails(m, q) PROVE NoForgottenRequest'
  BY <1>2, <1>4 DEF PublishFails
<1>5. ASSUME NEW m \in Msgs, CancelOp(m) PROVE NoForgottenRequest'
  BY <1>2, <1>5 DEF CancelOp
<1>6. ASSUME NEW m \in Msgs, RunPosted(m) PROVE NoForgottenRequest'
  <2>1. ops[m].res \in Outcomes /\ (ops[m].res = "aborted" \/ ops[m].qos # 0)
    BY <1>6, RunPostedBasic
  <2>2. ops[m].phase = "posted" /\ OnReply(m, ops[m].res) /\ limit' = limit /\ open' = open
    BY <1>6 DEF RunPosted
  <2> QED
    BY <2>1, <2>2, NoForgottenReply
<1>7. CASE Cancel \/ NoRecovery
  BY <1>7, CloseBasic DEF NoForgottenRequest
<1>8. CASE WriteSome
  BY <1>2, <1>8 DEF WriteSome
<1>9. CASE WriteDone
  <2>1. PICK f \in Seq(ReplySet) : DoWrite(TRUE, <<>>, queue, quota, f)
    BY <1>9, WriteDoneBasic
  <2> QED
    BY <1>1, <2>1, CalledDoWrite
<1>10. CASE WriteAborted
  BY <1>10 DEF WriteAborted, NoForgottenRequest
<1>11. CASE ReadReply
  <2>1. limit' = limit /\ open' = open
    BY <1>11 DEF ReadReply
  <2>2. CASE UNCHANGED <<ops, queue, batch, sent, wgen, quota>>
    BY <1>2, <2>1, <2>2
  <2>3. CASE \E m \in Msgs : /\ ops[m].phase = "waiting" /\ ops[m].qos # 0
                             /\ Head(b2c).res \in Outcomes /\ OnReply(m, Head(b2c).res)
    BY <2>1, <2>3, NoForgottenReply
  <2> QED
    BY <1>11, <2>2, <2>3, ReadReplyBasic
<1>12. CASE Sentry
  <2>1. DoWrite(TRUE, batch, Append(queue, DisconnectReq), quota, fast)
    BY <1>12 DEF Sentry
  <2>2. PICK a \in Seq(ReqSet) : DoWrite(TRUE, batch, a, quota, fast)
    BY <1>1, <2>1, RequestsDisconnect DEF Basic
  <2> QED
    BY <1>1, <2>2, CalledDoWrite
<1>13. CASE Reconnect
  <2>1. CASE Resends
    <3>1. PICK k : k = Returned(limit', limit',
                                Cardinality({m \in Outs : Stops(m) /\ ops[m].qos # 0}))
      OBVIOUS
    <3>2. DoWrite(TRUE, <<>>, ResendQueue, k, fast) /\ limit' = recvMax'
      BY <2>1, <3>1 DEF Resends
    <3>3. recvMax' \in 1..MAX_LIMIT
      BY <1>13, ReconnectShape DEF NetTypeOK
    <3>4. ResendQueue \in Seq(ReqSet)
      BY ResendQueueFacts DEF Basic
    <3>5. Cardinality({m \in Outs : Stops(m) /\ ops[m].qos # 0}) \in Nat
      BY <2>1, <3>3, ResendsFacts
    <3>6. k \in Int
      BY <3>1, <3>2, <3>3, <3>5, LimitAssumption, SMT DEF Returned
    <3> QED
      BY <1>1, <3>2, <3>4, <3>6, CalledDoWrite
  <2>2. CASE batch # <<>> /\ UNCHANGED <<ops, queue, batch, sent, wgen, limit, quota, fast>>
    BY <2>2 DEF NoForgottenRequest
  <2> QED
    BY <1>13, <2>1, <2>2, ReconnectShape
<1>14. CASE Break \/ BrokerReceive
  BY <1>2, <1>14, NetworkBasic
<1>15. CASE UNCHANGED vars
  BY <1>2, <1>15 DEF vars, client
<1> QED
  BY <1>3, <1>4, <1>5, <1>6, <1>7, <1>8, <1>9, <1>10, <1>11, <1>12, <1>13, <1>14, <1>15
  DEF Next, Reconnect

\* The functions of Requests count the requests of an operation.
LEMMA OneRequest ==
    ASSUME Laws, Basic
    PROVE  OneRequestEach
<1> SUFFICES ASSUME Basic, NEW m \in Msgs
             PROVE  Cardinality({i \in DOMAIN queue : queue[i].op = m})
                    + Cardinality({i \in DOMAIN batch : batch[i].op = m})
                    = IF ops[m].phase = "sending" THEN 1 ELSE 0
  BY DEF OneRequestEach
<1> DEFINE Q == {i \in DOMAIN queue : queue[i].op = m}
           B == {i \in DOMAIN batch : batch[i].op = m}
<1>1. /\ \A i, j \in DOMAIN queue : queue[i].op = queue[j].op /\ queue[i].op # Disc => i = j
      /\ \A i, j \in DOMAIN batch : batch[i].op = batch[j].op /\ batch[i].op # Disc => i = j
      /\ m # Disc
  BY SMT DEF Basic, Requests, Msgs, Disc
<1>2. (Q = {} \/ \E i : Q = {i}) /\ (B = {} \/ \E i : B = {i})
  <2>1. ASSUME Q # {} PROVE \E i : Q = {i}
    <3>1. PICK i \in Q : TRUE
      BY <2>1
    <3>2. Q = {i}
      BY <1>1, <3>1
    <3> QED
      BY <3>2
  <2>2. ASSUME B # {} PROVE \E i : B = {i}
    <3>1. PICK i \in B : TRUE
      BY <2>2
    <3>2. B = {i}
      BY <1>1, <3>1
    <3> QED
      BY <3>2
  <2> QED
    BY <2>1, <2>2
<1>3. ops[m].phase = "sending" => Q # {} \/ B # {}
  BY DEF Basic, Requests
<1>4. ASSUME Q # {} \/ B # {} PROVE ops[m].phase = "sending"
  <2>1. m \in OpsOf(queue) \/ m \in OpsOf(batch)
    BY <1>1, <1>4 DEF OpsOf
  <2> QED
    BY <2>1, OpsOfFacts DEF Basic
<1>5. Q = {} \/ B = {}
  BY <1>1, SMT DEF Basic, Requests
<1> HIDE DEF Q, B
<1>6. /\ Cardinality(Q) = IF Q = {} THEN 0 ELSE 1
      /\ Cardinality(B) = IF B = {} THEN 0 ELSE 1
  BY <1>2 DEF Laws, SmallLaw
<1>7. Cardinality(Q) + Cardinality(B) = IF ops[m].phase = "sending" THEN 1 ELSE 0
  BY <1>3, <1>4, <1>5, <1>6, SMT
<1> QED
  BY <1>7 DEF Q, B

\* do_write hands on the requests in the order of the queue, except that QoS 0
\* PUBLISH packets and PUBREL packets pass the throttled ones.
LEMMA LineWork ==
    ASSUME Laws, Basic, NEW called \in BOOLEAN, NEW b, b = batch \/ b = <<>>,
           NEW q \in Seq(ReqSet), NEW k \in Int, NEW f, NEW o, Requests(o, q, b),
           NEW w, InLine(o, w, SentOf(b), b, q),
           DoWrite(called, b, q, k, f)
    PROVE  InLine(o, w, sent', batch', queue')
<1>1. b \in Seq(ReqSet)
  <2>1. batch \in Seq(ReqSet)
    BY DEF Basic, FlowTypeOK, SenderTypeOK
  <2>2. CASE b = <<>>
    BY <2>2, SMT
  <2> QED
    BY <2>1, <2>2
<1>2. CASE called /\ Starts(b, q, k)
  <2>1. PICK h, g : Split(q, batch', queue', h, g)
    BY <1>2 DEF Starts
  <2>2. /\ b = <<>> /\ sent' = 0 /\ SentOf(b) = 0
        /\ batch' \in Seq(ReqSet) /\ queue' \in Seq(ReqSet)
    BY <1>2 DEF Starts, SentOf
  <2>3. \A j \in DOMAIN q : ReqOK(q[j], o)
    BY DEF Requests
  <2>4. \A j \in DOMAIN q : q[j].terminal <=> q[j].op = Disc
    BY <2>3, SMT DEF ReqOK, DisconnectReq, Msgs, Disc
  <2>5. /\ \A i \in 1..Len(batch') : h[i] \in DOMAIN q /\ batch'[i] = q[h[i]]
        /\ \A i \in 1..Len(queue') : g[i] \in DOMAIN q /\ queue'[i] = q[g[i]]
        /\ \A i, j \in 1..Len(batch') : i < j => h[i] < h[j]
        /\ \A i, j \in 1..Len(queue') : i < j => g[i] < g[j]
    BY <2>1 DEF Split, Picks
  <2>6. /\ DOMAIN batch' = 1..Len(batch') /\ DOMAIN queue' = 1..Len(queue')
        /\ 0 + 1 = 1
    BY <2>2, SMT
  <2>7. CASE Len(batch') = 1 /\ batch'[1].terminal
    <3>1. 1 \in 1..Len(batch') /\ \A i \in 1..Len(batch') : i = 1
      BY <2>7, SMT
    <3>2. batch'[1].op = Disc
      BY <2>4, <2>5, <2>7, <3>1, SMT
    <3>3. BatchLine(o, w, 0, batch')
      BY <2>6, <3>1, <3>2 DEF BatchLine, Pub
    <3>4. HasDisc(batch')
      BY <2>6, <3>1, <3>2 DEF HasDisc
    <3> QED
      BY <2>2, <3>3, <3>4 DEF InLine
  <2>8. CASE /\ \A i \in 1..Len(batch') : ~batch'[i].terminal
             /\ \A j \in 1..Len(queue') :
                   /\ ~queue'[j].terminal /\ queue'[j].throttled
                   /\ \A i \in 1..Len(batch') : batch'[i].throttled => h[i] < g[j]
    <3>1. \A j \in DOMAIN q : \/ \E i \in 1..Len(batch') : h[i] = j
                              \/ \E i \in 1..Len(queue') : g[i] = j
      BY <2>1 DEF Split
    <3>2. ~HasDisc(q) /\ ~HasDisc(b)
      <4>1. ASSUME NEW j \in DOMAIN q PROVE ~q[j].terminal
        <5>1. CASE \E i \in 1..Len(batch') : h[i] = j
          <6>1. PICK i \in 1..Len(batch') : h[i] = j
            BY <5>1
          <6>2. batch'[i] = q[j] /\ ~batch'[i].terminal
            BY <2>5, <2>8, <6>1
          <6> QED
            BY <6>2
        <5>2. CASE \E i \in 1..Len(queue') : g[i] = j
          <6>1. PICK i \in 1..Len(queue') : g[i] = j
            BY <5>2
          <6>2. queue'[i] = q[j] /\ ~queue'[i].terminal
            BY <2>5, <2>8, <6>1
          <6> QED
            BY <6>2
        <5> QED
          BY <3>1, <5>1, <5>2
      <4>2. ~HasDisc(q)
        BY <2>4, <4>1 DEF HasDisc
      <4> QED
        BY <2>2, <4>2, SMT DEF HasDisc
    <3>3. QueueLine(o, w, 0, <<>>, q)
      BY <2>2, <3>2 DEF InLine
    <3>4. /\ \A i, j \in DOMAIN q : i < j /\ Pub(q[i], o) /\ Pub(q[j], o)
                                    => Ahead(o, q[i].op, q[j].op)
          /\ \A i \in DOMAIN w, j \in DOMAIN q :
                  w[i].type = "PUBLISH" /\ Pub(q[j], o) => Ahead(o, w[i].msg, q[j].op)
      BY <3>3 DEF QueueLine
    <3>5. BatchLine(o, w, 0, batch')
      <4>1. ASSUME NEW i \in 1..Len(batch'), NEW j \in 1..Len(batch'), i < j,
                   Pub(batch'[i], o), Pub(batch'[j], o)
            PROVE  Ahead(o, batch'[i].op, batch'[j].op)
        BY <2>5, <3>4, <4>1
      <4>2. ASSUME NEW i \in DOMAIN w, NEW j \in 1..Len(batch'),
                   w[i].type = "PUBLISH", Pub(batch'[j], o)
            PROVE  Ahead(o, w[i].msg, batch'[j].op)
        BY <2>5, <3>4, <4>2
      <4> QED
        BY <2>6, <4>1, <4>2 DEF BatchLine
    <3>6. ASSUME NEW i \in 1..Len(batch'), NEW j \in 1..Len(queue'),
                 Pub(batch'[i], o), Pub(queue'[j], o)
          PROVE  Ahead(o, batch'[i].op, queue'[j].op)
      <4>1. CASE batch'[i].throttled
        <5>1. /\ h[i] \in DOMAIN q /\ batch'[i] = q[h[i]]
              /\ g[j] \in DOMAIN q /\ queue'[j] = q[g[j]]
          BY <2>5
        <5>2. h[i] < g[j]
          BY <2>8, <4>1
        <5> QED
          BY <3>4, <3>6, <5>1, <5>2
      <4>2. CASE ~batch'[i].throttled
        <5>1. ReqOK(batch'[i], o) /\ ReqOK(queue'[j], o)
          BY <2>3, <2>5
        <5>2. o[batch'[i].op].qos = 0
          BY <3>6, <4>2, <5>1, SMT DEF ReqOK, DisconnectReq, Pub
        <5>3. o[queue'[j].op].qos # 0
          BY <2>8, <3>6, <5>1, SMT DEF ReqOK, DisconnectReq, Pub
        <5> QED
          BY <5>2, <5>3 DEF Ahead
      <4> QED
        BY <4>1, <4>2
    <3>7. QueueLine(o, w, 0, batch', queue')
      <4>1. ASSUME NEW i \in 1..Len(queue'), NEW j \in 1..Len(queue'), i < j,
                   Pub(queue'[i], o), Pub(queue'[j], o)
            PROVE  Ahead(o, queue'[i].op, queue'[j].op)
        BY <2>5, <3>4, <4>1
      <4>2. ASSUME NEW i \in DOMAIN w, NEW j \in 1..Len(queue'),
                   w[i].type = "PUBLISH", Pub(queue'[j], o)
            PROVE  Ahead(o, w[i].msg, queue'[j].op)
        BY <2>5, <3>4, <4>2
      <4> QED
        BY <2>6, <3>6, <4>1, <4>2 DEF QueueLine
    <3> QED
      BY <2>2, <3>5, <3>7 DEF InLine
  <2> QED
    BY <2>1, <2>7, <2>8 DEF Split
<1>3. CASE Leaves(called, b, q, k, f)
  <2>1. batch' = b /\ sent' = SentOf(b) /\ queue' = q
    BY <1>3 DEF Leaves, SentOf
  <2> QED
    BY <2>1
<1> QED
  BY <1>1, <1>2, <1>3, DoWriteFacts

\* The line only knows of messages that were published, by their QoS, and of the
\* stage of the ones that have a request.
LEMMA WireLineOps ==
    ASSUME NEW o, NEW p, NEW w, WireLine(o, w),
           \A n \in Msgs : o[n].phase # "idle" => p[n].phase # "idle" /\ p[n].qos = o[n].qos
    PROVE  WireLine(p, w)
BY DEF WireLine, Ahead

\* InLine depends on the QoS of the operations and the stage of those that are
\* sending, and on nothing else of them.
LEMMA InLineOps ==
    ASSUME NEW o, NEW p, NEW w, WireLine(o, w),
           \A n \in Msgs : o[n].phase # "idle" => p[n].qos = o[n].qos,
           \A n \in Msgs : o[n].phase = "sending" => p[n].stage = o[n].stage,
           NEW q, NEW b \in Seq(ReqSet), NEW s \in Nat,
           Requests(o, q, b), InLine(o, w, s, b, q)
    PROVE  InLine(p, w, s, b, q)
<1>1. ASSUME NEW r, ReqOK(r, o)
      PROVE  /\ Pub(r, p) <=> Pub(r, o)
             /\ Pub(r, o) => r.op \in Msgs /\ p[r.op].qos = o[r.op].qos
  BY <1>1, SMT DEF ReqOK, DisconnectReq, Pub
<1>2. /\ \A i \in DOMAIN q : ReqOK(q[i], o)
      /\ \A i \in (s + 1)..Len(b) : i \in DOMAIN b /\ ReqOK(b[i], o)
  BY SMT DEF Requests
<1>3. \A i \in DOMAIN w : w[i].type = "PUBLISH" => p[w[i].msg].qos = o[w[i].msg].qos
  BY DEF WireLine
<1>4. BatchLine(p, w, s, b)
  BY <1>1, <1>2, <1>3 DEF InLine, BatchLine, Ahead
<1>5. ASSUME QueueLine(o, w, s, b, q) PROVE QueueLine(p, w, s, b, q)
  BY <1>1, <1>2, <1>3, <1>5 DEF QueueLine, Ahead
<1> QED
  BY <1>4, <1>5 DEF InLine

\* A request may be queued behind all others when it is no PUBLISH packet, or
\* the one of the last message.
LEMMA LineAppend ==
    ASSUME NEW o, NEW w, NEW s \in Nat, NEW b \in Seq(ReqSet), NEW q \in Seq(ReqSet),
           NEW r \in ReqSet, InLine(o, w, s, b, q),
           Pub(r, o) =>
              /\ \A i \in DOMAIN w : w[i].type = "PUBLISH" => w[i].msg < r.op
              /\ \A i \in DOMAIN q : Pub(q[i], o) => q[i].op < r.op
              /\ \A i \in DOMAIN b : Pub(b[i], o) => b[i].op < r.op
    PROVE  InLine(o, w, s, b, Append(q, r))
<1> DEFINE a == Append(q, r)
           e == Len(q) + 1
<1>1. /\ DOMAIN a = 1..e /\ DOMAIN q = 1..Len(q) /\ Len(q) \in Nat
      /\ \A i \in DOMAIN q : i \in DOMAIN a /\ a[i] = q[i]
      /\ \A i \in DOMAIN a : i \in DOMAIN q \/ i = e
      /\ e \in DOMAIN a /\ a[e] = r
  BY SMT
<1>2. \A i \in (s + 1)..Len(b) : i \in DOMAIN b
  BY SMT
<1>3. \A i \in DOMAIN a : \A j \in DOMAIN a : i < j => i \in DOMAIN q
  BY <1>1, SMT
<1> HIDE DEF a, e
<1>4. HasDisc(q) => HasDisc(a)
  BY <1>1 DEF HasDisc
<1>5. ASSUME QueueLine(o, w, s, b, q) PROVE QueueLine(o, w, s, b, a)
  <2>1. ASSUME NEW i \in DOMAIN a, NEW j \in DOMAIN a, i < j, Pub(a[i], o), Pub(a[j], o)
        PROVE  Ahead(o, a[i].op, a[j].op)
    <3>1. i \in DOMAIN q
      BY <1>3, <2>1
    <3>2. CASE j = e
      BY <1>1, <2>1, <3>1, <3>2 DEF Ahead
    <3>3. CASE j \in DOMAIN q
      BY <1>1, <1>5, <2>1, <3>1, <3>3 DEF QueueLine
    <3> QED
      BY <1>1, <3>2, <3>3
  <2>2. ASSUME NEW i \in DOMAIN w, NEW j \in DOMAIN a, w[i].type = "PUBLISH", Pub(a[j], o)
        PROVE  Ahead(o, w[i].msg, a[j].op)
    BY <1>1, <1>5, <2>2 DEF QueueLine, Ahead
  <2>3. ASSUME NEW i \in (s + 1)..Len(b), NEW j \in DOMAIN a, Pub(b[i], o), Pub(a[j], o)
        PROVE  Ahead(o, b[i].op, a[j].op)
    BY <1>1, <1>2, <1>5, <2>3 DEF QueueLine, Ahead
  <2> QED
    BY <2>1, <2>2, <2>3 DEF QueueLine
<1>6. InLine(o, w, s, b, a)
  BY <1>4, <1>5 DEF InLine
<1> QED
  BY <1>6 DEF a

\* A publish_send_op that gets its reply keeps its place.
LEMMA LineReply ==
    ASSUME Laws, Basic, Line, NEW m \in Msgs, ops[m].phase \in {"waiting", "posted"},
           NEW res \in Outcomes, res = "aborted" \/ ops[m].qos # 0,
           OnReply(m, res), open' = open, conn' = conn, gen' = gen, wire' = wire
    PROVE  Line'
<1>1. /\ \A n \in Msgs \ {m} : ops'[n] = ops[n]
      /\ ops'[m].phase # "idle" /\ ops'[m].qos = ops[m].qos
  BY OnReplyShape
<1>2. PICK called \in BOOLEAN, q \in Seq(ReqSet), k \in Int :
         /\ ReplyShape(m, called, q, k) /\ Requests(ops', q, batch)
         /\ DoWrite(called, batch, q, k, fast)
  BY OnReplyShape
<1>3. /\ batch \in Seq(ReqSet) /\ queue \in Seq(ReqSet) /\ SentOf(batch) = sent
      /\ sent \in Nat /\ Requests(ops, queue, batch)
  BY SMT DEF Basic, FlowTypeOK, SenderTypeOK, SentOf
<1>4. WireLine(ops', wire)
  BY <1>1, WireLineOps, SMT DEF Line
<1>5. ASSUME open, conn # "shut", Current' PROVE InLine(ops', wire, sent', batch', queue')
  <2>1. Current
    BY <1>5, <1>2 DEF DoWrite, Current
  <2>2. InLine(ops, wire, sent, batch, queue)
    BY <1>5, <2>1 DEF Line
  <2>3. InLine(ops', wire, sent, batch, queue)
    BY <1>1, <1>3, <2>2, InLineOps DEF Line
  <2>4. ASSUME HasDisc(q) PROVE InLine(ops', wire, sent, batch, q)
    BY <2>3, <2>4 DEF InLine
  <2>5. InLine(ops', wire, sent, batch, q)
    <3>1. CASE q = queue
      BY <2>3, <3>1
    <3>2. CASE q = Append(queue, DisconnectReq)
      <4>1. Len(queue) + 1 \in DOMAIN q /\ q[Len(queue) + 1].op = Disc
        BY <1>3, <3>2, SMT DEF DisconnectReq
      <4> QED
        BY <2>4, <4>1 DEF HasDisc
    <3>3. CASE q = Append(Append(queue, DisconnectReq), Req(m))
      <4> DEFINE a == Append(queue, DisconnectReq)
      <4>1. /\ Len(queue) + 1 \in 1..Len(a) /\ a[Len(queue) + 1].op = Disc
            /\ a \in Seq(ReqSet)
        <5>1. a \in Seq(ReqSet)
          BY <1>3, RequestsDisconnect
        <5>2. Len(queue) + 1 \in 1..Len(a) /\ a[Len(queue) + 1] = DisconnectReq
          BY <1>3, SMT
        <5> QED
          BY <5>1, <5>2, SMT DEF DisconnectReq
      <4>2. q = Append(a, Req(m))
        BY <3>3
      <4> HIDE DEF a
      <4>3. \A i \in 1..Len(a) : i \in DOMAIN q /\ q[i] = a[i]
        BY <4>1, <4>2, SMT
      <4>4. HasDisc(q)
        BY <4>1, <4>3 DEF HasDisc
      <4> QED
        BY <2>4, <4>4
    <3>4. CASE ops'[m].stage = "pubrel" /\ q = Append(queue, PubrelReq(m, ops[m], FALSE))
      <4> DEFINE r == PubrelReq(m, ops[m], FALSE)
      <4>1. r \in ReqSet
        BY SMT DEF PubrelReq, ReqSet, Basic, FlowTypeOK, OpSet, Msgs
      <4>2. ~Pub(r, ops')
        BY <3>4 DEF PubrelReq, Pub
      <4> HIDE DEF r
      <4>3. InLine(ops', wire, sent, batch, Append(queue, r))
        BY <1>3, <2>3, <4>1, <4>2, LineAppend
      <4> QED
        BY <3>4, <4>3 DEF r
    <3> QED
      BY <1>2, <3>1, <3>2, <3>3, <3>4 DEF ReplyShape
  <2> QED
    BY <1>2, <1>3, <2>5, LineWork
<1> QED
  BY <1>4, <1>5 DEF Line

\* Every step keeps Line.
LEMMA LineNext ==
    ASSUME Laws, Basic, ConnectionInv, Line, [Next]_vars
    PROVE  Line'
<1>1. /\ batch \in Seq(ReqSet) /\ queue \in Seq(ReqSet) /\ sent \in 0..Len(batch)
      /\ sent \in Nat /\ gen \in Nat /\ wgen \in 0..gen /\ rgen \in 0..gen
      /\ quota \in Int /\ Requests(ops, queue, batch)
      /\ SentOf(batch) = sent /\ SentOf(<<>>) = 0
  BY SMT DEF Basic, FlowTypeOK, SenderTypeOK, NetTypeOK, SentOf
<1>2. WireLine(ops, wire)
  BY DEF Line
<1>3. ASSUME UNCHANGED <<queue, batch, sent, wgen, gen, wire>>,
             open' => open, conn' # "shut" => conn # "shut",
             \A n \in Msgs : /\ ops[n].phase # "idle" => ops'[n].phase # "idle"
                                                        /\ ops'[n].qos = ops[n].qos
                             /\ ops[n].phase = "sending" => ops'[n].stage = ops[n].stage
      PROVE  Line'
  <2>1. WireLine(ops', wire)
    BY <1>2, <1>3, WireLineOps, SMT
  <2>2. ASSUME open', conn' # "shut", Current' PROVE InLine(ops', wire, sent, batch, queue)
    <3>1. InLine(ops, wire, sent, batch, queue)
      BY <1>3, <2>2 DEF Line, Current
    <3> QED
      BY <1>1, <1>2, <1>3, <3>1, InLineOps
  <2> QED
    BY <1>3, <2>1, <2>2 DEF Line
<1>4. ASSUME NEW m \in Msgs, NEW q \in QosSet, Publish(m, q) PROVE Line'
  <2> DEFINE r == PublishReq(m, ops'[m])
  <2>1. /\ ops[m].phase = "idle" /\ ops'[m].phase = "sending" /\ Basic'
        /\ ops'[m].stage = "publish"
        /\ \A n \in Msgs \ {m} : ops'[n] = ops[n]
        /\ \A n \in Msgs : ops[n].phase # "idle" => n < m
        /\ r \in ReqSet
        /\ DoWrite(TRUE, batch, Append(queue, r), quota, fast)
    BY <1>4, PublishBasic
  <2>2. open /\ UNCHANGED <<open, conn, gen, wire>>
    BY <1>4 DEF Publish, NextMsg
  <2>3. r.op = m /\ ReqOK(r, ops')
    BY <2>1 DEF PublishReq, ReqOK
  <2> HIDE DEF r
  <2>4. WireLine(ops', wire)
    BY <1>2, <2>1, WireLineOps, SMT
  <2>5. ASSUME conn # "shut", Current' PROVE InLine(ops', wire, sent', batch', queue')
    <3>1. Current
      BY <2>1, <2>2, <2>5 DEF DoWrite, Current
    <3>2. InLine(ops, wire, sent, batch, queue)
      BY <2>2, <2>5, <3>1 DEF Line
    <3>3. InLine(ops', wire, sent, batch, queue)
      BY <1>1, <1>2, <2>1, <3>2, InLineOps
    <3>4. /\ \A i \in DOMAIN wire : wire[i].type = "PUBLISH" => wire[i].msg < m
          /\ \A i \in DOMAIN queue : ReqOK(queue[i], ops)
          /\ \A i \in DOMAIN batch : ReqOK(batch[i], ops)
      BY <1>1, <1>2, <2>1 DEF WireLine, Requests
    <3>5. \A x : ReqOK(x, ops) /\ Pub(x, ops') => x.op < m
      BY <2>1, SMT DEF ReqOK, Pub, DisconnectReq
    <3>6. InLine(ops', wire, sent, batch, Append(queue, r))
      BY <1>1, <2>1, <2>3, <3>3, <3>4, <3>5, LineAppend
    <3>7. /\ Append(queue, r) \in Seq(ReqSet)
          /\ Requests(ops', Append(queue, r), batch)
      BY <1>1, <2>1, <2>3, RequestsAppend
    <3>8. PICK a \in Seq(ReqSet) :
             /\ InLine(ops', wire, sent, batch, a) /\ Requests(ops', a, batch)
             /\ DoWrite(TRUE, batch, a, quota, fast)
      BY <2>1, <3>6, <3>7
    <3> QED
      BY <1>1, <3>8, LineWork
  <2> QED
    BY <2>2, <2>4, <2>5 DEF Line
<1>5. ASSUME NEW m \in Msgs, NEW q \in QosSet, PublishFails(m, q) PROVE Line'
  <2>1. /\ ops[m].phase = "idle"
        /\ \A n \in Msgs \ {m} : ops'[n] = ops[n]
        /\ UNCHANGED <<queue, batch, sent, wgen, gen, conn, open, wire>>
    BY <1>5, PublishFailsBasic
  <2>2. \A n \in Msgs : ops[n].phase # "idle" => ops'[n] = ops[n]
    BY <2>1
  <2> QED
    BY <1>3, <2>1, <2>2
<1>6. ASSUME NEW m \in Msgs, CancelOp(m) PROVE Line'
  <2>1. /\ ops' = [ops EXCEPT ![m].cancelled = TRUE] /\ ops \in [Msgs -> OpSet]
        /\ UNCHANGED <<queue, batch, sent, wgen, gen, conn, open, wire>>
    BY <1>6 DEF CancelOp, network, Basic, FlowTypeOK
  <2>2. \A n \in Msgs : /\ ops'[n].stage = ops[n].stage /\ ops'[n].phase = ops[n].phase
                        /\ ops'[n].qos = ops[n].qos
    BY <2>1 DEF OpSet
  <2> QED
    BY <1>3, <2>1, <2>2
<1>7. ASSUME NEW m \in Msgs, RunPosted(m) PROVE Line'
  <2>1. ops[m].res \in Outcomes /\ (ops[m].res = "aborted" \/ ops[m].qos # 0)
    BY <1>7, RunPostedBasic
  <2>2. ops[m].phase = "posted" /\ OnReply(m, ops[m].res)
        /\ UNCHANGED <<gen, wire, open, conn>>
    BY <1>7 DEF RunPosted
  <2> QED
    BY <2>1, <2>2, LineReply
<1>8. ASSUME ~open', wire' = wire, Onward(ops, ops') PROVE Line'
  <2>1. WireLine(ops', wire)
    BY <1>2, <1>8, WireLineOps, SMT DEF Onward
  <2> QED
    BY <1>8, <2>1 DEF Line
<1>9. CASE Cancel \/ NoRecovery
  BY <1>8, <1>9, CloseBasic
<1>10. CASE WriteDone
  <2>1. /\ Onward(ops, ops')
        /\ \A m \in Msgs : /\ ops'[m].stage = ops[m].stage
        /\ Requests(ops', queue, <<>>)
    BY <1>10, WriteDoneBasic
  <2>2. PICK f \in Seq(ReplySet) : DoWrite(TRUE, <<>>, queue, quota, f)
    BY <1>10, WriteDoneBasic
  <2>3. /\ open /\ batch # <<>> /\ sent = Len(batch)
        /\ UNCHANGED <<open, gen, wire>>
        /\ conn' = IF \E i \in DOMAIN batch : batch[i].op = Disc THEN "shut" ELSE conn
    BY <1>10 DEF WriteDone
  <2>4. Current
    BY <1>1, <2>3, SMT DEF ConnectionInv, OnConnection
  <2>5. WireLine(ops', wire)
    BY <1>2, <2>1, WireLineOps, SMT DEF Onward
  <2>6. ASSUME conn' # "shut" PROVE InLine(ops', wire, sent', batch', queue')
    <3>1. conn # "shut" /\ ~HasDisc(batch)
      BY <2>3, <2>6 DEF HasDisc
    <3>2. InLine(ops, wire, sent, batch, queue)
      BY <2>3, <2>4, <3>1 DEF Line
    <3>3. InLine(ops', wire, sent, batch, queue)
      BY <1>1, <1>2, <2>1, <3>2, InLineOps DEF Onward
    <3>4. HasDisc(queue) \/ QueueLine(ops', wire, sent, batch, queue)
      BY <3>1, <3>3 DEF InLine
    <3>5. BatchLine(ops', wire, 0, <<>>)
      BY SMT DEF BatchLine
    <3>6. QueueLine(ops', wire, sent, batch, queue) => QueueLine(ops', wire, 0, <<>>, queue)
      BY SMT DEF QueueLine
    <3>7. InLine(ops', wire, SentOf(<<>>), <<>>, queue)
      BY <1>1, <3>4, <3>5, <3>6 DEF InLine
    <3> QED
      BY <1>1, <2>1, <2>2, <3>7, LineWork
  <2> QED
    BY <2>3, <2>5, <2>6 DEF Line
<1>11. CASE WriteAborted
  BY <1>8, <1>11, WriteAbortedBasic DEF WriteAborted
<1>12. CASE ReadReply
  <2>1. UNCHANGED <<open, conn, gen, wire>>
    BY <1>12 DEF ReadReply
  <2>2. CASE UNCHANGED <<ops, queue, batch, sent, wgen, quota>>
    BY <1>3, <2>1, <2>2
  <2>3. CASE \E m \in Msgs : /\ ops[m].phase = "waiting" /\ ops[m].qos # 0
                             /\ Head(b2c).res \in Outcomes /\ OnReply(m, Head(b2c).res)
    BY <2>1, <2>3, LineReply
  <2> QED
    BY <1>12, <2>2, <2>3, ReadReplyBasic
<1>13. CASE Sentry
  <2>1. /\ open /\ UNCHANGED <<ops, gen, conn, open, wire>>
        /\ DoWrite(TRUE, batch, Append(queue, DisconnectReq), quota, fast)
    BY <1>13 DEF Sentry
  <2>2. ASSUME conn # "shut", Current' PROVE InLine(ops, wire, sent', batch', queue')
    <3>1. Current
      BY <2>1, <2>2 DEF DoWrite, Current
    <3>2. InLine(ops, wire, sent, batch, queue)
      BY <2>1, <2>2, <3>1 DEF Line
    <3>3. DisconnectReq \in ReqSet /\ ~Pub(DisconnectReq, ops)
      BY PublishFlowAssumption, SerialModAssumption, SMT DEF DisconnectReq, ReqSet, Pub, Disc
    <3>4. InLine(ops, wire, sent, batch, Append(queue, DisconnectReq))
      BY <1>1, <3>2, <3>3, LineAppend
    <3>5. PICK a \in Seq(ReqSet) :
             /\ InLine(ops, wire, sent, batch, a) /\ Requests(ops, a, batch)
             /\ DoWrite(TRUE, batch, a, quota, fast)
      BY <1>1, <2>1, <3>4, RequestsDisconnect
    <3> QED
      BY <1>1, <3>5, LineWork
  <2> QED
    BY <1>2, <2>1, <2>2 DEF Line
<1>14. CASE WriteSome
  <2> DEFINE c == sent + 1
             e == Len(wire) + 1
  <2>1. /\ c \in 1..Len(batch) /\ c \in DOMAIN batch
        /\ batch[c].op # Disc =>
              /\ batch[c].op \in Msgs /\ ops[batch[c].op].phase = "sending"
              /\ wire' = Append(wire, Packet(ops, batch[c].op))
        /\ batch[c].op = Disc => wire' = Append(wire, [type |-> "DISCONNECT", msg |-> Disc])
    BY <1>1, <1>14, WriteSomeBasic, SMT
  <2>2. /\ open /\ conn # "shut" /\ wgen = gen /\ sent' = c
        /\ UNCHANGED <<ops, queue, batch, wgen, gen, open, conn>>
    BY <1>14 DEF WriteSome
  <2>3. InLine(ops, wire, sent, batch, queue)
    BY <2>2 DEF Line, Current
  <2>4. wire \in Seq(WireSet)
    BY DEF Basic, FlowTypeOK, NetTypeOK
  <2>5. PICK x : /\ wire' = Append(wire, x)
                 /\ batch[c].op # Disc => x = Packet(ops, batch[c].op)
                 /\ batch[c].op = Disc => x = [type |-> "DISCONNECT", msg |-> Disc]
    BY <2>1
  <2>6. /\ \A j \in DOMAIN wire' : j \in DOMAIN wire \/ j = e
        /\ \A j \in DOMAIN wire : wire'[j] = wire[j]
        /\ wire'[e] = x
        /\ \A i, j \in DOMAIN wire' : i < j => i \in DOMAIN wire
    BY <2>4, <2>5, SMT
  <2>7. /\ \A i \in (c + 1)..Len(batch) : i \in (sent + 1)..Len(batch) /\ c < i
        /\ c \in (sent + 1)..Len(batch)
    BY <1>1, <2>1, SMT
  <2> HIDE DEF c, e
  <2>8. x.type = "PUBLISH" => /\ x.msg = batch[c].op /\ Pub(batch[c], ops)
                              /\ x.msg \in Msgs /\ ops[x.msg].phase # "idle"
    <3>1. CASE batch[c].op = Disc
      BY <2>5, <3>1, SMT
    <3>2. CASE batch[c].op # Disc
      <4>1. ops[batch[c].op].stage \in {"publish", "pubrel"}
        BY <2>1, <3>2 DEF Basic, FlowTypeOK, OpSet
      <4> QED
        BY <2>1, <2>5, <3>2, <4>1, SMT DEF Packet, Pub
    <3> QED
      BY <3>1, <3>2
  <2>9. /\ \A i, j \in (sent + 1)..Len(batch) :
              i < j /\ Pub(batch[i], ops) /\ Pub(batch[j], ops)
              => Ahead(ops, batch[i].op, batch[j].op)
        /\ \A i \in DOMAIN wire, j \in (sent + 1)..Len(batch) :
              wire[i].type = "PUBLISH" /\ Pub(batch[j], ops)
              => Ahead(ops, wire[i].msg, batch[j].op)
    BY <2>3 DEF InLine, BatchLine
  <2>10. WireLine(ops, wire')
    <3>1. ASSUME NEW i \in DOMAIN wire', wire'[i].type = "PUBLISH"
          PROVE  wire'[i].msg \in Msgs /\ ops[wire'[i].msg].phase # "idle"
      BY <1>2, <2>6, <2>8, <3>1 DEF WireLine
    <3>2. ASSUME NEW i \in DOMAIN wire', NEW j \in DOMAIN wire', i < j,
                 wire'[i].type = "PUBLISH", wire'[j].type = "PUBLISH"
          PROVE  Ahead(ops, wire'[i].msg, wire'[j].msg)
      <4>1. i \in DOMAIN wire /\ wire'[i] = wire[i]
        BY <2>6, <3>2
      <4>2. CASE j \in DOMAIN wire
        BY <1>2, <2>6, <3>2, <4>1, <4>2 DEF WireLine
      <4>3. CASE j = e
        BY <2>6, <2>7, <2>8, <2>9, <3>2, <4>1, <4>3
      <4> QED
        BY <2>6, <4>2, <4>3
    <3> QED
      BY <3>1, <3>2 DEF WireLine
  <2>11. BatchLine(ops, wire', c, batch)
    <3>1. ASSUME NEW i \in DOMAIN wire', NEW j \in (c + 1)..Len(batch),
                 wire'[i].type = "PUBLISH", Pub(batch[j], ops)
          PROVE  Ahead(ops, wire'[i].msg, batch[j].op)
      <4>1. CASE i \in DOMAIN wire
        BY <2>6, <2>7, <2>9, <3>1, <4>1
      <4>2. CASE i = e
        BY <2>6, <2>7, <2>8, <2>9, <3>1, <4>2
      <4> QED
        BY <2>6, <4>1, <4>2
    <3>2. \A i, j \in (c + 1)..Len(batch) :
              i < j /\ Pub(batch[i], ops) /\ Pub(batch[j], ops)
              => Ahead(ops, batch[i].op, batch[j].op)
      BY <2>7, <2>9
    <3> QED
      BY <3>1, <3>2 DEF BatchLine
  <2>12. ASSUME QueueLine(ops, wire, sent, batch, queue)
         PROVE  QueueLine(ops, wire', c, batch, queue)
    <3>1. ASSUME NEW i \in DOMAIN wire', NEW j \in DOMAIN queue,
                 wire'[i].type = "PUBLISH", Pub(queue[j], ops)
          PROVE  Ahead(ops, wire'[i].msg, queue[j].op)
      <4>1. CASE i \in DOMAIN wire
        BY <2>6, <2>12, <3>1, <4>1 DEF QueueLine
      <4>2. CASE i = e
        BY <2>6, <2>7, <2>8, <2>12, <3>1, <4>2 DEF QueueLine
      <4> QED
        BY <2>6, <4>1, <4>2
    <3>2. \A i \in (c + 1)..Len(batch), j \in DOMAIN queue :
              Pub(batch[i], ops) /\ Pub(queue[j], ops)
              => Ahead(ops, batch[i].op, queue[j].op)
      BY <2>7, <2>12 DEF QueueLine
    <3> QED
      BY <2>12, <3>1, <3>2 DEF QueueLine
  <2>13. InLine(ops, wire', c, batch, queue)
    BY <2>3, <2>11, <2>12 DEF InLine
  <2> QED
    BY <2>2, <2>10, <2>13 DEF Line
<1>15. CASE Reconnect
  <2>1. /\ open /\ open' /\ gen' \in Nat /\ recvMax' \in 1..MAX_LIMIT
        /\ gen' = gen => wire' = wire /\ conn' = conn
        /\ gen' # gen => gen' = gen + 1 /\ wire' = <<>>
        /\ \/ /\ Resends /\ sent < Len(batch) /\ (gen' = gen => wgen < gen)
           \/ /\ Resends /\ batch = <<>> /\ (gen' = gen => rgen < gen)
           \/ /\ batch # <<>>
              /\ UNCHANGED <<ops, queue, batch, sent, wgen, limit, quota, fast>>
    BY <1>15, ReconnectShape DEF NetTypeOK
  <2>2. CASE /\ Resends
             /\ \/ sent < Len(batch) /\ (gen' = gen => wgen < gen)
                \/ batch = <<>> /\ (gen' = gen => rgen < gen)
    <3>1. wire' = <<>>
      <4>1. CASE gen' = gen /\ wgen < gen /\ sent < Len(batch)
        <5>1. ~Current
          BY <1>1, <4>1, SMT DEF Current
        <5> QED
          BY <2>1, <4>1, <5>1 DEF ConnectionInv, OnConnection
      <4>2. CASE gen' = gen /\ batch = <<>> /\ rgen < gen
        <5>1. rgen # gen
          BY <1>1, <4>2, SMT
        <5> QED
          BY <2>1, <4>2, <5>1 DEF ConnectionInv, OnConnection
      <4> QED
        BY <2>1, <2>2, <4>1, <4>2
    <3>2. PICK k : k = Returned(limit', limit',
                                Cardinality({m \in Outs : Stops(m) /\ ops[m].qos # 0}))
      OBVIOUS
    <3>3. DoWrite(TRUE, <<>>, ResendQueue, k, fast) /\ limit' = recvMax'
      BY <2>2, <3>2 DEF Resends
    <3>4. /\ Cardinality({m \in Outs : Stops(m) /\ ops[m].qos # 0}) \in Nat
          /\ Requests(ops', ResendQueue, <<>>)
          /\ \A m \in Msgs : ops'[m].stage = ops[m].stage
      BY <2>1, <2>2, ResendsFacts
    <3>5. k \in Int
      BY <2>1, <3>2, <3>3, <3>4, LimitAssumption, SMT DEF Returned
    <3>6. /\ ResendQueue \in Seq(ReqSet)
          /\ \A i \in DOMAIN ResendQueue :
                ResendQueue[i].op \in Resent /\ ResendQueue[i] = Req(ResendQueue[i].op)
          /\ \A i, j \in DOMAIN ResendQueue :
                i < j /\ ResendQueue[i].prioritized = ResendQueue[j].prioritized
                => ResendQueue[i].op < ResendQueue[j].op
      BY ResendQueueFacts DEF Basic
    <3>7. ASSUME NEW i \in DOMAIN ResendQueue, Pub(ResendQueue[i], ops')
          PROVE  ~ResendQueue[i].prioritized /\ ResendQueue[i].prioritized = FALSE
      <4>1. PICK m \in Resent : m = ResendQueue[i].op /\ ResendQueue[i] = Req(m)
        BY <3>6
      <4>2. ops[m].stage = "publish"
        BY <3>4, <3>7, <4>1 DEF Pub, Resent, Outs
      <4> QED
        BY <4>1, <4>2, SMT DEF Req, PublishReq
    <3>8. QueueLine(ops', <<>>, 0, <<>>, ResendQueue)
      <4>1. ASSUME NEW i \in DOMAIN ResendQueue, NEW j \in DOMAIN ResendQueue, i < j,
                   Pub(ResendQueue[i], ops'), Pub(ResendQueue[j], ops')
            PROVE  Ahead(ops', ResendQueue[i].op, ResendQueue[j].op)
        BY <3>6, <3>7, <4>1 DEF Ahead
      <4> QED
        BY <4>1, SMT DEF QueueLine
    <3>9. InLine(ops', <<>>, SentOf(<<>>), <<>>, ResendQueue)
      BY <1>1, <3>8, SMT DEF InLine, BatchLine
    <3>10. InLine(ops', <<>>, sent', batch', queue')
      BY <3>3, <3>4, <3>5, <3>6, <3>9, LineWork
    <3>11. WireLine(ops', <<>>)
      BY SMT DEF WireLine
    <3> QED
      BY <3>1, <3>10, <3>11 DEF Line
  <2>3. CASE /\ batch # <<>>
             /\ UNCHANGED <<ops, queue, batch, sent, wgen, limit, quota, fast>>
    <3>1. CASE gen' = gen
      BY <1>3, <2>1, <2>3, <3>1
    <3>2. CASE gen' # gen
      <4>1. ~Current'
        BY <1>1, <2>1, <2>3, <3>2, SMT DEF Current
      <4> QED
        BY <2>1, <3>2, <4>1, SMT DEF Line, WireLine
    <3> QED
      BY <3>1, <3>2
  <2> QED
    BY <2>1, <2>2, <2>3
<1>16. CASE Break \/ BrokerReceive
  <2>1. /\ UNCHANGED <<ops, queue, batch, sent, wgen, gen, open, wire>>
        /\ conn' # "shut" => conn # "shut"
    BY <1>16, NetworkBasic
  <2> QED
    BY <1>3, <2>1
<1>17. CASE UNCHANGED vars
  <2>1. UNCHANGED <<ops, queue, batch, sent, wgen, gen, open, conn, wire>>
    BY <1>17 DEF vars, client, network
  <2> QED
    BY <1>3, <2>1
<1> QED
  BY <1>4, <1>5, <1>6, <1>7, <1>9, <1>10, <1>11, <1>12, <1>13, <1>14, <1>15, <1>16, <1>17
  DEF Next, Reconnect

\* What do_write takes from the quota: one for each throttled request that leaves
\* the queue, and never more than there is.
LEMMA CostFacts ==
    ASSUME Laws, NEW o, NEW q \in Seq(ReqSet), Requests(o, q, <<>>), NEW lim, NEW k \in Int
    PROVE  \E T \in SUBSET ThrottledOf(q) :
              /\ ThrottledOf(Rest(q, lim, k)) = ThrottledOf(q) \ T
              /\ IsFiniteSet(T)
              /\ Cost(q, lim, k) = IF lim = MAX_LIMIT THEN 0 ELSE Cardinality(T)
              /\ lim # MAX_LIMIT /\ 0 <= k => Cardinality(T) <= k
<1> DEFINE C == Chosen(q, lim, k)
           I == {i \in C : q[i].throttled}
           T == {q[i].op : i \in I}
           f == [i \in I |-> q[i].op]
           R == Rest(q, lim, k)
<1>1. C \in SUBSET DOMAIN q /\ DOMAIN q = 1..Len(q) /\ Len(q) \in Nat
  BY ChosenFacts, SMT
<1>2. \A i \in DOMAIN q : /\ ReqOK(q[i], o)
                          /\ q[i].throttled => ~q[i].terminal /\ q[i].op \in Msgs
                                               /\ q[i].op # Disc
  BY SMT DEF Requests, ReqOK, DisconnectReq, Msgs, Disc
<1>3. \A i, j \in DOMAIN q : q[i].throttled /\ q[i].op = q[j].op => i = j
  BY <1>2 DEF Requests
<1>4. IsFiniteSet(I) /\ I \in SUBSET DOMAIN q
  <2>1. IsFiniteSet(1..Len(q))
    BY <1>1 DEF Laws, IntervalLaw
  <2>2. I \in SUBSET (1..Len(q))
    BY <1>1
  <2> QED
    BY <1>1, <2>1, <2>2 DEF Laws, SubsetLaw
<1>5. IsFiniteSet(T) /\ Cardinality(T) = Cardinality(I)
  <2>1. f \in [I -> T] /\ \A m \in T : \E i \in I : f[i] = m
    OBVIOUS
  <2>2. \A i, j \in I : f[i] = f[j] => i = j
    BY <1>3, <1>4
  <2> HIDE DEF f, I, T
  <2> QED
    BY <1>4, <2>1, <2>2 DEF Laws, ImageLaw
<1>6. T \in SUBSET ThrottledOf(q)
  BY <1>4 DEF ThrottledOf
<1>7. ThrottledOf(R) = ThrottledOf(q) \ T
  <2> DEFINE D == DOMAIN q \ C
  <2>1. R \in Seq(ReqSet) /\ D \in SUBSET DOMAIN q
    BY DEF Laws, AtLaw, Rest
  <2>2. PICK h : /\ Picks(R, q, h)
                 /\ \A j \in D : \E i \in 1..Len(R) : h[i] = j
                 /\ \A i \in 1..Len(R) : h[i] \in D
    BY <2>1 DEF Laws, AtLaw, Rest
  <2>3. DOMAIN R = 1..Len(R)
    BY <2>1, SMT
  <2> HIDE DEF R
  <2>4. \A i \in DOMAIN R : h[i] \in D /\ R[i] = q[h[i]]
    BY <2>2, <2>3 DEF Picks
  <2>5. \A j \in D : \E i \in DOMAIN R : R[i] = q[j]
    BY <2>2, <2>3, <2>4, SMT
  <2>6. ASSUME NEW m PROVE m \in ThrottledOf(R) <=> \E j \in D : q[j].throttled /\ q[j].op = m
    <3>1. ASSUME m \in ThrottledOf(R) PROVE \E j \in D : q[j].throttled /\ q[j].op = m
      BY <2>4, <3>1, SMT DEF ThrottledOf
    <3>2. ASSUME NEW j \in D, q[j].throttled, q[j].op = m PROVE m \in ThrottledOf(R)
      BY <2>5, <3>2 DEF ThrottledOf
    <3> QED
      BY <3>1, <3>2
  <2>7. ASSUME NEW m, m \in ThrottledOf(R) PROVE m \in ThrottledOf(q) \ T
    <3>1. PICK j \in D : q[j].throttled /\ q[j].op = m
      BY <2>6, <2>7
    <3>2. m \in ThrottledOf(q)
      BY <2>1, <3>1 DEF ThrottledOf
    <3>3. \A i \in I : q[i].op # m
      BY <1>3, <1>4, <2>1, <3>1
    <3> QED
      BY <3>2, <3>3
  <2>8. ASSUME NEW m, m \in ThrottledOf(q) \ T PROVE m \in ThrottledOf(R)
    BY <2>6, <2>8 DEF ThrottledOf
  <2> QED
    BY <2>7, <2>8
<1>8. Cost(q, lim, k) = IF lim = MAX_LIMIT THEN 0 ELSE Cardinality(T)
  BY <1>5 DEF Cost
<1>9. ASSUME lim # MAX_LIMIT, 0 <= k PROVE Cardinality(T) <= k
  <2>1. CASE I = {}
    BY <1>5, <1>9, <2>1 DEF Laws, SmallLaw
  <2>2. CASE I # {}
    <3> DEFINE B == {Len(q) - i : i \in I}
               Charges(n) == {j \in 1..n : q[j].throttled}
    <3>1. B \in SUBSET Nat /\ B # {}
      BY <1>1, <1>4, <2>2, SMT
    <3>2. PICK i \in I : \A j \in I : j <= i
      <4>1. PICK n \in B : \A m \in B : n <= m
        BY <3>1 DEF Laws, LeastLaw
      <4>2. PICK i \in I : n = Len(q) - i
        BY <4>1
      <4>3. ASSUME NEW j \in I PROVE j <= i
        <5>1. Len(q) - j \in B
          OBVIOUS
        <5>2. Len(q) - i <= Len(q) - j /\ i \in Nat /\ j \in Nat
          BY <1>1, <1>4, <4>1, <4>2, <5>1, SMT
        <5> QED
          BY <1>1, <5>2, SMT
      <4> QED
        BY <4>3
    <3>3. \A j \in DOMAIN q : ~q[j].terminal
      BY <1>2, <1>4, <3>2, ChosenFacts
    <3>4. Cardinality(Charges(i)) <= k
      BY <1>4, <1>9, <3>2, <3>3 DEF Chosen
    <3>5. I \in SUBSET Charges(i)
      BY <1>1, <1>4, <3>2, SMT
    <3>6. IsFiniteSet(1..i) /\ Charges(i) \in SUBSET (1..i)
      BY <1>1, <1>4, <3>2, SMT DEF Laws, IntervalLaw
    <3>7. IsFiniteSet(Charges(i))
      BY <3>6 DEF Laws, SubsetLaw
    <3>8. Cardinality(I) <= Cardinality(Charges(i))
      BY <3>5, <3>7 DEF Laws, SubsetLaw
    <3>9. Cardinality(I) \in Nat /\ Cardinality(Charges(i)) \in Nat
      BY <1>4, <3>7, SMT DEF Laws, SubsetLaw
    <3> HIDE DEF I, Charges, T
    <3> QED
      BY <1>5, <3>4, <3>8, <3>9, SMT
  <2> QED
    BY <2>1, <2>2
<1> HIDE DEF T
<1> QED
  BY <1>5, <1>6, <1>7, <1>8, <1>9

\* Every step keeps PidsApart: an identifier is given out when no operation has
\* it.
LEMMA PidsNext ==
    ASSUME Laws, Basic, PidsApart, [Next]_vars
    PROVE  PidsApart'
<1>1. ASSUME Onward(ops, ops') PROVE PidsApart'
  BY <1>1 DEF PidsApart, Onward, Live
<1>2. ASSUME NEW m \in Msgs, NEW q \in QosSet, Publish(m, q) PROVE PidsApart'
  <2>1. /\ ops'[m].qos = q /\ (q # 0 => ops'[m].pid \in FreePids)
        /\ \A n \in Msgs \ {m} : ops'[n] = ops[n]
    BY <1>2, PublishBasic
  <2>2. FreePids \in SUBSET (1..MaxPid)
        /\ \A n \in Msgs : Live(n) => ops[n].pid \notin FreePids
    BY DEF FreePids, InUse
  <2>3. \A n \in Msgs \ {m} : Live(n)' = Live(n)
    BY <2>1 DEF Live
  <2>4. ASSUME NEW n \in Msgs, Live(n)', ops'[n].qos # 0
        PROVE  /\ ops'[n].pid \in 1..MaxPid
               /\ IF n = m THEN ops'[n].pid \in FreePids
                  ELSE Live(n) /\ ops[n].qos # 0 /\ ops'[n].pid = ops[n].pid
    BY <2>1, <2>2, <2>3, <2>4 DEF PidsApart
  <2> QED
    BY <2>2, <2>4 DEF PidsApart
<1>3. ASSUME NEW m \in Msgs, NEW q \in QosSet, PublishFails(m, q) PROVE PidsApart'
  <2>1. ops'[m].phase = "done" /\ \A n \in Msgs \ {m} : ops'[n] = ops[n]
    BY <1>3, PublishFailsBasic
  <2> QED
    BY <2>1, SMT DEF PidsApart, Live
<1>4. CASE UNCHANGED vars
  <2>1. ops' = ops
    BY <1>4 DEF vars, client
  <2> QED
    BY <1>1, <2>1 DEF Onward
<1> QED
  BY <1>1, <1>2, <1>3, <1>4, CancelOpBasic, RunPostedBasic, CloseBasic, WriteSomeBasic,
     WriteDoneBasic, WriteAbortedBasic, ReadReplyBasic, SentryBasic, ReconnectBasic,
     NetworkBasic
  DEF Next, Reconnect

\* There are at most as many operations in progress as packet identifiers.
LEMMA LiveBound ==
    ASSUME Laws, PidsApart, NEW S \in SUBSET {m \in Msgs : Live(m) /\ ops[m].qos # 0}
    PROVE  IsFiniteSet(S) /\ Cardinality(S) \in Nat /\ Cardinality(S) <= MaxPid
<1> DEFINE f == [m \in S |-> ops[m].pid]
           P == {ops[m].pid : m \in S}
<1>1. f \in [S -> P] /\ \A p \in P : \E m \in S : f[m] = p
  OBVIOUS
<1>2. (\A m, n \in S : f[m] = f[n] => m = n) /\ P \in SUBSET (1..MaxPid)
  BY DEF PidsApart
<1>3. IsFiniteSet(1..MaxPid) /\ Cardinality(1..MaxPid) = MaxPid /\ IsFiniteSet(Msgs)
  BY PublishFlowAssumption DEF Laws, IntervalLaw, Msgs
<1> HIDE DEF f, P
<1>4. IsFiniteSet(S) /\ Cardinality(S) \in Nat
  BY <1>3 DEF Laws, SubsetLaw
<1>5. Cardinality(P) <= MaxPid
  BY <1>2, <1>3 DEF Laws, SubsetLaw
<1>6. Cardinality(P) = Cardinality(S)
  BY <1>1, <1>2, <1>4 DEF Laws, ImageLaw
<1> QED
  BY <1>4, <1>5, <1>6

\* Without cancellation of single operations, no step marks one.
LEMMA NoneCancelledNext ==
    ASSUME Laws, "cancel_op" \notin Faults
    PROVE  Basic /\ NoneCancelled /\ [Next]_vars => NoneCancelled'
<1> SUFFICES ASSUME Basic, NoneCancelled, [Next]_vars PROVE NoneCancelled'
  OBVIOUS
<1>1. ops \in [Msgs -> OpSet]
  BY DEF Basic, FlowTypeOK
<1>2. ASSUME \A m \in Msgs : ops'[m].cancelled = ops[m].cancelled PROVE NoneCancelled'
  BY <1>2 DEF NoneCancelled
<1>3. ASSUME ops' = ops PROVE NoneCancelled'
  BY <1>2, <1>3
<1>4. ASSUME NEW m \in Msgs, NEW q \in QosSet, Publish(m, q) PROVE NoneCancelled'
  <2>1. ops'[m].cancelled = FALSE /\ \A n \in Msgs \ {m} : ops'[n] = ops[n]
    BY <1>4, PublishBasic
  <2> QED
    BY <1>1, <2>1 DEF NoneCancelled
<1>5. ASSUME NEW m \in Msgs, NEW q \in QosSet, PublishFails(m, q) PROVE NoneCancelled'
  <2>1. ops' = [ops EXCEPT ![m].phase = "done", ![m].qos = q, ![m].res = "failed"]
    BY <1>5 DEF PublishFails
  <2> QED
    BY <1>1, <1>2, <2>1 DEF OpSet
<1>6. ASSUME NEW m \in Msgs, ops[m].phase \in {"waiting", "posted"}, NEW res \in Outcomes,
             res = "aborted" \/ ops[m].qos # 0, OnReply(m, res)
      PROVE  NoneCancelled'
  BY <1>2, <1>6, OnReplyShape
<1>7. ASSUME NEW m \in Msgs, RunPosted(m) PROVE NoneCancelled'
  BY <1>6, <1>7, RunPostedBasic DEF RunPosted
<1>8. ASSUME NEW done, CloseClient(done) PROVE NoneCancelled'
  BY <1>1, <1>2, <1>8 DEF CloseClient, OpSet
<1>9. CASE Cancel \/ NoRecovery
  BY <1>8, <1>9 DEF Cancel, NoRecovery
<1>10. CASE WriteDone
  BY <1>2, <1>10, WriteDoneBasic
<1>11. CASE WriteAborted
  BY <1>1, <1>2, <1>11 DEF WriteAborted, OpSet
<1>12. CASE ReadReply
  BY <1>3, <1>6, <1>12, ReadReplyBasic
<1>13. CASE Reconnect
  <2>1. CASE Resends
    BY <1>2, <1>13, <2>1, ReconnectShape, ResendsFacts DEF NetTypeOK
  <2> QED
    BY <1>3, <1>13, <2>1, ReconnectShape
<1>14. CASE WriteSome \/ Sentry
  BY <1>3, <1>14 DEF WriteSome, Sentry
<1>15. CASE Break \/ BrokerReceive
  BY <1>3, <1>15, NetworkBasic
<1>16. CASE UNCHANGED vars
  BY <1>3, <1>16 DEF vars, client
<1> QED
  BY <1>4, <1>5, <1>7, <1>9, <1>10, <1>11, <1>12, <1>13, <1>14, <1>15, <1>16
  DEF Next, Reconnect, CancelOp

\* The operations that hold quota can be counted.
LEMMA HeldFinite ==
    ASSUME Laws, NEW o, NEW q, NEW w
    PROVE  IsFiniteSet(Held(o, q, w)) /\ Cardinality(Held(o, q, w)) \in Nat
<1>1. IsFiniteSet(Msgs)
  BY PublishFlowAssumption DEF Laws, IntervalLaw, Msgs
<1>2. Held(o, q, w) \in SUBSET Msgs
  BY DEF Held, ChargeableOf
<1> QED
  BY <1>1, <1>2 DEF Laws, SubsetLaw

\* The quota covers any part of what it covers.
LEMMA CoveredLess ==
    ASSUME Laws, NEW o, NEW q, NEW w, NEW lim \in Nat, NEW k \in Int,
           Covered(lim, k, Held(o, q, w)), NEW H \in SUBSET Held(o, q, w)
    PROVE  Covered(lim, k, H)
<1>1. IsFiniteSet(Held(o, q, w)) /\ Cardinality(Held(o, q, w)) \in Nat
  BY HeldFinite
<1>2. IsFiniteSet(H) /\ Cardinality(H) <= Cardinality(Held(o, q, w))
  BY <1>1 DEF Laws, SubsetLaw
<1>3. Cardinality(H) \in Nat
  BY <1>2 DEF Laws, SubsetLaw
<1> QED
  BY <1>1, <1>2, <1>3, SMT DEF Covered

\* do_write charges the quota for what it takes.
LEMMA QuotaWork ==
    ASSUME Laws, NEW called \in BOOLEAN, NEW b \in Seq(ReqSet),
           NEW q \in Seq(ReqSet), NEW k \in Int, NEW f, NEW o, Requests(o, q, b),
           NEW w, limit' \in Nat, Covered(limit', k, Held(o, q, w)),
           DoWrite(called, b, q, k, f)
    PROVE  Covered(limit', quota', Held(o, queue', w))
<1>1. CASE called /\ Starts(b, q, k)
  <2> SUFFICES ASSUME limit' # MAX_LIMIT
               PROVE  0 <= quota' /\ quota' + Cardinality(Held(o, queue', w)) <= limit'
    BY DEF Covered
  <2>1. /\ queue' = Rest(q, limit', k) /\ quota' = k - Cost(q, limit', k)
        /\ Requests(o, q, <<>>)
    BY <1>1 DEF Starts
  <2>2. PICK T \in SUBSET ThrottledOf(q) :
              /\ ThrottledOf(queue') = ThrottledOf(q) \ T
              /\ IsFiniteSet(T)
              /\ Cost(q, limit', k) = Cardinality(T)
              /\ 0 <= k => Cardinality(T) <= k
    BY <2>1, CostFacts, SMT
  <2> DEFINE H == Held(o, q, w)
             G == Held(o, queue', w)
  <2>3. G \in SUBSET (H \cup T)
    BY <2>2 DEF Held, ChargeableOf
  <2>4. /\ IsFiniteSet(H) /\ Cardinality(H) \in Nat
        /\ IsFiniteSet(G) /\ Cardinality(G) \in Nat
        /\ Cardinality(T) \in Nat
    BY <2>2, HeldFinite DEF Laws, SubsetLaw
  <2>5. 0 <= k /\ k + Cardinality(H) <= limit'
    BY DEF Covered
  <2> HIDE DEF H, G
  <2>6. Cardinality(G) <= Cardinality(H) + Cardinality(T)
    BY <2>2, <2>3, <2>4 DEF Laws, CoverLaw
  <2>7. 0 <= quota' /\ quota' + Cardinality(G) <= limit'
    <3>1. quota' = k - Cardinality(T) /\ Cardinality(T) <= k
      BY <2>1, <2>2, <2>5
    <3>2. Cardinality(T) \in Nat /\ Cardinality(G) \in Nat /\ Cardinality(H) \in Nat
      BY <2>4
    <3> QED
      BY <2>5, <2>6, <3>1, <3>2, SMT
  <2> QED
    BY <2>7 DEF G
<1>2. CASE Leaves(called, b, q, k, f)
  BY <1>2 DEF Leaves
<1> QED
  BY <1>1, <1>2, DoWriteFacts

\* A request at the end of the queue waits for quota if it is throttled.
LEMMA ThrottledAppend ==
    ASSUME NEW q \in Seq(ReqSet), NEW r \in ReqSet
    PROVE  ThrottledOf(Append(q, r)) = ThrottledOf(q) \cup (IF r.throttled THEN {r.op} ELSE {})
<1> DEFINE a == Append(q, r)
           e == Len(q) + 1
<1>1. /\ \A i \in DOMAIN q : i \in DOMAIN a /\ a[i] = q[i]
      /\ \A i \in DOMAIN a : i \in DOMAIN q \/ i = e
      /\ e \in DOMAIN a /\ a[e] = r
  BY SMT
<1> HIDE DEF a, e
<1>2. ASSUME NEW m, m \in ThrottledOf(a)
      PROVE  m \in ThrottledOf(q) \cup (IF r.throttled THEN {r.op} ELSE {})
  BY <1>1, <1>2 DEF ThrottledOf
<1>3. ASSUME NEW m, m \in ThrottledOf(q) PROVE m \in ThrottledOf(a)
  BY <1>1, <1>3 DEF ThrottledOf
<1>4. ASSUME r.throttled PROVE r.op \in ThrottledOf(a)
  BY <1>1, <1>4 DEF ThrottledOf
<1>5. ThrottledOf(a) = ThrottledOf(q) \cup (IF r.throttled THEN {r.op} ELSE {})
  BY <1>2, <1>3, <1>4
<1> QED
  BY <1>5 DEF a

\* An operation that got its reply gives back what it was charged, or sends again
\* and stays charged while its PUBLISH packet is on the connection.
LEMMA QuotaReply ==
    ASSUME Laws, Basic, NoneCancelled, QuotaOK, open,
           NEW m \in Msgs, ops[m].phase \in {"waiting", "posted"},
           NEW res \in Outcomes, res = "aborted" \/ ops[m].qos # 0,
           OnReply(m, res), UNCHANGED <<limit, gen, recvMax, wire>>
    PROVE  QuotaOK'
<1> DEFINE H == Held(ops, queue, wire)
<1>1. /\ \A n \in Msgs \ {m} : ops'[n] = ops[n]
      /\ ops'[m].qos = ops[m].qos
  BY OnReplyShape
<1>2. PICK called \in BOOLEAN, q \in Seq(ReqSet), k \in Int :
         /\ ReplyShape(m, called, q, k) /\ Requests(ops', q, batch)
         /\ DoWrite(called, batch, q, k, fast)
  BY OnReplyShape
<1>3. /\ batch \in Seq(ReqSet) /\ queue \in Seq(ReqSet) /\ quota \in Int /\ limit \in Nat
      /\ Requests(ops, queue, batch) /\ ops \in [Msgs -> OpSet]
  BY LimitAssumption, SMT DEF Basic, FlowTypeOK, SenderTypeOK, NetTypeOK
<1>4. m \notin ThrottledOf(queue) /\ (ops[m].qos # 0 => m \in H)
  BY <1>3, ThrottledSends DEF Held, ChargeableOf
<1>5. Covered(limit, quota, H) /\ IsFiniteSet(H) /\ Cardinality(H) \in Nat
  BY HeldFinite DEF QuotaOK
<1>6. ASSUME ThrottledOf(queue) \in SUBSET ThrottledOf(q)
      PROVE  /\ Held(ops', q, wire) \in SUBSET H
             /\ ops'[m].phase = "done" => Held(ops', q, wire) \in SUBSET (H \ {m})
  BY <1>1, <1>4, <1>6 DEF Held, ChargeableOf
<1>7. m \in 0..N /\ ops[m].serial \in 0..(SerialMod - 1)
  BY <1>3, PublishFlowAssumption, SMT DEF OpSet, Msgs
<1>8. Covered(limit, k, Held(ops', q, wire))
  <2>1. CASE q = queue /\ k = quota
    BY <1>3, <1>5, <1>6, <2>1, CoveredLess
  <2>2. CASE /\ ops'[m].phase = "done" /\ q = queue /\ ops[m].qos # 0
             /\ k = Returned(limit, quota, 1)
    <3> SUFFICES ASSUME limit # MAX_LIMIT
                 PROVE  0 <= k /\ k + Cardinality(Held(ops', q, wire)) <= limit
      BY DEF Covered
    <3>1. k = quota + 1
      BY <2>2 DEF Returned
    <3>2. Held(ops', q, wire) \in SUBSET (H \ {m})
      BY <1>6, <2>2
    <3> DEFINE G == Held(ops', q, wire)
    <3> HIDE DEF H, G
    <3>3. G \in SUBSET H /\ G # H
      BY <1>4, <1>5, <2>2, <3>2 DEF G
    <3>4. Cardinality(G) <= Cardinality(H) - 1 /\ Cardinality(G) \in Nat
      BY <1>5, <3>3, SMT DEF Laws, SubsetLaw
    <3>5. 0 <= quota /\ quota + Cardinality(H) <= limit
      BY <1>5 DEF Covered
    <3>6. 0 <= k /\ k + Cardinality(G) <= limit
      BY <1>3, <1>5, <3>1, <3>4, <3>5, SMT
    <3> QED
      BY <3>6 DEF G
  <2>3. CASE k = quota /\ q = Append(Append(queue, DisconnectReq), Req(m))
    <3>1. Append(queue, DisconnectReq) \in Seq(ReqSet) /\ DisconnectReq \in ReqSet
      BY <1>3, RequestsDisconnect, PublishFlowAssumption, SerialModAssumption, SMT
      DEF DisconnectReq, ReqSet, Disc
    <3>2. Req(m) \in ReqSet
      BY <1>7 DEF Req, PubrelReq, PublishReq, ReqSet
    <3>3. ThrottledOf(queue) \in SUBSET ThrottledOf(Append(queue, DisconnectReq))
      BY <1>3, <3>1, ThrottledAppend
    <3>4. ThrottledOf(Append(queue, DisconnectReq)) \in SUBSET ThrottledOf(q)
      BY <2>3, <3>1, <3>2, ThrottledAppend
    <3> QED
      BY <1>3, <1>5, <1>6, <2>3, <3>3, <3>4, CoveredLess
  <2>4. CASE k = quota /\ q = Append(queue, PubrelReq(m, ops[m], FALSE))
    <3>1. PubrelReq(m, ops[m], FALSE) \in ReqSet
      BY <1>7 DEF PubrelReq, ReqSet
    <3>2. ThrottledOf(queue) \in SUBSET ThrottledOf(q)
      BY <1>3, <2>4, <3>1, ThrottledAppend
    <3> QED
      BY <1>3, <1>5, <1>6, <2>4, <3>2, CoveredLess
  <2> QED
    BY <1>2, <2>1, <2>2, <2>3, <2>4 DEF ReplyShape, NoneCancelled
<1>9. Covered(limit', quota', Held(ops', queue', wire))
  BY <1>2, <1>3, <1>8, QuotaWork
<1>10. Current' => Current
  BY <1>2 DEF DoWrite, Current
<1> QED
  BY <1>9, <1>10 DEF QuotaOK

\* Every step keeps QuotaOK: the quota of a connection covers what it holds.
LEMMA QuotaNext ==
    ASSUME Laws, "cancel_op" \notin Faults
    PROVE  Basic /\ ConnectionInv /\ Line /\ NoneCancelled /\ QuotaOK /\ [Next]_vars
           => QuotaOK'
<1> SUFFICES ASSUME Basic, ConnectionInv, Line, NoneCancelled, QuotaOK, [Next]_vars, open'
             PROVE  QuotaOK'
  BY DEF QuotaOK
<1> DEFINE H == Held(ops, queue, wire)
<1>1. /\ batch \in Seq(ReqSet) /\ queue \in Seq(ReqSet) /\ quota \in Int /\ limit \in Nat
      /\ Requests(ops, queue, batch) /\ ops \in [Msgs -> OpSet] /\ <<>> \in Seq(ReqSet)
      /\ gen \in Nat /\ wgen \in 0..gen /\ rgen \in 0..gen /\ sent \in 0..Len(batch)
  BY LimitAssumption, SMT DEF Basic, FlowTypeOK, SenderTypeOK, NetTypeOK
<1>2. ASSUME open PROVE Covered(limit, quota, H) /\ (Current => limit = recvMax)
  BY <1>2 DEF QuotaOK
<1>3. ASSUME open, UNCHANGED <<queue, limit, quota>>,
             Held(ops', queue, wire') \in SUBSET H, Current' => limit = recvMax'
      PROVE  QuotaOK'
  <2>1. Covered(limit, quota, Held(ops', queue, wire'))
    BY <1>1, <1>2, <1>3, CoveredLess
  <2> QED
    BY <1>3, <2>1 DEF QuotaOK
<1>4. ASSUME open, ops' = ops, UNCHANGED <<queue, batch, wgen, gen, limit, quota, recvMax, wire>>
      PROVE  QuotaOK'
  <2>1. Current' <=> Current
    BY <1>4 DEF Current
  <2> QED
    BY <1>2, <1>3, <1>4, <2>1
<1>5. ASSUME open, NEW called \in BOOLEAN, NEW q \in Seq(ReqSet), Requests(ops', q, batch),
             Held(ops', q, wire) \in SUBSET H, DoWrite(called, batch, q, quota, fast),
             UNCHANGED <<limit, gen, recvMax, wire>>
      PROVE  QuotaOK'
  <2>1. Covered(limit, quota, Held(ops', q, wire))
    BY <1>1, <1>2, <1>5, CoveredLess
  <2>2. Covered(limit', quota', Held(ops', queue', wire))
    BY <1>1, <1>5, <2>1, QuotaWork
  <2>3. Current' => Current
    BY <1>5 DEF DoWrite, Current
  <2> QED
    BY <1>2, <1>5, <2>2, <2>3 DEF QuotaOK
<1>6. ASSUME NEW m \in Msgs, NEW q \in QosSet, Publish(m, q) PROVE QuotaOK'
  <2> DEFINE r == PublishReq(m, ops'[m])
  <2>1. /\ ops[m].phase = "idle" /\ ops'[m].phase = "sending" /\ ops'[m].stage = "publish"
        /\ \A n \in Msgs \ {m} : ops'[n] = ops[n]
        /\ r \in ReqSet
        /\ DoWrite(TRUE, batch, Append(queue, r), quota, fast)
    BY <1>6, PublishBasic
  <2>2. open /\ UNCHANGED <<limit, gen, recvMax, wire>>
    BY <1>6 DEF Publish, NextMsg
  <2>3. r.op = m /\ ReqOK(r, ops') /\ (r.throttled <=> ops'[m].qos # 0)
    BY <2>1 DEF PublishReq, ReqOK
  <2> HIDE DEF r
  <2>4. Append(queue, r) \in Seq(ReqSet) /\ Requests(ops', Append(queue, r), batch)
    BY <1>1, <2>1, <2>3, RequestsAppend, SMT
  <2>5. m \notin PubsOf(wire)
    BY <2>1 DEF Line, WireLine, PubsOf
  <2>6. ThrottledOf(Append(queue, r))
          = ThrottledOf(queue) \cup (IF r.throttled THEN {m} ELSE {})
    BY <1>1, <2>1, <2>3, ThrottledAppend
  <2>7. Held(ops', Append(queue, r), wire) \in SUBSET H
    <3> SUFFICES ASSUME NEW n \in Held(ops', Append(queue, r), wire) PROVE n \in H
      OBVIOUS
    <3>1. n # m
      BY <2>3, <2>5, <2>6 DEF Held, ChargeableOf
    <3> QED
      BY <2>1, <2>6, <3>1 DEF Held, ChargeableOf
  <2>8. PICK a \in Seq(ReqSet) : /\ Requests(ops', a, batch) /\ Held(ops', a, wire) \in SUBSET H
                                 /\ DoWrite(TRUE, batch, a, quota, fast)
    BY <2>1, <2>4, <2>7
  <2> QED
    BY <1>5, <2>2, <2>8
<1>7. ASSUME NEW m \in Msgs, NEW q \in QosSet, PublishFails(m, q) PROVE QuotaOK'
  <2>1. /\ ops[m].phase = "idle" /\ ops'[m].phase = "done"
        /\ \A n \in Msgs \ {m} : ops'[n] = ops[n]
        /\ UNCHANGED <<queue, batch, wgen, limit, quota, open, gen, recvMax, wire>>
    BY <1>7, PublishFailsBasic
  <2>2. Held(ops', queue, wire) \in SUBSET H
    BY <2>1 DEF Held, ChargeableOf
  <2>3. Current' <=> Current
    BY <2>1 DEF Current
  <2> QED
    BY <1>2, <1>3, <2>1, <2>2, <2>3
<1>8. ASSUME NEW m \in Msgs, RunPosted(m) PROVE QuotaOK'
  <2>1. ops[m].res \in Outcomes /\ (ops[m].res = "aborted" \/ ops[m].qos # 0)
    BY <1>8, RunPostedBasic
  <2>2. ops[m].phase = "posted" /\ OnReply(m, ops[m].res)
        /\ UNCHANGED <<limit, gen, recvMax, wire, open>>
    BY <1>8 DEF RunPosted
  <2> QED
    BY <2>1, <2>2, QuotaReply
<1>9. CASE Cancel \/ NoRecovery
  BY <1>9, CloseBasic
<1>10. CASE WriteAborted
  BY <1>10 DEF WriteAborted
<1>11. CASE ReadReply
  <2>1. open /\ UNCHANGED <<limit, gen, recvMax, wire>>
    BY <1>11 DEF ReadReply
  <2>2. CASE UNCHANGED <<ops, queue, batch, sent, wgen, quota>>
    BY <1>4, <2>1, <2>2
  <2>3. CASE \E m \in Msgs : /\ ops[m].phase = "waiting" /\ ops[m].qos # 0
                             /\ Head(b2c).res \in Outcomes /\ OnReply(m, Head(b2c).res)
    BY <2>1, <2>3, QuotaReply
  <2> QED
    BY <1>11, <2>2, <2>3, ReadReplyBasic
<1>12. CASE WriteSome
  <2> DEFINE c == sent + 1
  <2>1. /\ c \in DOMAIN batch
        /\ batch[c].op # Disc =>
              /\ batch[c].op \in Msgs /\ ops[batch[c].op].phase = "sending"
              /\ wire' = Append(wire, Packet(ops, batch[c].op))
        /\ batch[c].op = Disc => wire' = Append(wire, [type |-> "DISCONNECT", msg |-> Disc])
    BY <1>1, <1>12, WriteSomeBasic, SMT
  <2>2. /\ open /\ UNCHANGED <<ops, queue, batch, wgen, gen, limit, quota, recvMax>>
    BY <1>12 DEF WriteSome
  <2>3. wire \in Seq(WireSet)
    BY DEF Basic, FlowTypeOK, NetTypeOK
  <2>4. PICK x : /\ wire' = Append(wire, x)
                 /\ x.type = "PUBLISH" => x.msg = batch[c].op
    <3>1. CASE batch[c].op = Disc
      BY <2>1, <3>1, SMT
    <3>2. CASE batch[c].op # Disc
      BY <2>1, <3>2, SMT DEF Packet
    <3> QED
      BY <3>1, <3>2
  <2>5. \A j \in DOMAIN wire' : \/ j \in DOMAIN wire /\ wire'[j] = wire[j]
                                \/ wire'[j] = x
    BY <2>3, <2>4, SMT
  <2>6. PubsOf(wire') \in SUBSET (PubsOf(wire) \cup {batch[c].op})
    BY <2>4, <2>5 DEF PubsOf
  <2>7. \A n \in Msgs : n = batch[c].op => n \notin ThrottledOf(queue)
    BY <1>1, <2>1, SMT DEF ThrottledOf, Requests, Msgs, Disc
  <2> HIDE DEF c
  <2>8. Held(ops, queue, wire') \in SUBSET H
    BY <2>6, <2>7 DEF Held, ChargeableOf
  <2>9. Current' <=> Current
    BY <2>2 DEF Current
  <2> QED
    BY <1>2, <1>3, <2>2, <2>8, <2>9
<1>13. CASE WriteDone
  <2>1. Onward(ops, ops') /\ Requests(ops', queue, <<>>)
    BY <1>13, WriteDoneBasic
  <2>2. PICK f \in Seq(ReplySet) : DoWrite(TRUE, <<>>, queue, quota, f)
    BY <1>13, WriteDoneBasic
  <2>3. /\ open /\ batch # <<>> /\ sent = Len(batch)
        /\ UNCHANGED <<limit, gen, recvMax, wire>>
    BY <1>13 DEF WriteDone
  <2>4. Current
    BY <1>1, <2>3, SMT DEF ConnectionInv, OnConnection
  <2>5. Held(ops', queue, wire) \in SUBSET H
    BY <2>1 DEF Held, ChargeableOf, Onward
  <2>6. Covered(limit, quota, Held(ops', queue, wire))
    BY <1>1, <1>2, <2>3, <2>5, CoveredLess
  <2>7. Covered(limit', quota', Held(ops', queue', wire))
    BY <1>1, <2>1, <2>2, <2>3, <2>6, QuotaWork
  <2> QED
    BY <1>2, <2>3, <2>4, <2>7 DEF QuotaOK
<1>14. CASE Sentry
  <2>1. /\ open /\ UNCHANGED <<ops, limit, gen, recvMax, wire>>
        /\ DoWrite(TRUE, batch, Append(queue, DisconnectReq), quota, fast)
    BY <1>14 DEF Sentry
  <2>2. DisconnectReq \in ReqSet /\ ~DisconnectReq.throttled
    BY PublishFlowAssumption, SerialModAssumption, SMT DEF DisconnectReq, ReqSet, Disc
  <2>3. ThrottledOf(Append(queue, DisconnectReq)) = ThrottledOf(queue)
    BY <1>1, <2>2, ThrottledAppend
  <2>4. Held(ops', Append(queue, DisconnectReq), wire) \in SUBSET H
    BY <2>1, <2>3 DEF Held, ChargeableOf
  <2>5. PICK a \in Seq(ReqSet) : /\ Requests(ops', a, batch) /\ Held(ops', a, wire) \in SUBSET H
                                 /\ DoWrite(TRUE, batch, a, quota, fast)
    BY <1>1, <2>1, <2>4, RequestsDisconnect
  <2> QED
    BY <1>5, <2>1, <2>5
<1>15. CASE Reconnect
  <2>1. /\ open /\ gen' \in Nat /\ recvMax' \in 1..MAX_LIMIT
        /\ gen' = gen => wire' = wire /\ recvMax' = recvMax
        /\ gen' # gen => /\ gen' = gen + 1 /\ wire' = <<>>
                         /\ \A m \in Msgs : ops[m].phase # "posted"
        /\ \/ /\ Resends /\ sent < Len(batch) /\ (gen' = gen => wgen < gen)
           \/ /\ Resends /\ batch = <<>> /\ (gen' = gen => rgen < gen)
           \/ /\ batch # <<>>
              /\ UNCHANGED <<ops, queue, batch, sent, wgen, limit, quota, fast>>
    BY <1>15, ReconnectShape DEF NetTypeOK
  <2>2. CASE /\ Resends
             /\ \/ sent < Len(batch) /\ (gen' = gen => wgen < gen)
                \/ batch = <<>> /\ (gen' = gen => rgen < gen)
    <3>1. /\ wire' = <<>> /\ limit' = recvMax' /\ limit' \in 1..MAX_LIMIT
          /\ ResendQueue \in Seq(ReqSet) /\ Requests(ops', ResendQueue, <<>>)
          /\ ThrottledOf(ResendQueue) = ChargeableOf(ops')
      BY <1>15, <2>2, ResendCharges
    <3>2. PICK k \in Int : k = limit' /\ DoWrite(TRUE, <<>>, ResendQueue, k, fast)
      BY <1>15, <2>2, ResendCharges
    <3>3. limit' \in Nat
      BY <3>1, LimitAssumption, SMT
    <3>4. Cardinality(Held(ops', ResendQueue, <<>>)) = 0
      <4>1. Held(ops', ResendQueue, <<>>) = {}
        BY <3>1, SMT DEF Held, PubsOf
      <4> QED
        BY <4>1 DEF Laws, SmallLaw
    <3>5. Covered(limit', k, Held(ops', ResendQueue, <<>>))
      BY <3>2, <3>3, <3>4, SMT DEF Covered
    <3>6. Covered(limit', quota', Held(ops', queue', <<>>))
      BY <1>1, <3>1, <3>2, <3>3, <3>5, QuotaWork
    <3> QED
      BY <3>1, <3>6 DEF QuotaOK
  <2>3. CASE /\ batch # <<>>
             /\ UNCHANGED <<ops, queue, batch, sent, wgen, limit, quota, fast>>
    <3>1. CASE gen' = gen
      BY <1>4, <2>1, <2>3, <3>1
    <3>2. CASE gen' # gen
      <4>1. ~Current'
        BY <1>1, <2>1, <2>3, <3>2, SMT DEF Current
      <4>2. Held(ops', queue, wire') \in SUBSET H
        BY <2>1, <2>3, <3>2, SMT DEF Held, ChargeableOf, PubsOf
      <4> QED
        BY <1>3, <2>1, <2>3, <4>1, <4>2
    <3> QED
      BY <3>1, <3>2
  <2> QED
    BY <2>1, <2>2, <2>3
<1>16. CASE Break \/ BrokerReceive
  BY <1>4, <1>16, NetworkBasic
<1>17. CASE UNCHANGED vars
  BY <1>4, <1>17 DEF vars, client, network
<1> QED
  BY <1>6, <1>7, <1>8, <1>9, <1>10, <1>11, <1>12, <1>13, <1>14, <1>15, <1>16, <1>17
  DEF Next, Reconnect, CancelOp

\* While the client is open, what it sent and what is not yet done is charged to
\* the quota, which is what the Receive Maximum of this connection leaves.
LEMMA OpenWithinMaximum ==
    ASSUME Laws, Basic, ConnectionInv, Line, PidsApart, QuotaOK, open
    PROVE  ReceiveMaximum
<1> DEFINE P == {m \in Published : ops[m].qos # 0 /\ Live(m)}
           H == Held(ops, queue, wire)
<1>1. /\ recvMax \in 1..MAX_LIMIT /\ limit \in Nat /\ quota \in Int
      /\ MaxPid \in Nat /\ MAX_LIMIT \in Nat /\ MaxPid <= MAX_LIMIT
  BY PublishFlowAssumption, LimitAssumption, SMT
  DEF Basic, FlowTypeOK, NetTypeOK, SenderTypeOK
<1>2. Published = PubsOf(wire) /\ Published \in SUBSET Msgs
  BY DEF Published, Publishes, PubsOf, Line, WireLine
<1>3. P \in SUBSET {m \in Msgs : Live(m) /\ ops[m].qos # 0} /\ P \in SUBSET H
  BY <1>2 DEF Live, Held, ChargeableOf
<1>4. IsFiniteSet(P) /\ Cardinality(P) \in Nat /\ Cardinality(P) <= MaxPid
  BY <1>3, LiveBound
<1>5. IsFiniteSet(H) /\ Cardinality(H) \in Nat
  BY HeldFinite
<1> HIDE DEF P, H
<1>6. Cardinality(P) <= Cardinality(H)
  BY <1>3, <1>5 DEF Laws, SubsetLaw
<1>7. CASE ~Current
  <2>1. wire = <<>>
    BY <1>7 DEF ConnectionInv, OnConnection
  <2>2. P = {}
    BY <2>1, SMT DEF P, Published, Publishes
  <2>3. Cardinality(P) <= recvMax
    BY <1>1, <2>2, SMT DEF Laws, SmallLaw
  <2> QED
    BY <2>3 DEF ReceiveMaximum, P
<1>8. CASE Current
  <2>1. limit = recvMax /\ Covered(limit, quota, H)
    BY <1>8 DEF QuotaOK, H
  <2>2. CASE limit = MAX_LIMIT
    BY <1>1, <1>4, <2>1, <2>2, SMT DEF ReceiveMaximum, P
  <2>3. CASE limit # MAX_LIMIT
    <3>1. Cardinality(P) <= recvMax
      BY <1>1, <1>4, <1>5, <1>6, <2>1, <2>3, SMT DEF Covered
    <3> QED
      BY <3>1 DEF ReceiveMaximum, P
  <2> QED
    BY <2>2, <2>3
<1> QED
  BY <1>7, <1>8

\* Once the client is closed it sends nothing.
LEMMA ClosedSendsNothing ==
    ASSUME Laws, Basic, Line, PidsApart, [Next]_vars, ~open', ReceiveMaximum
    PROVE  ReceiveMaximum'
<1> DEFINE P == {m \in Published : ops[m].qos # 0 /\ Live(m)}
<1>1. /\ wire' = wire /\ recvMax' = recvMax
      /\ \/ Onward(ops, ops')
         \/ \E m \in Msgs : ops'[m].phase = "done" /\ \A n \in Msgs \ {m} : ops'[n] = ops[n]
  <2>1. ASSUME NEW m \in Msgs, NEW q \in QosSet, PublishFails(m, q)
        PROVE  /\ wire' = wire /\ recvMax' = recvMax /\ ops'[m].phase = "done"
               /\ \A n \in Msgs \ {m} : ops'[n] = ops[n]
    BY <2>1, PublishFailsBasic
  <2>2. ASSUME NEW m \in Msgs, NEW q \in QosSet, Publish(m, q) PROVE FALSE
    BY <2>2 DEF Publish, NextMsg
  <2>3. ASSUME NEW m \in Msgs, CancelOp(m) \/ RunPosted(m)
        PROVE  Onward(ops, ops') /\ wire' = wire /\ recvMax' = recvMax
    BY <2>3, CancelOpBasic, RunPostedBasic DEF CancelOp, RunPosted, network
  <2>4. CASE Cancel \/ NoRecovery
    BY <2>4, CloseBasic
  <2>5. CASE WriteSome \/ WriteDone \/ ReadReply \/ Sentry
    <3>1. CASE WriteSome
      BY <3>1 DEF WriteSome
    <3>2. CASE WriteDone
      BY <3>2 DEF WriteDone
    <3>3. CASE ReadReply
      BY <3>3 DEF ReadReply
    <3>4. CASE Sentry
      BY <3>4 DEF Sentry
    <3> QED
      BY <2>5, <3>1, <3>2, <3>3, <3>4
  <2>6. CASE WriteAborted
    BY <2>6, WriteAbortedBasic DEF WriteAborted
  <2>7. CASE Reconnect
    BY <2>7, ReconnectShape
  <2>8. CASE Break \/ BrokerReceive
    BY <2>8, NetworkBasic
  <2>9. CASE UNCHANGED vars
    BY <2>9 DEF vars, client, network, Onward
  <2> QED
    BY <2>1, <2>2, <2>3, <2>4, <2>5, <2>6, <2>7, <2>8, <2>9 DEF Next, Reconnect
<1>2. Published' = Published /\ Published \in SUBSET Msgs
  BY <1>1 DEF Published, Publishes, Line, WireLine
<1>3. P' \in SUBSET P
  BY <1>1, <1>2 DEF Live, Onward
<1>4. P \in SUBSET {m \in Msgs : Live(m) /\ ops[m].qos # 0}
  BY <1>2
<1>5. IsFiniteSet(P) /\ Cardinality(P) \in Nat /\ Cardinality(P) <= recvMax
  BY <1>4, LiveBound DEF ReceiveMaximum
<1>6. recvMax \in Nat
  BY LimitAssumption, SMT DEF Basic, FlowTypeOK, NetTypeOK
<1>7. PICK Q : Q = P' /\ Q \in SUBSET P
  BY <1>3
<1>8. Cardinality(Q) <= Cardinality(P) /\ Cardinality(Q) \in Nat
  <2> HIDE DEF P
  <2> QED
    BY <1>5, <1>7 DEF Laws, SubsetLaw
<1>9. Cardinality(P') <= recvMax
  <2> HIDE DEF P
  <2> QED
    BY <1>5, <1>6, <1>7, <1>8, SMT
<1> QED
  BY <1>1, <1>9 DEF ReceiveMaximum

\* What the window of SendQuota sees.
LEMMA WindowView ==
    ASSUME Basic
    PROVE  /\ Throttled = ThrottledOf(queue)
           /\ Charged = ChargeableOf(ops) \ ThrottledOf(queue)
           /\ ThrottledOf(queue) \in SUBSET ChargeableOf(ops)
<1>1. Requests(ops, queue, batch)
  BY DEF Basic
<1> QED
  BY <1>1, ThrottledSends, SMT DEF Throttled, Charged, ThrottledOf, ChargeableOf, Live

\* The window counts as the sender does.
LEMMA WindowCardinality ==
    ASSUME NEW S
    PROVE  Window!Cardinality(S) = Cardinality(S)
BY DEF Window!Cardinality, Cardinality

\* do_write of the sender is do_write of the window.
LEMMA WindowWork ==
    ASSUME Laws, NEW called \in BOOLEAN, NEW b \in Seq(ReqSet), NEW q \in Seq(ReqSet),
           NEW k \in Int, NEW f, Requests(ops', q, b), Basic',
           limit' # MAX_LIMIT => 0 <= k,
           DoWrite(called, b, q, k, f)
    PROVE  Window!DoWrite(ThrottledOf(q), ChargeableOf(ops') \ ThrottledOf(q), k)
<1>1. /\ Throttled' = ThrottledOf(queue')
      /\ Charged' = ChargeableOf(ops') \ ThrottledOf(queue')
  BY DEF Throttled, Charged, ThrottledOf, ChargeableOf, Live
<1>2. ThrottledOf(q) \in SUBSET ChargeableOf(ops')
  BY ThrottledSends DEF ChargeableOf
<1>3. CASE called /\ Starts(b, q, k)
  <2>1. /\ queue' = Rest(q, limit', k) /\ quota' = k - Cost(q, limit', k)
        /\ Requests(ops', q, <<>>)
    BY <1>3 DEF Starts
  <2>2. PICK T \in SUBSET ThrottledOf(q) :
              /\ ThrottledOf(queue') = ThrottledOf(q) \ T
              /\ IsFiniteSet(T)
              /\ Cost(q, limit', k) = IF limit' = MAX_LIMIT THEN 0 ELSE Cardinality(T)
              /\ limit' # MAX_LIMIT /\ 0 <= k => Cardinality(T) <= k
    BY <2>1, CostFacts, SMT
  <2>3. Throttled' = ThrottledOf(q) \ T
    BY <1>1, <2>2
  <2>4. Charged' = (ChargeableOf(ops') \ ThrottledOf(q)) \cup T
    BY <1>1, <1>2, <2>2
  <2>5. \/ limit' = MAX_LIMIT /\ quota' = k
        \/ limit' # MAX_LIMIT /\ Cardinality(T) <= k /\ quota' = k - Cardinality(T)
    BY <2>1, <2>2, SMT
  <2> QED
    BY <2>3, <2>4, <2>5, WindowCardinality DEF Window!DoWrite
<1>4. CASE Leaves(called, b, q, k, f)
  <2>1. queue' = q /\ quota' = k
    BY <1>4 DEF Leaves
  <2>2. {} \in SUBSET ThrottledOf(q) /\ Throttled' = ThrottledOf(q) \ {}
        /\ Charged' = (ChargeableOf(ops') \ ThrottledOf(q)) \cup {}
    BY <1>1, <2>1
  <2>3. \/ limit' = MAX_LIMIT /\ quota' = k
        \/ limit' # MAX_LIMIT /\ Cardinality({}) <= k /\ quota' = k - Cardinality({})
    BY <2>1, SMT DEF Laws, SmallLaw
  <2> QED
    BY <2>2, <2>3, WindowCardinality DEF Window!DoWrite
<1> QED
  BY <1>3, <1>4, DoWriteFacts

\* A step that leaves the window alone.
LEMMA WindowStutter ==
    ASSUME Basic, Basic', UNCHANGED <<queue, limit, quota>>,
           ChargeableOf(ops') = ChargeableOf(ops)
    PROVE  UNCHANGED Window!QuotaVars
<1>1. /\ Throttled' = ThrottledOf(queue')
      /\ Charged' = ChargeableOf(ops') \ ThrottledOf(queue')
  BY DEF Throttled, Charged, ThrottledOf, ChargeableOf, Live
<1> QED
  BY <1>1, WindowView DEF Window!QuotaVars

\* Replies: throttled_op_done, or the packet is sent again, or PUBREL follows.
LEMMA WindowReply ==
    ASSUME Laws, Basic, Basic', NoneCancelled, QuotaOK, open,
           NEW m \in Msgs, ops[m].phase \in {"waiting", "posted"},
           NEW res \in Outcomes, res = "aborted" \/ ops[m].qos # 0,
           OnReply(m, res), limit' = limit
    PROVE  Window!QuotaNext
<1> DEFINE C == ChargeableOf(ops)
<1>1. /\ \A n \in Msgs \ {m} : ops'[n] = ops[n]
      /\ ops'[m].qos = ops[m].qos
  BY OnReplyShape
<1>2. PICK called \in BOOLEAN, q \in Seq(ReqSet), k \in Int :
         /\ ReplyShape(m, called, q, k) /\ Requests(ops', q, batch)
         /\ DoWrite(called, batch, q, k, fast)
  BY OnReplyShape
<1>3. /\ batch \in Seq(ReqSet) /\ queue \in Seq(ReqSet) /\ quota \in Int /\ limit \in Nat
      /\ Requests(ops, queue, batch) /\ ops \in [Msgs -> OpSet]
  <2>1. limit \in 1..MAX_LIMIT
    BY DEF Basic, FlowTypeOK, NetTypeOK
  <2>2. limit \in Nat
    BY <2>1, LimitAssumption, SMT
  <2> QED
    BY <2>2 DEF Basic, FlowTypeOK, SenderTypeOK
<1>4. m \notin ThrottledOf(queue)
  BY <1>3, ThrottledSends
<1>5. limit # MAX_LIMIT => 0 <= quota
  BY DEF QuotaOK, Covered
<1>6. /\ Throttled = ThrottledOf(queue) /\ Charged = C \ ThrottledOf(queue)
      /\ ThrottledOf(queue) \in SUBSET C
  BY WindowView
<1>7. m \in 0..N /\ ops[m].serial \in 0..(SerialMod - 1)
  BY <1>3, PublishFlowAssumption, SMT DEF OpSet, Msgs
<1>8. ASSUME limit' # MAX_LIMIT => 0 <= k
      PROVE  Window!DoWrite(ThrottledOf(q), ChargeableOf(ops') \ ThrottledOf(q), k)
  BY <1>2, <1>3, <1>8, WindowWork
<1>9. ASSUME k = quota, ThrottledOf(q) = ThrottledOf(queue),
             ChargeableOf(ops') = C
      PROVE  Window!QuotaNext
  <2>1. Window!DoWrite(Throttled, Charged, quota)
    BY <1>5, <1>6, <1>8, <1>9
  <2> QED
    BY <2>1 DEF Window!QuotaNext, Window!Write
<1>10. CASE /\ ops'[m].phase = "done" /\ q = queue /\ ops[m].qos # 0
            /\ k = Returned(limit, quota, 1)
  <2>1. m \in Charged /\ ChargeableOf(ops') = C \ {m}
    <3>1. m \in C
      BY <1>10 DEF ChargeableOf
    <3>2. ChargeableOf(ops') = C \ {m}
      BY <1>1, <1>10 DEF ChargeableOf
    <3> QED
      BY <1>4, <1>6, <3>1, <3>2
  <2>2. k = Window!Returned /\ (limit' # MAX_LIMIT => 0 <= k)
    BY <1>3, <1>5, <1>10, SMT DEF Returned, Window!Returned
  <2>3. ChargeableOf(ops') \ ThrottledOf(q) = Charged \ {m}
    BY <1>6, <1>10, <2>1
  <2>4. Window!DoWrite(Throttled, Charged \ {m}, Window!Returned)
    BY <1>6, <1>8, <1>10, <2>2, <2>3
  <2> QED
    BY <2>1, <2>4 DEF Window!QuotaNext, Window!ThrottledOpDone
<1>11. CASE /\ ops'[m].phase = "done" /\ q = queue /\ ops[m].qos = 0 /\ k = quota
  <2>1. ChargeableOf(ops') = C
    BY <1>1, <1>11 DEF ChargeableOf
  <2> QED
    BY <1>9, <1>11, <2>1
<1>12. ASSUME ops'[m].phase = "sending" PROVE ChargeableOf(ops') = C
  BY <1>1, <1>12 DEF ChargeableOf
<1>13. CASE /\ ops'[m].phase = "sending" /\ k = quota
            /\ q = Append(Append(queue, DisconnectReq), Req(m))
  <2>1. /\ Append(queue, DisconnectReq) \in Seq(ReqSet) /\ DisconnectReq \in ReqSet
        /\ ~DisconnectReq.throttled
    BY <1>3, RequestsDisconnect, PublishFlowAssumption, SerialModAssumption, SMT
    DEF DisconnectReq, ReqSet, Disc
  <2>2. Req(m) \in ReqSet /\ Req(m).op = m
    BY <1>7 DEF Req, PubrelReq, PublishReq, ReqSet
  <2>3. Req(m).throttled <=> ops[m].qos # 0
    <3>1. ops[m].stage = "pubrel" => ops[m].qos = 2
      BY DEF Basic, QosFits
    <3>2. CASE ops[m].stage = "pubrel"
      <4>1. Req(m) = PubrelReq(m, ops[m], TRUE)
        BY <3>2 DEF Req
      <4>2. Req(m).throttled
        BY <4>1, SMT DEF PubrelReq
      <4> QED
        BY <3>1, <3>2, <4>2, SMT
    <3>3. CASE ops[m].stage # "pubrel"
      <4>1. Req(m) = PublishReq(m, ops[m])
        BY <3>3 DEF Req
      <4>2. PublishReq(m, ops[m]).throttled <=> ops[m].qos # 0
        BY DEF PublishReq
      <4> QED
        BY <4>1, <4>2
    <3> QED
      BY <3>2, <3>3
  <2>4. ThrottledOf(Append(queue, DisconnectReq)) = ThrottledOf(queue)
    BY <1>3, <2>1, ThrottledAppend
  <2>5. ThrottledOf(q) = ThrottledOf(queue) \cup (IF ops[m].qos # 0 THEN {m} ELSE {})
    <3>1. PICK a \in Seq(ReqSet) : a = Append(queue, DisconnectReq)
      BY <2>1
    <3>2. PICK r \in ReqSet : r = Req(m)
      BY <2>2
    <3>3. ThrottledOf(Append(a, r)) = ThrottledOf(a) \cup (IF r.throttled THEN {r.op} ELSE {})
      BY ThrottledAppend
    <3> QED
      BY <1>13, <2>2, <2>3, <2>4, <3>1, <3>2, <3>3
  <2>6. CASE ops[m].qos = 0
    BY <1>9, <1>12, <1>13, <2>5, <2>6
  <2>7. CASE ops[m].qos # 0
    <3>1. m \in Charged
      BY <1>4, <1>6, <2>7 DEF ChargeableOf
    <3>2. /\ ThrottledOf(q) = Throttled \cup {m}
          /\ ChargeableOf(ops') \ ThrottledOf(q) = Charged \ {m}
      BY <1>6, <1>12, <1>13, <2>5, <2>7
    <3>3. Window!DoWrite(Throttled \cup {m}, Charged \ {m}, quota)
      BY <1>5, <1>8, <1>13, <3>2
    <3> QED
      BY <3>1, <3>3 DEF Window!QuotaNext, Window!SendAgain
  <2> QED
    BY <2>6, <2>7
<1>14. CASE /\ ops'[m].phase = "sending" /\ k = quota
            /\ q = Append(queue, PubrelReq(m, ops[m], FALSE))
  <2>1. PubrelReq(m, ops[m], FALSE) \in ReqSet /\ ~PubrelReq(m, ops[m], FALSE).throttled
    BY <1>7 DEF PubrelReq, ReqSet
  <2>2. ThrottledOf(q) = ThrottledOf(queue)
    BY <1>3, <1>14, <2>1, ThrottledAppend
  <2> QED
    BY <1>9, <1>12, <1>14, <2>2
<1> QED
  BY <1>2, <1>10, <1>11, <1>13, <1>14 DEF ReplyShape, NoneCancelled

\* Every step of the sender is a step of the window, or leaves it alone.
LEMMA WindowSimulation ==
    ASSUME Laws, Basic, Basic', ConnectionInv, NoneCancelled, QuotaOK, StaysOpen,
           "cancel" \notin Faults, "cancel_op" \notin Faults, [Next]_vars
    PROVE  [Window!QuotaNext]_(Window!QuotaVars)
<1> DEFINE C == ChargeableOf(ops)
<1>1. /\ batch \in Seq(ReqSet) /\ queue \in Seq(ReqSet) /\ quota \in Int /\ limit \in Nat
      /\ Requests(ops, queue, batch) /\ ops \in [Msgs -> OpSet] /\ <<>> \in Seq(ReqSet)
  <2>1. FlowTypeOK /\ Requests(ops, queue, batch)
    BY DEF Basic
  <2>2. limit \in 1..MAX_LIMIT /\ MAX_LIMIT \in Nat
    BY <2>1, LimitAssumption DEF FlowTypeOK, SenderTypeOK, NetTypeOK
  <2>3. limit \in Nat
    BY <2>2, SMT
  <2> QED
    BY <2>1, <2>3, SMT DEF FlowTypeOK, SenderTypeOK, NetTypeOK
<1>2. open
  BY DEF StaysOpen
<1>3. limit # MAX_LIMIT => 0 <= quota
  BY <1>2 DEF QuotaOK, Covered
<1>4. /\ Throttled = ThrottledOf(queue) /\ Charged = C \ ThrottledOf(queue)
      /\ ThrottledOf(queue) \in SUBSET C
  BY WindowView
<1>5. ASSUME UNCHANGED <<ops, queue, limit, quota>> PROVE UNCHANGED Window!QuotaVars
  BY <1>5, WindowStutter
<1>6. ASSUME NEW b \in Seq(ReqSet), NEW q \in Seq(ReqSet), NEW f,
             Requests(ops', q, b), DoWrite(TRUE, b, q, quota, f), limit' = limit,
             ThrottledOf(q) = ThrottledOf(queue), ChargeableOf(ops') = C
      PROVE  Window!QuotaNext
  <2>1. Window!DoWrite(ThrottledOf(q), ChargeableOf(ops') \ ThrottledOf(q), quota)
    BY <1>1, <1>3, <1>6, WindowWork
  <2>2. Window!DoWrite(Throttled, Charged, quota)
    BY <1>4, <1>6, <2>1
  <2> QED
    BY <1>6, <2>2 DEF Window!QuotaNext, Window!Write
<1>7. ASSUME NEW m \in Msgs, NEW qos \in QosSet, Publish(m, qos) PROVE Window!QuotaNext
  <2> DEFINE r == PublishReq(m, ops'[m])
  <2>1. /\ ops[m].phase = "idle" /\ ops'[m].phase = "sending" /\ ops'[m].stage = "publish"
        /\ \A n \in Msgs \ {m} : ops'[n] = ops[n]
        /\ r \in ReqSet
        /\ DoWrite(TRUE, batch, Append(queue, r), quota, fast)
    BY <1>7, PublishBasic
  <2>2. limit' = limit
    BY <1>7 DEF Publish
  <2>3. r.op = m /\ ReqOK(r, ops') /\ (r.throttled <=> ops'[m].qos # 0)
    BY <2>1 DEF PublishReq, ReqOK
  <2> HIDE DEF r
  <2>4. PICK a \in Seq(ReqSet) : a = Append(queue, r)
    <3>1. Append(queue, r) \in Seq(ReqSet)
      BY <1>1, <2>1, SMT
    <3> QED
      BY <3>1
  <2>5. Requests(ops', a, batch) /\ DoWrite(TRUE, batch, a, quota, fast)
    <3>1. ops[m].phase # "sending"
      BY <2>1
    <3>2. Requests(ops', Append(queue, r), batch)
      BY <1>1, <2>1, <2>3, <3>1, RequestsAppend
    <3> QED
      BY <2>1, <2>4, <3>2
  <2>6. ThrottledOf(a) = ThrottledOf(queue) \cup (IF r.throttled THEN {m} ELSE {})
    BY <1>1, <2>1, <2>3, <2>4, ThrottledAppend
  <2>7. CASE ops'[m].qos = 0
    <3>1. ChargeableOf(ops') = C
      BY <2>1, <2>7 DEF ChargeableOf
    <3> QED
      BY <1>1, <1>6, <2>2, <2>3, <2>5, <2>6, <2>7, <3>1
  <2>8. CASE ops'[m].qos # 0
    <3>1. m \notin C /\ ChargeableOf(ops') = C \cup {m}
      BY <2>1, <2>8 DEF ChargeableOf
    <3>2. /\ m \notin Throttled \cup Charged
          /\ ThrottledOf(a) = Throttled \cup {m}
          /\ ChargeableOf(ops') \ ThrottledOf(a) = Charged
      BY <1>4, <2>3, <2>6, <2>8, <3>1
    <3>3. Window!DoWrite(ThrottledOf(a), ChargeableOf(ops') \ ThrottledOf(a), quota)
      BY <1>1, <1>3, <2>2, <2>5, WindowWork
    <3>4. Window!DoWrite(Throttled \cup {m}, Charged, quota)
      BY <3>2, <3>3
    <3> QED
      BY <2>2, <3>2, <3>4 DEF Window!QuotaNext, Window!AsyncSend
  <2> QED
    BY <2>7, <2>8
<1>8. ASSUME NEW m \in Msgs, NEW qos \in QosSet, PublishFails(m, qos)
      PROVE  UNCHANGED Window!QuotaVars
  <2>1. /\ ops[m].phase = "idle" /\ ops'[m].phase = "done"
        /\ \A n \in Msgs \ {m} : ops'[n] = ops[n]
        /\ UNCHANGED <<queue, limit, quota>>
    BY <1>8, PublishFailsBasic
  <2>2. ChargeableOf(ops') = C
    BY <2>1 DEF ChargeableOf
  <2> QED
    BY <2>1, <2>2, WindowStutter
<1>9. ASSUME NEW m \in Msgs, RunPosted(m) PROVE Window!QuotaNext
  <2>1. ops[m].res \in Outcomes /\ (ops[m].res = "aborted" \/ ops[m].qos # 0)
    BY <1>9, RunPostedBasic
  <2>2. ops[m].phase = "posted" /\ OnReply(m, ops[m].res) /\ limit' = limit
    BY <1>9 DEF RunPosted
  <2> QED
    BY <1>2, <2>1, <2>2, WindowReply
<1>10. CASE ReadReply
  <2>1. limit' = limit
    BY <1>10 DEF ReadReply
  <2>2. CASE UNCHANGED <<ops, queue, batch, sent, wgen, quota>>
    BY <1>5, <2>1, <2>2
  <2>3. CASE \E m \in Msgs : /\ ops[m].phase = "waiting" /\ ops[m].qos # 0
                             /\ Head(b2c).res \in Outcomes /\ OnReply(m, Head(b2c).res)
    BY <1>2, <2>1, <2>3, WindowReply
  <2> QED
    BY <1>10, <2>2, <2>3, ReadReplyBasic
<1>11. CASE WriteSome
  BY <1>5, <1>11 DEF WriteSome
<1>12. CASE WriteDone
  <2>1. Onward(ops, ops') /\ Requests(ops', queue, <<>>)
    BY <1>12, WriteDoneBasic
  <2>2. PICK f \in Seq(ReplySet) : DoWrite(TRUE, <<>>, queue, quota, f)
    BY <1>12, WriteDoneBasic
  <2>3. limit' = limit
    BY <1>12 DEF WriteDone
  <2>4. ChargeableOf(ops') = C
    <3>1. \A m \in Msgs :
             /\ m \notin OpsOf(batch) => ops'[m] = ops[m]
             /\ m \in OpsOf(batch) /\ ops[m].qos # 0
                   => ops'[m].phase \in {"waiting", "posted"}
      BY <1>12, WriteDoneBasic
    <3> QED
      BY <2>1, <3>1 DEF ChargeableOf, Onward
  <2> QED
    BY <1>1, <1>6, <2>1, <2>2, <2>3, <2>4
<1>13. CASE Sentry
  <2>1. /\ ops' = ops /\ limit' = limit
        /\ DoWrite(TRUE, batch, Append(queue, DisconnectReq), quota, fast)
    BY <1>13 DEF Sentry
  <2>2. DisconnectReq \in ReqSet /\ ~DisconnectReq.throttled
    BY PublishFlowAssumption, SerialModAssumption, SMT DEF DisconnectReq, ReqSet, Disc
  <2>3. PICK a \in Seq(ReqSet) : a = Append(queue, DisconnectReq)
    BY <1>1, RequestsDisconnect
  <2>4. ThrottledOf(a) = ThrottledOf(queue)
    BY <1>1, <2>2, <2>3, ThrottledAppend
  <2>5. Requests(ops', a, batch) /\ DoWrite(TRUE, batch, a, quota, fast)
    BY <1>1, <2>1, <2>3, RequestsDisconnect
  <2> QED
    BY <1>1, <1>6, <2>1, <2>4, <2>5
<1>14. CASE Reconnect
  <2>1. \/ /\ Resends /\ sent < Len(batch) /\ (gen' = gen => wgen < gen)
        \/ /\ Resends /\ batch = <<>> /\ (gen' = gen => rgen < gen)
        \/ UNCHANGED <<ops, queue, limit, quota>>
    BY <1>14, ReconnectShape
  <2>2. CASE /\ Resends
             /\ \/ sent < Len(batch) /\ (gen' = gen => wgen < gen)
                \/ batch = <<>> /\ (gen' = gen => rgen < gen)
    <3>1. /\ limit' \in 1..MAX_LIMIT
          /\ ResendQueue \in Seq(ReqSet) /\ Requests(ops', ResendQueue, <<>>)
          /\ ChargeableOf(ops') = C /\ ThrottledOf(ResendQueue) = C
      BY <1>14, <2>2, ResendCharges
    <3>2. PICK k \in Int : k = limit' /\ DoWrite(TRUE, <<>>, ResendQueue, k, fast)
      BY <1>14, <2>2, ResendCharges
    <3>3. limit' # MAX_LIMIT => 0 <= k
      BY <3>1, <3>2, LimitAssumption, SMT
    <3>4. PICK a \in Seq(ReqSet) : a = ResendQueue
      BY <3>1
    <3>5. Window!DoWrite(ThrottledOf(a), ChargeableOf(ops') \ ThrottledOf(a), k)
      BY <1>1, <3>1, <3>2, <3>3, <3>4, WindowWork
    <3>6. /\ ThrottledOf(a) = Throttled \cup Charged
          /\ ChargeableOf(ops') \ ThrottledOf(a) = {}
      BY <1>4, <3>1, <3>4
    <3>7. Window!DoWrite(Throttled \cup Charged, {}, limit')
      BY <3>2, <3>5, <3>6
    <3>8. Window!Resend(limit')
      BY <3>7 DEF Window!Resend
    <3> QED
      BY <3>1, <3>8 DEF Window!QuotaNext
  <2> QED
    BY <1>5, <2>1, <2>2
<1>15. CASE Break \/ BrokerReceive
  BY <1>5, <1>15, NetworkBasic
<1>16. CASE UNCHANGED vars
  BY <1>5, <1>16 DEF vars, client
<1>17. ~WriteAborted /\ ~Cancel /\ ~NoRecovery
  BY <1>2 DEF WriteAborted, Cancel, NoRecovery, CloseClient
<1> QED
  BY <1>7, <1>8, <1>9, <1>10, <1>11, <1>12, <1>13, <1>14, <1>15, <1>16, <1>17
  DEF Next, Reconnect, CancelOp
===============================================================================
