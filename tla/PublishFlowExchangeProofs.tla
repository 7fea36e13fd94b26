---------------------- MODULE PublishFlowExchangeProofs -----------------------
(*****************************************************************************)
(* The side of the replies: every step of PublishFlow keeps ExchangeOK,      *)
(* which ties each reply under way to the one operation that will take it,   *)
(* and OnceOK, which ties each QoS 2 message to its identifier at the        *)
(* broker.                                                                   *)
(*                                                                           *)
(* Zenon is the prover to try; a leaf about numbers or sequences cites SMT.  *)
(*****************************************************************************)
EXTENDS PublishFlowStepProofs
-------------------------------------------------------------------------------
USE Zenon

\* do_write leaves the exchange as it is; a write that starts forgets fast replies.
LEMMA ExchangeWork ==
    ASSUME Laws, NEW called \in BOOLEAN, NEW b \in Seq(ReqSet), NEW q \in Seq(ReqSet),
           NEW k \in Int, NEW f, DoWrite(called, b, q, k, f),
           NEW o, NEW c, NEW r, NEW d, NEW ss,
           Exchange(o, b, SentOf(b), c, r, f, d), Kept(o, r, f, d, ss)
    PROVE  Exchange(o, batch', sent', c, r, fast', d) /\ Kept(o, r, fast', d, ss)
<1>1. CASE Leaves(called, b, q, k, f)
  <2>1. batch' = b /\ sent' = SentOf(b) /\ fast' = f
    BY <1>1 DEF Leaves, SentOf
  <2> QED
    BY <2>1
<1>2. CASE called /\ Starts(b, q, k)
  <2>1. b = <<>> /\ fast' = <<>>
    BY <1>2 DEF Starts
  <2>2. \A m : ~Written(b, SentOf(b), m)
    BY <2>1, SMT DEF Written, SentOf
  <2>3. \A m : Expecting(o, b, SentOf(b), m) => Expecting(o, batch', sent', m)
    BY <2>2 DEF Expecting
  <2>4. Apart(c, r, <<>>)
    BY SMT DEF Exchange, Apart
  <2>5. Exchange(o, batch', sent', c, r, <<>>, d)
    BY <2>3, <2>4, SMT DEF Exchange
  <2>6. Kept(o, r, <<>>, d, ss)
    BY SMT DEF Kept
  <2> QED
    BY <2>1, <2>5, <2>6
<1> QED
  BY <1>1, <1>2, DoWriteFacts

\* An operation that nothing under way belongs to may change.
LEMMA ExchangeOp ==
    ASSUME NEW o, NEW p, NEW b, NEW s, NEW c, NEW r, NEW f, NEW d, NEW m \in Msgs,
           Exchange(o, b, s, c, r, f, d), \A n \in Msgs \ {m} : p[n] = o[n],
           \A i \in DOMAIN c : NeedsReply(c[i]) => c[i].msg \in Msgs,
           Expecting(o, b, s, m) =>
              /\ \A i \in DOMAIN c : NeedsReply(c[i]) => c[i].pid # o[m].pid
              /\ \A i \in DOMAIN r : r[i].pid # o[m].pid
              /\ \A i \in DOMAIN f : f[i].pid # o[m].pid
    PROVE  Exchange(p, b, s, c, r, f, d)
<1>1. ASSUME NEW n \in Msgs \ {m}, Expecting(o, b, s, n) PROVE Expecting(p, b, s, n)
  BY <1>1 DEF Expecting
<1>2. ASSUME NEW n \in Msgs \ {m}, NEW x, Answered(o, d, x, n) PROVE Answered(p, d, x, n)
  BY <1>2 DEF Answered
<1>3. ASSUME NEW i \in DOMAIN c, NeedsReply(c[i])
      PROVE  /\ Expecting(p, b, s, c[i].msg)
             /\ c[i].qos = p[c[i].msg].qos /\ c[i].pid = p[c[i].msg].pid
             /\ c[i].type = Packet(p, c[i].msg).type
  <2>1. /\ Expecting(o, b, s, c[i].msg) /\ c[i].msg \in Msgs
        /\ c[i].qos = o[c[i].msg].qos /\ c[i].pid = o[c[i].msg].pid
        /\ c[i].type = Packet(o, c[i].msg).type
    BY <1>3 DEF Exchange
  <2>2. c[i].msg \in Msgs \ {m}
    BY <1>3, <2>1
  <2> QED
    BY <1>1, <2>1, <2>2 DEF Packet
<1>4. ASSUME NEW i \in DOMAIN r
      PROVE  \E n \in Msgs : Expecting(p, b, s, n) /\ Answered(p, d, r[i], n)
  <2>1. PICK n \in Msgs : Expecting(o, b, s, n) /\ Answered(o, d, r[i], n)
    BY DEF Exchange
  <2>2. n \in Msgs \ {m}
    BY <2>1 DEF Answered, Answers
  <2> QED
    BY <1>1, <1>2, <2>1, <2>2
<1>5. ASSUME NEW i \in DOMAIN f
      PROVE  \E n \in Msgs : /\ p[n].phase = "sending" /\ Written(b, s, n)
                             /\ Answered(p, d, f[i], n)
  <2>1. PICK n \in Msgs : /\ o[n].phase = "sending" /\ Written(b, s, n)
                          /\ Answered(o, d, f[i], n)
    BY DEF Exchange
  <2>2. n \in Msgs \ {m}
    BY <2>1 DEF Answered, Answers, Expecting
  <2> QED
    BY <1>2, <2>1, <2>2
<1> QED
  BY <1>3, <1>4, <1>5 DEF Exchange

\* What an operation does with a reply.
LEMMA ReplyOutcome ==
    ASSUME Basic, NEW m \in Msgs, NEW res \in Outcomes, OnReply(m, res)
    PROVE  \/ /\ ops'[m].phase = "done" /\ ops'[m].stage = ops[m].stage
              /\ \/ ops[m].cancelled /\ ops'[m].res = "aborted"
                 \/ /\ ops'[m].res = res /\ res # "malformed"
                    /\ ~(res = "ok" /\ Awaited(ops[m]) = "PUBREC")
           \/ ops'[m].phase = "sending" /\ ops'[m].stage = ops[m].stage
           \/ /\ ops'[m].phase = "sending" /\ ops'[m].stage = "pubrel" /\ res = "ok"
<1>1. ops \in [Msgs -> OpSet] /\ ops[m] \in OpSet
  BY DEF Basic, FlowTypeOK
<1>2. CASE res = "malformed" /\ OnMalformed(m)
  <2>1. CASE /\ ops[m].cancelled
             /\ ops' = [ops EXCEPT ![m].phase = "done", ![m].res = "aborted"]
    BY <1>1, <2>1 DEF OpSet
  <2>2. CASE ops' = [ops EXCEPT ![m].phase = "sending", ![m].dup = TRUE, ![m].res = "none"]
    BY <1>1, <2>2 DEF OpSet
  <2>3. CASE ops' = [ops EXCEPT ![m].phase = "sending", ![m].res = "none"]
    BY <1>1, <2>3 DEF OpSet
  <2> QED
    BY <1>2, <2>1, <2>2, <2>3 DEF OnMalformed
<1>3. CASE /\ res = "ok"
           /\ ops' = [ops EXCEPT ![m].phase = "sending", ![m].stage = "pubrel",
                              ![m].res = "none"]
  BY <1>1, <1>3 DEF OpSet
<1>4. CASE /\ res # "malformed" /\ ~(res = "ok" /\ Awaited(ops[m]) = "PUBREC")
           /\ Complete(m, res)
  BY <1>1, <1>4 DEF Complete, OpSet
<1> QED
  BY <1>2, <1>3, <1>4 DEF OnReply

\* A reply ends the exchange of operation m, or starts the one of its PUBREL.
LEMMA ExchangeReply ==
    ASSUME Laws, Basic, NoneCancelled,
           NEW m \in Msgs, ops[m].phase \in {"waiting", "posted"}, ops[m].qos # 0,
           NEW res \in {"ok", "error", "malformed"}, OnReply(m, res),
           NEW c, NEW r, NEW d, NEW ss,
           Exchange(ops, batch, sent, c, r, fast, d), Kept(ops, r, fast, d, ss),
           \A i \in DOMAIN c : NeedsReply(c[i]) => c[i].msg \in Msgs,
           Expecting(ops, batch, sent, m) =>
              /\ \A i \in DOMAIN c : NeedsReply(c[i]) => c[i].pid # ops[m].pid
              /\ \A i \in DOMAIN r : r[i].pid # ops[m].pid
              /\ \A i \in DOMAIN fast : fast[i].pid # ops[m].pid,
           ops[m].stage = "pubrel" \/ res = "error" => ops[m].pid \notin ss
    PROVE  Exchange(ops', batch', sent', c, r, fast', d) /\ Kept(ops', r, fast', d, ss)
<1>1. res \in Outcomes /\ batch \in Seq(ReqSet) /\ sent \in 0..Len(batch)
      /\ ops \in [Msgs -> OpSet]
  BY DEF Outcomes, Basic, FlowTypeOK, SenderTypeOK
<1>2. /\ \A n \in Msgs \ {m} : ops'[n] = ops[n]
      /\ ops'[m].qos = ops[m].qos /\ ops'[m].pid = ops[m].pid
      /\ ops'[m].phase \notin {"idle", "waiting", "posted"}
  BY <1>1, OnReplyShape
<1>3. PICK called \in BOOLEAN, q \in Seq(ReqSet), k \in Int :
         DoWrite(called, batch, q, k, fast)
  BY <1>1, OnReplyShape
<1>4. Exchange(ops', batch, sent, c, r, fast, d)
  BY <1>2, ExchangeOp, SMT
<1>5. Kept(ops', r, fast, d, ss)
  <2>1. ASSUME NEW p \in ss
        PROVE  \E n \in Msgs : /\ ops'[n].phase \notin {"idle", "done"} /\ ops'[n].qos = 2
                               /\ ops'[n].pid = p /\ d[n] > 0
    <3>1. PICK n \in Msgs : /\ ops[n].phase \notin {"idle", "done"} /\ ops[n].qos = 2
                            /\ ops[n].pid = p /\ d[n] > 0
      BY DEF Kept
    <3>2. CASE n # m
      BY <1>2, <3>1, <3>2
    <3>3. CASE n = m
      <4>1. ops[m].stage # "pubrel" /\ res # "error"
        BY <3>1, <3>3
      <4>2. Awaited(ops[m]) = "PUBREC"
        BY <3>1, <3>3, <4>1, SMT DEF Awaited
      <4>3. ops'[m].phase # "done"
        BY <1>1, <4>1, <4>2, ReplyOutcome DEF NoneCancelled
      <4> QED
        BY <1>2, <3>1, <3>3, <4>3
    <3> QED
      BY <3>2, <3>3
  <2>2. ASSUME NEW n \in Msgs, ops'[n].phase = "posted"
        PROVE  /\ ops'[n].res \in {"ok", "error", "malformed"}
               /\ ops'[n].stage = "pubrel" \/ ops'[n].res = "error" => ops'[n].pid \notin ss
    <3>1. ops'[n] = ops[n]
      BY <1>2, <2>2
    <3> QED
      BY <2>2, <3>1 DEF Kept
  <2>3. /\ \A i \in DOMAIN r : Ends(r[i]) => r[i].pid \notin ss
        /\ \A i \in DOMAIN fast : Ends(fast[i]) => fast[i].pid \notin ss
    BY DEF Kept
  <2> QED
    BY <2>1, <2>2, <2>3 DEF Kept
<1>6. SentOf(batch) = sent
  BY <1>1, SMT DEF SentOf
<1> QED
  BY <1>1, <1>3, <1>4, <1>5, <1>6, ExchangeWork

\* A reply that reports success completes an operation whose message was
\* accepted.
LEMMA AcceptedReply ==
    ASSUME Basic, NEW m \in Msgs, ops[m].phase \in {"waiting", "posted"},
           NEW res \in Outcomes, res = "aborted" \/ ops[m].qos # 0, OnReply(m, res),
           NEW d, Accepted(ops, d), res = "ok" => d[m] > 0
    PROVE  Accepted(ops', d)
<1>1. /\ \A n \in Msgs \ {m} : ops'[n] = ops[n]
      /\ ops'[m].qos = ops[m].qos
      /\ ops'[m].phase \notin {"idle", "waiting", "posted"}
  BY OnReplyShape
<1>2. ASSUME NEW n \in Msgs, ops'[n].qos # 0,
             \/ ops'[n].phase \notin {"idle", "done"} /\ ops'[n].stage = "pubrel"
             \/ ops'[n].phase \in {"posted", "done"} /\ ops'[n].res = "ok"
      PROVE  d[n] > 0
  <2>1. CASE n # m
    <3>1. ops'[n] = ops[n]
      BY <1>1, <2>1
    <3> QED
      BY <1>2, <3>1 DEF Accepted
  <2>2. CASE n = m
    <3>1. CASE ops'[m].phase = "done"
      BY <1>2, <2>2, <3>1, ReplyOutcome
    <3>2. CASE ops'[m].phase # "done"
      <4>1. ops'[m].stage = "pubrel"
        BY <1>1, <1>2, <2>2, <3>2
      <4>2. ops[m].stage = "pubrel" \/ res = "ok"
        BY <3>2, <4>1, ReplyOutcome
      <4> QED
        BY <1>1, <1>2, <2>2, <4>2 DEF Accepted
    <3> QED
      BY <3>1, <3>2
  <2> QED
    BY <2>1, <2>2
<1> QED
  BY <1>2 DEF Accepted

\* What the broker does with a packet: it hangs up, takes a QoS 0 message, or
\* serves a packet that needs a reply.
LEMMA BrokerCases ==
    ASSUME Basic, BrokerReceive
    PROVE  /\ c2b # <<>>
           /\ \/ /\ c2b' = <<>> /\ UNCHANGED <<b2c, session, delivered>>
              \/ /\ c2b' = Tail(c2b) /\ UNCHANGED <<b2c, session>>
                 /\ Head(c2b).type = "PUBLISH" /\ Head(c2b).qos = 0
                 /\ delivered' = Bump(delivered, Head(c2b).msg)
              \/ /\ c2b' = Tail(c2b)
                 /\ \E x \in ReplySet : /\ x.pid = Head(c2b).pid /\ Serves(Head(c2b), x)
                                        /\ b2c' = b2c \/ b2c' = Append(b2c, x)
<1> DEFINE p == Head(c2b)
           X(type, res) == [type |-> type, pid |-> p.pid, res |-> res]
           Reply(type, res) == b2c' = b2c \/ b2c' = Append(b2c, X(type, res))
<1>1. c2b \in Seq(PacketSet) /\ c2b # <<>> /\ p \in PacketSet
  BY SMT DEF Basic, FlowTypeOK, NetTypeOK, BrokerReceive
<1>2. Results \in SUBSET {"ok", "error", "malformed"}
  BY DEF Results
<1>3. ASSUME NEW type \in {"PUBACK", "PUBREC", "PUBCOMP"}, NEW res \in {"ok", "error", "malformed"}
      PROVE  /\ X(type, res) \in ReplySet /\ X(type, res).pid = p.pid
             /\ X(type, res).type = type /\ X(type, res).res = res
  BY <1>1 DEF ReplySet, PacketSet
<1>4. \/ /\ c2b' = <<>> /\ UNCHANGED <<b2c, session, delivered>>
      \/ /\ c2b' = Tail(c2b) /\ UNCHANGED <<b2c, session>>
         /\ p.type = "PUBLISH" /\ p.qos = 0
         /\ delivered' = Bump(delivered, p.msg)
      \/ /\ c2b' = Tail(c2b) /\ p.type = "PUBLISH" /\ p.qos = 1 /\ session' = session
         /\ \E res \in Results :
               /\ Reply("PUBACK", res)
               /\ IF res = "error" THEN delivered' = delivered
                  ELSE delivered' = Bump(delivered, p.msg)
      \/ /\ c2b' = Tail(c2b) /\ p.type = "PUBLISH" /\ p.qos = 2 /\ p.pid \in session
         /\ Reply("PUBREC", "ok") /\ session' = session /\ delivered' = delivered
      \/ /\ c2b' = Tail(c2b) /\ p.type = "PUBLISH" /\ p.qos = 2 /\ p.pid \notin session
         /\ \E res \in Results :
               /\ Reply("PUBREC", res)
               /\ IF res = "error" THEN session' = session /\ delivered' = delivered
                  ELSE /\ delivered' = Bump(delivered, p.msg)
                       /\ session' = session \cup {p.pid}
      \/ /\ c2b' = Tail(c2b) /\ p.type = "PUBREL"
         /\ session' = session \ {p.pid} /\ delivered' = delivered
         /\ \E res \in Results : Reply("PUBCOMP", res)
  BY DEF BrokerReceive, Bump, broker
<1> HIDE DEF X
<1>5. ASSUME NEW type \in {"PUBACK", "PUBREC", "PUBCOMP"},
             NEW res \in {"ok", "error", "malformed"},
             Reply(type, res), c2b' = Tail(c2b), Serves(p, X(type, res))
      PROVE  /\ c2b' = Tail(c2b)
             /\ \E x \in ReplySet : /\ x.pid = p.pid /\ Serves(p, x)
                                    /\ b2c' = b2c \/ b2c' = Append(b2c, x)
  BY <1>3, <1>5
<1>6. CASE /\ c2b' = Tail(c2b) /\ p.type = "PUBLISH" /\ p.qos = 1 /\ session' = session
           /\ \E res \in Results :
                 /\ Reply("PUBACK", res)
                 /\ IF res = "error" THEN delivered' = delivered
                    ELSE delivered' = Bump(delivered, p.msg)
  BY <1>1, <1>2, <1>3, <1>5, <1>6 DEF Serves
<1>7. CASE /\ c2b' = Tail(c2b) /\ p.type = "PUBLISH" /\ p.qos = 2 /\ p.pid \in session
           /\ Reply("PUBREC", "ok") /\ session' = session /\ delivered' = delivered
  BY <1>1, <1>3, <1>5, <1>7 DEF Serves
<1>8. CASE /\ c2b' = Tail(c2b) /\ p.type = "PUBLISH" /\ p.qos = 2 /\ p.pid \notin session
           /\ \E res \in Results :
                 /\ Reply("PUBREC", res)
                 /\ IF res = "error" THEN session' = session /\ delivered' = delivered
                    ELSE /\ delivered' = Bump(delivered, p.msg)
                         /\ session' = session \cup {p.pid}
  BY <1>1, <1>2, <1>3, <1>5, <1>8 DEF Serves
<1>9. CASE /\ c2b' = Tail(c2b) /\ p.type = "PUBREL"
           /\ session' = session \ {p.pid} /\ delivered' = delivered
           /\ \E res \in Results : Reply("PUBCOMP", res)
  BY <1>1, <1>2, <1>3, <1>5, <1>9 DEF Serves
<1> QED
  BY <1>1, <1>4, <1>6, <1>7, <1>8, <1>9

\* The broker takes the next packet, with or without an answer.
LEMMA ExchangeTail ==
    ASSUME NEW o, NEW b, NEW s, NEW c \in Seq(PacketSet), c # <<>>, NEW r, NEW f,
           NEW d, NEW e, \A m \in Msgs : d[m] > 0 => e[m] > 0,
           Exchange(o, b, s, c, r, f, d)
    PROVE  Exchange(o, b, s, Tail(c), r, f, e)
<1> DEFINE t == Tail(c)
<1>1. \A i \in DOMAIN t : i \in Nat /\ i + 1 \in DOMAIN c /\ t[i] = c[i + 1]
  BY SMT
<1> HIDE DEF t
<1>2. \A x : \A m \in Msgs : Answered(o, d, x, m) => Answered(o, e, x, m)
  BY DEF Answered
<1>3. Apart(t, r, f)
  BY <1>1, SMT DEF Exchange, Apart
<1>4. /\ \A i \in DOMAIN r : \E m \in Msgs : Expecting(o, b, s, m) /\ Answered(o, e, r[i], m)
      /\ \A i \in DOMAIN f : \E m \in Msgs : /\ o[m].phase = "sending" /\ Written(b, s, m)
                                             /\ Answered(o, e, f[i], m)
  BY <1>2 DEF Exchange
<1>5. \A i \in DOMAIN t : NeedsReply(t[i]) =>
          /\ Expecting(o, b, s, t[i].msg)
          /\ t[i].qos = o[t[i].msg].qos /\ t[i].pid = o[t[i].msg].pid
          /\ t[i].type = Packet(o, t[i].msg).type
  BY <1>1 DEF Exchange
<1>6. Exchange(o, b, s, t, r, f, e)
  BY <1>3, <1>4, <1>5 DEF Exchange
<1> QED
  BY <1>6 DEF t

\* A reply to the packet at the head of c2b takes its place in the exchange.
LEMMA ExchangeServed ==
    ASSUME NEW o, NEW b, NEW s, NEW c \in Seq(PacketSet), c # <<>>,
           NEW r \in Seq(ReplySet), NEW f, NEW d, NEW e,
           \A m \in Msgs : d[m] > 0 => e[m] > 0,
           Exchange(o, b, s, c, r, f, d),
           NeedsReply(Head(c)), Head(c).msg \in Msgs,
           NEW x \in ReplySet, x.pid = Head(c).pid, Answered(o, e, x, Head(c).msg)
    PROVE  Exchange(o, b, s, Tail(c), Append(r, x), f, e)
<1> DEFINE t == Tail(c)
           a == Append(r, x)
<1>1. \A i \in DOMAIN t : i \in Nat /\ i + 1 \in DOMAIN c /\ t[i] = c[i + 1] /\ i + 1 # 1
  BY SMT
<1>2. \A i \in DOMAIN a : \/ i \in DOMAIN r /\ a[i] = r[i]
                          \/ i = Len(r) + 1 /\ a[i] = x
  BY SMT
<1>3. 1 \in DOMAIN c /\ Head(c) = c[1]
  BY SMT
<1>4. Exchange(o, b, s, t, r, f, e)
  BY ExchangeTail
<1> HIDE DEF t, a
<1>5. Expecting(o, b, s, Head(c).msg)
  BY <1>3 DEF Exchange
<1>6. ASSUME NEW i \in DOMAIN a
      PROVE  \E m \in Msgs : Expecting(o, b, s, m) /\ Answered(o, e, a[i], m)
  BY <1>2, <1>4, <1>5 DEF Exchange
<1>7. ASSUME NEW i \in DOMAIN t, NeedsReply(t[i]) PROVE t[i].pid # x.pid
  BY <1>1, <1>3, <1>7, SMT DEF Exchange, Apart
<1>8. /\ \A j \in DOMAIN r : r[j].pid # x.pid
      /\ \A j \in DOMAIN f : f[j].pid # x.pid
  BY <1>3, SMT DEF Exchange, Apart
<1>9. Apart(t, r, f)
  BY <1>4 DEF Exchange
<1>10. Apart(t, a, f)
  <2>1. \A i, j \in DOMAIN a : a[i].pid = a[j].pid => i = j
    BY <1>2, <1>8, <1>9 DEF Apart
  <2>2. \A i \in DOMAIN t, j \in DOMAIN a : NeedsReply(t[i]) => t[i].pid # a[j].pid
    BY <1>2, <1>7, <1>9 DEF Apart
  <2>3. \A i \in DOMAIN a, j \in DOMAIN f : a[i].pid # f[j].pid
    BY <1>2, <1>8, <1>9, SMT DEF Apart
  <2> QED
    BY <1>9, <2>1, <2>2, <2>3 DEF Apart
<1>11. Exchange(o, b, s, t, a, f, e)
  BY <1>4, <1>6, <1>10 DEF Exchange
<1> QED
  BY <1>11 DEF t, a

\* The kernel takes the next packet of the write.
LEMMA ExchangeSends ==
    ASSUME Basic, PidsApart, WriteSome,
           Exchange(ops, batch, sent, c2b, b2c, fast, delivered)
    PROVE  Exchange(ops, batch, sent', c2b', b2c, fast, delivered)
<1> DEFINE m == batch[sent + 1].op
           pkt == IF m = Disc
                  THEN [type |-> "DISCONNECT", msg |-> Disc, qos |-> 0, pid |-> 0,
                        dup |-> FALSE]
                  ELSE [type |-> IF ops[m].stage = "pubrel" THEN "PUBREL"
                                 ELSE "PUBLISH",
                        msg |-> m, qos |-> ops[m].qos, pid |-> ops[m].pid,
                        dup |-> ops[m].dup]
           E(c, s) == Exchange(ops, batch, s, c, b2c, fast, delivered)
<1>1. /\ sent \in 0..Len(batch) /\ sent < Len(batch) /\ sent' = sent + 1
      /\ batch \in Seq(ReqSet) /\ Len(batch) \in Nat /\ c2b \in Seq(PacketSet)
      /\ Requests(ops, queue, batch) /\ QosFits(ops) /\ ops \in [Msgs -> OpSet]
      /\ c2b' = c2b \/ c2b' = Append(c2b, pkt)
  BY SMT DEF WriteSome, Basic, FlowTypeOK, SenderTypeOK, NetTypeOK
<1>2. sent \in Nat /\ sent + 1 \in DOMAIN batch /\ DOMAIN batch = 1..Len(batch)
  BY <1>1, SMT
<1>3. \A n : Written(batch, sent, n) => Written(batch, sent', n)
  BY <1>1, <1>2, SMT DEF Written
<1>4. \A n : Expecting(ops, batch, sent, n) => Expecting(ops, batch, sent', n)
  BY <1>3 DEF Expecting
<1>5. E(c2b, sent')
  BY <1>3, <1>4 DEF Exchange
<1>6. CASE m = Disc
  <2>1. pkt.type = "DISCONNECT"
    BY <1>6
  <2>2. ~NeedsReply(pkt)
    BY <2>1 DEF NeedsReply
  <2> HIDE DEF pkt
  <2>3. ASSUME NEW c, c = Append(c2b, pkt) PROVE E(c, sent')
    <3>1. \A i \in DOMAIN c : \/ i \in DOMAIN c2b /\ c[i] = c2b[i]
                              \/ ~NeedsReply(c[i])
      BY <1>1, <2>2, <2>3, SMT
    <3>2. Apart(c, b2c, fast)
      BY <1>5, <3>1, SMT DEF Exchange, Apart
    <3> QED
      BY <1>5, <3>1, <3>2 DEF Exchange
  <2> QED
    BY <1>1, <1>5, <2>3
<1>7. CASE m # Disc
  <2>1. m \in Msgs /\ ops[m].phase = "sending"
    BY <1>1, <1>2, <1>7, SMT DEF Requests, ReqOK, DisconnectReq
  <2>2. Live(m) /\ (ops[m].stage = "pubrel" => ops[m].qos = 2)
    BY <1>1, <2>1 DEF Live, QosFits
  <2>3. ~Written(batch, sent, m)
    <3> SUFFICES ASSUME NEW j \in 1..sent, batch[j].op = m PROVE FALSE
      BY DEF Written
    <3>1. j \in DOMAIN batch /\ j # sent + 1
      BY <1>1, <1>2, SMT
    <3> QED
      BY <1>1, <1>2, <1>7, <3>1 DEF Requests
  <2>4. Written(batch, sent', m)
    BY <1>1, <1>2, SMT DEF Written
  <2>5. /\ pkt.msg = m /\ pkt.qos = ops[m].qos /\ pkt.pid = ops[m].pid
        /\ pkt.type = Packet(ops, m).type
        /\ NeedsReply(pkt) <=> ops[m].qos # 0
    BY <1>7, <2>2, SMT DEF Packet, NeedsReply
  <2> HIDE DEF pkt, m
  <2>6. ~Expecting(ops, batch, sent, m) /\ Expecting(ops, batch, sent', m)
    BY <2>1, <2>3, <2>4 DEF Expecting
  <2>7. ASSUME ops[m].qos # 0, NEW n \in Msgs, ops[n].qos # 0, Expecting(ops, batch, sent, n)
        PROVE  ops[n].pid # ops[m].pid
    BY <2>1, <2>2, <2>6, <2>7 DEF PidsApart, Expecting, Live
  <2>8. ASSUME NeedsReply(pkt)
        PROVE  /\ \A i \in DOMAIN c2b : NeedsReply(c2b[i]) => c2b[i].pid # pkt.pid
               /\ \A i \in DOMAIN b2c : b2c[i].pid # pkt.pid
               /\ \A i \in DOMAIN fast : fast[i].pid # pkt.pid
    <3>1. ASSUME NEW i \in DOMAIN c2b, NeedsReply(c2b[i]) PROVE c2b[i].pid # pkt.pid
      <4>1. /\ Expecting(ops, batch, sent, c2b[i].msg) /\ c2b[i].pid = ops[c2b[i].msg].pid
            /\ c2b[i].qos = ops[c2b[i].msg].qos /\ c2b[i].type = Packet(ops, c2b[i].msg).type
        BY <3>1 DEF Exchange
      <4>2. c2b[i].msg \in Msgs
        BY <3>1 DEF Basic, FlowTypeOK, NetTypeOK, NeedsReply
      <4>3. ops[c2b[i].msg].qos # 0
        BY <1>1, <3>1, <4>1, <4>2, SMT DEF NeedsReply, Packet, QosFits, Expecting
      <4> QED
        BY <2>5, <2>7, <2>8, <4>1, <4>2, <4>3
    <3>2. ASSUME NEW i \in DOMAIN b2c PROVE b2c[i].pid # pkt.pid
      BY <2>5, <2>7, <2>8 DEF Exchange, Answered, Answers
    <3>3. ASSUME NEW i \in DOMAIN fast PROVE fast[i].pid # pkt.pid
      BY <2>5, <2>7, <2>8 DEF Exchange, Answered, Answers, Expecting
    <3> QED
      BY <3>1, <3>2, <3>3
  <2>9. ASSUME NEW c, c = Append(c2b, pkt) PROVE E(c, sent')
    <3>1. \A i \in DOMAIN c : \/ i \in DOMAIN c2b /\ c[i] = c2b[i]
                              \/ i = Len(c2b) + 1 /\ c[i] = pkt
      BY <1>1, <2>9, SMT
    <3>2. Apart(c2b, b2c, fast)
      BY <1>5 DEF Exchange
    <3>3. Apart(c, b2c, fast)
      <4>1. \A i, j \in DOMAIN c : NeedsReply(c[i]) /\ NeedsReply(c[j]) /\ c[i].pid = c[j].pid
                                   => i = j
        BY <2>8, <3>1, <3>2 DEF Apart
      <4>2. /\ \A i \in DOMAIN c, j \in DOMAIN b2c : NeedsReply(c[i]) => c[i].pid # b2c[j].pid
            /\ \A i \in DOMAIN c, j \in DOMAIN fast : NeedsReply(c[i]) => c[i].pid # fast[j].pid
        BY <2>8, <3>1, <3>2 DEF Apart
      <4> QED
        BY <3>2, <4>1, <4>2 DEF Apart
    <3>4. ASSUME NEW i \in DOMAIN c, NeedsReply(c[i])
          PROVE  /\ Expecting(ops, batch, sent', c[i].msg)
                 /\ c[i].qos = ops[c[i].msg].qos /\ c[i].pid = ops[c[i].msg].pid
                 /\ c[i].type = Packet(ops, c[i].msg).type
      BY <1>5, <2>5, <2>6, <3>1, <3>4 DEF Exchange
    <3> QED
      BY <1>5, <3>3, <3>4 DEF Exchange
  <2> QED
    BY <1>1, <1>5, <2>9
<1> QED
  BY <1>6, <1>7

\* A write is done: its operations take their fast replies, or wait.
LEMMA ExchangeWritten ==
    ASSUME Laws, Basic, PidsApart, WriteDone, Accepted(ops, delivered),
           Exchange(ops, batch, sent, c2b, b2c, fast, delivered),
           Kept(ops, b2c, fast, delivered, session)
    PROVE  /\ Exchange(ops', batch', sent', c2b, b2c, fast', delivered)
           /\ Kept(ops', b2c, fast', delivered, session)
           /\ Accepted(ops', delivered)
<1> DEFINE written == OpsOf(batch)
           Hits(m) == {i \in DOMAIN fast : Answers(fast[i], ops[m])}
           First(m) == CHOOSE i \in Hits(m) : \A j \in Hits(m) : i <= j
           used == {First(m) : m \in {n \in written : ops[n].qos # 0 /\ Hits(n) # {}}}
           After(m) ==
               IF ops[m].qos = 0
               THEN [ops[m] EXCEPT !.phase = "done", !.res = "ok"]
               ELSE IF Hits(m) = {}
               THEN [ops[m] EXCEPT !.phase = "waiting"]
               ELSE [ops[m] EXCEPT !.phase = "posted", !.res = fast[First(m)].res]
           left == At(fast, DOMAIN fast \ used)
<1>1. /\ ops' = [m \in Msgs |-> IF m \in written THEN After(m) ELSE ops[m]]
      /\ DoWrite(TRUE, <<>>, queue, quota, left) /\ sent = Len(batch)
  BY DEF WriteDone
<1>2. /\ ops \in [Msgs -> OpSet] /\ fast \in Seq(ReplySet) /\ batch \in Seq(ReqSet)
      /\ queue \in Seq(ReqSet) /\ quota \in Int /\ <<>> \in Seq(ReqSet)
      /\ Requests(ops, queue, batch) /\ QosFits(ops)
      /\ c2b \in Seq(PacketSet) /\ b2c \in Seq(ReplySet)
  BY SMT DEF Basic, FlowTypeOK, SenderTypeOK, NetTypeOK
<1>3. \A m \in written : m \in Msgs /\ ops[m].phase = "sending"
  BY <1>2, SMT DEF OpsOf, Requests, ReqOK, DisconnectReq
<1>4. \A m \in Msgs : Written(batch, sent, m) => m \in written
  <2> SUFFICES ASSUME NEW m \in Msgs, NEW j \in 1..sent, batch[j].op = m
               PROVE  m \in written
    BY DEF Written
  <2>1. m # Disc
    BY SMT DEF Msgs, Disc
  <2>2. sent = Len(batch)
    BY <1>1
  <2>3. j \in DOMAIN batch
    BY <1>2, <2>2, SMT
  <2> QED
    BY <2>1, <2>3 DEF OpsOf
<1>5. ASSUME NEW i \in DOMAIN fast
      PROVE  \E m \in written : Answered(ops, delivered, fast[i], m)
  BY <1>4 DEF Exchange
<1>6. ASSUME NEW m \in written, NEW i \in Hits(m) PROVE First(m) = i
  <2>1. \A j \in Hits(m) : j = i
    BY DEF Answers, Exchange, Apart
  <2>2. i \in Nat
    BY <1>2, SMT
  <2>3. \A j \in Hits(m) : i <= j
    BY <2>1, <2>2, SMT
  <2> QED
    BY <2>1, <2>3
<1>7. DOMAIN fast \ used = {}
  <2> SUFFICES ASSUME NEW i \in DOMAIN fast PROVE i \in used
    OBVIOUS
  <2>1. PICK m \in written : Answered(ops, delivered, fast[i], m)
    BY <1>5
  <2>2. i \in Hits(m) /\ ops[m].qos # 0
    BY <2>1 DEF Answered
  <2>3. First(m) = i
    BY <1>6, <2>2
  <2> QED
    BY <2>2, <2>3
<1>8. left = <<>>
  <2>1. left = At(fast, {})
    BY <1>7
  <2>2. At(fast, {}) \in Seq(ReplySet) /\ Len(At(fast, {})) = Cardinality({})
    BY <1>2 DEF Laws, AtLaw
  <2> QED
    BY <2>1, <2>2, SMT DEF Laws, SmallLaw
<1> HIDE DEF left
<1>9. ASSUME NEW m \in written
      PROVE  /\ ops'[m].qos = ops[m].qos /\ ops'[m].pid = ops[m].pid
             /\ ops'[m].stage = ops[m].stage
             /\ ops[m].qos = 0 => ops'[m].phase = "done"
             /\ ops[m].qos # 0 =>
                   \/ Hits(m) = {} /\ ops'[m].phase = "waiting"
                   \/ /\ ops'[m].phase = "posted"
                      /\ \E i \in Hits(m) : ops'[m].res = fast[i].res
  <2>1. m \in Msgs /\ ops[m] \in OpSet /\ ops'[m] = After(m)
    BY <1>1, <1>2, <1>3
  <2>2. Hits(m) # {} => First(m) \in Hits(m)
    BY <1>6
  <2>3. CASE ops[m].qos = 0
    BY <2>1, <2>3 DEF OpSet
  <2>4. CASE ops[m].qos # 0 /\ Hits(m) = {}
    <3> HIDE DEF Hits, First
    <3> QED
      BY <2>1, <2>4 DEF OpSet
  <2>5. CASE ops[m].qos # 0 /\ Hits(m) # {}
    <3> HIDE DEF Hits, First
    <3>1. ops'[m] = [ops[m] EXCEPT !.phase = "posted", !.res = fast[First(m)].res]
      BY <2>1, <2>5
    <3>2. /\ ops'[m].qos = ops[m].qos /\ ops'[m].pid = ops[m].pid
          /\ ops'[m].stage = ops[m].stage
          /\ ops'[m].phase = "posted" /\ ops'[m].res = fast[First(m)].res
      BY <2>1, <3>1 DEF OpSet
    <3> QED
      BY <2>2, <2>5, <3>2
  <2> QED
    BY <2>3, <2>4, <2>5
<1>10. \A m \in Msgs \ written : ops'[m] = ops[m]
  BY <1>1
<1>11. ASSUME NEW n \in Msgs, Expecting(ops, batch, sent, n), ops[n].qos # 0,
              \A i \in DOMAIN fast : fast[i].pid # ops[n].pid
       PROVE  /\ ops'[n].phase = "waiting" /\ ops'[n].qos = ops[n].qos
              /\ ops'[n].pid = ops[n].pid /\ ops'[n].stage = ops[n].stage
  <2>1. CASE n \in written
    <3>1. Hits(n) = {}
      BY <1>11 DEF Answers
    <3> QED
      BY <1>9, <1>11, <2>1, <3>1
  <2>2. CASE n \notin written
    <3>1. ops'[n] = ops[n] /\ ops[n].phase = "waiting"
      BY <1>4, <1>10, <1>11, <2>2 DEF Expecting
    <3> QED
      BY <3>1
  <2> QED
    BY <2>1, <2>2
<1>12. Exchange(ops', <<>>, 0, c2b, b2c, <<>>, delivered)
  <2>1. ASSUME NEW i \in DOMAIN c2b, NeedsReply(c2b[i])
        PROVE  /\ Expecting(ops', <<>>, 0, c2b[i].msg)
               /\ c2b[i].qos = ops'[c2b[i].msg].qos /\ c2b[i].pid = ops'[c2b[i].msg].pid
               /\ c2b[i].type = Packet(ops', c2b[i].msg).type
    <3>1. /\ Expecting(ops, batch, sent, c2b[i].msg)
          /\ c2b[i].qos = ops[c2b[i].msg].qos /\ c2b[i].pid = ops[c2b[i].msg].pid
          /\ c2b[i].type = Packet(ops, c2b[i].msg).type
      BY <2>1 DEF Exchange
    <3>2. c2b[i].msg \in Msgs
      BY <2>1 DEF Basic, FlowTypeOK, NetTypeOK, NeedsReply
    <3>3. ops[c2b[i].msg].qos # 0
      <4>1. QosFits(ops)
        BY <1>2
      <4>2. CASE c2b[i].type = "PUBLISH"
        BY <2>1, <3>1, <4>2 DEF NeedsReply
      <4>3. CASE c2b[i].type = "PUBREL"
        <5>1. ops[c2b[i].msg].stage = "pubrel"
          BY <3>1, <4>3 DEF Packet
        <5> QED
          BY <3>1, <3>2, <4>1, <5>1, SMT DEF QosFits, Expecting
      <4> QED
        BY <2>1, <4>2, <4>3 DEF NeedsReply
    <3>4. \A j \in DOMAIN fast : fast[j].pid # ops[c2b[i].msg].pid
      BY <2>1, <3>1, SMT DEF Exchange, Apart
    <3> QED
      BY <1>11, <3>1, <3>2, <3>3, <3>4 DEF Expecting, Packet
  <2>2. ASSUME NEW i \in DOMAIN b2c
        PROVE  \E m \in Msgs : Expecting(ops', <<>>, 0, m) /\ Answered(ops', delivered, b2c[i], m)
    <3>1. PICK m \in Msgs : /\ Expecting(ops, batch, sent, m)
                            /\ Answered(ops, delivered, b2c[i], m)
      BY DEF Exchange
    <3>2. \A j \in DOMAIN fast : fast[j].pid # ops[m].pid
      BY <3>1, SMT DEF Answered, Answers, Exchange, Apart
    <3>3. /\ ops'[m].phase = "waiting" /\ ops'[m].qos = ops[m].qos
          /\ ops'[m].pid = ops[m].pid /\ ops'[m].stage = ops[m].stage
      BY <1>11, <3>1, <3>2 DEF Answered
    <3>4. Answered(ops', delivered, b2c[i], m)
      BY <3>1, <3>3 DEF Answered, Answers, Awaited
    <3> QED
      BY <3>3, <3>4 DEF Expecting
  <2>3. Apart(c2b, b2c, <<>>)
    BY SMT DEF Exchange, Apart
  <2> QED
    BY <2>1, <2>2, <2>3, SMT DEF Exchange
<1>13. Kept(ops', b2c, <<>>, delivered, session)
  <2>1. ASSUME NEW p \in session
        PROVE  \E m \in Msgs : /\ ops'[m].phase \notin {"idle", "done"} /\ ops'[m].qos = 2
                               /\ ops'[m].pid = p /\ delivered[m] > 0
    <3>1. PICK m \in Msgs : /\ ops[m].phase \notin {"idle", "done"} /\ ops[m].qos = 2
                            /\ ops[m].pid = p /\ delivered[m] > 0
      BY DEF Kept
    <3>2. /\ ops'[m].phase \notin {"idle", "done"} /\ ops'[m].qos = 2 /\ ops'[m].pid = p
      BY <1>9, <1>10, <3>1, SMT
    <3> QED
      BY <3>1, <3>2
  <2>2. ASSUME NEW m \in Msgs, ops'[m].phase = "posted"
        PROVE  /\ ops'[m].res \in {"ok", "error", "malformed"}
               /\ ops'[m].stage = "pubrel" \/ ops'[m].res = "error"
                     => ops'[m].pid \notin session
    <3>1. CASE m \in written
      <4>1. ops[m].qos # 0
        BY <1>9, <2>2, <3>1
      <4>2. PICK i \in Hits(m) : ops'[m].res = fast[i].res
        BY <1>9, <2>2, <3>1, <4>1
      <4>3. fast[i].res \in {"ok", "error", "malformed"}
        <5>1. i \in DOMAIN fast
          OBVIOUS
        <5>2. fast[i] \in ReplySet
          BY <1>2, <5>1, SMT
        <5> QED
          BY <5>2 DEF ReplySet
      <4>4. fast[i].pid = ops'[m].pid /\ (ops'[m].stage = "pubrel" => fast[i].type = "PUBCOMP")
        BY <1>9, <3>1 DEF Answers, Awaited
      <4> QED
        BY <4>2, <4>3, <4>4 DEF Kept, Ends
    <3>2. CASE m \notin written
      BY <1>10, <2>2, <3>2 DEF Kept
    <3> QED
      BY <3>1, <3>2
  <2> QED
    BY <2>1, <2>2, SMT DEF Kept
<1>14. Accepted(ops', delivered)
  <2> SUFFICES ASSUME NEW m \in Msgs, ops'[m].qos # 0,
                      \/ ops'[m].phase \notin {"idle", "done"} /\ ops'[m].stage = "pubrel"
                      \/ ops'[m].phase \in {"posted", "done"} /\ ops'[m].res = "ok"
               PROVE  delivered[m] > 0
    BY DEF Accepted
  <2>1. CASE m \notin written
    BY <1>10, <2>1 DEF Accepted
  <2>2. CASE m \in written /\ ops[m].stage = "pubrel"
    BY <1>3, <1>9, <2>2 DEF Accepted
  <2>3. CASE m \in written /\ ops[m].stage # "pubrel"
    <3>1. ops[m].qos # 0 /\ ops'[m].phase = "posted" /\ ops'[m].res = "ok"
      BY <1>9, <2>3
    <3>2. PICK i \in Hits(m) : fast[i].res = "ok"
      BY <1>9, <2>3, <3>1
    <3>3. PICK n \in written : Answered(ops, delivered, fast[i], n)
      BY <1>5
    <3>4. n = m
      BY <1>3, <2>3, <3>1, <3>3 DEF PidsApart, Answered, Answers, Live
    <3> QED
      BY <3>2, <3>3, <3>4 DEF Answered
  <2> QED
    BY <2>1, <2>2, <2>3
<1>15. SentOf(<<>>) = 0
  BY DEF SentOf
<1>16. DoWrite(TRUE, <<>>, queue, quota, <<>>)
  BY <1>1, <1>8
<1> QED
  BY <1>2, <1>12, <1>13, <1>14, <1>15, <1>16, ExchangeWork

\* do_write takes something from a queue that is not empty, if the quota allows one.
LEMMA ChosenSome ==
    ASSUME Laws, NEW q \in Seq(ReqSet), q # <<>>, NEW lim, NEW k \in Int, lim = MAX_LIMIT \/ 1 <= k
    PROVE  Chosen(q, lim, k) # {}
<1>1. 1 \in DOMAIN q
  BY SMT
<1>2. CASE \E i \in DOMAIN q : q[i].terminal
  BY <1>2, ChosenFacts
<1>3. CASE \A i \in DOMAIN q : ~q[i].terminal
  <2>1. CASE lim = MAX_LIMIT
    BY <1>1, <1>3, <2>1 DEF Chosen
  <2>2. CASE lim # MAX_LIMIT
    <3> DEFINE G == {j \in 1..1 : q[j].throttled}
    <3>1. IsFiniteSet({1}) /\ Cardinality({1}) = 1
      BY DEF Laws, SmallLaw
    <3>2. G \in SUBSET {1}
      BY SMT
    <3>3. Cardinality(G) <= 1
      BY <3>1, <3>2 DEF Laws, SubsetLaw
    <3>4. Cardinality(G) \in Nat
      BY <3>1, <3>2 DEF Laws, SubsetLaw
    <3>5. Cardinality(G) <= k
      BY <2>2, <3>3, <3>4, SMT
    <3> HIDE DEF G
    <3>6. 1 \in {i \in DOMAIN q : ~q[i].throttled
                                  \/ Cardinality({j \in 1..i : q[j].throttled}) <= k}
      BY <1>1, <3>5 DEF G
    <3> QED
      BY <1>3, <2>2, <3>6 DEF Chosen
  <2> QED
    BY <2>1, <2>2
<1> QED
  BY <1>2, <1>3

\* resend() starts every exchange again: nothing is under way on the connection.
LEMMA ExchangeResend ==
    ASSUME Laws, Basic, ConnectionInv, NoneCancelled, ExchangeOK, open, Reconnect, Resends,
           \/ sent < Len(batch) /\ (gen' = gen => wgen < gen)
           \/ batch = <<>> /\ (gen' = gen => rgen < gen)
    PROVE  ExchangeOK'
<1>1. /\ c2b' = <<>> /\ b2c' = <<>>
  <2>1. wire' = <<>>
    BY ResendCharges
  <2>2. /\ gen' = gen => UNCHANGED <<wire, c2b, b2c>>
        /\ gen' # gen => c2b' = <<>> /\ b2c' = <<>>
    BY ReconnectShape
  <2> QED
    BY <2>1, <2>2 DEF ExchangeOK
<1>2. /\ delivered' = delivered /\ session' \in SUBSET session
  <2>1. /\ delivered' = delivered
        /\ session' = session \/ session' = {}
    BY ReconnectShape
  <2> QED
    BY <2>1
<1>3. /\ \A m \in Outs : /\ ops'[m].phase = "sending" /\ ops'[m].stage = ops[m].stage
                         /\ ops'[m].qos = ops[m].qos /\ ops'[m].pid = ops[m].pid
      /\ \A m \in Msgs \ Outs : ops'[m] = ops[m]
  <2>1. ops \in [Msgs -> OpSet]
    BY DEF Basic, FlowTypeOK
  <2>2. ASSUME NEW m \in Outs
        PROVE  /\ ops'[m].phase = "sending" /\ ops'[m].stage = ops[m].stage
               /\ ops'[m].qos = ops[m].qos /\ ops'[m].pid = ops[m].pid
    <3>1. m \in Msgs /\ ops'[m] = TryAgain(m) /\ ~Stops(m)
      BY DEF Resends, Outs, NoneCancelled, Stops
    <3>2. ops[m] \in OpSet
      BY <2>1, <3>1
    <3> QED
      BY <3>1, <3>2 DEF TryAgain, OpSet
  <2>3. \A m \in Msgs \ Outs : ops'[m] = ops[m]
    BY DEF Resends
  <2> QED
    BY <2>2, <2>3
<1>4. fast' = <<>>
  <2>1. /\ limit' \in 1..MAX_LIMIT /\ ResendQueue \in Seq(ReqSet)
        /\ Requests(ops', ResendQueue, <<>>)
    BY ResendCharges
  <2>2. PICK k \in Int : k = limit' /\ DoWrite(TRUE, <<>>, ResendQueue, k, fast)
    BY ResendCharges
  <2>3. PICK q \in Seq(ReqSet) : q = ResendQueue
    BY <2>1
  <2>4. 1 <= k
    BY <2>1, <2>2, LimitAssumption, SMT
  <2>5. <<>> \in Seq(ReqSet)
    BY SMT
  <2>6. Starts(<<>>, q, k) \/ Leaves(TRUE, <<>>, q, k, fast)
    BY <2>2, <2>3, <2>5, DoWriteFacts
  <2>7. CASE Starts(<<>>, q, k)
    BY <2>7 DEF Starts
  <2>8. CASE Leaves(TRUE, <<>>, q, k, fast)
    <3>1. fast' = fast /\ Chosen(q, limit', k) = {}
      BY <2>8 DEF Leaves
    <3>2. q = <<>>
      BY <2>4, <3>1, ChosenSome
    <3>3. \A m \in Msgs : ops'[m].phase # "sending"
      BY <2>1, <2>3, <3>2, SMT DEF Requests
    <3>4. \A m \in Msgs : ops[m].phase # "sending"
      BY <1>3, <3>3 DEF Outs
    <3>5. \A i \in DOMAIN fast : FALSE
      BY <3>4 DEF ExchangeOK, Exchange
    <3>6. fast \in Seq(ReplySet)
      BY DEF Basic, FlowTypeOK, SenderTypeOK
    <3>7. fast # <<>> => 1 \in DOMAIN fast
      BY <3>6, SMT
    <3> QED
      BY <3>1, <3>5, <3>7
  <2> QED
    BY <2>6, <2>7, <2>8
<1>5. Exchange(ops', batch', sent', <<>>, <<>>, <<>>, delivered)
  BY SMT DEF Exchange, Apart
<1>6. Kept(ops', <<>>, <<>>, delivered, session')
  <2>1. ASSUME NEW p \in session'
        PROVE  \E m \in Msgs : /\ ops'[m].phase \notin {"idle", "done"} /\ ops'[m].qos = 2
                               /\ ops'[m].pid = p /\ delivered[m] > 0
    <3>1. PICK m \in Msgs : /\ ops[m].phase \notin {"idle", "done"} /\ ops[m].qos = 2
                            /\ ops[m].pid = p /\ delivered[m] > 0
      BY <1>2 DEF ExchangeOK, Kept
    <3>2. /\ ops'[m].phase \notin {"idle", "done"} /\ ops'[m].qos = 2 /\ ops'[m].pid = p
      BY <1>3, <3>1
    <3> QED
      BY <3>1, <3>2
  <2>2. ASSUME NEW m \in Msgs, ops'[m].phase = "posted"
        PROVE  /\ ops'[m].res \in {"ok", "error", "malformed"}
               /\ ops'[m].stage = "pubrel" \/ ops'[m].res = "error"
                     => ops'[m].pid \notin session'
    <3>1. ops'[m] = ops[m]
      BY <1>3, <2>2
    <3> QED
      BY <1>2, <2>2, <3>1 DEF ExchangeOK, Kept
  <2> QED
    BY <2>1, <2>2, SMT DEF Kept
<1>7. Accepted(ops', delivered)
  <2> SUFFICES ASSUME NEW m \in Msgs, ops'[m].qos # 0,
                      \/ ops'[m].phase \notin {"idle", "done"} /\ ops'[m].stage = "pubrel"
                      \/ ops'[m].phase \in {"posted", "done"} /\ ops'[m].res = "ok"
               PROVE  delivered[m] > 0
    BY DEF Accepted
  <2>1. CASE m \in Outs
    BY <1>3, <2>1 DEF ExchangeOK, Accepted, Outs
  <2>2. CASE m \notin Outs
    BY <1>3, <2>2 DEF ExchangeOK, Accepted
  <2> QED
    BY <2>1, <2>2
<1> QED
  BY <1>1, <1>2, <1>4, <1>5, <1>6, <1>7 DEF ExchangeOK

\* Every step keeps ExchangeOK.
LEMMA ExchangeNext ==
    ASSUME Laws, "cancel_op" \notin Faults
    PROVE  Basic /\ ConnectionInv /\ PidsApart /\ NoneCancelled /\ ExchangeOK /\ [Next]_vars
           => ExchangeOK'
<1> SUFFICES ASSUME Basic, ConnectionInv, PidsApart, NoneCancelled, ExchangeOK, [Next]_vars
             PROVE  ExchangeOK'
  OBVIOUS
<1> DEFINE E(o, b, s, f) == Exchange(o, b, s, c2b, b2c, f, delivered)
           K(o, f) == Kept(o, b2c, f, delivered, session)
<1>1. /\ batch \in Seq(ReqSet) /\ queue \in Seq(ReqSet) /\ quota \in Int
      /\ Requests(ops, queue, batch) /\ ops \in [Msgs -> OpSet] /\ sent \in 0..Len(batch)
      /\ c2b \in Seq(PacketSet) /\ b2c \in Seq(ReplySet) /\ fast \in Seq(ReplySet)
      /\ delivered \in [Msgs -> 0..2]
  BY DEF Basic, FlowTypeOK, SenderTypeOK, NetTypeOK
<1>2. SentOf(batch) = sent
  BY <1>1, SMT DEF SentOf
<1>3. ASSUME open PROVE /\ E(ops, batch, sent, fast) /\ K(ops, fast)
                        /\ wire = <<>> => c2b = <<>> /\ b2c = <<>>
  BY <1>3 DEF ExchangeOK
<1>4. \A i \in DOMAIN c2b : NeedsReply(c2b[i]) => c2b[i].msg \in Msgs
  BY DEF Basic, FlowTypeOK, NetTypeOK, NeedsReply
<1>5. Accepted(ops, delivered)
  BY DEF ExchangeOK
<1>6. ASSUME UNCHANGED <<ops, batch, sent, fast, open, c2b, b2c, session, delivered, wire>>
      PROVE  ExchangeOK'
  BY <1>6 DEF ExchangeOK
<1>7. ASSUME NEW m \in Msgs, NEW q \in QosSet, Publish(m, q) PROVE ExchangeOK'
  <2>1. /\ ops[m].phase = "idle" /\ ops'[m].phase = "sending" /\ ops'[m].stage = "publish"
        /\ \A n \in Msgs \ {m} : ops'[n] = ops[n]
        /\ PublishReq(m, ops'[m]) \in ReqSet
        /\ DoWrite(TRUE, batch, Append(queue, PublishReq(m, ops'[m])), quota, fast)
    BY <1>7, PublishBasic
  <2>2. open /\ open' = open /\ UNCHANGED <<c2b, b2c, session, delivered, wire>>
    BY <1>7 DEF Publish, NextMsg, broker
  <2>3. PICK a \in Seq(ReqSet) : DoWrite(TRUE, batch, a, quota, fast)
    <3>1. Append(queue, PublishReq(m, ops'[m])) \in Seq(ReqSet)
      BY <1>1, <2>1, SMT
    <3> QED
      BY <2>1, <3>1
  <2>4. E(ops', batch, sent, fast)
    <3>1. ~Expecting(ops, batch, sent, m)
      BY <2>1 DEF Expecting
    <3> QED
      BY <1>3, <1>4, <2>1, <2>2, <3>1, ExchangeOp
  <2>5. K(ops', fast)
    <3>1. \A p \in session : \E n \in Msgs \ {m} :
             ops[n].phase \notin {"idle", "done"} /\ ops[n].qos = 2 /\ ops[n].pid = p
             /\ delivered[n] > 0
      BY <1>3, <2>1, <2>2 DEF Kept
    <3> QED
      BY <1>3, <2>1, <2>2, <3>1, SMT DEF Kept
  <2>6. E(ops', batch', sent', fast') /\ K(ops', fast')
    BY <1>1, <1>2, <2>3, <2>4, <2>5, ExchangeWork
  <2>7. Accepted(ops', delivered)
    BY <1>5, <2>1 DEF Accepted
  <2> QED
    BY <1>3, <2>2, <2>6, <2>7 DEF ExchangeOK
<1>8. ASSUME NEW m \in Msgs, NEW q \in QosSet, PublishFails(m, q) PROVE ExchangeOK'
  <2>1. /\ ops[m].phase = "idle" /\ ops'[m].phase = "done" /\ ops'[m].res = "failed"
        /\ \A n \in Msgs \ {m} : ops'[n] = ops[n]
        /\ UNCHANGED <<batch, sent, fast, open, c2b, b2c, session, delivered, wire>>
    <3>1. /\ ops' = [ops EXCEPT ![m].phase = "done", ![m].qos = q, ![m].res = "failed"]
          /\ ops[m].phase = "idle" /\ ops[m] \in OpSet
      BY <1>1, <1>8 DEF PublishFails, NextMsg
    <3>2. /\ ops'[m].phase = "done" /\ ops'[m].res = "failed"
          /\ \A n \in Msgs \ {m} : ops'[n] = ops[n]
      BY <1>1, <3>1 DEF OpSet
    <3> QED
      BY <1>8, <3>1, <3>2 DEF PublishFails, network, broker
  <2>2. ASSUME open PROVE E(ops', batch, sent, fast)
    <3>1. ~Expecting(ops, batch, sent, m)
      BY <2>1 DEF Expecting
    <3> QED
      BY <1>3, <1>4, <2>1, <2>2, <3>1, ExchangeOp
  <2>3. ASSUME open PROVE K(ops', fast)
    <3>1. \A p \in session : \E n \in Msgs \ {m} :
             ops[n].phase \notin {"idle", "done"} /\ ops[n].qos = 2 /\ ops[n].pid = p
             /\ delivered[n] > 0
      BY <1>3, <2>1, <2>3 DEF Kept
    <3> QED
      BY <1>3, <2>1, <2>3, <3>1, SMT DEF Kept
  <2>4. Accepted(ops', delivered)
    BY <1>5, <2>1 DEF Accepted
  <2> QED
    BY <1>3, <2>1, <2>2, <2>3, <2>4 DEF ExchangeOK
<1>9. ASSUME NEW m \in Msgs, RunPosted(m) PROVE ExchangeOK'
  <2>1. /\ ops[m].res \in Outcomes /\ (ops[m].res = "aborted" \/ ops[m].qos # 0)
    BY <1>9, RunPostedBasic
  <2>2. /\ ops[m].phase = "posted" /\ OnReply(m, ops[m].res)
        /\ UNCHANGED <<open, c2b, b2c, session, delivered, wire>>
    BY <1>9 DEF RunPosted, broker
  <2>3. Accepted(ops', delivered)
    <3>1. ops[m].res = "ok" => delivered[m] > 0
      BY <1>5, <2>1, <2>2 DEF Accepted
    <3> QED
      BY <1>5, <2>1, <2>2, <3>1, AcceptedReply
  <2>4. ASSUME open PROVE E(ops', batch', sent', fast') /\ K(ops', fast')
    <3>1. /\ ops[m].res \in {"ok", "error", "malformed"}
          /\ ops[m].stage = "pubrel" \/ ops[m].res = "error" => ops[m].pid \notin session
      BY <1>3, <2>2, <2>4 DEF Kept
    <3>2. ops[m].qos # 0 /\ ~Expecting(ops, batch, sent, m)
      BY <2>1, <2>2, <3>1 DEF Expecting
    <3> QED
      BY <1>3, <1>4, <2>2, <2>4, <3>1, <3>2, ExchangeReply
  <2> QED
    BY <1>3, <2>2, <2>3, <2>4 DEF ExchangeOK
<1>10. ASSUME Cancel \/ NoRecovery \/ WriteAborted PROVE ExchangeOK'
  <2>1. ~open' /\ delivered' = delivered
    <3>1. CASE Cancel \/ NoRecovery
      BY <3>1 DEF Cancel, NoRecovery, CloseClient, broker
    <3>2. CASE WriteAborted
      BY <3>2 DEF WriteAborted, broker
    <3> QED
      BY <1>10, <3>1, <3>2
  <2>2. \A m \in Msgs : \/ ops'[m] = ops[m]
                        \/ /\ ops'[m].qos = ops[m].qos /\ ops'[m].stage = ops[m].stage
                           /\ ops'[m].phase # "done" => ops[m].phase \notin {"idle", "done"}
                           /\ ops'[m].res # "ok"
    <3>1. CASE Cancel \/ NoRecovery
      <4>1. PICK done \in {{}, OpsOf(batch)} :
            ops' = [m \in Msgs |->
                  IF m \in done
                  THEN [ops[m] EXCEPT !.phase = "done", !.res = "no_recovery"]
                  ELSE IF m \in Outstanding(queue)
                  THEN [ops[m] EXCEPT !.phase = "posted", !.res = "aborted"]
                  ELSE ops[m]]
        BY <3>1 DEF Cancel, NoRecovery, CloseClient
      <4>2. \A m \in Outstanding(queue) : m \in Msgs => ops[m].phase \notin {"idle", "done"}
        BY <1>1, SMT DEF Outstanding, Waiting, OpsOf, Requests, ReqOK, DisconnectReq
      <4> QED
        BY <1>1, <4>1, <4>2 DEF OpSet
    <3>2. CASE WriteAborted
      <4>1. ops' = [m \in Msgs |-> IF m \in OpsOf(batch)
                                     THEN [ops[m] EXCEPT !.phase = "done",
                                                         !.res = "aborted"]
                                     ELSE ops[m]]
        BY <3>2 DEF WriteAborted
      <4> QED
        BY <1>1, <4>1 DEF OpSet
    <3> QED
      BY <1>10, <3>1, <3>2
  <2>3. Accepted(ops', delivered)
    BY <1>5, <2>2 DEF Accepted
  <2> QED
    BY <2>1, <2>3 DEF ExchangeOK
<1>11. CASE ReadReply
  <2> DEFINE x == Head(b2c)
             r == Tail(b2c)
  <2>1. /\ open /\ b2c # <<>> /\ b2c' = r
        /\ UNCHANGED <<open, c2b, session, delivered, wire>>
        /\ \/ /\ \A m \in Msgs : ~(ops[m].phase = "waiting" /\ Answers(x, ops[m]))
              /\ fast' = Append(fast, x) /\ UNCHANGED <<ops, batch, sent>>
           \/ \E m \in Msgs : ops[m].phase = "waiting" /\ Answers(x, ops[m]) /\ OnReply(m, x.res)
    BY <1>11 DEF ReadReply, broker
  <2>2. /\ 1 \in DOMAIN b2c /\ x = b2c[1] /\ x \in ReplySet
        /\ \A i \in DOMAIN r : i \in Nat /\ i + 1 \in DOMAIN b2c /\ r[i] = b2c[i + 1] /\ i + 1 # 1
    BY <1>1, <2>1, SMT
  <2> HIDE DEF r, x
  <2>3. PICK n \in Msgs : Expecting(ops, batch, sent, n) /\ Answered(ops, delivered, x, n)
    BY <1>3, <2>1, <2>2 DEF Exchange
  <2>4. /\ \A i \in DOMAIN c2b : NeedsReply(c2b[i]) => c2b[i].pid # x.pid
        /\ \A i \in DOMAIN r : r[i].pid # x.pid
        /\ \A i \in DOMAIN fast : fast[i].pid # x.pid
    <3>1. Apart(c2b, b2c, fast)
      BY <1>3, <2>1 DEF Exchange
    <3>2. \A i \in DOMAIN r : r[i].pid # x.pid
      BY <2>2, <3>1 DEF Apart
    <3> QED
      BY <2>2, <3>1, <3>2 DEF Apart
  <2>5. Apart(c2b, r, fast)
    <3>1. Apart(c2b, b2c, fast)
      BY <1>3, <2>1 DEF Exchange
    <3>2. \A i, j \in DOMAIN r : i + 1 = j + 1 => i = j
      BY <2>2, SMT
    <3>3. ASSUME NEW i \in DOMAIN r, NEW j \in DOMAIN r, r[i].pid = r[j].pid
          PROVE  i = j
      <4>1. b2c[i + 1].pid = b2c[j + 1].pid /\ i + 1 \in DOMAIN b2c /\ j + 1 \in DOMAIN b2c
        BY <2>2, <3>3
      <4> QED
        BY <3>1, <3>2, <4>1 DEF Apart
    <3>4. ASSUME NEW j \in DOMAIN r
          PROVE  /\ \A i \in DOMAIN c2b : NeedsReply(c2b[i]) => c2b[i].pid # r[j].pid
                 /\ \A i \in DOMAIN fast : r[j].pid # fast[i].pid
      <4>1. r[j] = b2c[j + 1] /\ j + 1 \in DOMAIN b2c
        BY <2>2
      <4> QED
        BY <3>1, <4>1 DEF Apart
    <3> QED
      BY <3>1, <3>3, <3>4 DEF Apart
  <2>6. Exchange(ops, batch, sent, c2b, r, fast, delivered)
    BY <1>3, <2>1, <2>2, <2>5 DEF Exchange
  <2>7. Kept(ops, r, fast, delivered, session) /\ (Ends(x) => x.pid \notin session)
    BY <1>3, <2>1, <2>2, SMT DEF Kept
  <2>8. CASE /\ \A m \in Msgs : ~(ops[m].phase = "waiting" /\ Answers(x, ops[m]))
             /\ fast' = Append(fast, x) /\ UNCHANGED <<ops, batch, sent>>
    <3>1. ops[n].phase = "sending" /\ Written(batch, sent, n)
      BY <2>3, <2>8 DEF Expecting, Answered
    <3>2. \A i \in DOMAIN fast' : \/ i \in DOMAIN fast /\ fast'[i] = fast[i]
                                  \/ i = Len(fast) + 1 /\ fast'[i] = x
      BY <1>1, <2>8, SMT
    <3>3. Apart(c2b, r, fast')
      <4>1. \A i, j \in DOMAIN fast' : fast'[i].pid = fast'[j].pid => i = j
        BY <2>4, <2>5, <3>2 DEF Apart
      <4>2. /\ \A i \in DOMAIN c2b, j \in DOMAIN fast' :
                  NeedsReply(c2b[i]) => c2b[i].pid # fast'[j].pid
            /\ \A i \in DOMAIN r, j \in DOMAIN fast' : r[i].pid # fast'[j].pid
        BY <2>4, <2>5, <3>2 DEF Apart
      <4> QED
        BY <2>5, <4>1, <4>2 DEF Apart
    <3>4. ASSUME NEW i \in DOMAIN fast'
          PROVE  \E m \in Msgs : /\ ops[m].phase = "sending" /\ Written(batch, sent, m)
                                 /\ Answered(ops, delivered, fast'[i], m)
      BY <2>3, <2>6, <3>1, <3>2 DEF Exchange
    <3>5. Exchange(ops, batch, sent, c2b, r, fast', delivered)
      BY <2>6, <3>3, <3>4 DEF Exchange
    <3>6. Kept(ops, r, fast', delivered, session)
      BY <2>7, <3>2 DEF Kept
    <3> QED
      BY <1>3, <1>5, <2>1, <2>2, <2>8, <3>5, <3>6 DEF ExchangeOK
  <2>9. CASE \E m \in Msgs : ops[m].phase = "waiting" /\ Answers(x, ops[m]) /\ OnReply(m, x.res)
    <3>1. PICK m \in Msgs : ops[m].phase = "waiting" /\ Answers(x, ops[m]) /\ OnReply(m, x.res)
      BY <2>9
    <3>2. ops[m].qos # 0
      BY <3>1 DEF Basic, QosFits
    <3>3. n = m
      BY <2>3, <3>1, <3>2 DEF PidsApart, Answered, Answers, Expecting, Live
    <3>4. /\ x.res \in {"ok", "error", "malformed"} /\ x.pid = ops[m].pid
          /\ x.res \in Outcomes
          /\ ops[m].stage = "pubrel" => x.type = "PUBCOMP"
      BY <2>2, <3>1 DEF ReplySet, Outcomes, Answers, Awaited
    <3>5. ops[m].stage = "pubrel" \/ x.res = "error" => ops[m].pid \notin session
      BY <2>7, <3>4 DEF Ends
    <3>6. /\ Exchange(ops', batch', sent', c2b, r, fast', delivered)
          /\ Kept(ops', r, fast', delivered, session)
      <4>1. PICK res \in {"ok", "error", "malformed"} : res = x.res
        BY <3>4
      <4>2. /\ \A i \in DOMAIN c2b : NeedsReply(c2b[i]) => c2b[i].pid # ops[m].pid
            /\ \A i \in DOMAIN r : r[i].pid # ops[m].pid
            /\ \A i \in DOMAIN fast : fast[i].pid # ops[m].pid
        BY <2>4, <3>4
      <4>3. ops[m].phase \in {"waiting", "posted"} /\ OnReply(m, res)
        BY <3>1, <4>1
      <4>4. ops[m].stage = "pubrel" \/ res = "error" => ops[m].pid \notin session
        BY <3>5, <4>1
      <4>5. Kept(ops, r, fast, delivered, session)
        BY <2>7
      <4> QED
        BY <1>4, <2>6, <3>2, <4>2, <4>3, <4>4, <4>5, ExchangeReply
    <3>7. Accepted(ops', delivered)
      <4>1. x.res = "ok" => delivered[m] > 0
        BY <2>3, <3>3 DEF Answered
      <4> QED
        BY <1>5, <3>1, <3>2, <3>4, <4>1, AcceptedReply
    <3> QED
      BY <1>3, <2>1, <2>2, <3>6, <3>7 DEF ExchangeOK
  <2> QED
    BY <2>1, <2>8, <2>9
<1>12. CASE WriteSome
  <2>1. open /\ UNCHANGED <<ops, batch, fast, open, b2c, session, delivered>>
    BY <1>12 DEF WriteSome, broker
  <2>2. wire' # <<>>
    <3>1. PICK y : wire' = Append(wire, y)
      BY <1>12 DEF WriteSome
    <3>2. wire \in Seq(WireSet)
      BY DEF Basic, FlowTypeOK, NetTypeOK
    <3> QED
      BY <3>1, <3>2, SMT
  <2>3. Exchange(ops, batch, sent', c2b', b2c, fast, delivered)
    BY <1>3, <1>12, <2>1, ExchangeSends
  <2> QED
    BY <1>3, <1>5, <2>1, <2>2, <2>3 DEF ExchangeOK
<1>13. CASE WriteDone
  <2>1. open /\ UNCHANGED <<open, c2b, b2c, session, delivered, wire>>
    BY <1>13 DEF WriteDone, broker
  <2>2. E(ops', batch', sent', fast') /\ K(ops', fast') /\ Accepted(ops', delivered)
    BY <1>3, <1>5, <1>13, <2>1, ExchangeWritten
  <2> QED
    BY <1>3, <2>1, <2>2 DEF ExchangeOK
<1>14. CASE Sentry
  <2>1. /\ open /\ UNCHANGED <<ops, open, c2b, b2c, session, delivered, wire>>
        /\ DoWrite(TRUE, batch, Append(queue, DisconnectReq), quota, fast)
    BY <1>14 DEF Sentry, broker
  <2>2. PICK a \in Seq(ReqSet) : DoWrite(TRUE, batch, a, quota, fast)
    <3>1. Append(queue, DisconnectReq) \in Seq(ReqSet)
      BY <1>1, RequestsDisconnect
    <3> QED
      BY <2>1, <3>1
  <2>3. E(ops, batch', sent', fast') /\ K(ops, fast')
    BY <1>1, <1>2, <1>3, <2>1, <2>2, ExchangeWork
  <2> QED
    BY <1>3, <1>5, <2>1, <2>3 DEF ExchangeOK
<1>15. CASE Reconnect
  <2>1. /\ open /\ open'
        /\ gen' = gen => UNCHANGED <<wire, c2b, b2c, session>>
        /\ gen' # gen => c2b' = <<>> /\ b2c' = <<>>
        /\ delivered' = delivered /\ (session' = session \/ session' = {})
        /\ \/ /\ Resends /\ sent < Len(batch) /\ (gen' = gen => wgen < gen)
           \/ /\ Resends /\ batch = <<>> /\ (gen' = gen => rgen < gen)
           \/ UNCHANGED <<ops, batch, sent, fast>>
    BY <1>15, ReconnectShape
  <2>2. CASE /\ Resends
             /\ \/ sent < Len(batch) /\ (gen' = gen => wgen < gen)
                \/ batch = <<>> /\ (gen' = gen => rgen < gen)
    BY <1>15, <2>1, <2>2, ExchangeResend
  <2>3. CASE UNCHANGED <<ops, batch, sent, fast>> /\ gen' = gen
    BY <1>3, <1>5, <2>1, <2>3 DEF ExchangeOK
  <2>4. CASE UNCHANGED <<ops, batch, sent, fast>> /\ gen' # gen
    <3>1. Apart(<<>>, <<>>, fast)
      BY <1>3, <2>1, SMT DEF Exchange, Apart
    <3>2. Exchange(ops, batch, sent, <<>>, <<>>, fast, delivered)
      BY <1>3, <2>1, <3>1, SMT DEF Exchange
    <3>3. Kept(ops, <<>>, fast, delivered, session')
      BY <1>3, <2>1, SMT DEF Kept
    <3> QED
      BY <1>5, <2>1, <2>4, <3>2, <3>3 DEF ExchangeOK
  <2> QED
    BY <2>1, <2>2, <2>3, <2>4
<1>16. CASE Break
  BY <1>6, <1>16 DEF Break, client, broker
<1>17. CASE BrokerReceive
  <2> DEFINE p == Head(c2b)
  <2>1. UNCHANGED <<ops, batch, sent, fast, open, wire>>
    BY <1>17, NetworkBasic
  <2>2. /\ c2b # <<>>
        /\ \/ /\ c2b' = <<>> /\ UNCHANGED <<b2c, session, delivered>>
           \/ /\ c2b' = Tail(c2b) /\ UNCHANGED <<b2c, session>>
              /\ p.type = "PUBLISH" /\ p.qos = 0
              /\ delivered' = Bump(delivered, p.msg)
           \/ /\ c2b' = Tail(c2b)
              /\ \E x \in ReplySet : /\ x.pid = p.pid /\ Serves(p, x)
                                     /\ b2c' = b2c \/ b2c' = Append(b2c, x)
    BY <1>17, BrokerCases
  <2>3. 1 \in DOMAIN c2b /\ p = c2b[1] /\ p \in PacketSet
    BY <1>1, <2>2, SMT
  <2> HIDE DEF p
  <2>4. p.type # "DISCONNECT" => p.msg \in Msgs
    BY <2>3 DEF Basic, FlowTypeOK, NetTypeOK
  <2>5. \A m \in Msgs : delivered[m] > 0 => delivered'[m] > 0
    <3>1. delivered' = delivered \/ delivered' = Bump(delivered, p.msg)
      BY <2>2 DEF Serves
    <3>2. \A m \in Msgs : Bump(delivered, p.msg)[m]
                          = IF m = p.msg THEN IF delivered[m] < 2 THEN delivered[m] + 1 ELSE 2
                            ELSE delivered[m]
      BY <1>1 DEF Bump
    <3>3. \A m \in Msgs : delivered[m] \in 0..2
      BY <1>1
    <3> QED
      BY <3>1, <3>2, <3>3, SMT
  <2>6. Accepted(ops', delivered')
    BY <1>5, <2>1, <2>5 DEF Accepted
  <2>7. wire = <<>> => ~open
    BY <1>3, <2>2
  <2>8. CASE ~open
    BY <2>1, <2>6, <2>8 DEF ExchangeOK
  <2>9. CASE open /\ c2b' = <<>> /\ UNCHANGED <<b2c, session, delivered>>
    <3>1. Apart(c2b, b2c, fast) /\ E(ops, batch, sent, fast)
      BY <1>3, <2>9 DEF Exchange
    <3>2. PICK c : c = <<>> /\ DOMAIN c = {}
      BY SMT
    <3>3. Apart(c, b2c, fast)
      BY <3>1, <3>2 DEF Apart
    <3>4. Exchange(ops, batch, sent, c, b2c, fast, delivered)
      BY <3>1, <3>2, <3>3 DEF Exchange
    <3>5. Exchange(ops', batch', sent', c2b', b2c', fast', delivered')
      BY <2>1, <2>9, <3>2, <3>4
    <3>6. Kept(ops', b2c', fast', delivered', session')
      BY <1>3, <2>1, <2>9
    <3> QED
      BY <2>1, <2>6, <2>7, <3>5, <3>6 DEF ExchangeOK
  <2>10. ASSUME open, c2b' = Tail(c2b) PROVE Exchange(ops, batch, sent, c2b', b2c, fast, delivered')
    BY <1>1, <1>3, <2>2, <2>5, <2>10, ExchangeTail
  <2>11. CASE open /\ c2b' = Tail(c2b) /\ UNCHANGED <<b2c, session>>
              /\ delivered' = Bump(delivered, p.msg)
    <3>1. Kept(ops, b2c, fast, delivered', session)
      BY <1>3, <2>5, <2>11 DEF Kept
    <3> QED
      BY <2>1, <2>6, <2>7, <2>10, <2>11, <3>1 DEF ExchangeOK
  <2>12. CASE /\ open /\ c2b' = Tail(c2b)
              /\ \E x \in ReplySet : /\ x.pid = p.pid /\ Serves(p, x)
                                     /\ b2c' = b2c \/ b2c' = Append(b2c, x)
    <3>1. PICK x \in ReplySet : /\ x.pid = p.pid /\ Serves(p, x)
                                /\ b2c' = b2c \/ b2c' = Append(b2c, x)
      BY <2>12
    <3>2. NeedsReply(p) /\ p.msg \in Msgs
      BY <2>4, <3>1, SMT DEF Serves, NeedsReply
    <3>3. /\ Expecting(ops, batch, sent, p.msg) /\ ops[p.msg].qos = p.qos
          /\ ops[p.msg].pid = p.pid /\ p.type = Packet(ops, p.msg).type
      BY <1>3, <2>3, <2>12, <3>2 DEF Exchange
    <3>4. /\ ops[p.msg].phase \in {"waiting", "sending"}
          /\ p.type = "PUBREL" <=> ops[p.msg].stage = "pubrel"
          /\ ops[p.msg].stage = "pubrel" => ops[p.msg].qos = 2
      BY <3>2, <3>3 DEF Expecting, Packet, Basic, QosFits
    <3>5. ops[p.msg].qos # 0 /\ Live(p.msg)
      BY <3>1, <3>3, <3>4, SMT DEF Serves, Live
    <3>6. x.type = Awaited(ops[p.msg])
      BY <3>1, <3>3, <3>4, SMT DEF Serves, Awaited
    <3>7. \A m \in Msgs : Live(m) /\ ops[m].qos # 0 /\ ops[m].pid = p.pid => m = p.msg
      BY <3>2, <3>3, <3>5 DEF PidsApart
    <3>8. p.msg \in DOMAIN delivered /\ Bump(delivered, p.msg)[p.msg] > 0
      <4>1. p.msg \in DOMAIN delivered /\ delivered[p.msg] \in 0..2
        BY <1>1, <3>2
      <4>2. Bump(delivered, p.msg)[p.msg]
            = IF delivered[p.msg] < 2 THEN delivered[p.msg] + 1 ELSE 2
        BY <4>1 DEF Bump
      <4> QED
        BY <4>1, <4>2, SMT
    <3>9. x.res = "ok" => delivered'[p.msg] > 0
      <4>1. CASE p.type = "PUBLISH" /\ delivered' = Bump(delivered, p.msg)
        BY <3>8, <4>1
      <4>2. CASE p.type = "PUBLISH" /\ p.qos = 2 /\ p.pid \in session /\ delivered' = delivered
        <5>1. PICK m \in Msgs : /\ ops[m].phase \notin {"idle", "done"} /\ ops[m].qos = 2
                                /\ ops[m].pid = p.pid /\ delivered[m] > 0
          BY <1>3, <2>12, <4>2 DEF Kept
        <5> QED
          BY <3>7, <4>2, <5>1, SMT DEF Live
      <4>3. CASE p.type = "PUBREL" /\ delivered' = delivered
        BY <1>5, <3>2, <3>4, <3>5, <4>3 DEF Accepted, Live
      <4> QED
        BY <3>1, <4>1, <4>2, <4>3 DEF Serves
    <3>10. Answered(ops, delivered', x, p.msg)
      BY <3>1, <3>3, <3>5, <3>6, <3>9 DEF Answered, Answers
    <3>11. Exchange(ops, batch, sent, c2b', b2c', fast, delivered')
      <4>1. CASE b2c' = b2c
        BY <2>10, <2>12, <4>1
      <4>2. CASE b2c' = Append(b2c, x)
        <5>1. Exchange(ops, batch, sent, Tail(c2b), Append(b2c, x), fast, delivered')
          BY <1>1, <1>3, <2>2, <2>5, <2>12, <3>1, <3>2, <3>10, ExchangeServed DEF p
        <5> QED
          BY <2>12, <4>2, <5>1
      <4> QED
        BY <3>1, <4>1, <4>2
    <3>12. ASSUME NEW y \in session'
           PROVE  y \in session \/ (y = p.pid /\ p.qos = 2 /\ delivered'[p.msg] > 0)
      BY <3>1, <3>8, <3>12 DEF Serves
    <3>13. ASSUME NEW y \in session'
           PROVE  \E m \in Msgs : /\ ops[m].phase \notin {"idle", "done"} /\ ops[m].qos = 2
                                  /\ ops[m].pid = y /\ delivered'[m] > 0
      <4>1. CASE y \in session
        BY <1>3, <2>5, <2>12, <4>1 DEF Kept
      <4>2. CASE y = p.pid /\ p.qos = 2 /\ delivered'[p.msg] > 0
        BY <3>2, <3>3, <3>5, <4>2 DEF Live
      <4> QED
        BY <3>12, <4>1, <4>2
    <3>14. /\ \A i \in DOMAIN b2c : b2c[i].pid # p.pid
           /\ \A i \in DOMAIN fast : fast[i].pid # p.pid
      BY <1>3, <2>3, <2>12, <3>2 DEF Exchange, Apart
    <3>15. Ends(x) => x.pid \notin session'
      <4>1. CASE p.type = "PUBLISH" /\ p.qos = 1 /\ session' = session
        <5>1. p.pid \notin session
          <6> SUFFICES ASSUME p.pid \in session PROVE FALSE
            OBVIOUS
          <6>1. PICK m \in Msgs : /\ ops[m].phase \notin {"idle", "done"} /\ ops[m].qos = 2
                                  /\ ops[m].pid = p.pid
            BY <1>3, <2>12 DEF Kept
          <6>2. m = p.msg
            BY <3>7, <6>1, SMT DEF Live
          <6> QED
            BY <3>3, <4>1, <6>1, <6>2, SMT
        <5> QED
          BY <3>1, <4>1, <5>1
      <4>2. CASE p.type = "PUBLISH" /\ p.qos = 2
        BY <3>1, <4>2, SMT DEF Serves, Ends
      <4>3. CASE p.type = "PUBREL"
        BY <3>1, <4>3 DEF Serves
      <4> QED
        BY <3>1, <4>1, <4>2, <4>3 DEF Serves
    <3>16. \A i \in DOMAIN b2c' : (i \in DOMAIN b2c /\ b2c'[i] = b2c[i]) \/ b2c'[i] = x
      <4>1. CASE b2c' = b2c
        BY <4>1
      <4>2. CASE b2c' = Append(b2c, x)
        <5>1. b2c \in Seq(ReplySet)
          BY <1>1
        <5> QED
          BY <4>2, <5>1, SMT
      <4> QED
        BY <3>1, <4>1, <4>2
    <3>17. /\ \A i \in DOMAIN b2c' : Ends(b2c'[i]) => b2c'[i].pid \notin session'
           /\ \A i \in DOMAIN fast : Ends(fast[i]) => fast[i].pid \notin session'
      <4>1. /\ \A i \in DOMAIN b2c : Ends(b2c[i]) => b2c[i].pid \notin session
            /\ \A i \in DOMAIN fast : Ends(fast[i]) => fast[i].pid \notin session
        BY <1>3, <2>12 DEF Kept
      <4>2. /\ \A i \in DOMAIN b2c : Ends(b2c[i]) => b2c[i].pid \notin session'
            /\ \A i \in DOMAIN fast : Ends(fast[i]) => fast[i].pid \notin session'
        BY <3>12, <3>14, <4>1
      <4> QED
        BY <3>15, <3>16, <4>2
    <3>18. ASSUME NEW m \in Msgs, ops[m].phase = "posted"
           PROVE  /\ ops[m].res \in {"ok", "error", "malformed"}
                  /\ ops[m].stage = "pubrel" \/ ops[m].res = "error" => ops[m].pid \notin session'
      <4>1. /\ ops[m].res \in {"ok", "error", "malformed"}
            /\ ops[m].stage = "pubrel" \/ ops[m].res = "error" => ops[m].pid \notin session
        BY <1>3, <2>12, <3>18 DEF Kept
      <4>2. ops[m].qos # 0
        BY <3>18, <4>1 DEF Basic, QosFits
      <4>3. ops[m].pid # p.pid
        BY <3>4, <3>7, <3>18, <4>2 DEF Live
      <4> QED
        BY <3>12, <4>1, <4>3
    <3>19. Kept(ops, b2c', fast, delivered', session')
      BY <3>13, <3>17, <3>18 DEF Kept
    <3> QED
      BY <2>1, <2>6, <2>7, <2>12, <3>11, <3>19 DEF ExchangeOK
  <2> QED
    BY <2>2, <2>8, <2>9, <2>11, <2>12
<1>18. CASE UNCHANGED vars
  BY <1>6, <1>18 DEF vars, client, network, broker
<1> QED
  BY <1>7, <1>8, <1>9, <1>10, <1>11, <1>12, <1>13, <1>14, <1>15, <1>16, <1>17, <1>18
  DEF Next, Reconnect, CancelOp

\* Steps after which an operation is at least as far as before.
LEMMA OnceOnward ==
    ASSUME NEW o, NEW p, NEW c, NEW d, NEW ss, Onward(o, p), OncePackets(o, c, d, ss),
           \A i \in DOMAIN c : c[i].type # "DISCONNECT" => c[i].msg \in Msgs
    PROVE  /\ OncePackets(p, c, d, ss)
           /\ (\A m \in Msgs : p[m].stage = "publish" => o[m].stage = "publish")
              /\ OnceOps(o, d, ss) => OnceOps(p, d, ss)
<1>1. OncePackets(p, c, d, ss)
  BY DEF OncePackets, Onward
<1>2. ASSUME \A m \in Msgs : p[m].stage = "publish" => o[m].stage = "publish",
             OnceOps(o, d, ss)
      PROVE  OnceOps(p, d, ss)
  BY <1>2 DEF OnceOps, Onward
<1> QED
  BY <1>1, <1>2

\* The kernel takes the next packet: no other packet of its message is under way.
LEMMA OnceSends ==
    ASSUME Basic, PidsApart, WriteSome, ExchangeOK, OnceOK
    PROVE  OncePackets(ops, c2b', delivered, session)
<1> DEFINE m == batch[sent + 1].op
           pkt == IF m = Disc
                  THEN [type |-> "DISCONNECT", msg |-> Disc, qos |-> 0, pid |-> 0,
                        dup |-> FALSE]
                  ELSE [type |-> IF ops[m].stage = "pubrel" THEN "PUBREL"
                                 ELSE "PUBLISH",
                        msg |-> m, qos |-> ops[m].qos, pid |-> ops[m].pid,
                        dup |-> ops[m].dup]
<1>1. c2b' = c2b \/ c2b' = Append(c2b, pkt)
  BY DEF WriteSome
<1>2. open
  BY DEF WriteSome
<1>3. /\ m # Disc => m \in Msgs /\ ops[m].phase = "sending"
      /\ c2b \in Seq(PacketSet) /\ ops \in [Msgs -> OpSet]
  BY WriteSomeBasic DEF Basic, FlowTypeOK, NetTypeOK
<1>4. pkt.type # "DISCONNECT" =>
        /\ pkt.msg = m /\ m # Disc /\ pkt.qos = ops[m].qos /\ pkt.pid = ops[m].pid
        /\ pkt.type = "PUBLISH" <=> ops[m].stage # "pubrel"
  OBVIOUS
<1> HIDE DEF pkt, m
<1>5. Exchange(ops, batch, sent', c2b', b2c, fast, delivered)
  BY <1>2, ExchangeSends DEF ExchangeOK
<1>6. \A i, j \in DOMAIN c2b' :
         NeedsReply(c2b'[i]) /\ NeedsReply(c2b'[j]) /\ c2b'[i].pid = c2b'[j].pid => i = j
  BY <1>5 DEF Exchange, Apart
<1>7. \A i \in DOMAIN c2b' : (i \in DOMAIN c2b /\ c2b'[i] = c2b[i]) \/ c2b'[i] = pkt
  <2>1. CASE c2b' = c2b
    BY <2>1
  <2>2. CASE c2b' = Append(c2b, pkt)
    BY <1>3, <2>2, SMT
  <2> QED
    BY <1>1, <2>1, <2>2
<1>8. /\ pkt.type # "DISCONNECT" =>
            /\ ops[pkt.msg].phase # "idle"
            /\ pkt.qos = ops[pkt.msg].qos /\ pkt.pid = ops[pkt.msg].pid
      /\ pkt.type = "PUBLISH" /\ pkt.qos = 2 => delivered[pkt.msg] = 0 \/ pkt.pid \in session
  <2>1. OnceOps(ops, delivered, session)
    BY <1>2 DEF OnceOK
  <2>2. ASSUME pkt.type = "PUBLISH", pkt.qos = 2
        PROVE  delivered[pkt.msg] = 0 \/ pkt.pid \in session
    <3>1. /\ m \in Msgs /\ ops[m].phase = "sending" /\ ops[m].stage # "pubrel"
          /\ ops[m].qos = 2 /\ pkt.msg = m /\ pkt.pid = ops[m].pid
      BY <1>3, <1>4, <2>2
    <3>2. ops[m].stage = "publish"
      BY <1>3, <3>1 DEF OpSet
    <3> QED
      BY <2>1, <3>1, <3>2 DEF OnceOps
  <2> QED
    BY <1>3, <1>4, <2>2
<1>9. OncePackets(ops, c2b, delivered, session)
  BY DEF OnceOK
<1> QED
  BY <1>6, <1>7, <1>8, <1>9 DEF OncePackets

\* The broker takes the next packet: it accepts a message that it does not know.
LEMMA OnceServed ==
    ASSUME Basic, PidsApart, BrokerReceive, ExchangeOK, OnceOK
    PROVE  /\ OncePackets(ops, c2b', delivered', session')
           /\ open => OnceOps(ops, delivered', session')
<1> DEFINE p == Head(c2b)
<1>1. /\ c2b # <<>>
      /\ \/ /\ c2b' = <<>> /\ UNCHANGED <<session, delivered>>
         \/ /\ c2b' = Tail(c2b) /\ UNCHANGED session
            /\ p.type = "PUBLISH" /\ p.qos = 0
            /\ delivered' = Bump(delivered, p.msg)
         \/ /\ c2b' = Tail(c2b) /\ \E x \in ReplySet : Serves(p, x)
  BY BrokerCases
<1>2. /\ c2b \in Seq(PacketSet) /\ delivered \in [Msgs -> 0..2] /\ QosFits(ops)
      /\ OncePackets(ops, c2b, delivered, session)
      /\ \A i \in DOMAIN c2b : c2b[i].type # "DISCONNECT" => c2b[i].msg \in Msgs
  BY DEF Basic, FlowTypeOK, NetTypeOK, OnceOK
<1>3. 1 \in DOMAIN c2b /\ p = c2b[1]
  BY <1>1, <1>2, SMT
<1> HIDE DEF p
<1>4. CASE c2b' = <<>> /\ UNCHANGED <<session, delivered>>
  <2>1. OncePackets(ops, <<>>, delivered, session)
    <3>1. PICK c : c = <<>> /\ DOMAIN c = {}
      BY SMT
    <3>2. OncePackets(ops, c, delivered, session)
      BY <1>2, <3>1 DEF OncePackets
    <3> QED
      BY <3>1, <3>2
  <2> QED
    BY <1>4, <2>1 DEF OnceOK
<1>5. ASSUME c2b' = Tail(c2b)
      PROVE  \A i \in DOMAIN c2b' : \E j \in DOMAIN c2b : j = i + 1 /\ j # 1 /\ c2b'[i] = c2b[j]
                                                          /\ i \in Nat
  BY <1>1, <1>2, <1>5, SMT
<1>6. ASSUME p.msg \in Msgs
      PROVE  \A m \in Msgs : Bump(delivered, p.msg)[m]
                = IF m = p.msg THEN IF delivered[m] < 2 THEN delivered[m] + 1 ELSE 2
                  ELSE delivered[m]
  BY <1>2, <1>6 DEF Bump
<1>7. ASSUME c2b' = Tail(c2b), p.type # "DISCONNECT",
             NEW ss, NEW d \in [Msgs -> 0..2],
             \A m \in Msgs \ {p.msg} : d[m] = delivered[m],
             ops[p.msg].qos = 2 => d[p.msg] <= 1,
             \A y \in session : y \in ss \/ (NeedsReply(p) /\ y = p.pid),
             p.type = "PUBLISH" /\ p.qos = 2 /\ d[p.msg] # 0 => p.pid \in ss
                                                                \/ d[p.msg] = delivered[p.msg],
             p.type = "PUBREL" => d[p.msg] = delivered[p.msg]
      PROVE  OncePackets(ops, c2b', d, ss)
  <2>1. p.msg \in Msgs /\ ops[p.msg].phase # "idle" /\ p.qos = ops[p.msg].qos
        /\ p.pid = ops[p.msg].pid
    BY <1>2, <1>3, <1>7 DEF OncePackets
  <2>2. \A m \in Msgs : /\ ops[m].phase = "idle" => d[m] = 0
                        /\ ops[m].qos = 2 => d[m] <= 1
    BY <1>2, <1>7, <2>1 DEF OncePackets
  <2>3. \A i, j \in DOMAIN c2b' :
           NeedsReply(c2b'[i]) /\ NeedsReply(c2b'[j]) /\ c2b'[i].pid = c2b'[j].pid => i = j
    BY <1>2, <1>5, <1>7, SMT DEF OncePackets
  <2>4. ASSUME NEW i \in DOMAIN c2b', c2b'[i].type # "DISCONNECT"
        PROVE  /\ ops[c2b'[i].msg].phase # "idle"
               /\ c2b'[i].qos = ops[c2b'[i].msg].qos /\ c2b'[i].pid = ops[c2b'[i].msg].pid
               /\ c2b'[i].type = "PUBLISH" /\ c2b'[i].qos = 2
                     => d[c2b'[i].msg] = 0 \/ c2b'[i].pid \in ss
    <3>1. PICK j \in DOMAIN c2b : j # 1 /\ c2b'[i] = c2b[j]
      BY <1>5, <1>7
    <3>2. /\ c2b[j].msg \in Msgs /\ ops[c2b[j].msg].phase # "idle"
          /\ c2b[j].qos = ops[c2b[j].msg].qos /\ c2b[j].pid = ops[c2b[j].msg].pid
          /\ c2b[j].type = "PUBLISH" /\ c2b[j].qos = 2
                => delivered[c2b[j].msg] = 0 \/ c2b[j].pid \in session
      BY <1>2, <2>4, <3>1 DEF OncePackets
    <3>3. ASSUME c2b[j].type = "PUBLISH", c2b[j].qos = 2, NeedsReply(p) PROVE c2b[j].pid # p.pid
      BY <1>2, <1>3, <3>1, <3>3, SMT DEF OncePackets, NeedsReply
    <3>4. ASSUME c2b[j].type = "PUBLISH", c2b[j].qos = 2
          PROVE  d[c2b[j].msg] = 0 \/ c2b[j].pid \in ss
      <4>1. c2b[j].msg # p.msg
        <5> SUFFICES ASSUME c2b[j].msg = p.msg PROVE FALSE
          OBVIOUS
        <5>1. c2b[j].pid = p.pid /\ p.qos = 2
          BY <2>1, <3>2, <3>4
        <5>2. NeedsReply(p)
          <6>1. p \in PacketSet
            BY <1>2, <1>3, SMT
          <6>2. p.type \in {"PUBLISH", "PUBREL"}
            BY <1>7, <6>1 DEF PacketSet
          <6> QED
            BY <5>1, <6>2, SMT DEF NeedsReply
        <5> QED
          BY <3>3, <3>4, <5>1, <5>2
      <4>2. d[c2b[j].msg] = delivered[c2b[j].msg]
        BY <1>7, <3>2, <4>1
      <4> QED
        BY <1>7, <3>2, <3>3, <3>4, <4>2
    <3> QED
      BY <3>1, <3>2, <3>4
  <2> QED
    BY <2>2, <2>3, <2>4 DEF OncePackets
<1>8. CASE /\ c2b' = Tail(c2b) /\ UNCHANGED session
           /\ p.type = "PUBLISH" /\ p.qos = 0
           /\ delivered' = Bump(delivered, p.msg)
  <2>1. p.msg \in Msgs /\ ops[p.msg].qos = 0
    BY <1>2, <1>3, <1>8 DEF OncePackets
  <2>2. /\ delivered' \in [Msgs -> 0..2]
        /\ \A m \in Msgs \ {p.msg} : delivered'[m] = delivered[m]
    BY <1>6, <1>8, <2>1, NetworkBasic DEF Basic, FlowTypeOK, NetTypeOK
  <2>3. OncePackets(ops, c2b', delivered', session)
    BY <1>7, <1>8, <2>1, <2>2, SMT
  <2>4. open => OnceOps(ops, delivered', session)
    BY <2>1, <2>2, SMT DEF OnceOK, OnceOps
  <2> QED
    BY <1>8, <2>3, <2>4
<1>9. ASSUME c2b' = Tail(c2b), NEW x \in ReplySet, Serves(p, x)
      PROVE  /\ OncePackets(ops, c2b', delivered', session')
             /\ open => OnceOps(ops, delivered', session')
  <2>1. NeedsReply(p) /\ p.type # "DISCONNECT"
    BY <1>9, SMT DEF Serves, NeedsReply
  <2>2. /\ p.msg \in Msgs /\ ops[p.msg].qos = p.qos /\ ops[p.msg].pid = p.pid
        /\ p.type = "PUBLISH" /\ p.qos = 2 => delivered[p.msg] = 0 \/ p.pid \in session
        /\ ops[p.msg].qos = 2 => delivered[p.msg] <= 1
        /\ delivered[p.msg] \in 0..2
    BY <1>2, <1>3, <2>1 DEF OncePackets
  <2>3. /\ delivered' \in [Msgs -> 0..2]
        /\ \A m \in Msgs \ {p.msg} : delivered'[m] = delivered[m]
    <3>1. delivered' \in [Msgs -> 0..2]
      BY NetworkBasic DEF Basic, FlowTypeOK, NetTypeOK
    <3>2. delivered' = delivered \/ delivered' = Bump(delivered, p.msg)
      BY <1>9 DEF Serves
    <3> QED
      BY <1>6, <2>2, <3>1, <3>2
  <2>4. /\ ops[p.msg].qos = 2 => delivered'[p.msg] <= 1
        /\ p.type = "PUBLISH" /\ p.qos = 2 /\ delivered'[p.msg] # 0 => p.pid \in session'
                                             \/ delivered'[p.msg] = delivered[p.msg]
        /\ p.type = "PUBREL" => delivered'[p.msg] = delivered[p.msg]
    <3>1. CASE delivered' = delivered
      BY <2>2, <3>1
    <3>2. CASE p.qos = 1
      BY <1>9, <2>2, <3>2, SMT DEF Serves
    <3>3. CASE /\ p.type = "PUBLISH" /\ p.qos = 2 /\ p.pid \notin session
               /\ delivered' = Bump(delivered, p.msg) /\ session' = session \cup {p.pid}
      BY <1>6, <2>2, <3>3, SMT
    <3> QED
      BY <1>9, <3>1, <3>2, <3>3 DEF Serves
  <2>5. \A y \in session : y \in session' \/ (p.type = "PUBREL" /\ y = p.pid)
    BY <1>9 DEF Serves
  <2>6. OncePackets(ops, c2b', delivered', session')
    BY <1>7, <1>9, <2>1, <2>3, <2>4, <2>5
  <2>7. ASSUME open PROVE OnceOps(ops, delivered', session')
    <3> SUFFICES ASSUME NEW m \in Msgs, ops[m].phase \notin {"idle", "done"},
                        ops[m].stage = "publish", ops[m].qos = 2
                 PROVE  delivered'[m] = 0 \/ ops[m].pid \in session'
      BY DEF OnceOps
    <3>1. delivered[m] = 0 \/ ops[m].pid \in session
      BY <2>7 DEF OnceOK, OnceOps
    <3>2. /\ Expecting(ops, batch, sent, p.msg) /\ p.type = Packet(ops, p.msg).type
      BY <1>3, <2>1, <2>7 DEF ExchangeOK, Exchange
    <3>3. ASSUME p.type = "PUBREL" PROVE ops[m].pid # p.pid
      <4>1. ops[p.msg].stage = "pubrel" /\ ops[p.msg].phase \in {"sending", "waiting"}
        BY <3>2, <3>3 DEF Packet, Expecting
      <4>2. ops[p.msg].qos = 2
        BY <1>2, <2>2, <4>1 DEF QosFits
      <4> QED
        BY <2>2, <4>1, <4>2, SMT DEF PidsApart, Live
    <3>4. CASE m # p.msg
      BY <2>3, <2>5, <3>1, <3>3, <3>4
    <3>5. CASE m = p.msg
      <4>1. p.type = "PUBLISH" /\ p.qos = 2
        BY <2>1, <2>2, <3>2, <3>5 DEF Packet
      <4>2. \/ session' = session /\ delivered' = delivered
            \/ p.pid \in session'
        BY <1>9, <4>1, SMT DEF Serves
      <4> QED
        BY <2>2, <3>1, <3>5, <4>2
    <3> QED
      BY <3>4, <3>5
  <2> QED
    BY <2>6, <2>7
<1> QED
  BY <1>1, <1>4, <1>8, <1>9

\* Every step keeps OnceOK.
LEMMA OnceNext ==
    ASSUME Laws, "session_lost" \notin Faults, "cancel_op" \notin Faults
    PROVE  Basic /\ PidsApart /\ ExchangeOK /\ OnceOK /\ [Next]_vars => OnceOK'
<1> SUFFICES ASSUME Basic, PidsApart, ExchangeOK, OnceOK, [Next]_vars PROVE OnceOK'
  OBVIOUS
<1>1. /\ ops \in [Msgs -> OpSet] /\ OncePackets(ops, c2b, delivered, session)
      /\ \A i \in DOMAIN c2b : c2b[i].type # "DISCONNECT" => c2b[i].msg \in Msgs
  BY DEF Basic, FlowTypeOK, NetTypeOK, OnceOK
<1>2. ASSUME Onward(ops, ops'), UNCHANGED <<c2b, session, delivered>>,
             open' => /\ open
                      /\ \A m \in Msgs : ops'[m].stage = "publish" => ops[m].stage = "publish"
      PROVE  OnceOK'
  <2>1. OncePackets(ops', c2b, delivered, session)
    BY <1>1, <1>2, OnceOnward
  <2>2. open' => OnceOps(ops', delivered, session)
    BY <1>1, <1>2, OnceOnward DEF OnceOK
  <2> QED
    BY <1>2, <2>1, <2>2 DEF OnceOK
<1>3. ASSUME NEW m \in Msgs, ops[m].phase = "idle", ops'[m].phase # "idle",
             \A n \in Msgs \ {m} : ops'[n] = ops[n],
             UNCHANGED <<open, c2b, session, delivered>>
      PROVE  OnceOK'
  <2>1. delivered[m] = 0
    BY <1>1, <1>3 DEF OncePackets
  <2>2. \A i \in DOMAIN c2b : c2b[i].type # "DISCONNECT" => c2b[i].msg \in Msgs \ {m}
    BY <1>1, <1>3 DEF OncePackets
  <2>3. OncePackets(ops', c2b, delivered, session)
    BY <1>1, <1>3, <2>1, <2>2, SMT DEF OncePackets
  <2>4. open => OnceOps(ops', delivered, session)
    BY <1>3, <2>1 DEF OnceOK, OnceOps
  <2> QED
    BY <1>3, <2>3, <2>4 DEF OnceOK
<1>4. ASSUME NEW m \in Msgs, NEW q \in QosSet, Publish(m, q) PROVE OnceOK'
  <2>1. /\ ops[m].phase = "idle" /\ ops'[m].phase = "sending"
        /\ \A n \in Msgs \ {m} : ops'[n] = ops[n]
    BY <1>4, PublishBasic
  <2>2. UNCHANGED <<open, c2b, session, delivered>>
    BY <1>4 DEF Publish, broker
  <2> QED
    BY <1>3, <2>1, <2>2
<1>5. ASSUME NEW m \in Msgs, NEW q \in QosSet, PublishFails(m, q) PROVE OnceOK'
  BY <1>3, <1>5, PublishFailsBasic
<1>6. ASSUME NEW m \in Msgs, ops[m].phase \in {"waiting", "posted"}, NEW res \in Outcomes,
             res = "aborted" \/ ops[m].qos # 0, OnReply(m, res)
      PROVE  \A n \in Msgs : ops'[n].stage = "publish" => ops[n].stage = "publish"
  <2>1. /\ \A n \in Msgs \ {m} : ops'[n] = ops[n]
        /\ ops'[m].stage = ops[m].stage \/ ops'[m].stage = "pubrel"
    BY <1>6, OnReplyShape
  <2> QED
    BY <2>1
<1>7. ASSUME NEW m \in Msgs, RunPosted(m) PROVE OnceOK'
  <2>1. /\ Onward(ops, ops') /\ ops[m].res \in Outcomes
        /\ ops[m].res = "aborted" \/ ops[m].qos # 0
    BY <1>7, RunPostedBasic
  <2>2. /\ ops[m].phase = "posted" /\ OnReply(m, ops[m].res)
        /\ UNCHANGED <<open, c2b, session, delivered>>
    BY <1>7 DEF RunPosted, broker
  <2>3. \A n \in Msgs : ops'[n].stage = "publish" => ops[n].stage = "publish"
    BY <1>6, <2>1, <2>2
  <2> QED
    BY <1>2, <2>1, <2>2, <2>3
<1>8. CASE Cancel \/ NoRecovery
  <2>1. Onward(ops, ops') /\ ~open'
    BY <1>8, CloseBasic
  <2>2. UNCHANGED <<c2b, session, delivered>>
    BY <1>8 DEF Cancel, NoRecovery, CloseClient, broker
  <2> QED
    BY <1>2, <2>1, <2>2
<1>9. CASE WriteAborted
  <2>1. Onward(ops, ops')
    BY <1>9, WriteAbortedBasic
  <2>2. ~open' /\ UNCHANGED <<c2b, session, delivered>>
    BY <1>9 DEF WriteAborted, broker
  <2> QED
    BY <1>2, <2>1, <2>2
<1>10. CASE ReadReply
  <2>1. open /\ UNCHANGED <<open, c2b, session, delivered>>
    BY <1>10 DEF ReadReply, broker
  <2>2. Onward(ops, ops')
    BY <1>10, ReadReplyBasic
  <2>3. \A n \in Msgs : ops'[n].stage = "publish" => ops[n].stage = "publish"
    <3>1. CASE ops' = ops
      BY <3>1
    <3>2. CASE \E m \in Msgs : /\ ops[m].phase = "waiting" /\ ops[m].qos # 0
                               /\ Head(b2c).res \in Outcomes
                               /\ OnReply(m, Head(b2c).res)
      BY <1>6, <3>2
    <3> QED
      BY <1>10, <3>1, <3>2, ReadReplyBasic
  <2> QED
    BY <1>2, <2>1, <2>2, <2>3
<1>11. CASE WriteSome
  <2>1. UNCHANGED <<ops, open, session, delivered>>
    BY <1>11 DEF WriteSome, broker
  <2>2. OncePackets(ops, c2b', delivered, session)
    BY <1>11, OnceSends
  <2> QED
    BY <2>1, <2>2 DEF OnceOK
<1>12. CASE WriteDone
  <2>1. Onward(ops, ops') /\ \A m \in Msgs : ops'[m].stage = ops[m].stage
    BY <1>12, WriteDoneBasic
  <2>2. UNCHANGED <<open, c2b, session, delivered>>
    BY <1>12 DEF WriteDone, broker
  <2> QED
    BY <1>2, <2>1, <2>2
<1>13. CASE Sentry
  <2>1. UNCHANGED <<ops, open, c2b, session, delivered>>
    BY <1>13 DEF Sentry, broker
  <2> QED
    BY <2>1 DEF OnceOK
<1>14. CASE Reconnect
  <2>1. /\ open /\ open' /\ UNCHANGED <<session, delivered>>
        /\ c2b' = c2b \/ c2b' = <<>>
        /\ Resends \/ UNCHANGED ops
    BY <1>14, ReconnectShape
  <2>2. Onward(ops, ops')
    BY <1>14, ReconnectBasic
  <2>3. \A m \in Msgs : ops'[m].stage = "publish" => ops[m].stage = "publish"
    <3>1. CASE UNCHANGED ops
      BY <3>1
    <3>2. CASE Resends
      <4> SUFFICES ASSUME NEW m \in Msgs PROVE ops'[m].stage = ops[m].stage
        OBVIOUS
      <4>1. ops[m] \in OpSet /\ (ops'[m] = TryAgain(m) \/ ops'[m] = ops[m])
        BY <1>1, <3>2 DEF Resends
      <4> QED
        BY <4>1 DEF TryAgain, OpSet
    <3> QED
      BY <2>1, <3>1, <3>2
  <2>4. OncePackets(ops', c2b, delivered, session) /\ OnceOps(ops', delivered, session)
    BY <1>1, <2>1, <2>2, <2>3, OnceOnward DEF OnceOK
  <2>5. OncePackets(ops', c2b', delivered, session)
    <3>1. CASE c2b' = c2b
      BY <2>4, <3>1
    <3>2. CASE c2b' = <<>>
      <4>1. DOMAIN c2b' = {}
        BY <3>2, SMT
      <4> QED
        BY <2>4, <4>1 DEF OncePackets
    <3> QED
      BY <2>1, <3>1, <3>2
  <2> QED
    BY <2>1, <2>4, <2>5 DEF OnceOK
<1>15. CASE Break
  <2>1. UNCHANGED <<ops, open, c2b, session, delivered>>
    BY <1>15 DEF Break, client, broker
  <2> QED
    BY <2>1 DEF OnceOK
<1>16. CASE BrokerReceive
  <2>1. UNCHANGED <<ops, open>>
    BY <1>16, NetworkBasic
  <2>2. /\ OncePackets(ops, c2b', delivered', session')
        /\ open => OnceOps(ops, delivered', session')
    BY <1>16, OnceServed
  <2> QED
    BY <2>1, <2>2 DEF OnceOK
<1>17. CASE UNCHANGED vars
  <2>1. UNCHANGED <<ops, open, c2b, session, delivered>>
    BY <1>17 DEF vars, client, network, broker
  <2> QED
    BY <2>1 DEF OnceOK
<1> QED
  BY <1>4, <1>5, <1>7, <1>8, <1>9, <1>10, <1>11, <1>12, <1>13, <1>14, <1>15, <1>16, <1>17
  DEF Next, Reconnect, CancelOp
===============================================================================
