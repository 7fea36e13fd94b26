------------------------ MODULE PublishFlowInvariants -------------------------
(*****************************************************************************)
(* The inductive invariant of PublishFlow, and what its proofs say about     *)
(* the steps.  The proofs build on it in four modules:                       *)
(*                                                                           *)
(*   PublishFlowStepProofs      what each handler does, and Basic            *)
(*   PublishFlowSendProofs      connection, order of sending, quota, window  *)
(*   PublishFlowExchangeProofs  replies, and QoS 2 exchanges                 *)
(*   PublishFlowProofs          the theorems                                 *)
(*                                                                           *)
(* The invariant grows from one theorem to the next:                         *)
(*                                                                           *)
(*   Basic         types, one request for each operation that is sending,    *)
(*                 serial numbers that grow with the messages                *)
(*   ConnectionInv what waits for a reply sent its packet on the             *)
(*                 connection at hand                        (OneWayOn)      *)
(*   Line          sent, being sent and queued: in order of initiation       *)
(*                               (InOrder, SentOncePerConnection)            *)
(*   PidsApart     operations in progress have different identifiers         *)
(*   QuotaOK       the quota covers what holds it                            *)
(*                               (ReceiveMaximum, ImplementsWindow)          *)
(*   ExchangeOK    a reply under way answers the operation that takes it     *)
(*                                            (AckedMeansDelivered)          *)
(*   OnceOK        the broker remembers a QoS 2 identifier until PUBREL      *)
(*                                                    (ExactlyOnce)          *)
(*                                                                           *)
(* A step ends, most of the time, in DoWrite.  The parts of the invariant    *)
(* are therefore operators of the values they speak of, so that they apply   *)
(* to what a step hands to DoWrite as well as to the states around it.       *)
(*                                                                           *)
(* Laws collects the facts of set theory that the lemmas on the steps have   *)
(* as a hypothesis; PublishFlowProofs proves them (LawsHold).                *)
(*****************************************************************************)
EXTENDS PublishFlow, Integers
-------------------------------------------------------------------------------
\* The intervals that count messages, identifiers and requests.
IntervalLaw == \A n \in Nat : IsFiniteSet(1..n) /\ Cardinality(1..n) = n

\* Counting none and one.
SmallLaw ==
    /\ IsFiniteSet({}) /\ Cardinality({}) = 0
    /\ \A x : IsFiniteSet({x}) /\ Cardinality({x}) = 1

\* A part of a finite set is finite, and smaller unless it is the whole.
SubsetLaw ==
    \A S, T : IsFiniteSet(S) /\ T \in SUBSET S =>
        /\ IsFiniteSet(T) /\ Cardinality(T) \in Nat /\ Cardinality(S) \in Nat
        /\ Cardinality(T) <= Cardinality(S)
        /\ T # S => Cardinality(T) < Cardinality(S)

\* What two sets cover has no more elements than they have together.
CoverLaw ==
    \A S, T, U : IsFiniteSet(S) /\ IsFiniteSet(T) /\ U \in SUBSET (S \cup T) =>
        Cardinality(U) <= Cardinality(S) + Cardinality(T)

\* The image of a finite set is finite, and of its size when f is one to one.
ImageLaw ==
    \A S, T, f : IsFiniteSet(S) /\ f \in [S -> T] /\ (\A t \in T : \E s \in S : f[s] = t) =>
        /\ IsFiniteSet(T)
        /\ (\A r, s \in S : f[r] = f[s] => r = s) => Cardinality(T) = Cardinality(S)

\* A set of natural numbers that is not empty has a least element.
LeastLaw == \A C \in SUBSET Nat : C # {} => \E n \in C : \A m \in C : n <= m

\* The place of an element in a finite set of numbers, counted from 1.
Rank(I, k) == Cardinality({j \in I : j <= k})

\* s is the requests of q at the positions h, in their order.
Picks(s, q, h) ==
    /\ h \in [1..Len(s) -> DOMAIN q]
    /\ \A i, j \in 1..Len(s) : i < j => h[i] < h[j]
    /\ \A i \in 1..Len(s) : s[i] = q[h[i]]

\* At keeps the requests at the positions I and their order.
AtLaw ==
    \A S : \A q \in Seq(S) : \A I \in SUBSET DOMAIN q :
        /\ At(q, I) \in Seq(S)
        /\ Cardinality(I) \in Nat /\ Len(At(q, I)) = Cardinality(I)
        /\ \E h : /\ Picks(At(q, I), q, h)
                  /\ \A k \in I : \E i \in 1..Len(At(q, I)) : h[i] = k
                  /\ \A i \in 1..Len(At(q, I)) : h[i] \in I

\* Sorted lists a set of requests that Before orders, in that order.
SortedLaw ==
    \A R : /\ IsFiniteSet(R)
           /\ \A r \in R : ~Before(r, r)
           /\ \A r, s \in R : r # s => Before(r, s) \/ Before(s, r)
           /\ \A r, s, t \in R : Before(r, s) /\ Before(s, t) => Before(r, t)
           => /\ Sorted(R) \in Seq(R)
              /\ \A r \in R : \E i \in 1..Len(Sorted(R)) : Sorted(R)[i] = r
              /\ \A i, j \in 1..Len(Sorted(R)) : i < j => Before(Sorted(R)[i], Sorted(R)[j])

\* What the proofs of the steps take for granted.
Laws == /\ IntervalLaw /\ SmallLaw /\ SubsetLaw /\ CoverLaw /\ ImageLaw
        /\ LeastLaw /\ AtLaw /\ SortedLaw

-------------------------------------------------------------------------------
\* The requests of the write queue, and what do_write makes of them.
ReqSet == [op : 0..N, serial : 0..(SerialMod - 1), throttled : BOOLEAN,
           prioritized : BOOLEAN, terminal : BOOLEAN]

\* do_write splits the queue q into the write b, from the positions h, and the
\* rest r, from the positions g.
Split(q, b, r, h, g) ==
    /\ Picks(b, q, h) /\ Picks(r, q, g)
    /\ \A k \in DOMAIN q : \/ \E i \in 1..Len(b) : h[i] = k
                           \/ \E i \in 1..Len(r) : g[i] = k
    /\ \A i \in 1..Len(b), j \in 1..Len(r) : h[i] # g[j]
    /\ \/ Len(b) = 1 /\ b[1].terminal
       \/ /\ \A i \in 1..Len(b) : ~b[i].terminal
          /\ \A j \in 1..Len(r) :
                /\ ~r[j].terminal /\ r[j].throttled
                /\ \A i \in 1..Len(b) : b[i].throttled => h[i] < g[j]

\* What DoWrite does: it starts a write, or it leaves everything as it is given.
Starts(b, q, k) ==
    /\ b = <<>>
    /\ batch' \in Seq(ReqSet) /\ batch' # <<>> /\ queue' \in Seq(ReqSet)
    /\ \E h, g : Split(q, batch', queue', h, g)
    /\ sent' = 0 /\ wgen' = gen' /\ fast' = <<>>
    /\ batch' = Batch(q, limit', k) /\ queue' = Rest(q, limit', k)
    /\ quota' = k - Cost(q, limit', k)

\* No write starts.  If do_write was called for, nothing can be sent.
Leaves(called, b, q, k, f) ==
    /\ batch' = b /\ queue' = q /\ quota' = k /\ fast' = f
    /\ sent' = (IF b = <<>> THEN 0 ELSE sent)
    /\ wgen' = (IF b = <<>> THEN 0 ELSE wgen)
    /\ called /\ b = <<>> => Chosen(q, limit', k) = {}

-------------------------------------------------------------------------------
\* The types of the variables.
Phases == {"idle", "sending", "waiting", "posted", "done"}

Outcomes == {"none", "ok", "error", "malformed", "aborted", "failed", "no_recovery"}

OpSet == [phase : Phases, stage : {"publish", "pubrel"}, qos : 0..2, pid : 0..MaxPid,
          serial : 0..(SerialMod - 1), dup : BOOLEAN, cancelled : BOOLEAN,
          res : Outcomes]

ReplySet == [type : {"PUBACK", "PUBREC", "PUBCOMP"}, pid : 0..MaxPid,
             res : {"ok", "error", "malformed"}]

PacketSet == [type : {"PUBLISH", "PUBREL", "DISCONNECT"}, msg : 0..N, qos : 0..2,
              pid : 0..MaxPid, dup : BOOLEAN]

WireSet == [type : {"PUBLISH", "PUBREL", "DISCONNECT"}, msg : 0..N]

\* Every variable has its type; a packet under way is a DISCONNECT or belongs to
\* a message.
SenderTypeOK ==
    /\ queue \in Seq(ReqSet) /\ batch \in Seq(ReqSet) /\ sent \in 0..Len(batch)
    /\ wgen \in 0..gen /\ quota \in Int /\ fast \in Seq(ReplySet)

NetTypeOK ==
    /\ gen \in Nat /\ rgen \in 0..gen
    /\ limit \in 1..MAX_LIMIT /\ lastSerial \in 0..(SerialMod - 1)
    /\ open \in BOOLEAN
    /\ conn \in {"up", "lost", "shut"} /\ recvMax \in 1..MAX_LIMIT
    /\ c2b \in Seq(PacketSet) /\ b2c \in Seq(ReplySet)
    /\ \A i \in DOMAIN c2b : c2b[i].type # "DISCONNECT" => c2b[i].msg \in Msgs
    /\ session \in SUBSET (0..MaxPid) /\ delivered \in [Msgs -> 0..2]
    /\ wire \in Seq(WireSet)

FlowTypeOK == ops \in [Msgs -> OpSet] /\ SenderTypeOK /\ NetTypeOK

\* r is the request that operation r.op of o has to send, or a DISCONNECT.
ReqOK(r, o) ==
    \/ r = DisconnectReq
    \/ /\ r.op \in Msgs /\ o[r.op].phase = "sending"
       /\ r.serial = o[r.op].serial /\ ~r.terminal
       /\ r.prioritized <=> o[r.op].stage = "pubrel"
       /\ r.throttled => o[r.op].qos # 0
       /\ o[r.op].stage = "publish" /\ o[r.op].qos # 0 => r.throttled

\* Every operation that sends has one request, in the queue q or in the write b.
Requests(o, q, b) ==
    /\ \A i \in DOMAIN q : ReqOK(q[i], o)
    /\ \A i \in DOMAIN b : ReqOK(b[i], o)
    /\ \A i, j \in DOMAIN q : q[i].op = q[j].op /\ q[i].op # Disc => i = j
    /\ \A i, j \in DOMAIN b : b[i].op = b[j].op /\ b[i].op # Disc => i = j
    /\ \A i \in DOMAIN q, j \in DOMAIN b : q[i].op = b[j].op => q[i].op = Disc
    /\ \A m \in Msgs : o[m].phase = "sending" =>
            (\E i \in DOMAIN q : q[i].op = m) \/ (\E i \in DOMAIN b : b[i].op = m)

\* The write in progress, if any, is on the current connection.
Current == batch = <<>> \/ wgen = gen

\* The packet that operation m of o sends in its stage.
Packet(o, m) == [type |-> IF o[m].stage = "pubrel" THEN "PUBREL" ELSE "PUBLISH",
                 msg |-> m]

\* The kernel took that packet on this connection.
OnWire(w, o, m) == \E i \in DOMAIN w : w[i] = Packet(o, m)

\* For operations o, with the first s requests of the write b taken by the kernel,
\* which took w on this connection: cur and rcur say whether the write and the
\* reader are on it.  An operation waits only for a reply to what is in w.
OnConnection(o, b, s, cur, rcur, w) ==
    /\ ~cur => w = <<>> /\ s < Len(b)
    /\ ~rcur /\ b = <<>> => w = <<>>
    /\ cur => \A i \in 1..s : b[i].op # Disc => OnWire(w, o, b[i].op)
    /\ cur => \A m \in Msgs : o[m].phase = "waiting" => OnWire(w, o, m)
    /\ ~cur \/ ~rcur => \A m \in Msgs : o[m].phase # "posted"

\* Only QoS 1 and QoS 2 operations wait for a reply, only QoS 2 ones send PUBREL.
QosFits(o) ==
    \A m \in Msgs :
        /\ o[m].phase = "waiting" => o[m].qos # 0
        /\ o[m].phase = "posted" => o[m].qos # 0 \/ o[m].res = "aborted"
        /\ o[m].stage = "pubrel" /\ o[m].phase # "done" => o[m].qos = 2

\* Messages are published in order, and serial numbers grow with them: the
\* distance from the first one is at most the number of the message.
Dist(s) == IF s >= FirstSerial THEN s - FirstSerial ELSE s + SerialMod - FirstSerial

SerialsGrow ==
    /\ \A m, n \in Msgs : m < n /\ ops[m].phase = "idle" => ops[n].phase = "idle"
    /\ \A m \in Msgs : ops[m].phase = "idle" => Dist(lastSerial) < m
    /\ Dist(lastSerial) <= N
    /\ \A m \in Msgs : Live(m) => Dist(ops[m].serial) \in 1..Dist(lastSerial)
    /\ \A m, n \in Msgs : Live(m) /\ Live(n) /\ m < n
                          => Dist(ops[m].serial) < Dist(ops[n].serial)

\* m may be sent before n: they are not of the same kind, or it is older.
Ahead(o, m, n) == (o[m].qos = 0 <=> o[n].qos = 0) => m < n

\* r carries a PUBLISH packet.
Pub(r, o) == r.op # Disc /\ o[r.op].stage = "publish"

\* A DISCONNECT is queued: what follows it is not sent on this connection.
HasDisc(q) == \E i \in DOMAIN q : q[i].op = Disc

\* The PUBLISH packets w that the kernel took are in order.
WireLine(o, w) ==
    /\ \A i \in DOMAIN w : w[i].type = "PUBLISH" => w[i].msg \in Msgs /\ o[w[i].msg].phase # "idle"
    /\ \A i, j \in DOMAIN w : i < j /\ w[i].type = "PUBLISH" /\ w[j].type = "PUBLISH"
                              => Ahead(o, w[i].msg, w[j].msg)

\* So are the ones of the write b after its first s requests, and they follow w.
BatchLine(o, w, s, b) ==
    /\ \A i, j \in (s + 1)..Len(b) : i < j /\ Pub(b[i], o) /\ Pub(b[j], o)
                                     => Ahead(o, b[i].op, b[j].op)
    /\ \A i \in DOMAIN w, j \in (s + 1)..Len(b) :
            w[i].type = "PUBLISH" /\ Pub(b[j], o) => Ahead(o, w[i].msg, b[j].op)

\* So are the ones of the queue q, and they follow w and b.
QueueLine(o, w, s, b, q) ==
    /\ \A i, j \in DOMAIN q : i < j /\ Pub(q[i], o) /\ Pub(q[j], o)
                              => Ahead(o, q[i].op, q[j].op)
    /\ \A i \in DOMAIN w, j \in DOMAIN q :
            w[i].type = "PUBLISH" /\ Pub(q[j], o) => Ahead(o, w[i].msg, q[j].op)
    /\ \A i \in (s + 1)..Len(b), j \in DOMAIN q :
            Pub(b[i], o) /\ Pub(q[j], o) => Ahead(o, b[i].op, q[j].op)

\* A DISCONNECT ends what the connection sends, so that the queue need not follow.
InLine(o, w, s, b, q) ==
    /\ BatchLine(o, w, s, b)
    /\ ~HasDisc(b) /\ ~HasDisc(q) => QueueLine(o, w, s, b, q)

\* The order of initiation, kept on the connection at hand.
Line ==
    /\ WireLine(ops, wire)
    /\ open /\ conn # "shut" /\ Current => InLine(ops, wire, sent, batch, queue)

\* resend() reaches every operation that sends or waits for a reply.
Outs == {m \in Msgs : ops[m].phase \in {"sending", "waiting"}}

Resent == {m \in Outs : ~Stops(m)}

ResendQueue == Sorted({Req(m) : m \in Resent})

Resends ==
    /\ limit' = recvMax'
    /\ ops' = [m \in Msgs |-> IF m \in Outs THEN TryAgain(m) ELSE ops[m]]
    /\ DoWrite(TRUE, <<>>, ResendQueue,
               Returned(limit', limit', Cardinality({m \in Outs : Stops(m) /\ ops[m].qos # 0})),
               fast)

\* What all later arguments rest on.
Basic == FlowTypeOK /\ Requests(ops, queue, batch) /\ SerialsGrow /\ QosFits(ops)

\* What an operation keeps, once it is initiated, from step to step.
Onward(o, p) ==
    \A m \in Msgs :
        /\ p[m].phase = "idle" <=> o[m].phase = "idle"
        /\ o[m].phase = "done" => p[m].phase = "done"
        /\ p[m].qos = o[m].qos /\ p[m].pid = o[m].pid /\ p[m].serial = o[m].serial

\* What a reply to operation m, or its abortion, hands to do_write.
ReplyShape(m, called, q, k) ==
    \/ /\ ops'[m].phase = "done" /\ q = queue
       /\ IF ops[m].qos = 0 THEN ~called /\ k = quota
          ELSE (called <=> limit # MAX_LIMIT) /\ k = Returned(limit, quota, 1)
    \/ /\ ops[m].cancelled /\ called
       /\ ops'[m].phase = "done" /\ q = Append(queue, DisconnectReq)
       /\ k = Returned(limit, quota, 1)
    \/ /\ ops'[m].phase = "sending" /\ ops'[m].stage = ops[m].stage /\ called
       /\ q = Append(Append(queue, DisconnectReq), Req(m)) /\ k = quota
    \/ /\ ops'[m].phase = "sending" /\ ops'[m].stage = "pubrel"
       /\ ops[m].stage = "publish" /\ ops[m].qos = 2 /\ called
       /\ q = Append(queue, PubrelReq(m, ops[m], FALSE)) /\ k = quota

\* The reader or the writer of the stream gets try_again, on the connection that
\* it, or the other one, established.
Reconnect == WriterFails \/ ReaderFails \/ WriterReconnects \/ ReaderReconnects

\* What the client knows of the connection, while the stream is open.
ConnectionInv == open => OnConnection(ops, batch, sent, Current, rgen = gen, wire)

\* The state that a handler hands to do_write when b is the write in progress.
SentOf(b) == IF b = <<>> THEN 0 ELSE sent

CurrentOf(b) == b = <<>> \/ wgen = gen

\* Packet identifiers in use are different.
PidsApart ==
    /\ \A m \in Msgs : Live(m) /\ ops[m].qos # 0 => ops[m].pid \in 1..MaxPid
    /\ \A m, n \in Msgs : /\ Live(m) /\ ops[m].qos # 0 /\ Live(n) /\ ops[n].qos # 0
                          /\ ops[m].pid = ops[n].pid
                          => m = n

\* The operations H that hold quota: charged and not queued for it, or published on
\* this connection and not completed; with what is left they stay within the limit.
ChargeableOf(o) == {m \in Msgs : o[m].qos # 0 /\ o[m].phase \notin {"idle", "done"}}

ThrottledOf(q) == {q[i].op : i \in {j \in DOMAIN q : q[j].throttled}}

PubsOf(w) == {w[i].msg : i \in {j \in DOMAIN w : w[j].type = "PUBLISH"}}

Held(o, q, w) ==
    {m \in ChargeableOf(o) : m \notin ThrottledOf(q) \/ m \in PubsOf(w)}

Covered(lim, k, H) == lim # MAX_LIMIT => 0 <= k /\ k + Cardinality(H) <= lim

\* The sender's quota covers what holds it, within the limit of the connection.
QuotaOK ==
    /\ open => Covered(limit, quota, Held(ops, queue, wire))
    /\ open /\ Current => limit = recvMax

\* Unless an operation is cancelled on its own, none stops before its packet is
\* sent again.
NoneCancelled == \A m \in Msgs : ~ops[m].cancelled

\* Unless mqtt_client::cancel() is called or recovery fails, the stream is open.
StaysOpen == open = TRUE

\* A packet that the broker answers.
NeedsReply(p) == p.type = "PUBREL" \/ (p.type = "PUBLISH" /\ p.qos # 0)

\* Operation m of o has sent its packet and was not told of a reply: it waits for
\* one, or the packet is among the first s requests of the write b.
Written(b, s, m) == \E j \in 1..s : b[j].op = m

Expecting(o, b, s, m) ==
    o[m].phase = "waiting" \/ (o[m].phase = "sending" /\ Written(b, s, m))

\* Reply x is the one that operation m of o awaits; d is what the broker accepted.
Answered(o, d, x, m) ==
    o[m].qos # 0 /\ Answers(x, o[m]) /\ (x.res = "ok" => d[m] > 0)

\* The packets c under way to the broker, the replies r to the client and the fast
\* replies f have different packet identifiers.
Apart(c, r, f) ==
    /\ \A i, j \in DOMAIN c : NeedsReply(c[i]) /\ NeedsReply(c[j]) /\ c[i].pid = c[j].pid
                              => i = j
    /\ \A i, j \in DOMAIN r : r[i].pid = r[j].pid => i = j
    /\ \A i, j \in DOMAIN f : f[i].pid = f[j].pid => i = j
    /\ \A i \in DOMAIN c, j \in DOMAIN r : NeedsReply(c[i]) => c[i].pid # r[j].pid
    /\ \A i \in DOMAIN c, j \in DOMAIN f : NeedsReply(c[i]) => c[i].pid # f[j].pid
    /\ \A i \in DOMAIN r, j \in DOMAIN f : r[i].pid # f[j].pid

\* Each of them belongs to an operation that expects a reply.
Exchange(o, b, s, c, r, f, d) ==
    /\ \A i \in DOMAIN c : NeedsReply(c[i]) =>
          /\ Expecting(o, b, s, c[i].msg)
          /\ c[i].qos = o[c[i].msg].qos /\ c[i].pid = o[c[i].msg].pid
          /\ c[i].type = Packet(o, c[i].msg).type
    /\ \A i \in DOMAIN r : \E m \in Msgs : Expecting(o, b, s, m) /\ Answered(o, d, r[i], m)
    /\ \A i \in DOMAIN f : \E m \in Msgs : /\ o[m].phase = "sending" /\ Written(b, s, m)
                                           /\ Answered(o, d, f[i], m)
    /\ Apart(c, r, f)

\* The identifiers ss that wait at the broker for PUBREL belong to messages that it
\* accepted, and are not the ones that a reply is about to free.
Ends(x) == x.type = "PUBCOMP" \/ x.res = "error"

Kept(o, r, f, d, ss) ==
    /\ \A p \in ss : \E m \in Msgs : /\ o[m].phase \notin {"idle", "done"} /\ o[m].qos = 2
                                     /\ o[m].pid = p /\ d[m] > 0
    /\ \A i \in DOMAIN r : Ends(r[i]) => r[i].pid \notin ss
    /\ \A i \in DOMAIN f : Ends(f[i]) => f[i].pid \notin ss
    /\ \A m \in Msgs : o[m].phase = "posted" =>
          /\ o[m].res \in {"ok", "error", "malformed"}
          /\ o[m].stage = "pubrel" \/ o[m].res = "error" => o[m].pid \notin ss

\* A message whose operation goes on to PUBREL, or ends well, was accepted.
Accepted(o, d) ==
    \A m \in Msgs : /\ o[m].qos # 0
                    /\ \/ o[m].phase \notin {"idle", "done"} /\ o[m].stage = "pubrel"
                       \/ o[m].phase \in {"posted", "done"} /\ o[m].res = "ok"
                    => d[m] > 0

\* What the broker and the client agree on while the stream is open.
ExchangeOK ==
    /\ Accepted(ops, delivered)
    /\ open => /\ Exchange(ops, batch, sent, c2b, b2c, fast, delivered)
               /\ Kept(ops, b2c, fast, delivered, session)
               /\ wire = <<>> => c2b = <<>> /\ b2c = <<>>

\* The broker accepts a QoS 2 message again only if it has forgotten its
\* identifier, which it does not before the PUBREL.
OncePackets(o, c, d, ss) ==
    /\ \A m \in Msgs : /\ o[m].phase = "idle" => d[m] = 0
                       /\ o[m].qos = 2 => d[m] <= 1
    /\ \A i \in DOMAIN c : c[i].type # "DISCONNECT" =>
          /\ o[c[i].msg].phase # "idle"
          /\ c[i].qos = o[c[i].msg].qos /\ c[i].pid = o[c[i].msg].pid
          /\ c[i].type = "PUBLISH" /\ c[i].qos = 2 => d[c[i].msg] = 0 \/ c[i].pid \in ss
    /\ \A i, j \in DOMAIN c : NeedsReply(c[i]) /\ NeedsReply(c[j]) /\ c[i].pid = c[j].pid
                              => i = j

\* The same for the packets that are still to be sent.
OnceOps(o, d, ss) ==
    \A m \in Msgs : o[m].phase \notin {"idle", "done"} /\ o[m].stage = "publish" /\ o[m].qos = 2
                    => d[m] = 0 \/ o[m].pid \in ss

\* What makes QoS 2 exactly once, while the broker keeps the session.
OnceOK ==
    /\ OncePackets(ops, c2b, delivered, session)
    /\ open => OnceOps(ops, delivered, session)

\* What the broker does with the next packet p, and what it may answer.
Bump(d, m) == [d EXCEPT ![m] = IF @ < 2 THEN @ + 1 ELSE 2]

Serves(p, x) ==
    \/ /\ p.type = "PUBLISH" /\ p.qos = 1 /\ x.type = "PUBACK"
       /\ session' = session
       /\ \/ x.res # "error" /\ delivered' = Bump(delivered, p.msg)
          \/ x.res = "error" /\ delivered' = delivered
    \/ /\ p.type = "PUBLISH" /\ p.qos = 2 /\ x.type = "PUBREC"
       /\ p.pid \in session /\ x.res = "ok"
       /\ session' = session /\ delivered' = delivered
    \/ /\ p.type = "PUBLISH" /\ p.qos = 2 /\ x.type = "PUBREC"
       /\ p.pid \notin session
       /\ \/ /\ x.res # "error"
             /\ delivered' = Bump(delivered, p.msg) /\ session' = session \cup {p.pid}
          \/ x.res = "error" /\ session' = session /\ delivered' = delivered
    \/ /\ p.type = "PUBREL" /\ x.type = "PUBCOMP"
       /\ session' = session \ {p.pid} /\ delivered' = delivered
===============================================================================
