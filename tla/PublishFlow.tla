------------------------------ MODULE PublishFlow ------------------------------
(***************************************************************************)
(* The sending half of the client: publish_send_op for QoS 0, 1 and 2,     *)
(* async_sender (write queue, Receive Maximum quota, resend), replies      *)
(* (handlers and fast replies) and client_service::cancel, over a stream   *)
(* that reconnects, to a broker.                                           *)
(*                                                                         *)
(* All of it runs on one executor, so a step is one completion handler.    *)
(* The reader and the writer of the stream learn of a new connection in    *)
(* different steps: the one that reconnected at once, the other when its   *)
(* own operation on the old connection fails with try_again.  A write      *)
(* hands its packets to the kernel one at a time and its handler runs      *)
(* later, so replies can overtake it ("fast replies").                     *)
(*                                                                         *)
(* The broker and the network are not part of the repository; they are     *)
(* modelled from what the client relies on.                                *)
(*                                                                         *)
(* A definition named after another one with a remark (AnswersAnyPid       *)
(* after Answers) is a mistaken form of it, which a property rules out.    *)
(***************************************************************************)
EXTENDS WriteQueue

CONSTANTS
    N,               \* the messages are 1..N, published in this order
    QosSet,          \* the QoS levels the application uses
    MaxPid,          \* MAX_PACKET_ID
    FirstSerial,     \* _last_serial_num at the start
    RecvMaxes,       \* Receive Maximum of a CONNACK; MAX_LIMIT when absent
    MaxConn,         \* bound: connections established
    Faults           \* what else may happen, see the guards

ASSUME PublishFlowAssumption ==
    /\ N \in Nat /\ MaxPid \in Nat /\ MaxConn \in Nat
    /\ QosSet \subseteq 0..2
    /\ FirstSerial \in 0..(SerialMod - 1)
    /\ RecvMaxes \subseteq 1..MAX_LIMIT
    /\ Faults \subseteq {"invalid", "cancel_op", "cancel", "error", "malformed",
                         "session_lost", "sentry"}

\* MAX_LIMIT and MAX_PACKET_ID are both 65535.
ASSUME LimitAssumption == MAX_LIMIT \in Nat \ {0} /\ MaxPid <= MAX_LIMIT

\* The serial numbers of the messages are within the window of operator<.
ASSUME SerialWindowAssumption == N <= SerialMod \div 2

VARIABLES
    ops,          \* publish_send_op of each message
    queue,        \* async_sender::_write_queue
    batch,        \* the requests of the write in progress; <<>> when none
    sent,         \* how many of them the kernel has taken
    wgen, rgen,   \* the connections the writer and the reader work on
    limit, quota, lastSerial,
    fast,         \* replies::_fast_replies
    open,         \* autoconnect_stream::is_open
    gen, conn,    \* the current connection: its number; up, lost (the kernel
                  \* may still take packets) or shut
    recvMax,      \* the Receive Maximum of its CONNACK
    c2b, b2c,     \* packets under way to the broker and to the client
    session,      \* broker: identifiers that wait for PUBREL
    delivered,    \* broker: how often it accepted each message (capped at 2)
    wire          \* ghost: what the kernel took on this connection

client == <<ops, queue, batch, sent, wgen, rgen, limit, quota, lastSerial, fast,
            open>>
network == <<gen, conn, recvMax, c2b, b2c>>
broker == <<session, delivered>>
vars == <<client, network, broker, wire>>

Msgs == 1..N
Disc == 0    \* a disconnect_op that is not terminal

Live(m) == ops[m].phase \notin {"idle", "done"}
Waiting == {m \in Msgs : ops[m].phase = "waiting"}    \* replies::_handlers
OpsOf(q) == {q[i].op : i \in DOMAIN q} \ {Disc}

OutstandingQueuedOnly(q) == OpsOf(q)

\* What cancel() and resend() complete: the handlers of replies and of q.
Outstanding(q) == Waiting \cup OpsOf(q)

\* The identifiers that packet_id_allocator has handed out: free_pid is called
\* when the operation completes.
InUse == {ops[m].pid : m \in {n \in Msgs : Live(n)}}
FreePids == (1..MaxPid) \ InUse
-------------------------------------------------------------------------------
PublishReqQos1Throttled(m, o) ==
    [op |-> m, serial |-> o.serial, throttled |-> o.qos = 1,
     prioritized |-> FALSE, terminal |-> FALSE]

\* send_publish, send_pubrel: the request that carries operation m.
PublishReq(m, o) ==
    [op |-> m, serial |-> o.serial, throttled |-> o.qos # 0,
     prioritized |-> FALSE, terminal |-> FALSE]
PubrelReq(m, o, throttled) ==
    [op |-> m, serial |-> o.serial, throttled |-> throttled,
     prioritized |-> TRUE, terminal |-> FALSE]

\* send_disconnect
DisconnectReq ==
    [op |-> Disc, serial |-> 0, throttled |-> FALSE,
     prioritized |-> FALSE, terminal |-> TRUE]

\* The reply that operation m waits for.
Awaited(o) == IF o.stage = "pubrel" THEN "PUBCOMP"
              ELSE IF o.qos = 1 THEN "PUBACK" ELSE "PUBREC"
AnswersAnyPid(reply, o) == reply.type = Awaited(o)
Answers(reply, o) == reply.type = Awaited(o) /\ reply.pid = o.pid

\* do_write, called or not, with b the write still in progress, q the queue,
\* k the quota and f the fast replies.
DoWrite(called, b, q, k, f) ==
    LET start == called /\ b = <<>> /\ Chosen(q, limit', k) # {}
    IN  /\ batch' = IF start THEN Batch(q, limit', k) ELSE b
        /\ queue' = IF start THEN Rest(q, limit', k) ELSE q
        /\ quota' = IF start THEN k - Cost(q, limit', k) ELSE k
        /\ fast' = IF start THEN <<>> ELSE f
        /\ sent' = IF b = <<>> THEN 0 ELSE sent
        /\ wgen' = IF start THEN gen' ELSE IF b = <<>> THEN 0 ELSE wgen

\* throttled_op_done, n times, gives back quota and calls do_write only under a limit.
Returned(lim, k, n) == IF lim = MAX_LIMIT THEN k ELSE k + n

CompleteWithoutDoWrite(m, res) ==
    /\ ops' = [ops EXCEPT ![m].phase = "done", ![m].res = res]
    /\ DoWrite(FALSE, batch, queue, Returned(limit, quota, 1), fast)

\* publish_send_op::complete outside a write: free_pid(pid, true), which calls
\* throttled_op_done, unless the QoS is 0.
Complete(m, res) ==
    /\ ops' = [ops EXCEPT ![m].phase = "done", ![m].res = res]
    /\ LET freed == IF ops[m].qos = 0 THEN 0 ELSE 1
       IN  DoWrite(freed = 1 /\ limit # MAX_LIMIT, batch, queue,
                   Returned(limit, quota, freed), fast)

\* on_malformed_packet: async_disconnect, then the packet is sent again.
OnMalformed(m) ==
    LET o == ops[m]
    IN  \/ /\ o.stage = "publish" /\ o.cancelled
           /\ ops' = [ops EXCEPT ![m].phase = "done", ![m].res = "aborted"]
           /\ DoWrite(TRUE, batch, Append(queue, DisconnectReq),
                      Returned(limit, quota, 1), fast)
        \/ /\ o.stage = "publish" /\ ~o.cancelled
           /\ ops' = [ops EXCEPT ![m].phase = "sending", ![m].dup = TRUE,
                              ![m].res = "none"]
           /\ DoWrite(TRUE, batch, Append(Append(queue, DisconnectReq), PublishReq(m, o)),
                      quota, fast)
        \/ /\ o.stage = "pubrel"
           /\ ops' = [ops EXCEPT ![m].phase = "sending", ![m].res = "none"]
           /\ DoWrite(TRUE, batch,
                      Append(Append(queue, DisconnectReq), PubrelReq(m, o, TRUE)),
                      quota, fast)

\* on_puback, on_pubrec, on_pubcomp with a reply or operation_aborted.
OnReply(m, res) ==
    LET o == ops[m]
    IN  \/ res = "malformed" /\ OnMalformed(m)
        \/ /\ res = "ok" /\ Awaited(o) = "PUBREC"
           /\ ops' = [ops EXCEPT ![m].phase = "sending", ![m].stage = "pubrel",
                              ![m].res = "none"]
           /\ DoWrite(TRUE, batch, Append(queue, PubrelReq(m, o, FALSE)),
                      quota, fast)
        \/ /\ res # "malformed" /\ ~(res = "ok" /\ Awaited(o) = "PUBREC")
           /\ Complete(m, res)
-------------------------------------------------------------------------------
Init ==
    /\ ops = [m \in Msgs |-> [phase |-> "idle", stage |-> "publish", qos |-> 0,
                              pid |-> 0, serial |-> 0, dup |-> FALSE,
                              cancelled |-> FALSE, res |-> "none"]]
    /\ queue = <<>> /\ batch = <<>> /\ sent = 0 /\ wgen = 0 /\ rgen = 0
    /\ limit = MAX_LIMIT /\ quota = MAX_LIMIT /\ lastSerial = FirstSerial
    /\ fast = <<>> /\ open = TRUE
    /\ gen = 0 /\ conn = "shut" /\ recvMax = MAX_LIMIT
    /\ c2b = <<>> /\ b2c = <<>>
    /\ session = {} /\ delivered = [m \in Msgs |-> 0]
    /\ wire = <<>>

\* The application publishes the next message.
NextMsg(m) == open /\ ops[m].phase = "idle"
              /\ \A n \in 1..(m - 1) : ops[n].phase # "idle"

\* publish_send_op::perform up to async_send.
Publish(m, q) ==
    /\ NextMsg(m)
    /\ q # 0 => FreePids # {}
    /\ UNCHANGED <<limit, gen>>
    /\ LET pid == IF q = 0 THEN 0
                  ELSE CHOOSE p \in FreePids : \A r \in FreePids : p <= r
           o == [phase |-> "sending", stage |-> "publish", qos |-> q, pid |-> pid,
                 serial |-> NextSerial(lastSerial), dup |-> FALSE,
                 cancelled |-> FALSE, res |-> "none"]
       IN  /\ ops' = [ops EXCEPT ![m] = o]
           /\ lastSerial' = o.serial
           /\ DoWrite(TRUE, batch, Append(queue, PublishReq(m, o)), quota, fast)
    /\ UNCHANGED <<rgen, open, conn, recvMax, c2b, b2c, broker, wire>>

\* complete_immediate: no identifier left (pid_overrun), or the arguments do not
\* validate; a packet that is too large has used up its serial number.
PublishFails(m, q) ==
    /\ NextMsg(m)
    /\ \/ q # 0 /\ FreePids = {} /\ UNCHANGED lastSerial
       \/ /\ "invalid" \in Faults
          /\ q # 0 => FreePids # {}
          /\ lastSerial' \in {lastSerial, NextSerial(lastSerial)}
    /\ ops' = [ops EXCEPT ![m].phase = "done", ![m].qos = q, ![m].res = "failed"]
    /\ UNCHANGED <<queue, batch, sent, wgen, rgen, limit, quota, fast, open,
                   network, broker, wire>>

\* A total or partial cancellation only marks the operation.
CancelOp(m) ==
    /\ "cancel_op" \in Faults
    /\ Live(m) /\ ~ops[m].cancelled
    /\ ops' = [ops EXCEPT ![m].cancelled = TRUE]
    /\ UNCHANGED <<queue, batch, sent, wgen, rgen, limit, quota, lastSerial, fast,
                   open, network, broker, wire>>

\* client_service::cancel: everything that waits for a reply or in the queue is
\* posted operation_aborted and the stream is closed.  The operations in done
\* complete with no_recovery in the same handler.
CloseClient(done) ==
    /\ "cancel" \in Faults
    /\ open
    /\ ops' = [m \in Msgs |->
                  IF m \in done
                  THEN [ops[m] EXCEPT !.phase = "done", !.res = "no_recovery"]
                  ELSE IF m \in Outstanding(queue)
                  THEN [ops[m] EXCEPT !.phase = "posted", !.res = "aborted"]
                  ELSE ops[m]]
    /\ queue' = <<>>
    /\ open' = FALSE
    /\ conn' = "shut"
    /\ UNCHANGED <<rgen, limit, lastSerial, fast, gen, recvMax, c2b, b2c, broker,
                   wire>>

Cancel == CloseClient({}) /\ UNCHANGED <<batch, sent, wgen, quota>>
-------------------------------------------------------------------------------
\* The kernel takes the next packet of the write in progress; on a connection
\* that is lost the packet gets nowhere.
WriteSome ==
    /\ open /\ conn # "shut"
    /\ sent < Len(batch) /\ wgen = gen
    /\ sent' = sent + 1
    /\ LET m == batch[sent + 1].op
           pkt == IF m = Disc
                  THEN [type |-> "DISCONNECT", msg |-> Disc, qos |-> 0, pid |-> 0,
                        dup |-> FALSE]
                  ELSE [type |-> IF ops[m].stage = "pubrel" THEN "PUBREL"
                                 ELSE "PUBLISH",
                        msg |-> m, qos |-> ops[m].qos, pid |-> ops[m].pid,
                        dup |-> ops[m].dup]
       IN  /\ c2b' = IF conn = "up" THEN Append(c2b, pkt) ELSE c2b
           /\ wire' = Append(wire, [type |-> pkt.type, msg |-> m])
    /\ UNCHANGED <<ops, queue, batch, wgen, rgen, limit, quota, lastSerial, fast,
                   open, gen, conn, recvMax, b2c, broker>>

\* The write completes: async_sender::operator() with success.  A QoS 0 publish
\* is done, the others wait for a reply, or have it posted if a fast reply is
\* there; a disconnect_op goes on to shut the stream down (shutdown_op, which
\* for a TCP socket acts at once).  When the writer is on a new connection, the
\* reader is too: it failed on the old one while the writer was reconnecting and
\* stood in line for the mutex, so its handler was posted first.
WriteDone ==
    /\ open
    /\ batch # <<>> /\ sent = Len(batch)
    /\ wgen = gen => rgen = gen
    /\ UNCHANGED <<limit, gen>>
    /\ LET written == OpsOf(batch)
           Hits(m) == {i \in DOMAIN fast : Answers(fast[i], ops[m])}
           First(m) == CHOOSE i \in Hits(m) : \A j \in Hits(m) : i <= j
           used == {First(m) : m \in {n \in written : ops[n].qos # 0
                                                      /\ Hits(n) # {}}}
           After(m) ==
               IF ops[m].qos = 0
               THEN [ops[m] EXCEPT !.phase = "done", !.res = "ok"]
               ELSE IF Hits(m) = {}
               THEN [ops[m] EXCEPT !.phase = "waiting"]
               ELSE [ops[m] EXCEPT !.phase = "posted", !.res = fast[First(m)].res]
       IN  /\ ops' = [m \in Msgs |-> IF m \in written THEN After(m) ELSE ops[m]]
           /\ conn' = IF \E i \in DOMAIN batch : batch[i].op = Disc
                      THEN "shut" ELSE conn
           /\ DoWrite(TRUE, <<>>, queue, quota, At(fast, DOMAIN fast \ used))
    /\ UNCHANGED <<rgen, lastSerial, open, recvMax, c2b, b2c, broker, wire>>

\* The write completes with operation_aborted, because the stream was closed.
WriteAborted ==
    /\ ~open
    /\ batch # <<>>
    /\ UNCHANGED <<limit, gen>>
    /\ LET written == OpsOf(batch)
           acked == {m \in written : ops[m].qos # 0}
       IN  /\ ops' = [m \in Msgs |-> IF m \in written
                                     THEN [ops[m] EXCEPT !.phase = "done",
                                                         !.res = "aborted"]
                                     ELSE ops[m]]
           /\ DoWrite(limit # MAX_LIMIT /\ acked # {}, <<>>, queue,
                      Returned(limit, quota, Cardinality(acked)), fast)
    /\ UNCHANGED <<rgen, lastSerial, open, conn, recvMax, c2b, b2c, broker, wire>>

\* A posted completion of async_wait_reply or of a cancelled request runs.
RunPosted(m) ==
    /\ ops[m].phase = "posted"
    /\ UNCHANGED <<limit, gen>>
    /\ OnReply(m, ops[m].res)
    /\ UNCHANGED <<rgen, lastSerial, open, conn, recvMax, c2b, b2c, broker, wire>>

\* assemble_op::dispatch of a reply, through replies::dispatch.
ReadReply ==
    /\ open /\ rgen = gen /\ b2c # <<>>
    /\ UNCHANGED <<limit, gen>>
    /\ b2c' = Tail(b2c)
    /\ LET reply == Head(b2c)
           handlers == {m \in Msgs : ops[m].phase = "waiting"
                                     /\ Answers(reply, ops[m])}
       IN  \/ /\ handlers = {}
              /\ fast' = Append(fast, reply)
              /\ UNCHANGED <<ops, queue, batch, sent, wgen, quota>>
           \/ \E m \in handlers : OnReply(m, reply.res)
    /\ UNCHANGED <<rgen, lastSerial, open, conn, recvMax, c2b, broker, wire>>

\* sentry_op: some reply is more than 20 seconds late; async_disconnect.
Sentry ==
    /\ "sentry" \in Faults
    /\ open /\ gen < MaxConn
    /\ Waiting # {}
    /\ \A q \in {queue, batch} : \A i \in DOMAIN q : q[i].op # Disc
    /\ UNCHANGED <<limit, gen>>
    /\ DoWrite(TRUE, batch, Append(queue, DisconnectReq), quota, fast)
    /\ UNCHANGED <<ops, rgen, lastSerial, open, conn, recvMax, c2b, b2c, broker,
                   wire>>
-------------------------------------------------------------------------------
TryAgainRestarts(m) ==
    [ops[m] EXCEPT !.phase = "sending", !.stage = "publish", !.dup = TRUE]

\* A handler of publish_send_op called with try_again: on_publish and the others
\* queue the packet again, with DUP if it was waiting for the reply to a PUBLISH;
\* an operation that was cancelled stops instead of resending its PUBLISH.
Stops(m) == ops[m].cancelled /\ ops[m].stage = "publish"
TryAgain(m) ==
    IF Stops(m) THEN [ops[m] EXCEPT !.phase = "done", !.res = "aborted"]
    ELSE [ops[m] EXCEPT !.phase = "sending",
                        !.dup = @ \/ (m \in Waiting /\ ops[m].stage = "publish")]
Req(m) == IF ops[m].stage = "pubrel" THEN PubrelReq(m, ops[m], TRUE)
          ELSE PublishReq(m, ops[m])

\* async_sender::resend with q the queue: everything outstanding gets try_again
\* (disconnect_op is then done), what was queued again is sorted and written.
Resend(q) ==
    LET again == Outstanding(q)
        freed == {m \in again : Stops(m) /\ ops[m].qos # 0}
    IN  /\ limit' = recvMax'
        /\ ops' = [m \in Msgs |-> IF m \in again THEN TryAgain(m) ELSE ops[m]]
        /\ DoWrite(TRUE, <<>>, Sorted({Req(m) : m \in {n \in again : ~Stops(n)}}),
                   Returned(limit', limit', Cardinality(freed)), fast)

\* The handler of a write that failed with try_again: the requests of the write
\* go back to the front of the queue.
WriterTryAgain == Resend(batch \o queue) /\ UNCHANGED rgen

ReaderTryAgainUnguarded == rgen' = gen' /\ Resend(batch \o queue)

\* The handler of a read that failed with try_again (assemble_op::on_read):
\* resend() does nothing while a write is in progress.
ReaderTryAgain ==
    /\ rgen' = gen'
    /\ \/ batch = <<>> /\ Resend(queue)
       \/ batch # <<>> /\ UNCHANGED <<ops, queue, batch, sent, wgen, limit, quota, fast>>

\* The stream was replaced while the operation worked on the old connection.
WriterFails ==
    /\ open
    /\ sent < Len(batch) /\ wgen < gen
    /\ UNCHANGED network
    /\ WriterTryAgain
    /\ UNCHANGED <<lastSerial, open, broker, wire>>

ReaderFails ==
    /\ open
    /\ rgen < gen
    /\ UNCHANGED network
    /\ ReaderTryAgain
    /\ UNCHANGED <<lastSerial, open, broker, wire>>

\* A new connection is up; what was under way on the old one is lost.  Handlers
\* that were ready have run: a reconnect takes several of them and round trips
\* to the broker.
NewConnection ==
    /\ open /\ gen < MaxConn
    /\ \A m \in Msgs : ops[m].phase # "posted"
    /\ batch # <<>> => sent < Len(batch)
    /\ gen' = gen + 1
    /\ conn' = "up"
    /\ recvMax' \in RecvMaxes
    /\ c2b' = <<>> /\ b2c' = <<>> /\ wire' = <<>>
    /\ \/ session' = session
       \/ "session_lost" \in Faults /\ session' = {}
    /\ UNCHANGED <<lastSerial, open, delivered>>

\* The writer's operation failed, it reconnected and gets try_again.
WriterReconnects ==
    /\ sent < Len(batch) /\ wgen = gen /\ conn # "up"
    /\ NewConnection
    /\ WriterTryAgain

\* The writer's reconnect ends with no_recovery (no broker to connect to):
\* async_sender::operator() cancels the client, then completes the requests.
NoRecovery ==
    /\ sent < Len(batch) /\ wgen = gen /\ conn # "up"
    /\ CloseClient(OpsOf(batch))
    /\ batch' = <<>> /\ sent' = 0 /\ wgen' = 0
    /\ quota' = Returned(limit, quota,
                         Cardinality({m \in OpsOf(batch) : ops[m].qos # 0}))

\* The reader's operation failed or timed out, it reconnected.
ReaderReconnects ==
    /\ rgen = gen
    /\ NewConnection
    /\ ReaderTryAgain
-------------------------------------------------------------------------------
\* The connection breaks; the last one is a lasting one.
Break ==
    /\ conn = "up" /\ gen < MaxConn
    /\ conn' = "lost"
    /\ UNCHANGED <<client, gen, recvMax, c2b, b2c, broker, wire>>

\* What the broker may answer: success, a reason code that rejects, a malformed
\* packet (not on the last connection, which has to last).
Results == {"ok"} \cup (Faults \cap {"error"})
           \cup (IF gen < MaxConn THEN Faults \cap {"malformed"} ELSE {})

\* The broker takes the next packet.
BrokerReceive ==
    /\ c2b # <<>>
    /\ LET pkt == Head(c2b)
           Reply(type, res) ==
               b2c' = IF conn # "up" THEN b2c
                      ELSE Append(b2c, [type |-> type, pid |-> pkt.pid, res |-> res])
           Accept == delivered' = [delivered EXCEPT ![pkt.msg] = IF @ < 2 THEN @ + 1 ELSE 2]
       IN  \/ /\ pkt.type = "DISCONNECT"
              /\ c2b' = <<>> /\ conn' = IF conn = "up" THEN "lost" ELSE conn
              /\ UNCHANGED <<b2c, broker>>
           \/ /\ pkt.type = "PUBLISH" /\ pkt.qos = 0
              /\ c2b' = Tail(c2b) /\ UNCHANGED conn
              /\ Accept
              /\ UNCHANGED <<b2c, session>>
           \/ /\ pkt.type = "PUBLISH" /\ pkt.qos = 1
              /\ c2b' = Tail(c2b) /\ UNCHANGED conn
              /\ \E res \in Results :
                    /\ Reply("PUBACK", res)
                    /\ IF res = "error" THEN UNCHANGED delivered ELSE Accept
              /\ UNCHANGED session
           \/ /\ pkt.type = "PUBLISH" /\ pkt.qos = 2
              /\ c2b' = Tail(c2b) /\ UNCHANGED conn
              /\ \/ /\ pkt.pid \in session
                    /\ Reply("PUBREC", "ok")
                    /\ UNCHANGED broker
                 \/ /\ pkt.pid \notin session
                    /\ \E res \in Results :
                          /\ Reply("PUBREC", res)
                          /\ IF res = "error" THEN UNCHANGED broker
                             ELSE Accept /\ session' = session \cup {pkt.pid}
           \/ /\ pkt.type = "PUBREL"
              /\ c2b' = Tail(c2b) /\ UNCHANGED conn
              /\ \E res \in Results : Reply("PUBCOMP", res)
              /\ session' = session \ {pkt.pid}
              /\ UNCHANGED delivered
    /\ UNCHANGED <<client, gen, recvMax, wire>>

Next ==
    \/ \E m \in Msgs, q \in QosSet : Publish(m, q) \/ PublishFails(m, q)
    \/ \E m \in Msgs : CancelOp(m) \/ RunPosted(m)
    \/ Cancel
    \/ WriteSome \/ WriteDone \/ WriteAborted
    \/ ReadReply
    \/ Sentry
    \/ WriterFails \/ ReaderFails
    \/ WriterReconnects \/ ReaderReconnects \/ NoRecovery
    \/ Break \/ BrokerReceive

\* The executor runs ready handlers, the kernel and the broker make progress,
\* and the client reconnects when the connection is down.
Fairness ==
    /\ \A m \in Msgs : WF_vars(RunPosted(m))
    /\ WF_vars(WriteSome) /\ WF_vars(WriteDone) /\ WF_vars(WriteAborted)
    /\ WF_vars(ReadReply)
    /\ WF_vars(WriterFails) /\ WF_vars(ReaderFails)
    /\ WF_vars(conn # "up" /\ ReaderReconnects)
    /\ WF_vars(BrokerReceive)

Spec == Init /\ [][Next]_vars
FairSpec == Spec /\ Fairness
-------------------------------------------------------------------------------
\* The PUBLISH packets sent on this connection, and their messages.
Publishes == {i \in DOMAIN wire : wire[i].type = "PUBLISH"}
Published == {wire[i].msg : i \in Publishes}

\* An operation has exactly one request in the queue or in the write in progress
\* while it is sending, and none otherwise.
OneRequestEach ==
    \A m \in Msgs :
        Cardinality({i \in DOMAIN queue : queue[i].op = m})
        + Cardinality({i \in DOMAIN batch : batch[i].op = m})
        = IF ops[m].phase = "sending" THEN 1 ELSE 0

\* async_publish reports success only for a message that the broker accepted,
\* across reconnects, resends and reuse of packet identifiers.
AckedMeansDelivered ==
    \A m \in Msgs : /\ ops[m].phase = "done" /\ ops[m].res = "ok"
                    /\ ops[m].qos # 0
                    => delivered[m] > 0

\* A QoS 2 message is accepted at most once while the broker keeps the session.
ExactlyOnce ==
    \A m \in Msgs : ops[m].qos = 2 => delivered[m] <= 1

\* The client never has more unacknowledged QoS 1 and QoS 2 PUBLISH packets on
\* a connection than the Receive Maximum of its CONNACK.
ReceiveMaximum ==
    Cardinality({m \in Published : ops[m].qos # 0 /\ Live(m)}) <= recvMax

\* PUBLISH packets go out in the order in which they were initiated, also when
\* they are sent again; only QoS 0 may overtake QoS 1 and 2, and the other way
\* round, when there is a Receive Maximum.
InOrder ==
    \A i, j \in Publishes :
        i < j /\ (ops[wire[i].msg].qos = 0 <=> ops[wire[j].msg].qos = 0)
        => wire[i].msg <= wire[j].msg

\* A PUBLISH packet is sent at most once on one connection.
SentOncePerConnection ==
    \A i, j \in Publishes : wire[i].msg = wire[j].msg => i = j

\* Once the reader and the writer are on the current connection, an operation
\* that waits for a reply sent its packet on this connection: none is left
\* waiting for an answer that went down with an old one.
WaitsOnCurrentConnection ==
    open /\ rgen = gen /\ (batch = <<>> \/ wgen = gen) =>
        \A m \in Waiting : \E i \in DOMAIN wire :
            wire[i] = [type |-> IF ops[m].stage = "pubrel" THEN "PUBREL"
                                ELSE "PUBLISH", msg |-> m]

\* Between handlers nothing that could be written is left waiting: with no
\* write in progress, the queue holds only throttled requests and the quota is
\* used up.
NoForgottenRequest ==
    open /\ batch = <<>> => Chosen(queue, limit, quota) = {}

\* Every publish_send_op has one way to go on, whatever reconnects, resends and
\* fast replies came between its handlers: its packet is queued or being written
\* once, or it waits for a reply on the current connection; and a queue that
\* could be written is not left for later.  No handler is lost or called twice.
OneWayOn ==
    OneRequestEach /\ WaitsOnCurrentConnection /\ NoForgottenRequest

\* The operations whose packet waits for quota, and the ones charged to it.
Throttled == {queue[i].op : i \in {j \in DOMAIN queue : queue[j].throttled}}
Charged == {m \in Msgs : ops[m].qos # 0 /\ Live(m)} \ Throttled

\* The sender implements the Receive Maximum window of SendQuota.
Window == INSTANCE SendQuota WITH Senders <- Msgs, queued <- Throttled,
                                  inflight <- Charged
ImplementsWindow == Window!QuotaSpec

\* Every message that was published is eventually completed.
EveryPublishCompletes ==
    \A m \in Msgs : ops[m].phase # "idle" ~> ops[m].phase = "done"

\* The same with mqtt_client::cancel(): only a packet that a posted reply queues
\* behind an aborted write, after cancel() emptied the queue, may stay there.
CompletesUnlessStranded ==
    \A m \in Msgs :
        ops[m].phase # "idle"
        ~> (ops[m].phase = "done" \/ (~open /\ m \in OpsOf(queue)))
===============================================================================
