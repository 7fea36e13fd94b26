----------------------------- MODULE PublishReceive -----------------------------
(***************************************************************************)
(* The receiving half of the client: read_message_op and publish_rec_op    *)
(* for QoS 0, 1 and 2, replies (the handlers and fast replies of PUBREL)   *)
(* and client_service::update_session_state, over the write queue of       *)
(* async_sender and a stream that reconnects, from a broker.               *)
(*                                                                         *)
(* A publish_rec_op is where its packet or its handler is: in the write    *)
(* queue, in the write in progress, in replies or among the posted         *)
(* completions.  Nobody waits for it, so one that gives up is just gone.   *)
(* Steps, connections and writes are as in PublishFlow.  The broker and    *)
(* the network are external.  A definition named after another one with a  *)
(* remark is a mistaken form of it, which a property rules out.            *)
(***************************************************************************)
EXTENDS Integers, Sequences, FiniteSets, SequencesExt

CONSTANTS
    N,               \* the messages are 1..N, sent by the broker in this order
    QosSet,          \* their QoS levels
    MaxPid,          \* packet identifiers of the broker
    MaxConn,         \* bound: connections established
    Faults,          \* what else may happen, see the guards
    PartialWrites,   \* the kernel may take a write in several pieces
    Prompt           \* a posted completion and, after a reconnect, a ready
                     \* handler of the writer run before the reader's

ASSUME PublishReceiveAssumption ==
    /\ N \in Nat /\ MaxPid \in Nat /\ MaxConn \in Nat
    /\ QosSet \subseteq 0..2
    /\ Faults \subseteq {"session_lost", "malformed"}
    /\ PartialWrites \in BOOLEAN /\ Prompt \in BOOLEAN

VARIABLES
    queue, batch, sent,   \* async_sender: the queue and the write in progress
    replies,              \* handlers and fast replies for PUBREL, and the
                          \* completions that were posted
    channel,              \* _rec_channel: the messages stored, in order
    wgen, rgen,           \* the connections the writer and the reader work on
    gen, conn,            \* the current connection: its number; up, lost, shut
    c2b, b2c,             \* packets under way to the broker and to the client
    out                   \* broker: what it knows of each message

sender == <<queue, batch, sent, wgen>>
vars == <<sender, replies, channel, rgen, gen, conn, c2b, b2c, out>>

Msgs == 1..N
Pids == 1..MaxPid
None == 0

Req(type, pid, msg) == [type |-> type, pid |-> pid, msg |-> msg]
DisconnectReq == Req("DISCONNECT", None, None)

\* What the broker sends for message m in state o.
Packet(m, o, res) ==
    [type |-> IF o.state = "pubrel" THEN "PUBREL" ELSE "PUBLISH", qos |-> o.qos,
     pid |-> o.pid, msg |-> m, res |-> res]

\* A PUBLISH or PUBREL may be malformed, but not on the last connection, which has to last.
Results == {"ok"} \cup (IF gen < MaxConn THEN Faults \cap {"malformed"} ELSE {})
-------------------------------------------------------------------------------
\* do_write with q the queue, b the write still in progress and r the replies: a
\* terminal request goes alone; a write that starts clears the fast replies.
DoWrite(q, b, r) ==
    LET start == b = <<>> /\ q # <<>>
        alone == Contains(q, DisconnectReq)
    IN  /\ batch' = IF ~start THEN b ELSE IF alone THEN <<DisconnectReq>> ELSE q
        /\ queue' = IF ~start THEN q
                    ELSE IF alone THEN RemoveFirst(q, DisconnectReq) ELSE <<>>
        /\ replies' = IF start THEN [r EXCEPT !.fast = <<>>] ELSE r
        /\ sent' = IF b = <<>> THEN 0 ELSE sent
        /\ wgen' = IF start THEN gen' ELSE IF b = <<>> THEN 0 ELSE wgen

\* wait_pubrel of the operation with identifier pid and message msg.  A handler
\* that waits for the same identifier is aborted, which ends its operation.
WaitPubrel(r, pid, msg) ==
    LET hits == {i \in DOMAIN r.fast : r.fast[i].pid = pid}
        first == CHOOSE i \in hits : \A j \in hits : i <= j
    IN  IF hits = {} THEN [r EXCEPT !.handlers[pid] = msg]
        ELSE [handlers |-> [r.handlers EXCEPT ![pid] = None],
              fast |-> RemoveAt(r.fast, first),
              posted |-> Append(r.posted, [pid |-> pid, msg |-> msg,
                                           res |-> r.fast[first].res])]

\* publish_rec_op::operator()(on_pubrel) with a PUBREL: PUBCOMP, or a disconnect
\* and back to waiting if it is malformed.
OnPubrel(pid, msg, res, r) ==
    \/ res = "ok" /\ DoWrite(Append(queue, Req("PUBCOMP", pid, msg)), batch, r)
    \/ /\ res = "malformed"
       /\ LET cleared == IF batch = <<>> THEN [r EXCEPT !.fast = <<>>] ELSE r
          IN  DoWrite(Append(queue, DisconnectReq), batch,
                      WaitPubrel(cleared, pid, msg))
-------------------------------------------------------------------------------
Init ==
    /\ queue = <<>> /\ batch = <<>> /\ sent = 0
    /\ replies = [handlers |-> [p \in Pids |-> None], fast |-> <<>>,
                  posted |-> <<>>]
    /\ channel = <<>>
    /\ wgen = 0 /\ rgen = 0 /\ gen = 0 /\ conn = "shut"
    /\ c2b = <<>> /\ b2c = <<>>
    /\ out = [m \in Msgs |-> [state |-> "new", qos |-> 0, pid |-> None]]

\* The reader has a packet.
Readable == /\ rgen = gen /\ b2c # <<>>
            /\ Prompt => /\ replies.posted = <<>>
                         /\ gen > 1 /\ batch # <<>>
                            => wgen = gen /\ sent < Len(batch)

\* read_message_op::dispatch of a PUBLISH, publish_rec_op::perform.  Nothing comes
\* of a message with malformed QoS bits but a disconnect.
ReadPublish ==
    /\ Readable /\ Head(b2c).type = "PUBLISH"
    /\ b2c' = Tail(b2c)
    /\ UNCHANGED gen
    /\ LET p == Head(b2c)
       IN  \/ /\ p.res = "malformed"
              /\ DoWrite(Append(queue, DisconnectReq), batch, replies)
              /\ UNCHANGED channel
           \/ /\ p.res = "ok" /\ p.qos = 0
              /\ channel' = Append(channel, p.msg)
              /\ UNCHANGED <<sender, replies>>
           \/ /\ p.res = "ok" /\ p.qos # 0
              /\ LET type == IF p.qos = 1 THEN "PUBACK" ELSE "PUBREC"
                 IN  DoWrite(Append(queue, Req(type, p.pid, p.msg)), batch, replies)
              /\ UNCHANGED channel
    /\ UNCHANGED <<rgen, conn, c2b, out>>

\* assemble_op::dispatch of a PUBREL, through replies::dispatch.
ReadPubrel ==
    /\ Readable /\ Head(b2c).type = "PUBREL"
    /\ b2c' = Tail(b2c)
    /\ UNCHANGED gen
    /\ LET p == Head(b2c)
           msg == replies.handlers[p.pid]
       IN  \/ /\ msg = None
              /\ replies' = [replies EXCEPT !.fast = Append(@, p)]
              /\ UNCHANGED sender
           \/ /\ msg # None
              /\ OnPubrel(p.pid, msg, p.res,
                          [replies EXCEPT !.handlers[p.pid] = None])
    /\ UNCHANGED <<channel, rgen, conn, c2b, out>>

\* The completion that wait_pubrel posted for a fast PUBREL.
RunPosted ==
    /\ replies.posted # <<>>
    /\ UNCHANGED gen
    /\ LET p == Head(replies.posted)
       IN  OnPubrel(p.pid, p.msg, p.res, [replies EXCEPT !.posted = Tail(@)])
    /\ UNCHANGED <<channel, rgen, conn, c2b, b2c, out>>
-------------------------------------------------------------------------------
\* The kernel takes packets of the write in progress.
WriteSome ==
    /\ conn # "shut" /\ wgen = gen
    /\ sent < Len(batch)
    /\ sent' \in IF PartialWrites THEN (sent + 1)..Len(batch) ELSE {Len(batch)}
    /\ c2b' = IF conn = "up" THEN c2b \o SubSeq(batch, sent + 1, sent') ELSE c2b
    /\ UNCHANGED <<queue, batch, wgen, replies, channel, rgen, gen, conn,
                   b2c, out>>

\* The write succeeds: on_puback and on_pubcomp store the message, on_pubrec
\* waits for PUBREL; a disconnect shuts the stream down.  The packets whose
\* message is stored have a type of stores, those who wait one of waits.
Written(stores, waits) ==
    /\ batch # <<>> /\ sent = Len(batch)
    /\ wgen = gen => rgen = gen
    /\ UNCHANGED gen
    /\ LET Done(r, q) == IF q.type \in waits THEN WaitPubrel(r, q.pid, q.msg) ELSE r
           final == SelectSeq(batch, LAMBDA q : q.type \in stores)
       IN  /\ channel' = channel \o [i \in DOMAIN final |-> final[i].msg]
           /\ conn' = IF Contains(batch, DisconnectReq) THEN "shut" ELSE conn
           /\ DoWrite(queue, <<>>, FoldLeft(Done, replies, batch))
    /\ UNCHANGED <<rgen, c2b, b2c, out>>
WriteDoneStoresOnPubrec == Written({"PUBACK", "PUBREC"}, {"PUBREC"})
WriteDoneStoresOnPuback == Written({"PUBACK"}, {"PUBREC"})
WriteDoneWaitsAgain == Written({"PUBACK", "PUBCOMP"}, {"PUBREC", "PUBCOMP"})
WriteDone == Written({"PUBACK", "PUBCOMP"}, {"PUBREC"})
-------------------------------------------------------------------------------
\* update_session_state, when the CONNACK said that the session was lost or not:
\* a lost session aborts the handlers that wait for PUBREL.
UpdateSession(lost) ==
    IF lost THEN [replies EXCEPT !.handlers = [p \in Pids |-> None]] ELSE replies

ResendDropsPubcomp(q, r) ==
    LET waiting == SetToSeq({p \in Pids : r.handlers[p] # None})
        Again(s, p) == WaitPubrel(s, p, r.handlers[p])
        taken == [r EXCEPT !.handlers = [p \in Pids |-> None]]
    IN  DoWrite(<<>>, <<>>, FoldLeft(Again, taken, waiting))

\* async_sender::resend with q the queue: try_again to the handlers, which wait
\* again, and to the requests, of which only those of PUBCOMP do.
Resend(q, r) ==
    LET waiting == SetToSeq({p \in Pids : r.handlers[p] # None})
        Again(s, p) == WaitPubrel(s, p, r.handlers[p])
        taken == [r EXCEPT !.handlers = [p \in Pids |-> None]]
        Return(s, req) == IF req.type = "PUBCOMP"
                          THEN WaitPubrel(s, req.pid, req.msg) ELSE s
    IN  DoWrite(<<>>, <<>>, FoldLeft(Return, FoldLeft(Again, taken, waiting), q))

\* async_sender::operator() and assemble_op::on_read with try_again.
WriterTryAgain(lost) == Resend(batch \o queue, UpdateSession(lost)) /\ UNCHANGED rgen
ReaderTryAgain(lost) ==
    /\ rgen' = gen'
    /\ \/ batch = <<>> /\ Resend(queue, UpdateSession(lost))
       \/ /\ batch # <<>>
          /\ replies' = UpdateSession(lost)
          /\ UNCHANGED sender

\* The stream was replaced while the operation worked on the old connection; the
\* session state was brought up to date by the one who replaced it.
WriterFails ==
    /\ sent < Len(batch) /\ wgen < gen
    /\ UNCHANGED gen
    /\ WriterTryAgain(FALSE)
    /\ UNCHANGED <<channel, conn, c2b, b2c, out>>

ReaderFails ==
    /\ rgen < gen
    /\ UNCHANGED gen
    /\ ReaderTryAgain(FALSE)
    /\ UNCHANGED <<channel, conn, c2b, b2c, out>>

\* A new connection.  What was under way is lost; the broker sends again what is
\* not acknowledged, in order, or has lost its session.
NewConnection(lost) ==
    /\ gen < MaxConn
    /\ replies.posted = <<>>
    /\ batch # <<>> => sent < Len(batch)
    /\ gen' = gen + 1
    /\ conn' = "up"
    /\ c2b' = <<>>
    /\ out' = [m \in Msgs |-> IF lost /\ out[m].state \in {"publish", "pubrel"}
                              THEN [out[m] EXCEPT !.state = "lost"] ELSE out[m]]
    /\ LET open == SelectSeq([m \in Msgs |-> m],
                             LAMBDA m : out'[m].state \in {"publish", "pubrel"})
       IN  b2c' = [i \in DOMAIN open |-> Packet(open[i], out'[open[i]], "ok")]
    /\ UNCHANGED channel

Losses == {FALSE} \cup {f = "session_lost" : f \in Faults \cap {"session_lost"}}

WriterReconnects ==
    /\ sent < Len(batch) /\ wgen = gen /\ conn # "up"
    /\ \E lost \in Losses : NewConnection(lost) /\ WriterTryAgain(lost)

ReaderReconnects ==
    /\ rgen = gen
    /\ \E lost \in Losses : NewConnection(lost) /\ ReaderTryAgain(lost)
-------------------------------------------------------------------------------
\* The connection breaks; the last one is a lasting one.
Break ==
    /\ conn = "up" /\ gen < MaxConn
    /\ conn' = "lost"
    /\ UNCHANGED <<sender, replies, channel, rgen, gen, c2b, b2c, out>>

Active(m) == out[m].state \in {"publish", "pubrel"}

\* The broker sends the next message, under the smallest free identifier.
BrokerSend(m, q) ==
    /\ conn = "up"
    /\ out[m].state = "new" /\ \A n \in 1..(m - 1) : out[n].state # "new"
    /\ LET free == Pids \ {out[n].pid : n \in {k \in Msgs : Active(k)}}
       IN  /\ q # 0 => free # {}
           /\ out' = [out EXCEPT ![m] =
                  [state |-> IF q = 0 THEN "done" ELSE "publish", qos |-> q,
                   pid |-> IF q = 0 THEN None
                           ELSE CHOOSE p \in free : \A r \in free : p <= r]]
    /\ \E res \in Results : b2c' = Append(b2c, Packet(m, out'[m], res))
    /\ UNCHANGED <<sender, replies, channel, rgen, gen, conn, c2b>>

\* The broker takes the next packet.
BrokerReceive ==
    /\ c2b # <<>>
    /\ LET p == Head(c2b)
           acked == {m \in Msgs :
                       /\ out[m].pid = p.pid
                       /\ <<p.type, out[m].qos, out[m].state>> \in
                             {<<"PUBACK", 1, "publish">>, <<"PUBREC", 2, "publish">>,
                              <<"PUBCOMP", 2, "pubrel">>}}
           to == IF p.type = "PUBREC" THEN "pubrel" ELSE "done"
       IN  /\ out' = [m \in Msgs |-> IF m \in acked
                                     THEN [out[m] EXCEPT !.state = to] ELSE out[m]]
           /\ conn' = IF p.type = "DISCONNECT" /\ conn = "up" THEN "lost" ELSE conn
           /\ c2b' = IF p.type = "DISCONNECT" THEN <<>> ELSE Tail(c2b)
           /\ \/ /\ p.type = "PUBREC" /\ conn = "up"
                 /\ \E m \in acked, res \in Results :
                        b2c' = Append(b2c, Packet(m, out'[m], res))
              \/ ~(p.type = "PUBREC" /\ conn = "up" /\ acked # {}) /\ UNCHANGED b2c
    /\ UNCHANGED <<sender, replies, channel, rgen, gen>>

Next ==
    \/ ReadPublish \/ ReadPubrel \/ RunPosted
    \/ WriteSome \/ WriteDone
    \/ WriterFails \/ ReaderFails \/ WriterReconnects \/ ReaderReconnects
    \/ Break \/ BrokerReceive
    \/ \E m \in Msgs, q \in QosSet : BrokerSend(m, q)

\* As in PublishFlow.
Fairness ==
    /\ WF_vars(ReadPublish) /\ WF_vars(ReadPubrel) /\ WF_vars(RunPosted)
    /\ WF_vars(WriteSome) /\ WF_vars(WriteDone)
    /\ WF_vars(WriterFails) /\ WF_vars(ReaderFails)
    /\ WF_vars(conn # "up" /\ ReaderReconnects)
    /\ WF_vars(BrokerReceive)

Spec == Init /\ [][Next]_vars
FairSpec == Spec /\ Fairness
-------------------------------------------------------------------------------
Stored(m) == Contains(channel, m)
Copies(m) == Cardinality({i \in DOMAIN channel : channel[i] = m})

\* A QoS 2 message is handed to the application at most once, however often the
\* connection breaks between its four packets.
StoredOnce == \A m \in Msgs : out[m].qos # 1 => Copies(m) <= 1

\* A QoS 2 message is handed over only after the broker released it with PUBREL,
\* also when identifiers are used again: no PUBREL completes another message.
ReleasedBeforeStored ==
    \A m \in Msgs : out[m].qos = 2 /\ Stored(m)
                     => out[m].state \in {"pubrel", "done", "lost"}

\* A message that the broker considers delivered is with the application, or the
\* write that acknowledged it is about to complete: no acknowledgement is sent
\* for a message that is then dropped.
AckedIsStored ==
    \A m \in Msgs : /\ out[m].state = "done" /\ out[m].qos # 0
                    => Stored(m) \/ \E i \in DOMAIN batch : batch[i].msg = m

\* Every QoS 1 and 2 message reaches the application, unless the broker lost it.
EveryMessageStored ==
    \A m \in Msgs : Active(m) ~> (Stored(m) \/ out[m].state = "lost")

===============================================================================
