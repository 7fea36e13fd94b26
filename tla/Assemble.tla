------------------------------- MODULE Assemble -------------------------------
(***************************************************************************)
(* assemble_op and read_message_op: packets are cut out of the bytes that  *)
(* read_op delivers, and handed on, over connections that break and are    *)
(* replaced, by the reader or, meanwhile, by the writer.                   *)
(*                                                                         *)
(* A byte is kept with the place that it was sent at: its connection, its  *)
(* packet and its offset in that packet.  Decoding the body of a packet is *)
(* Codec's matter; here the decoder accepts it or not.  How streams are    *)
(* replaced is AutoconnectStream's; here it is one step.  The errors and   *)
(* the cancellation that end the reader are LifeCycle's.  A definition     *)
(* named after another one with a remark is a mistaken form of it, which a *)
(* property rules out.                                                     *)
(***************************************************************************)
EXTENDS Varint, SequencesExt

CONSTANTS
    Packets,      \* what the broker may send: sequences of bytes
    Undecodable,  \* those with a body that its decoder does not accept
    MaxPacket,    \* maximum_packet_size of the CONNECT, the size of _read_buff
    MaxSent,      \* bound: packets sent
    MaxConn       \* bound: connections after the first one

ASSUME AssembleAssumption ==
    /\ Undecodable \subseteq Packets /\ MaxPacket > 4
    /\ MaxSent \in Nat /\ MaxConn \in Nat

VARIABLES
    sent,     \* the packets sent on each connection
    conn,     \* the connection of *_stream_ptr
    link,     \* whether it is up, or down: broken or shut down
    wire,     \* its bytes that are not read yet
    reader,   \* what the reader waits for, the connection it reads from
    got,      \* bytes that a finished read left behind the span
    span,     \* _data_span
    frame,    \* the last packet handed on
    handed,   \* how many packets of each connection were handed on
    dirty     \* connections made between a read and the handler of it, or on
              \* which a malformed packet came

vars == <<sent, conn, link, wire, reader, got, span, frame, handed, dirty>>

\* The bytes of p, packet i of connection c, with their places.
Cells(c, i, p) == [k \in DOMAIN p |-> <<p[k], c, i, k>>]
Bytes(cells) == [k \in DOMAIN cells |-> cells[k][1]]
ConnOf(cell) == cell[2]
PacketOf(cell) == cell[3]

Init ==
    /\ sent = [c \in 0..MaxConn |-> <<>>]
    /\ conn = 0 /\ link = "up" /\ wire = <<>>
    /\ reader = [phase |-> "io", on |-> 0]
    /\ got = <<>> /\ span = <<>>
    /\ frame = <<>> /\ handed = [c \in 0..MaxConn |-> 0]
    /\ dirty = {}
-------------------------------------------------------------------------------
\* control_code_e, and valid_header
Code(byte) == byte - (byte % 16)
Publish == 48
Pubrel == 96
Disconnect == 224
AuthCode == 240

ValidHeader(control_byte) ==
    CASE Code(control_byte) = Publish -> TRUE
      [] Code(control_byte) = Pubrel -> control_byte % 16 = 2
      [] OTHER -> control_byte % 16 = 0

PerformWithoutPost(at_least, s) ==
    /\ span' = s /\ got' = <<>>
    /\ reader' = [phase |-> "io", on |-> conn']

\* assemble_op::perform with transfer_at_least(at_least) and s the span: what is
\* there is looked at first, or more is read.
Perform(at_least, s) ==
    /\ span' = s /\ got' = <<>>
    /\ reader' = [phase |-> IF at_least = 0 /\ s # <<>> THEN "posted" ELSE "io",
                  on |-> conn']

\* complete(malformed_packet), on_malformed_packet: the span is dropped, a
\* DISCONNECT is sent.
Malformed ==
    /\ span' = <<>> /\ got' = <<>>
    /\ reader' = [phase |-> "disconnect", on |-> conn]
    /\ dirty' = dirty \cup {conn}
    /\ UNCHANGED <<frame, handed>>

HandOn(cells) ==
    /\ frame' = cells
    /\ handed' = [handed EXCEPT ![ConnOf(Last(cells))] = @ + 1]

\* read_message_op::dispatch: a PUBLISH or AUTH is passed on, a DISCONNECT has the
\* stream shut down, what cannot be decoded has a DISCONNECT sent.
DispatchMessage(packet, rest) ==
    IF packet \in Undecodable \/ Code(Head(packet)) = Disconnect
    THEN /\ span' = rest /\ got' = <<>>
         /\ reader' = [phase |-> IF packet \in Undecodable THEN "disconnect" ELSE "shutdown",
                       on |-> conn]
    ELSE Perform(0, rest)

\* assemble_op::dispatch, with the rest of the span: a PINGRESP or a reply is done
\* with at once.
Dispatch(cells, rest) ==
    LET packet == Bytes(cells)
    IN  IF ~ValidHeader(Head(packet)) THEN Malformed
        ELSE /\ HandOn(cells)
             /\ IF Code(Head(packet)) \in {Publish, Disconnect, AuthCode}
                THEN DispatchMessage(packet, rest)
                ELSE Perform(0, rest)
             /\ UNCHANGED dirty

\* on_read without an error, with s the expanded span.
ProcessSizeWithoutHeader(s) ==
    LET b == Bytes(s)
        varlen == VarintParse(b, 2, Len(s) + 1)
        header == varlen.pos - 1
    IN  IF Code(b[1]) = 0 THEN Malformed
        ELSE IF ~varlen.ok
        THEN IF Len(s) < 5 THEN Perform(1, s) /\ UNCHANGED <<frame, handed, dirty>>
             ELSE Malformed
        ELSE IF varlen.val > MaxPacket THEN Malformed
        ELSE IF Len(s) - header < varlen.val
        THEN Perform(1, s) /\ UNCHANGED <<frame, handed, dirty>>
        ELSE Dispatch(SubSeq(s, 1, header + varlen.val),
                      SubSeq(s, header + varlen.val + 1, Len(s)))

Process(s) ==
    LET b == Bytes(s)
        varlen == VarintParse(b, 2, Len(s) + 1)
        header == varlen.pos - 1
    IN  IF Code(b[1]) = 0 THEN Malformed
        ELSE IF ~varlen.ok
        THEN IF Len(s) < 5 THEN Perform(1, s) /\ UNCHANGED <<frame, handed, dirty>>
             ELSE Malformed
        ELSE IF varlen.val > MaxPacket - header THEN Malformed
        ELSE IF Len(s) - header < varlen.val
        THEN Perform(1, s) /\ UNCHANGED <<frame, handed, dirty>>
        ELSE Dispatch(SubSeq(s, 1, header + varlen.val),
                      SubSeq(s, header + varlen.val + 1, Len(s)))
-------------------------------------------------------------------------------
\* The broker sends a packet.
Send ==
    /\ link = "up"
    /\ FoldFunction(LAMBDA s, n : n + Len(s), 0, sent) < MaxSent
    /\ \E p \in Packets :
          /\ sent' = [sent EXCEPT ![conn] = Append(@, p)]
          /\ wire' = wire \o Cells(conn, Len(sent[conn]) + 1, p)
    /\ UNCHANGED <<conn, link, reader, got, span, frame, handed, dirty>>

\* The connection breaks.  Bytes on their way may be lost.
Break ==
    /\ link = "up" /\ conn < MaxConn
    /\ link' = "down"
    /\ \E n \in {0, Len(wire)} : wire' = SubSeq(wire, 1, n)
    /\ UNCHANGED <<sent, conn, reader, got, span, frame, handed, dirty>>

\* async_read_some ends with some bytes, no more than there is room for.
ReadSome ==
    /\ reader.phase = "io" /\ reader.on = conn
    /\ \E n \in 1..Len(wire) :
          /\ n <= MaxPacket - Len(span)
          /\ got' = SubSeq(wire, 1, n)
          /\ wire' = SubSeq(wire, n + 1, Len(wire))
    /\ reader' = [reader EXCEPT !.phase = "read"]
    /\ UNCHANGED <<sent, conn, link, span, frame, handed, dirty>>

\* It fails: the connection was replaced or is down, or the timer expired.
ReadFails ==
    /\ reader.phase = "io"
    /\ reader.on # conn \/ conn < MaxConn
    /\ reader' = [reader EXCEPT !.phase = "failed"]
    /\ UNCHANGED <<sent, conn, link, wire, got, span, frame, handed, dirty>>

OnRead ==
    /\ reader.phase \in {"read", "posted"}
    /\ UNCHANGED <<sent, conn, link, wire>>
    /\ Process(span \o got)

OnTryAgainKeepsSpan == Perform(1, span)

\* on_read with try_again.
OnTryAgain == Perform(1, <<>>)

\* A new connection replaces the current one.
Replace ==
    /\ conn < MaxConn
    /\ conn' = conn + 1 /\ link' = "up" /\ wire' = <<>>

\* read_op's on_read with an error: async_reconnect finds the connection replaced,
\* or replaces it; then on_reconnect.
OnReadError ==
    /\ reader.phase = "failed"
    /\ IF reader.on # conn THEN UNCHANGED <<conn, link, wire>> ELSE Replace
    /\ OnTryAgain
    /\ UNCHANGED <<sent, frame, handed, dirty>>

\* The writer replaces a connection that is down, while shutdown_op does not have
\* the mutex.
WriterReplaces ==
    /\ link = "down" /\ reader.phase # "shutdown"
    /\ Replace
    /\ dirty' = IF reader.phase \in {"read", "posted", "disconnect"} /\ span \o got # <<>>
                THEN dirty \cup {conn'} ELSE dirty
    /\ UNCHANGED <<sent, reader, got, span, frame, handed>>

OnDisconnectEnds(l) ==
    /\ link' = l /\ wire' \in {wire} \cup (IF l = "down" THEN {<<>>} ELSE {})
    /\ reader' = [reader EXCEPT !.phase = "done"]
    /\ UNCHANGED <<got, span>>

\* read_message_op's on_disconnect, the connection being l now.  What arrived on
\* one that is shut down may be read or not.
OnDisconnect(l) ==
    /\ link' = l /\ wire' \in {wire} \cup (IF l = "down" THEN {<<>>} ELSE {})
    /\ Perform(0, span)

\* async_shutdown ends; or the DISCONNECT was not sent, since the connection was
\* replaced.
ShutDown ==
    /\ UNCHANGED <<sent, conn, frame, handed, dirty>>
    /\ \/ reader.phase \in {"disconnect", "shutdown"} /\ OnDisconnect("down")
       \/ reader.phase = "disconnect" /\ reader.on # conn /\ OnDisconnect(link)

Next ==
    \/ Send
    \/ Break
    \/ ReadSome
    \/ ReadFails
    \/ OnRead
    \/ OnReadError
    \/ WriterReplaces
    \/ ShutDown

\* Handlers run, and what async_disconnect waits for ends.
Fairness == WF_vars(OnRead) /\ WF_vars(OnReadError) /\ WF_vars(ShutDown)

Spec == Init /\ [][Next]_vars /\ Fairness
-------------------------------------------------------------------------------
(* What assemble_op hands on is one packet that the broker sent, whole, and the
   packets of a connection are handed on in order and without a gap: however the
   bytes arrive, and whatever was left of a connection when it was replaced.  The
   exceptions are a connection after a malformed packet, and one that the writer
   made while bytes of the one before were waiting for a handler of the reader. *)
FramesWhole ==
    frame # <<>> /\ ConnOf(Last(frame)) \notin dirty =>
        LET c == ConnOf(Last(frame))
            i == PacketOf(Last(frame))
        IN  /\ frame = Cells(c, i, sent[c][i])
            /\ i = handed[c]

(* The reader never waits for bytes while a whole packet is in the buffer: after
   every packet, assemble_op looks at what came with it. *)
NoPacketLeft ==
    reader.phase = "io" /\ span # <<>> =>
        LET c == ConnOf(Head(span))
            i == PacketOf(Head(span))
        IN  c \notin dirty => ~IsPrefix(Cells(c, i, sent[c][i]), span)

(* A read always has room for a byte, so that on_read's assertion that there is
   one holds: a packet that does not fit is refused by its length. *)
ReadHasRoom ==
    reader.phase = "io" => Len(span) < MaxPacket

(* The reader reads again after a malformed packet, a DISCONNECT and a connection
   that broke. *)
ReadsAgain ==
    reader.phase # "io" ~> reader.phase = "io"
================================================================================
