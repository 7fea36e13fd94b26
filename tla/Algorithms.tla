------------------------------ MODULE Algorithms ------------------------------
(***************************************************************************)
(* The pure functions of the client against reference definitions, over    *)
(* bounded inputs: the codec, the tables of reason codes, the validation   *)
(* of strings, topic filters and requests, the list of brokers, the queue  *)
(* of received messages and the choice of what goes into a write.  A step  *)
(* chooses an input; the properties say what the functions return for it.  *)
(***************************************************************************)
EXTENDS RequestValidation, ReasonCodes, BoundedDeque, DoWriteLoop

CONSTANTS
    Lengths,       \* lengths of strings and payloads in packets
    CodePoints,    \* characters of UTF-8 strings
    MaxFilter,     \* bound: characters of a topic filter
    MaxChannelOps, \* bound: stores and receives on the receive channel
    MaxQueue       \* bound: requests in the write queue

VARIABLE input

Init == input = [kind |-> "none"]
-------------------------------------------------------------------------------
Str(n) == [i \in 1..n |-> 97]
Strings == {Str(n) : n \in Lengths}

\* Values of a property: the ends of its range, and 7, 14 and 21 bit boundaries.
Values(p) ==
    CASE PropertyType(p) = "uint8" -> {0, 1, 255}
      [] PropertyType(p) = "uint16" -> {0, 258, 65535}
      [] PropertyType(p) = "uint32" -> {0, 16909060, 2147483647}
      [] PropertyType(p) = "varint" ->
            {1, 127, 128, 16383, 16384, 2097151, 2097152, MaxVarint}
      [] PropertyType(p) = "string" -> Strings
      [] PropertyType(p) = "pair" -> {<<Str(1), v>> : v \in Strings}

\* Properties of a packet: none; one, with each value; twice where the type
\* allows it; all of them.
SomeProps(type) ==
    LET list == PropsOf(type)
        Least(p) == CHOOSE v \in Values(p) : TRUE
        One(p) == {[NoProps(list) EXCEPT ![p] = <<v>>] : v \in Values(p)}
    IN  {NoProps(list), [p \in ToSet(list) |-> <<Least(p)>>]}
        \cup UNION {One(p) : p \in ToSet(list)}
        \cup {[NoProps(list) EXCEPT ![p] = <<v, v>>] :
                 p \in ToSet(list) \cap {"user_property"}, v \in Values("user_property")}

Opt(S) == {<<>>} \cup {<<v>> : v \in S}

Acks ==
    UNION {[type : {t}, pid : {1, 258, 65535}, reason_code : {0, 146},
            props : SomeProps(t)] : t \in {"puback", "pubrec", "pubrel", "pubcomp"}}

Publishes ==
    {m \in [type : {"publish"}, topic : {Str(1)}, pid : {0, 1, 65535}, dup : 0..1,
            qos : 0..2, retain : 0..1, props : {NoProps(publish_props)},
            payload : Strings] : m.qos = 0 <=> m.pid = 0}
    \cup [type : {"publish"}, topic : {<<>>, Str(2)}, pid : {258}, dup : {0}, qos : {1},
          retain : {1}, props : SomeProps("publish"), payload : {<<>>, Str(2)}]

Connects ==
    LET wills == Opt([topic : {Str(3)}, message : {<<>>, Str(2)}, qos : 0..2,
                      retain : 0..1, props : {NoProps(will_props)}])
                 \cup {<<[topic |-> Str(1), message |-> Str(1), qos |-> 1,
                          retain |-> 0, props |-> p]>> : p \in SomeProps("will")}
        With(clients, ws, ps) ==
            [type : {"connect"}, client_id : clients, user_name : Opt({<<>>, Str(1)}),
             password : Opt({Str(2)}), keep_alive : {0, 65535}, clean_start : 0..1,
             props : ps, will : ws]
    IN  With(Strings, {<<>>}, {NoProps(PropsOf("connect"))})
        \cup With({Str(1)}, wills, {NoProps(PropsOf("connect"))})
        \cup With({Str(1)}, {<<>>}, SomeProps("connect"))

SubOptions ==
    [retain_handling : 0..2, retain_as_published : 0..1, no_local : 0..1, max_qos : 0..2]

Requests ==
    [type : {"subscribe"}, pid : {1}, props : SomeProps("subscribe"),
     topics : {<<[filter |-> Str(1), opts |-> o]>> : o \in SubOptions}]
    \cup [type : {"subscribe"}, pid : {65535}, props : {NoProps(PropsOf("subscribe"))},
          topics : {[i \in 1..n |-> [filter |-> Str(i), opts |-> o]] :
                       n \in 2..3, o \in SubOptions}]
    \cup [type : {"unsubscribe"}, pid : {258}, props : SomeProps("unsubscribe"),
          topics : {<<s>> : s \in Strings} \cup {<<s, Str(1)>> : s \in Strings}]

Replies ==
    LET Codes(n) == [i \in 1..n |-> 256 - i]
    IN  UNION {[type : {t}, pid : {258}, props : SomeProps(t), reason_codes : {Codes(2)}]
               \cup [type : {t}, pid : {1}, props : {NoProps(ack_props)},
                     reason_codes : {Codes(n) : n \in 1..9}] :
                  t \in {"suback", "unsuback"}}
        \cup [type : {"connack"}, session_present : 0..1, reason_code : {0, 128},
              props : SomeProps("connack")]
        \cup UNION {[type : {t}, reason_code : {0, 24, 142}, props : SomeProps(t)] :
                       t \in {"disconnect", "auth"}}
        \cup [type : {"pingreq", "pingresp"}]
-------------------------------------------------------------------------------
\* UTF-8, as its definition has it.
Utf8Bytes(c) ==
    LET Cont(x) == 128 + (x % 64)
    IN  IF c < 128 THEN <<c>>
        ELSE IF c < 2048 THEN <<192 + (c \div 64), Cont(c)>>
        ELSE IF c < 65536 THEN <<224 + (c \div 4096), Cont(c \div 64), Cont(c)>>
        ELSE <<240 + (c \div 262144), Cont(c \div 4096), Cont(c \div 64), Cont(c)>>
Utf8String(cs) == FlattenSeq([i \in DOMAIN cs |-> Utf8Bytes(cs[i])])

FilterChars == {Slash, Hash, Plus, 97, 233, 7}

Servers == [host : {<<97>>, <<98, 46, 49>>}, port : Opt({<<56, 48>>}),
            path : Opt({<<Slash>>, <<Slash, 99>>})]
Separators == {<<Comma>>, <<Comma, Space>>, <<Space, Comma, Space>>}
ServerText(s) ==
    s.host \o (IF s.port = <<>> THEN <<>> ELSE <<Colon>> \o s.port[1])
           \o (IF s.path = <<>> THEN <<>> ELSE s.path[1])

\* Requests of the application: short strings, two of them not allowed.
ReqStrings == {<<97>>, <<7>>}
Shared(str) == SharePrefix \o <<110, Slash>> \o str
ReqFilters == {<<>>, <<97>>, <<Plus>>, <<97, Plus>>, Shared(<<97>>), Shared(<<Hash>>)}

\* One property at a time, with each of these values.
ReqProps(type) ==
    LET Vals(p) ==
            CASE p \in {"response_topic", "content_type", "reason_string"} ->
                    ReqStrings \cup {<<Plus>>}
              [] p = "user_property" -> {<<a, <<97>>>> : a \in ReqStrings}
              [] p = "subscription_identifier" -> {0, 1, MaxVarint, MaxVarint + 1}
              [] p = "topic_alias" -> 0..3
              [] p = "payload_format_indicator" -> 0..1
              [] OTHER -> {}
    IN  {NoProps(PropsOf(type))}
        \cup UNION {{[NoProps(PropsOf(type)) EXCEPT ![p] = <<v>>] : v \in Vals(p)} :
                       p \in ToSet(PropsOf(type))}

\* The CONNACK properties in limits have each of these values, or are not there.
Limits(limits) ==
    LET Vals(p) == CASE p = "maximum_qos" -> {0, 1}
                     [] p = "topic_alias_maximum" -> {0, 2}
                     [] p = "maximum_packet_size" -> {12, 13}
                     [] OTHER -> {0, 1}
    IN  {[p \in ToSet(PropsOf("connack")) |-> IF p \in limits THEN f[p] ELSE <<>>] :
            f \in {g \in [limits -> UNION {Opt(Vals(p)) : p \in limits}] :
                     \A p \in limits : g[p] \in Opt(Vals(p))}}

DefaultOpts == [retain_handling |-> 0, retain_as_published |-> 0, no_local |-> 0,
                max_qos |-> 2]

AppRequests ==
    [kind : {"request"},
     m : {m \in [type : {"publish"}, topic : {<<>>, <<97>>, <<Plus>>}, pid : 0..1,
                 dup : {0}, qos : 0..2, retain : 0..1, props : ReqProps("publish"),
                 payload : {<<>>} \cup ReqStrings] : m.qos = 0 <=> m.pid = 0},
     ca : Limits({"maximum_qos", "retain_available", "topic_alias_maximum"})
          \cup Limits({"maximum_packet_size", "topic_alias_maximum"})]
    \cup [kind : {"request"},
          m : [type : {"subscribe"}, pid : {1}, props : ReqProps("subscribe"),
               topics : {[i \in DOMAIN fs |-> [filter |-> fs[i], opts |-> DefaultOpts]] :
                            fs \in SeqOf(ReqFilters, 2)}],
          ca : Limits({"wildcard_subscription_available", "shared_subscription_available",
                       "subscription_identifier_available", "maximum_packet_size"})]
    \cup [kind : {"request"},
          m : [type : {"unsubscribe"}, pid : {1}, props : ReqProps("unsubscribe"),
               topics : SeqOf(ReqFilters, 2)]
              \cup [type : {"disconnect"}, reason_code : {0, 142},
                    props : ReqProps("disconnect")],
          ca : Limits({"maximum_packet_size"})]

Choose(S) == input.kind = "none" /\ input' \in S

ChoosePacket ==
    Choose([kind : {"packet"},
            m : Acks \cup Publishes \cup Connects \cup Requests \cup Replies])
ChooseString == Choose([kind : {"string"}, cs : CodePoints \X CodePoints])
ChooseFilter ==
    Choose([kind : {"filter"}, cs : UNION {[1..n -> FilterChars] : n \in 0..MaxFilter}])
ChooseBrokers ==
    Choose([kind : {"brokers"}, servers : Servers \X Servers \X Servers,
            sep : Separators])
ChooseCode == Choose([kind : {"code"}, cat : Categories, code : 0..255])
ChooseRequest == Choose(AppRequests)
ChooseChannelOps ==
    Choose([kind : {"channel"},
            ops : UNION {[1..n -> {"store", "receive"}] : n \in 0..MaxChannelOps}])

\* What async_send can have queued: requests of different operations, of which
\* a terminal one is not throttled; a limit, and what is left of it.
Kinds == {r \in [throttled : BOOLEAN, terminal : BOOLEAN] : ~(r.throttled /\ r.terminal)}
Queues == {[i \in DOMAIN ks |-> [op |-> i, throttled |-> ks[i].throttled,
                                 terminal |-> ks[i].terminal]] :
              ks \in SeqOf(Kinds, MaxQueue) \ {<<>>}}
ChooseQueue ==
    Choose(UNION {[kind : {"queue"}, q : Queues, limit : {lim}, quota : 0..lim] :
                     lim \in {1, 2, 3, MAX_LIMIT}})

Next ==
    \/ ChoosePacket
    \/ ChooseString
    \/ ChooseFilter
    \/ ChooseBrokers
    \/ ChooseCode
    \/ ChooseRequest
    \/ ChooseChannelOps
    \/ ChooseQueue

Spec == Init /\ [][Next]_input
-------------------------------------------------------------------------------
AnnouncesAndReadsBack(bytes, m) ==
    LET varlen == VarintParse(bytes, 2, Len(bytes) + 1)
    IN  /\ varlen.ok /\ varlen.pos + varlen.val = Len(bytes) + 1
        /\ Decode(bytes) = Parsed(m, Len(bytes) + 1)

(* What an encoder writes has the length that it announces; the decoders read it
   back and stop at its last byte: byte_size and encode of every value, property
   list and packet agree, also where the length of a length changes. *)
CodecRoundTrip ==
    input.kind = "packet" => AnnouncesAndReadsBack(Encode(input.m), input.m)

\* The characters of a string that MQTT forbids or advises against, and those
\* whose lowest byte is FE or FF, which the masks of the code forbid as well.
Forbidden(c) ==
    \/ c \in 0..31 \cup 127..159
    \/ c \in 55296..57343
    \/ c \in 64976..65007
    \/ c % 256 \in {254, 255}

\* The grammar of topic filters: a wildcard fills a level, '#' the last one.
IsFilter(cs) ==
    /\ cs # <<>>
    /\ Len(Utf8String(cs)) <= MaxStringSize
    /\ \A i \in DOMAIN cs :
          /\ ~Forbidden(cs[i])
          /\ cs[i] \in {Hash, Plus} => i = 1 \/ cs[i - 1] = Slash
          /\ cs[i] = Plus => i = Len(cs) \/ cs[i + 1] = Slash
          /\ cs[i] = Hash => i = Len(cs)

\* A shared one: a share name without wildcards, a slash, a filter.
IsSharedFilter(cs) ==
    /\ Len(SharePrefix \o Utf8String(cs)) <= MaxStringSize
    /\ \E i \in 2..Len(cs) :
          /\ cs[i] = Slash
          /\ \A j \in 1..(i - 1) : ~Forbidden(cs[j]) /\ cs[j] \notin {Slash, Hash, Plus}
          /\ IsFilter(SubSeq(cs, i + 1, Len(cs)))

StringExact ==
    LET str == Utf8String(input.cs)
        fine == \A i \in DOMAIN input.cs : ~Forbidden(input.cs[i])
        plain == \A i \in DOMAIN input.cs : input.cs[i] \notin {Hash, Plus}
    IN  /\ ValidateMqttUtf8(str) = "valid" <=> fine
        /\ ValidateTopicName(str) = "valid" <=> fine /\ plain
        /\ IsValidStringPair(str, <<97>>) <=> fine

FilterExact ==
    LET str == Utf8String(input.cs)
    IN  /\ ValidateTopicFilter(str) = "valid" <=> IsFilter(input.cs)
        /\ ValidateSharedTopicFilter(SharePrefix \o str, TRUE) = "valid"
              <=> IsSharedFilter(input.cs)

BrokersExact ==
    LET text == FlattenSeq(<<ServerText(input.servers[1]), input.sep,
                             ServerText(input.servers[2]), input.sep,
                             ServerText(input.servers[3])>>)
        default == <<49, 56>>
    IN  Brokers(text, default) =
            [i \in 1..3 |->
                LET s == input.servers[i]
                IN  [host |-> s.host,
                     port |-> IF s.port = <<>> THEN default ELSE s.port[1],
                     path |-> IF s.path = <<>> THEN <<>> ELSE s.path[1]]]

(* What the functions that walk along a string decide.  A string of two
   characters is valid exactly if none of them is forbidden, as a topic name if, in
   addition, none is a wildcard.  validate_topic_filter and
   validate_shared_topic_filter accept exactly the filters of the grammar.  The
   brokers of a well-formed list are the ones the connection attempts go to, in the
   order of the list, with the default port where none is given. *)
StringsExact ==
    /\ input.kind = "string" => StringExact
    /\ input.kind = "filter" => FilterExact
    /\ input.kind = "brokers" => BrokersExact

(* The binary search of to_reason_code finds a code exactly if the table of the
   category has it, for every code up to the last one of the table. *)
LookupExact ==
    input.kind = "code" =>
        LET codes == {ReasonCode[n] : n \in ToSet(ValidCodes(input.cat))}
        IN  (\E c \in codes : input.code <= c) =>
                ToReasonCode(input.cat, input.code) =
                    {IF input.code \in codes THEN input.code ELSE NullOpt}
-------------------------------------------------------------------------------
Fine(str) == \A i \in DOMAIN str : ~Forbidden(str[i])
Plain(str) == \A i \in DOMAIN str : str[i] \notin {Hash, Plus}
FineOpt(opt) == \A i \in DOMAIN opt : Fine(opt[i])
Allows(ca, limit) == ca[limit] # <<0>>

\* What the limits of the broker and the rules for strings leave of a request.
PublishPermitted(m, ca) ==
    LET alias == m.props["topic_alias"]
    IN  /\ Fine(m.topic) /\ Plain(m.topic)
        /\ m.topic = <<>> => alias # <<>>
        /\ ca["maximum_qos"] # <<>> => m.qos <= ca["maximum_qos"][1]
        /\ m.retain = 1 => Allows(ca, "retain_available")
        /\ m.props["payload_format_indicator"] = <<1>> => Fine(m.payload)
        /\ alias # <<>> => /\ ca["topic_alias_maximum"] # <<>>
                           /\ alias[1] \in 1..ca["topic_alias_maximum"][1]
        /\ \A i \in DOMAIN m.props["response_topic"] :
              Fine(m.props["response_topic"][i]) /\ Plain(m.props["response_topic"][i])
        /\ FineOpt(m.props["content_type"])
        /\ m.props["subscription_identifier"] = <<>>

FilterPermitted(filter, ca) ==
    IF IsPrefix(SharePrefix, filter)
    THEN /\ Allows(ca, "shared_subscription_available")
         /\ IsSharedFilter(SubSeq(filter, Len(SharePrefix) + 1, Len(filter)))
         /\ Plain(filter) \/ Allows(ca, "wildcard_subscription_available")
    ELSE /\ IsFilter(filter)
         /\ Plain(filter) \/ Allows(ca, "wildcard_subscription_available")

SubscribePermitted(m, ca) ==
    /\ m.topics # <<>>
    /\ \A i \in DOMAIN m.topics : FilterPermitted(m.topics[i].filter, ca)
    /\ m.props["subscription_identifier"] # <<>> =>
          /\ Allows(ca, "subscription_identifier_available")
          /\ m.props["subscription_identifier"][1] \in 1..MaxVarint

UnsubscribePermitted(m) ==
    m.topics # <<>> /\ \A i \in DOMAIN m.topics : IsFilter(m.topics[i])

FineUserProps(m) ==
    \A i \in DOMAIN m.props["user_property"] :
        FineOpt(m.props["user_property"][i])

(* A PUBLISH, SUBSCRIBE or UNSUBSCRIBE leaves the client exactly if the limits
   of the last CONNACK and the rules for strings permit it, and then it is no
   larger than the broker accepts; a DISCONNECT leaves it even if it is too large,
   without properties then, with the reason code it was given. *)
RequestsWithinLimits ==
    input.kind = "request" =>
        LET m == input.m
            ca == input.ca
            fits == \/ ca["maximum_packet_size"] = <<>>
                    \/ Len(Encode(m)) <= ca["maximum_packet_size"][1]
        IN  CASE m.type = "publish" ->
                    PerformPublish(m, ca) = "ok"
                        <=> PublishPermitted(m, ca) /\ FineUserProps(m) /\ fits
              [] m.type = "subscribe" ->
                    PerformSubscribe(m, ca) = "ok"
                        <=> SubscribePermitted(m, ca) /\ FineUserProps(m) /\ fits
              [] m.type = "unsubscribe" ->
                    PerformUnsubscribe(m, ca) = "ok"
                        <=> UnsubscribePermitted(m) /\ FineUserProps(m) /\ fits
              [] m.type = "disconnect" ->
                    /\ ValidateDisconnect(m) = "ok"
                          <=> FineOpt(m.props["reason_string"]) /\ FineUserProps(m)
                    /\ DisconnectSent(m, ca).reason_code = m.reason_code
                    /\ fits => DisconnectSent(m, ca) = m
                    /\ ~TooLarge(DisconnectSent(m, ca), ca)

\* The i-th store puts the number of messages stored so far plus one.
ChannelAfter(ops) ==
    FoldLeft(LAMBDA c, op :
                IF op = "store"
                THEN [c EXCEPT !.buffer = PushBack(@, c.stored + 1), !.stored = @ + 1]
                ELSE IF c.buffer = <<>> THEN c
                ELSE [c EXCEPT !.buffer = PopFront(@), !.got = Append(@, Head(c.buffer))],
             [buffer |-> <<>>, stored |-> 0, got |-> <<>>], ops)

(* The receive channel hands messages over in the order of their arrival, none
   twice; a message is missing only if it was the oldest of MAX_SIZE messages that
   waited when one more was stored, and what waits is always the newest. *)
ChannelKeepsNewest ==
    input.kind = "channel" =>
        LET c == ChannelAfter(input.ops)
            seen == c.got \o c.buffer
            Waiting(k) == ChannelAfter(SubSeq(input.ops, 1, k - 1)).buffer
        IN  /\ c.buffer = [i \in DOMAIN c.buffer |-> c.stored - Len(c.buffer) + i]
            /\ \A i \in 1..(Len(seen) - 1) : seen[i] < seen[i + 1]
            /\ \A n \in 1..c.stored \ ToSet(seen) :
                  \E k \in DOMAIN input.ops :
                      /\ input.ops[k] = "store"
                      /\ Len(Waiting(k)) = MAX_SIZE /\ Head(Waiting(k)) = n

(* The scan of do_write, which empties requests in place and erases them
   afterwards, takes out what the closed forms of WriteQueue say, in the order of the
   queue, and pays for it; it neither loses nor duplicates a request. *)
LoopComputesChoice ==
    input.kind = "queue" =>
        LET result == DoWriteResult(input.q, input.limit, input.quota)
        IN  /\ result.write_queue = Batch(input.q, input.limit, input.quota)
            /\ result.queue = Rest(input.q, input.limit, input.quota)
            /\ result.quota = input.quota - Cost(input.q, input.limit, input.quota)
            /\ ToSet(result.write_queue \o result.queue) = ToSet(input.q)
            /\ Len(result.write_queue) + Len(result.queue) = Len(input.q)
===============================================================================
