--------------------------------- MODULE Codec ---------------------------------
(***************************************************************************)
(* Control packets as bytes: the encoders and decoders of impl/codecs.     *)
(*                                                                         *)
(* An encoder of the source is a value with two functions, byte_size and   *)
(* encode; the remaining length of a packet comes from the first and its   *)
(* bytes from the second.  Here it is a record, and ByteSize and EncodeVal *)
(* are those functions.  A parser is an operator that takes a buffer, a    *)
(* position and an end (excluded) and returns a result of Varint.          *)
(*                                                                         *)
(* An optional value is a sequence of at most one value, a string a        *)
(* sequence of bytes, and properties are a function from the names of a    *)
(* packet's properties to the sequence of their values.  A definition      *)
(* named after another one with a remark is a mistaken form of it, which a *)
(* property rules out.                                                     *)
(***************************************************************************)
EXTENDS Varint, SequencesExt

\* property_type: the identifiers.
PropertyId ==
    [payload_format_indicator |-> 1, message_expiry_interval |-> 2,
     content_type |-> 3, response_topic |-> 8, correlation_data |-> 9,
     subscription_identifier |-> 11, session_expiry_interval |-> 17,
     assigned_client_identifier |-> 18, server_keep_alive |-> 19,
     authentication_method |-> 21, authentication_data |-> 22,
     request_problem_information |-> 23, will_delay_interval |-> 24,
     request_response_information |-> 25, response_information |-> 26,
     server_reference |-> 28, reason_string |-> 31, receive_maximum |-> 33,
     topic_alias_maximum |-> 34, topic_alias |-> 35, maximum_qos |-> 36,
     retain_available |-> 37, user_property |-> 38, maximum_packet_size |-> 39,
     wildcard_subscription_available |-> 40,
     subscription_identifier_available |-> 41,
     shared_subscription_available |-> 42]

\* property_traits: how a value is represented.
PropertyType(p) ==
    CASE p \in {"message_expiry_interval", "session_expiry_interval",
                "will_delay_interval", "maximum_packet_size"} -> "uint32"
      [] p \in {"server_keep_alive", "receive_maximum", "topic_alias_maximum",
                "topic_alias"} -> "uint16"
      [] p \in {"payload_format_indicator", "request_problem_information",
                "request_response_information", "maximum_qos",
                "retain_available", "wildcard_subscription_available",
                "subscription_identifier_available",
                "shared_subscription_available"} -> "uint8"
      [] p = "subscription_identifier" -> "varint"
      [] p = "user_property" -> "pair"
      [] OTHER -> "string"

\* The properties that may occur more than once.
IsVector(p) == p \in {"subscription_identifier", "user_property"}

ack_props == <<"reason_string", "user_property">>
publish_props ==
    <<"payload_format_indicator", "message_expiry_interval", "content_type",
      "response_topic", "correlation_data", "subscription_identifier",
      "topic_alias", "user_property">>
will_props ==
    <<"will_delay_interval", "payload_format_indicator",
      "message_expiry_interval", "content_type", "response_topic",
      "correlation_data", "user_property">>

\* The properties of each packet, in the order in which they are encoded.
PropsOf(type) ==
    CASE type = "connect" ->
            <<"session_expiry_interval", "receive_maximum",
              "maximum_packet_size", "topic_alias_maximum",
              "request_response_information", "request_problem_information",
              "user_property", "authentication_method", "authentication_data">>
      [] type = "connack" ->
            <<"session_expiry_interval", "receive_maximum", "maximum_qos",
              "retain_available", "maximum_packet_size",
              "assigned_client_identifier", "topic_alias_maximum",
              "reason_string", "user_property",
              "wildcard_subscription_available",
              "subscription_identifier_available",
              "shared_subscription_available", "server_keep_alive",
              "response_information", "server_reference",
              "authentication_method", "authentication_data">>
      [] type = "publish" -> publish_props
      [] type \in {"puback", "pubrec", "pubrel", "pubcomp", "suback", "unsuback"}
            -> ack_props
      [] type = "subscribe" -> <<"subscription_identifier", "user_property">>
      [] type = "unsubscribe" -> <<"user_property">>
      [] type = "disconnect" ->
            <<"session_expiry_interval", "reason_string", "user_property",
              "server_reference">>
      [] type = "auth" ->
            <<"authentication_method", "authentication_data", "reason_string",
              "user_property">>
      [] type = "will" -> will_props
-------------------------------------------------------------------------------
\* Encoders: int_val, array_val and props_val, and a value that is not there.
IntVal(repr, val) == [k |-> "int", repr |-> repr, val |-> val]
byte_(val) == IntVal(1, val)
int16_(val) == IntVal(2, val)
int32_(val) == IntVal(4, val)
varlen_(val) == [k |-> "varlen", val |-> val]
utf8_(str) == [k |-> "array", with_length |-> TRUE, val |-> str]
verbatim_(str) == [k |-> "array", with_length |-> FALSE, val |-> str]
NoVal == [k |-> "none"]
Optional(E(_), opt) == IF opt = <<>> THEN NoVal ELSE E(opt[1])

\* flag_def and its operator|: fields of a byte, each a pair of a value and its
\* number of bits.
RECURSIVE FlagBits(_)
FlagBits(fields) ==
    IF fields = <<>> THEN 0
    ELSE FlagBits(Front(fields)) * 2^Last(fields)[2] + Last(fields)[1]
flags_(fields) == byte_(FlagBits(fields))

\* props_val; props_ never omits an empty property list, props_may_omit_ does.
PropsVal(type, props, may_omit) ==
    [k |-> "props", list |-> PropsOf(type), props |-> props, may_omit |-> may_omit]
props_(type, props) == PropsVal(type, props, FALSE)
props_may_omit_(type, props) == PropsVal(type, props, TRUE)

\* endian_store with order::big
BigEndian(val, n) == [i \in 1..n |-> (val \div 256^(n - i)) % 256]

Total(Size(_), es) ==
    LET total[i \in 0..Len(es)] == IF i = 0 THEN 0 ELSE total[i - 1] + Size(es[i])
    IN  total[Len(es)]
Concat(Bytes(_), es) == FlattenSeq([i \in DOMAIN es |-> Bytes(es[i])])

\* byte_size and encode of everything but properties.
BasicSize(e) ==
    CASE e.k = "int" -> e.repr
      [] e.k = "varlen" -> VariableLength(e.val)
      [] e.k = "array" -> (IF e.with_length THEN 2 ELSE 0) + Len(e.val)
      [] e.k = "none" -> 0
BasicBytes(e) ==
    CASE e.k = "int" -> BigEndian(e.val, e.repr)
      [] e.k = "varlen" -> ToVariableBytes(e.val)
      [] e.k = "array" ->
            (IF e.with_length THEN BigEndian(Len(e.val), 2) ELSE <<>>) \o e.val
      [] e.k = "none" -> <<>>

\* encoder_for_prop_value
EncoderForPropValue(p, val) ==
    CASE PropertyType(p) = "uint8" -> <<byte_(val)>>
      [] PropertyType(p) = "uint16" -> <<int16_(val)>>
      [] PropertyType(p) = "uint32" -> <<int32_(val)>>
      [] PropertyType(p) = "varint" -> <<varlen_(val)>>
      [] PropertyType(p) = "string" -> <<utf8_(val)>>
      [] PropertyType(p) = "pair" -> <<utf8_(val[1]), utf8_(val[2])>>

\* prop_val: every value is preceded by the identifier.
PropSize(p, vals) ==
    Total(LAMBDA v : 1 + Total(BasicSize, EncoderForPropValue(p, v)), vals)
PropBytes(p, vals) ==
    Concat(LAMBDA v : <<PropertyId[p]>>
                      \o Concat(BasicBytes, EncoderForPropValue(p, v)), vals)

\* props_size
PropsSize(e) == Total(LAMBDA p : PropSize(p, e.props[p]), e.list)

ByteSize(e) ==
    IF e.k # "props" THEN BasicSize(e)
    ELSE LET psize == PropsSize(e)
         IN  IF e.may_omit /\ psize = 0 THEN 0 ELSE psize + VariableLength(psize)

EncodeVal(e) ==
    IF e.k # "props" THEN BasicBytes(e)
    ELSE LET psize == PropsSize(e)
         IN  IF e.may_omit /\ psize = 0 THEN <<>>
             ELSE ToVariableBytes(psize)
                  \o Concat(LAMBDA p : PropBytes(p, e.props[p]), e.list)

\* composed_val: one encoder, and then the others.
RECURSIVE ComposedSize(_)
ComposedSize(es) ==
    IF es = <<>> THEN 0 ELSE ByteSize(Head(es)) + ComposedSize(Tail(es))

RECURSIVE ComposedBytes(_)
ComposedBytes(es) ==
    IF es = <<>> THEN <<>> ELSE EncodeVal(Head(es)) \o ComposedBytes(Tail(es))

\* encode: a fixed header with the type, its flags and the size of the body, and
\* the body.
Message(packet_type, body) ==
    ComposedBytes(<<packet_type, varlen_(ComposedSize(body))>> \o body)

\* control_code_e
ControlCode(type) ==
    CASE type = "connect" -> 1 [] type = "connack" -> 2 [] type = "publish" -> 3
      [] type = "puback" -> 4 [] type = "pubrec" -> 5 [] type = "pubrel" -> 6
      [] type = "pubcomp" -> 7 [] type = "subscribe" -> 8
      [] type = "suback" -> 9 [] type = "unsubscribe" -> 10
      [] type = "unsuback" -> 11 [] type = "pingreq" -> 12
      [] type = "pingresp" -> 13 [] type = "disconnect" -> 14
      [] type = "auth" -> 15
Header(type, reserved) == flags_(<<<<ControlCode(type), 4>>, <<reserved, 4>>>>)
Bit(opt) == IF opt = <<>> THEN 0 ELSE 1

EncodeConnect(m) ==
    LET w == m.will
        conn_flags == flags_(<<
            <<Bit(m.user_name), 1>>, <<Bit(m.password), 1>>,
            <<IF w = <<>> THEN 0 ELSE w[1].retain, 1>>,
            <<IF w = <<>> THEN 0 ELSE w[1].qos, 2>>,
            <<Bit(w), 1>>, <<m.clean_start, 1>>, <<0, 1>>>>)
        WillProps(x) == props_("will", x.props)
        WillTopic(x) == utf8_(x.topic)
        WillMessage(x) == utf8_(x.message)
    IN  Message(Header("connect", 0),
            <<utf8_(<<77, 81, 84, 84>>), byte_(5), conn_flags,
              int16_(m.keep_alive), props_("connect", m.props),
              utf8_(m.client_id), Optional(WillProps, w),
              Optional(WillTopic, w), Optional(WillMessage, w),
              Optional(utf8_, m.user_name), Optional(utf8_, m.password)>>)

EncodeConnack(m) ==
    Message(Header("connack", 0),
        <<flags_(<<<<m.session_present, 1>>>>), byte_(m.reason_code),
          props_("connack", m.props)>>)

EncodePublish(m) ==
    Message(flags_(<<<<3, 4>>, <<m.dup, 1>>, <<m.qos, 2>>, <<m.retain, 1>>>>),
        <<utf8_(m.topic), IF m.qos # 0 THEN int16_(m.pid) ELSE NoVal,
          props_("publish", m.props), verbatim_(m.payload)>>)

\* encode_puback, encode_pubrec, encode_pubrel and encode_pubcomp
EncodePubReply(m) ==
    Message(Header(m.type, IF m.type = "pubrel" THEN 2 ELSE 0),
        <<int16_(m.pid), byte_(m.reason_code), props_may_omit_(m.type, m.props)>>)

EncodeSubscribe(m) ==
    LET Opts(o) == flags_(<<<<o.retain_handling, 2>>, <<o.retain_as_published, 1>>,
                            <<o.no_local, 1>>, <<o.max_qos, 2>>>>)
    IN  Message(Header("subscribe", 2),
            <<int16_(m.pid), props_("subscribe", m.props)>>
            \o FlattenSeq([i \in DOMAIN m.topics |->
                  <<utf8_(m.topics[i].filter), Opts(m.topics[i].opts)>>]))

EncodeUnsubscribe(m) ==
    Message(Header("unsubscribe", 2),
        <<int16_(m.pid), props_("unsubscribe", m.props)>>
        \o [i \in DOMAIN m.topics |-> utf8_(m.topics[i])])

EncodeSuback(m) ==
    Message(Header(m.type, 0),
        <<int16_(m.pid), props_(m.type, m.props)>>
        \o [i \in DOMAIN m.reason_codes |-> byte_(m.reason_codes[i])])
EncodeUnsuback(m) == EncodeSuback(m)

\* encode_pingreq and encode_pingresp: the length is a plain byte.
EncodePing(m) == ComposedBytes(<<Header(m.type, 0), byte_(0)>>)

\* encode_disconnect and encode_auth
EncodeReasoned(m) ==
    Message(Header(m.type, 0), <<byte_(m.reason_code), props_(m.type, m.props)>>)

Encode(m) ==
    CASE m.type = "connect" -> EncodeConnect(m)
      [] m.type = "connack" -> EncodeConnack(m)
      [] m.type = "publish" -> EncodePublish(m)
      [] m.type \in {"puback", "pubrec", "pubrel", "pubcomp"} -> EncodePubReply(m)
      [] m.type = "subscribe" -> EncodeSubscribe(m)
      [] m.type = "unsubscribe" -> EncodeUnsubscribe(m)
      [] m.type = "suback" -> EncodeSuback(m)
      [] m.type = "unsuback" -> EncodeUnsuback(m)
      [] m.type \in {"pingreq", "pingresp"} -> EncodePing(m)
      [] m.type \in {"disconnect", "auth"} -> EncodeReasoned(m)
-------------------------------------------------------------------------------
\* The operator >> of Spirit: what follows a result, unless it is a failure.
Then(result, Next_(_)) == IF result.ok THEN Next_(result) ELSE Fail

\* x3::byte_, x3::big_word and x3::big_dword: n bytes, most significant first.
ParseInt(n, b, first, last) ==
    IF first + n > last THEN Fail
    ELSE Parsed(FoldLeft(LAMBDA acc, x : acc * 256 + x, 0,
                         SubSeq(b, first, first + n - 1)), first + n)

\* len_prefix_parser
ParseUtf8(b, first, last) ==
    Then(ParseInt(2, b, first, last), LAMBDA len :
        IF last - len.pos < len.val THEN Fail
        ELSE Parsed(SubSeq(b, len.pos, len.pos + len.val - 1), len.pos + len.val))

\* parse_to_prop, for one value.
ParseToProp(p, b, first, last) ==
    CASE PropertyType(p) = "uint8" -> ParseInt(1, b, first, last)
      [] PropertyType(p) = "uint16" -> ParseInt(2, b, first, last)
      [] PropertyType(p) = "uint32" -> ParseInt(4, b, first, last)
      [] PropertyType(p) = "varint" -> VarintParse(b, first, last)
      [] PropertyType(p) = "string" -> ParseUtf8(b, first, last)
      [] PropertyType(p) = "pair" ->
            Then(ParseUtf8(b, first, last), LAMBDA key :
                Then(ParseUtf8(b, key.pos, last), LAMBDA val :
                    Parsed(<<key.val, val.val>>, val.pos)))

NoProps(list) == [p \in ToSet(list) |-> <<>>]

\* The loop of prop_parser::parse; st holds attr and iter.  props_length is not
\* compared with the end of the packet: the loop is defined for buffers that hold
\* that many bytes.
PropStep(list, b, scoped_last, st) ==
    LET ps == {q \in ToSet(list) : PropertyId[q] = b[st.pos]}
        p == CHOOSE q \in ps : TRUE
    IN  IF ps = {} THEN Fail
        ELSE Then(ParseToProp(p, b, st.pos + 1, scoped_last), LAMBDA r :
                 Parsed([st.val EXCEPT ![p] = IF IsVector(p) THEN Append(@, r.val)
                                              ELSE <<r.val>>], r.pos))

RECURSIVE PropLoop(_, _, _, _)
PropLoop(list, b, scoped_last, st) ==
    IF ~st.ok \/ st.pos >= scoped_last THEN st
    ELSE PropLoop(list, b, scoped_last, PropStep(list, b, scoped_last, st))

\* prop_parser::parse
ParseProps(list, b, first, last) ==
    IF first = last THEN Parsed(NoProps(list), first)
    ELSE Then(VarintParse(b, first, last), LAMBDA props_length :
             PropLoop(list, b, props_length.pos + props_length.val,
                      Parsed(NoProps(list), props_length.pos)))

\* The parsers a decoder is put together from; If(cond, f) is if_(cond)[f].
Byte == [k |-> "int", n |-> 1]
Word == [k |-> "int", n |-> 2]
Utf8 == [k |-> "utf8"]
Props(type) == [k |-> "props", list |-> PropsOf(type)]
Verbatim == [k |-> "verbatim"]
If(cond, f) == [k |-> "if", cond |-> cond, f |-> f]

ParseOne(f, b, first, last) ==
    CASE f.k = "int" -> ParseInt(f.n, b, first, last)
      [] f.k = "utf8" -> ParseUtf8(b, first, last)
      [] f.k = "props" -> ParseProps(f.list, b, first, last)
      [] f.k = "verbatim" -> Parsed(SubSeq(b, first, last - 1), last)

\* conditional_parser::parse
ParseField(f, b, first, last) ==
    IF f.k # "if" THEN ParseOne(f, b, first, last)
    ELSE IF ~f.cond THEN Parsed(<<>>, first)
    ELSE Then(ParseOne(f.f, b, first, last), LAMBDA r : Parsed(<<r.val>>, r.pos))

\* type_parse of a sequence of parsers: the tuple of their values.
RECURSIVE TypeParse(_, _, _, _)
TypeParse(fs, b, first, last) ==
    IF fs = <<>> THEN Parsed(<<>>, first)
    ELSE Then(ParseField(Head(fs), b, first, last), LAMBDA r :
             Then(TypeParse(Tail(fs), b, r.pos, last), LAMBDA rest :
                 Parsed(<<r.val>> \o rest.val, rest.pos)))

\* scope_limit_(limit)[fs]
ScopeLimit(limit, fs, b, first, last) ==
    IF first + limit > last THEN Fail ELSE TypeParse(fs, b, first, first + limit)

\* The operator * of Spirit; + is one and then *.
RECURSIVE Many(_, _, _, _)
Many(fs, b, first, last) ==
    LET More(r) ==
            IF ~r.ok THEN Parsed(<<>>, first)
            ELSE Then(Many(fs, b, r.pos, last), LAMBDA rest :
                     Parsed(<<r.val>> \o rest.val, rest.pos))
    IN  More(TypeParse(fs, b, first, last))

\* decode_fixed_header
DecodeFixedHeader(b, first, last) ==
    Then(ParseInt(1, b, first, last), LAMBDA control_byte :
        Then(VarintParse(b, control_byte.pos, last), LAMBDA remain_length :
            Parsed(<<control_byte.val, remain_length.val>>, remain_length.pos)))

\* decode_packet_id
DecodePacketId(b, first) == ParseInt(2, b, first, first + 2)

\* A decoder: the values of the parsers fs, as the message that Make makes of them.
BitOf(flags, i, width) == (flags \div 2^i) % 2^width
As(Make(_), fs, remain_length, b, it) ==
    Then(ScopeLimit(remain_length, fs, b, it, it + remain_length), LAMBDA r :
        Parsed(Make(r.val), r.pos))

DecodeConnect(remain_length, b, it) ==
    LET end == it + remain_length
        Has(flags, i) == BitOf(flags, i, 1) = 1
        Payload(flags) ==
            <<Utf8, If(Has(flags, 2), Props("will")), If(Has(flags, 2), Utf8),
              If(Has(flags, 2), Utf8), If(Has(flags, 7), Utf8),
              If(Has(flags, 6), Utf8)>>
        Will(flags, pl) ==
            [topic |-> pl[3][1], message |-> pl[4][1], qos |-> BitOf(flags, 3, 2),
             retain |-> BitOf(flags, 5, 1), props |-> pl[2][1]]
        Made(vh, pl) ==
            [type |-> "connect", client_id |-> pl[1], user_name |-> pl[5],
             password |-> pl[6], keep_alive |-> vh[4],
             clean_start |-> BitOf(vh[3], 1, 1), props |-> vh[5],
             will |-> IF Has(vh[3], 2) THEN <<Will(vh[3], pl)>> ELSE <<>>]
    IN  Then(TypeParse(<<Utf8, Byte, Byte, Word, Props("connect")>>, b, it, end),
             LAMBDA vh :
                 IF vh.val[1] # <<77, 81, 84, 84>> \/ vh.val[2] # 5 THEN Fail
                 ELSE Then(TypeParse(Payload(vh.val[3]), b, vh.pos, end), LAMBDA pload :
                          Parsed(Made(vh.val, pload.val), pload.pos)))

DecodeConnack(remain_length, b, it) ==
    As(LAMBDA v : [type |-> "connack", session_present |-> v[1], reason_code |-> v[2],
                   props |-> v[3]],
       <<Byte, Byte, Props("connack")>>, remain_length, b, it)

DecodePublish(control_byte, remain_length, b, it) ==
    LET flags == control_byte % 16
        qos == BitOf(flags, 1, 2)
    IN  As(LAMBDA v : [type |-> "publish", topic |-> v[1],
                       pid |-> IF v[2] = <<>> THEN 0 ELSE v[2][1],
                       dup |-> BitOf(flags, 3, 1), qos |-> qos,
                       retain |-> BitOf(flags, 0, 1), props |-> v[3], payload |-> v[4]],
           <<Utf8, If(qos # 0, Word), Props("publish"), Verbatim>>,
           remain_length, b, it)

\* decode_puback, decode_pubrec, decode_pubrel and decode_pubcomp, behind the
\* packet identifier.  A packet that ends here stands for success without
\* properties.
DecodePubReply(type, remain_length, b, it) ==
    IF remain_length = 0
    THEN Parsed([type |-> type, reason_code |-> 0,
                 props |-> NoProps(PropsOf(type))], it)
    ELSE As(LAMBDA v : [type |-> type, reason_code |-> v[1], props |-> v[2]],
            <<Byte, Props(type)>>, remain_length, b, it)

\* decode_disconnect and decode_auth
DecodeReasoned(type, remain_length, b, it) ==
    DecodePubReply(type, remain_length, b, it)

\* What decode_subscribe, decode_unsubscribe, decode_suback and decode_unsuback
\* share: properties and one or more entries.
DecodeList(Make(_, _), type, entry, remain_length, b, it) ==
    LET end == it + remain_length
    IN  Then(ScopeLimit(remain_length, <<Props(type)>>, b, it, end), LAMBDA r :
            Then(Many(entry, b, r.pos, end), LAMBDA list :
                IF list.val = <<>> THEN Fail
                ELSE Parsed(Make(r.val[1], list.val), list.pos)))

DecodeSubscribe(remain_length, b, it) ==
    LET Opts(o) == [retain_handling |-> BitOf(o, 4, 2),
                    retain_as_published |-> BitOf(o, 3, 1),
                    no_local |-> BitOf(o, 2, 1), max_qos |-> BitOf(o, 0, 2)]
    IN  DecodeList(LAMBDA props, list :
                [type |-> "subscribe", props |-> props,
                 topics |-> [i \in DOMAIN list |->
                     [filter |-> list[i][1], opts |-> Opts(list[i][2])]]],
            "subscribe", <<Utf8, Byte>>, remain_length, b, it)

DecodeUnsubscribe(remain_length, b, it) ==
    DecodeList(LAMBDA props, list :
            [type |-> "unsubscribe", props |-> props,
             topics |-> [i \in DOMAIN list |-> list[i][1]]],
        "unsubscribe", <<Utf8>>, remain_length, b, it)

DecodeSuback(type, remain_length, b, it) ==
    DecodeList(LAMBDA props, list :
            [type |-> type, props |-> props,
             reason_codes |-> [i \in DOMAIN list |-> list[i][1]]],
        type, <<Byte>>, remain_length, b, it)
DecodeUnsuback(remain_length, b, it) == DecodeSuback("unsuback", remain_length, b, it)

\* The decoder of a packet of a type, and the packet identifier in front of it.
WithPacketId(type) ==
    type \in {"puback", "pubrec", "pubrel", "pubcomp", "subscribe", "suback",
              "unsubscribe", "unsuback"}
DecodeBody(type, control_byte, remain_length, b, it) ==
    CASE type = "connect" -> DecodeConnect(remain_length, b, it)
      [] type = "connack" -> DecodeConnack(remain_length, b, it)
      [] type = "publish" -> DecodePublish(control_byte, remain_length, b, it)
      [] type \in {"puback", "pubrec", "pubrel", "pubcomp"}
            -> DecodePubReply(type, remain_length, b, it)
      [] type \in {"disconnect", "auth"} -> DecodeReasoned(type, remain_length, b, it)
      [] type = "subscribe" -> DecodeSubscribe(remain_length, b, it)
      [] type = "unsubscribe" -> DecodeUnsubscribe(remain_length, b, it)
      [] type = "suback" -> DecodeSuback(type, remain_length, b, it)
      [] type = "unsuback" -> DecodeUnsuback(remain_length, b, it)
      [] type \in {"pingreq", "pingresp"} -> Parsed([type |-> type], it)

\* A whole packet, as assemble_op and the operations that get its parts decode
\* it one after the other.
Types == {"connect", "connack", "publish", "puback", "pubrec", "pubrel",
          "pubcomp", "subscribe", "suback", "unsubscribe", "unsuback",
          "pingreq", "pingresp", "disconnect", "auth"}
TypeOf(control_byte) == CHOOSE t \in Types : ControlCode(t) = control_byte \div 16
DecodeRest(type, control_byte, remain_length, b, it) ==
    IF ~WithPacketId(type) THEN DecodeBody(type, control_byte, remain_length, b, it)
    ELSE Then(DecodePacketId(b, it), LAMBDA pid :
             Then(DecodeBody(type, control_byte, remain_length - 2, b, pid.pos),
                 LAMBDA r : Parsed([pid |-> pid.val] @@ r.val, r.pos)))
Decode(b) ==
    Then(DecodeFixedHeader(b, 1, Len(b) + 1), LAMBDA fh :
        DecodeRest(TypeOf(fh.val[1]), fh.val[1], fh.val[2], b, fh.pos))
===============================================================================
