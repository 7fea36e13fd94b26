-------------------------- MODULE RequestValidation --------------------------
(***************************************************************************)
(* What publish_send_op, subscribe_op, unsubscribe_op and disconnect_op    *)
(* check before they send a packet m: its contents, and the limits in ca,  *)
(* the properties of the last CONNACK.  A result is "ok" or the name of an *)
(* error.  A property is the sequence of its values, empty if it is not    *)
(* there.  A definition named after another one with a remark is a         *)
(* mistaken form of it, which a property rules out.                        *)
(***************************************************************************)
EXTENDS Codec, StringValidation

ValueOr(opt, default) == IF opt = <<>> THEN default ELSE opt[1]

\* The first error of a sequence of results.
FirstError(results) ==
    LET i == SelectInSeq(results, LAMBDA r : r # "ok")
    IN  IF i = 0 THEN "ok" ELSE results[i]
Check(valid, error) == IF valid THEN "ok" ELSE error

UserPropertiesOK(props) ==
    \A i \in DOMAIN props["user_property"] :
        IsValidStringPair(props["user_property"][i][1], props["user_property"][i][2])

Utf8OK(opt) == opt = <<>> \/ ValidateMqttUtf8(opt[1]) = "valid"
-------------------------------------------------------------------------------
\* validate_props of publish_send_op
ValidatePublishPropsAliasZero(props, ca) ==
    LET alias == props["topic_alias"]
        max == ValueOr(ca["topic_alias_maximum"], 0)
        response == props["response_topic"]
    IN  FirstError(<<
            Check(alias = <<>> \/ (max # 0 /\ alias[1] <= max),
                  "topic_alias_maximum_reached"),
            Check(response = <<>> \/ ValidateTopicName(response[1]) = "valid",
                  "malformed_packet"),
            Check(UserPropertiesOK(props), "malformed_packet"),
            Check(props["subscription_identifier"] = <<>>, "malformed_packet"),
            Check(Utf8OK(props["content_type"]), "malformed_packet")>>)

ValidatePublishProps(props, ca) ==
    LET alias == props["topic_alias"]
        max == ValueOr(ca["topic_alias_maximum"], 0)
        response == props["response_topic"]
    IN  FirstError(<<
            Check(alias = <<>> \/ (max # 0 /\ alias[1] <= max),
                  "topic_alias_maximum_reached"),
            Check(alias = <<>> \/ alias[1] # 0, "malformed_packet"),
            Check(response = <<>> \/ ValidateTopicName(response[1]) = "valid",
                  "malformed_packet"),
            Check(UserPropertiesOK(props), "malformed_packet"),
            Check(props["subscription_identifier"] = <<>>, "malformed_packet"),
            Check(Utf8OK(props["content_type"]), "malformed_packet")>>)

\* validate_publish
ValidatePublish(m, ca) ==
    LET name == IF m.props["topic_alias"] # <<>> THEN ValidateTopicAliasName(m.topic)
                ELSE ValidateTopicName(m.topic)
        utf8 == ValueOr(m.props["payload_format_indicator"], 0) = 1
    IN  FirstError(<<
            Check(name = "valid", "invalid_topic"),
            Check(m.qos <= ValueOr(ca["maximum_qos"], 2), "qos_not_supported"),
            Check(ValueOr(ca["retain_available"], 1) # 0 \/ m.retain = 0,
                  "retain_not_available"),
            Check(~utf8 \/ ValidateMqttUtf8(m.payload) = "valid", "malformed_packet"),
            ValidatePublishProps(m.props, ca)>>)

\* validate_topic of subscribe_op
ValidateTopic(filter, ca) ==
    LET wildcard == ValueOr(ca["wildcard_subscription_available"], 1) # 0
        shared == ValueOr(ca["shared_subscription_available"], 1) # 0
        result == IF IsPrefix(SharePrefix, filter)
                  THEN ValidateSharedTopicFilter(filter, wildcard)
                  ELSE IF wildcard THEN ValidateTopicFilter(filter)
                  ELSE ValidateTopicName(filter)
    IN  IF IsPrefix(SharePrefix, filter) /\ ~shared
        THEN "shared_subscription_not_available"
        ELSE IF result = "invalid" THEN "invalid_topic"
        ELSE IF ~wildcard /\ result # "valid" THEN "wildcard_subscription_not_available"
        ELSE "ok"

\* validate_props of subscribe_op
ValidateSubscribeProps(props, ca) ==
    LET id == props["subscription_identifier"]
    IN  IF ~UserPropertiesOK(props) THEN "malformed_packet"
        ELSE IF id = <<>> THEN "ok"
        ELSE IF ValueOr(ca["subscription_identifier_available"], 1) = 0
        THEN "subscription_identifier_not_available"
        ELSE Check(id[1] \in 1..MaxVarint, "malformed_packet")

\* validate_subscribe
ValidateSubscribe(m, ca) ==
    FirstError([i \in DOMAIN m.topics |-> ValidateTopic(m.topics[i].filter, ca)]
               \o <<ValidateSubscribeProps(m.props, ca)>>)

\* validate_unsubscribe
ValidateUnsubscribe(m) ==
    IF \E i \in DOMAIN m.topics : ValidateTopicFilter(m.topics[i]) # "valid"
    THEN "invalid_topic"
    ELSE Check(UserPropertiesOK(m.props), "malformed_packet")

\* validate_disconnect
ValidateDisconnect(m) ==
    Check(Utf8OK(m.props["reason_string"]) /\ UserPropertiesOK(m.props),
          "malformed_packet")
-------------------------------------------------------------------------------
DefaultMaxSendSize == 268435460
TooLarge(m, ca) ==
    Len(Encode(m)) > ValueOr(ca["maximum_packet_size"], DefaultMaxSendSize)

\* perform of publish_send_op
PerformPublish(m, ca) ==
    IF ValidatePublish(m, ca) # "ok" THEN ValidatePublish(m, ca)
    ELSE Check(~TooLarge(m, ca), "packet_too_large")

\* perform of subscribe_op
PerformSubscribe(m, ca) ==
    IF m.topics = <<>> THEN "invalid_topic"
    ELSE IF ValidateSubscribe(m, ca) # "ok" THEN ValidateSubscribe(m, ca)
    ELSE Check(~TooLarge(m, ca), "packet_too_large")

\* perform of unsubscribe_op
PerformUnsubscribe(m, ca) ==
    IF m.topics = <<>> THEN "invalid_topic"
    ELSE IF ValidateUnsubscribe(m) # "ok" THEN ValidateUnsubscribe(m)
    ELSE Check(~TooLarge(m, ca), "packet_too_large")

\* perform of disconnect_op: a DISCONNECT that is too large goes without properties.
DisconnectSent(m, ca) ==
    IF TooLarge(m, ca) THEN [m EXCEPT !.props = NoProps(PropsOf("disconnect"))] ELSE m
===============================================================================
