------------------------------ MODULE ReasonCodes ------------------------------
(***************************************************************************)
(* Reason codes: the codes each kind of packet may carry, as the sorted    *)
(* tables of valid_codes, and the binary search of to_reason_code.         *)
(* ValidCodesUnsorted is a mistaken form of ValidCodes.                    *)
(***************************************************************************)
EXTENDS Integers, Sequences

\* The constants of namespace reason_codes.
ReasonCode ==
    [success |-> 0, normal_disconnection |-> 0, granted_qos_0 |-> 0,
     granted_qos_1 |-> 1, granted_qos_2 |-> 2,
     disconnect_with_will_message |-> 4, no_matching_subscribers |-> 16,
     no_subscription_existed |-> 17, continue_authentication |-> 24,
     reauthenticate |-> 25, unspecified_error |-> 128,
     malformed_packet |-> 129, protocol_error |-> 130,
     implementation_specific_error |-> 131,
     unsupported_protocol_version |-> 132,
     client_identifier_not_valid |-> 133, bad_username_or_password |-> 134,
     not_authorized |-> 135, server_unavailable |-> 136, server_busy |-> 137,
     banned |-> 138, server_shutting_down |-> 139,
     bad_authentication_method |-> 140, keep_alive_timeout |-> 141,
     session_taken_over |-> 142, topic_filter_invalid |-> 143,
     topic_name_invalid |-> 144, packet_identifier_in_use |-> 145,
     packet_identifier_not_found |-> 146, receive_maximum_exceeded |-> 147,
     topic_alias_invalid |-> 148, packet_too_large |-> 149,
     message_rate_too_high |-> 150, quota_exceeded |-> 151,
     administrative_action |-> 152, payload_format_invalid |-> 153,
     retain_not_supported |-> 154, qos_not_supported |-> 155,
     use_another_server |-> 156, server_moved |-> 157,
     shared_subscriptions_not_supported |-> 158,
     connection_rate_exceeded |-> 159, maximum_connect_time |-> 160,
     subscription_ids_not_supported |-> 161,
     wildcard_subscriptions_not_supported |-> 162, empty |-> 255]

Categories == {"connack", "auth", "puback", "pubrec", "pubrel", "pubcomp",
               "suback", "unsuback", "disconnect"}

connack_codes ==
    <<"success", "unspecified_error", "malformed_packet", "protocol_error",
      "implementation_specific_error", "unsupported_protocol_version",
      "client_identifier_not_valid", "bad_username_or_password",
      "not_authorized", "server_unavailable", "server_busy", "banned",
      "bad_authentication_method", "topic_name_invalid", "packet_too_large",
      "quota_exceeded", "payload_format_invalid", "retain_not_supported",
      "qos_not_supported", "use_another_server", "server_moved",
      "connection_rate_exceeded">>
auth_codes == <<"success", "continue_authentication", "reauthenticate">>
puback_codes ==
    <<"success", "no_matching_subscribers", "unspecified_error",
      "implementation_specific_error", "not_authorized", "topic_name_invalid",
      "packet_identifier_in_use", "quota_exceeded", "payload_format_invalid">>
pubrel_codes == <<"success", "packet_identifier_not_found">>
suback_codes ==
    <<"granted_qos_0", "granted_qos_1", "granted_qos_2", "unspecified_error",
      "implementation_specific_error", "not_authorized",
      "topic_filter_invalid", "packet_identifier_in_use", "quota_exceeded",
      "shared_subscriptions_not_supported", "subscription_ids_not_supported",
      "wildcard_subscriptions_not_supported">>
unsuback_codes ==
    <<"success", "no_subscription_existed", "unspecified_error",
      "implementation_specific_error", "not_authorized",
      "topic_filter_invalid", "packet_identifier_in_use">>
disconnect_codes ==
    <<"normal_disconnection", "unspecified_error", "malformed_packet", "protocol_error",
      "implementation_specific_error", "not_authorized", "server_busy",
      "server_shutting_down", "keep_alive_timeout", "session_taken_over",
      "topic_filter_invalid", "topic_name_invalid",
      "receive_maximum_exceeded", "topic_alias_invalid", "packet_too_large",
      "message_rate_too_high", "quota_exceeded", "administrative_action",
      "payload_format_invalid", "retain_not_supported", "qos_not_supported",
      "use_another_server", "server_moved",
      "shared_subscriptions_not_supported", "connection_rate_exceeded",
      "maximum_connect_time", "subscription_ids_not_supported",
      "wildcard_subscriptions_not_supported">>

ValidCodesUnsorted(cat) ==
    CASE cat = "connack" -> connack_codes
      [] cat = "auth" -> auth_codes
      [] cat \in {"puback", "pubrec"} -> puback_codes
      [] cat \in {"pubrel", "pubcomp"} -> pubrel_codes
      [] cat = "suback" -> <<"unspecified_error", "granted_qos_0">> \o Tail(suback_codes)
      [] cat = "unsuback" -> unsuback_codes
      [] cat = "disconnect" -> disconnect_codes

\* valid_codes<cat>()
ValidCodes(cat) ==
    CASE cat = "connack" -> connack_codes
      [] cat = "auth" -> auth_codes
      [] cat \in {"puback", "pubrec"} -> puback_codes
      [] cat \in {"pubrel", "pubcomp"} -> pubrel_codes
      [] cat = "suback" -> suback_codes
      [] cat = "unsuback" -> unsuback_codes
      [] cat = "disconnect" -> disconnect_codes

\* std::lower_bound over positions first..first+len-1: halve until nothing is
\* left.
RECURSIVE LowerBound(_, _, _, _)
LowerBound(table, first, len, code) ==
    LET half == len \div 2
    IN  IF len = 0 THEN first
        ELSE IF table[first + half] < code
             THEN LowerBound(table, first + half + 1, len - half - 1, code)
        ELSE LowerBound(table, first, half, code)

NullOpt == -1

\* to_reason_code<cat>(code), as the set of its outcomes: the position that
\* lower_bound returns is read without comparing it with the end, so above the
\* last code of the table the outcome depends on what stands behind the table.
ToReasonCode(cat, code) ==
    LET names == ValidCodes(cat)
        table == [i \in DOMAIN names |-> ReasonCode[names[i]]]
        it == LowerBound(table, 1, Len(table), code)
    IN  IF it > Len(table) THEN {NullOpt, code}
        ELSE IF table[it] = code THEN {code}
        ELSE {NullOpt}
================================================================================
