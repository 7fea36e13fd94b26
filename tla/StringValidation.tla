--------------------------- MODULE StringValidation ---------------------------
(***************************************************************************)
(* Strings that the application hands to the client: UTF-8 strings, topic  *)
(* names, topic filters and the list of brokers.  A string is a sequence   *)
(* of bytes; a function of the source that walks along a string is a       *)
(* recursive operator.                                                     *)
(*                                                                         *)
(* A definition named after another one with a remark is a mistaken form   *)
(* of it, which a property rules out.                                      *)
(***************************************************************************)
EXTENDS Integers, Sequences, SequencesExt

CONSTANT MaxStringSize    \* max_sz of is_valid_string_size, 65535

Slash == 47
Hash == 35
Plus == 43
Colon == 58
Comma == 44
Space == 32
SharePrefix == <<36, 115, 104, 97, 114, 101, 47>>    \* "$share/"

DropFirst(s, n) == SubSeq(s, n + 1, Len(s))

\* pop_front_unichar: the code point in front and what is left; -1, and nothing
\* is taken, if the first byte starts no sequence or the sequence is cut off.
PopFrontUnichar(s) ==
    LET n == s[1] \div 16
        Lead == s[1] % 32
        B(i) == s[i] % 64
        Taken(ch, k) == [ch |-> ch, rest |-> DropFirst(s, k)]
    IN  IF n < 8 THEN Taken(s[1], 1)
        ELSE IF n \in {12, 13} /\ Len(s) > 1 THEN Taken(Lead * 64 + B(2), 2)
        ELSE IF n = 14 /\ Len(s) > 2
             THEN Taken((Lead * 64 + B(2)) * 64 + B(3), 3)
        ELSE IF n = 15 /\ Len(s) > 3
             THEN Taken(((Lead * 64 + B(2)) * 64 + B(3)) * 64 + B(4), 4)
        ELSE Taken(-1, 0)

\* validate_mqtt_utf8_char; the last condition stands for both masks.
ValidateMqttUtf8Char(c) ==
    IF c \in {Hash, Plus} THEN "has_wildcard_character"
    ELSE IF /\ c > 31
            /\ c < 127 \/ c > 159
            /\ c < 55296 \/ c > 57343
            /\ c < 64976 \/ c > 65007
            /\ c % 256 < 254
         THEN "valid"
    ELSE "invalid"

IsValidStringSize(sz) == sz <= MaxStringSize
IsValidTopicSize(sz) == sz # 0 /\ IsValidStringSize(sz)

\* The loop of validate_impl; accepted holds the results its condition accepts.
RECURSIVE EachChar(_, _)
EachChar(str, accepted) ==
    IF str = <<>> THEN "valid"
    ELSE LET next == PopFrontUnichar(str)
             result == ValidateMqttUtf8Char(next.ch)
         IN  IF result \in accepted THEN EachChar(next.rest, accepted) ELSE result

\* validate_impl
ValidateImpl(str, sizeOK, accepted) ==
    IF ~sizeOK THEN "invalid" ELSE EachChar(str, accepted)

ValidateMqttUtf8(str) ==
    ValidateImpl(str, IsValidStringSize(Len(str)), {"valid", "has_wildcard_character"})
ValidateTopicName(str) ==
    ValidateImpl(str, IsValidTopicSize(Len(str)), {"valid"})
ValidateTopicAliasName(str) ==
    ValidateImpl(str, IsValidStringSize(Len(str)), {"valid"})
ValidateSharedTopicName(str) == ValidateImpl(str, Len(str) # 0, {"valid"})

\* is_valid_string_pair
IsValidStringPair(first, second) ==
    ValidateMqttUtf8(first) = "valid" /\ ValidateMqttUtf8(second) = "valid"

\* One character of a filter is fine: an ordinary one, or '+' on a level of its
\* own.
FilterCharOK(c, last_c, rest) ==
    \/ ValidateMqttUtf8Char(c) = "valid"
    \/ /\ c = Plus
       /\ rest = <<>> \/ Head(rest) = Slash
       /\ last_c \in {-1, Slash}

\* The loop of validate_topic_filter.
RECURSIVE EachFilterChar(_, _)
EachFilterChar(str, last_c) ==
    IF str = <<>> THEN "valid"
    ELSE LET next == PopFrontUnichar(str)
         IN  IF FilterCharOK(next.ch, last_c, next.rest)
             THEN EachFilterChar(next.rest, next.ch)
             ELSE "invalid"

ValidateTopicFilterHashAnywhere(str) ==
    IF ~IsValidTopicSize(Len(str)) THEN "invalid"
    ELSE EachFilterChar(IF Last(str) = Hash THEN Front(str) ELSE str, -1)

\* validate_topic_filter
ValidateTopicFilter(str) ==
    IF ~IsValidTopicSize(Len(str)) THEN "invalid"
    ELSE IF Last(str) # Hash THEN EachFilterChar(str, -1)
    ELSE IF Len(str) > 1 /\ Last(Front(str)) # Slash THEN "invalid"
    ELSE EachFilterChar(Front(str), -1)

\* validate_shared_topic_filter
ValidateSharedTopicFilter(str, wildcard_allowed) ==
    LET rest == DropFirst(str, Len(SharePrefix))
        slash == SelectInSeq(rest, LAMBDA c : c = Slash)    \* 0: none
        filter == DropFirst(rest, slash)
    IN  IF \/ ~IsValidTopicSize(Len(str))
           \/ ~IsPrefix(SharePrefix, str)
           \/ slash = 0
        THEN "invalid"
        ELSE IF ValidateSharedTopicName(SubSeq(rest, 1, slash - 1)) # "valid"
        THEN "invalid"
        ELSE IF wildcard_allowed THEN ValidateTopicFilter(filter)
        ELSE ValidateTopicName(filter)
-------------------------------------------------------------------------------
\* The grammar of endpoints::brokers: characters of a host or a path segment.
Digits == 48..57
Unreserved == {45, 46, 95, 126} \cup Digits \cup 65..90 \cup 97..122

\* How many characters of S stand in front of s.
RunLength(s, S) ==
    LET stop == SelectInSeq(s, LAMBDA c : c \notin S)
    IN  IF stop = 0 THEN Len(s) ELSE stop - 1

SkipSpaces(s) == DropFirst(s, RunLength(s, {Space}))

\* *port_ and *path_: each repetition overwrites what the one before assigned.
RECURSIVE ParsePorts(_, _)
ParsePorts(s, port) ==
    LET n == IF s # <<>> /\ Head(s) = Colon THEN RunLength(Tail(s), Digits) ELSE 0
    IN  IF n = 0 THEN [val |-> port, rest |-> s]
        ELSE ParsePorts(DropFirst(s, n + 1), SubSeq(s, 2, n + 1))

RECURSIVE ParsePaths(_, _)
ParsePaths(s, path) ==
    IF s = <<>> \/ Head(s) # Slash THEN [val |-> path, rest |-> s]
    ELSE LET n == 1 + RunLength(Tail(s), Unreserved)
         IN  ParsePaths(DropFirst(s, n), SubSeq(s, 1, n))

\* endpoints::brokers: one address after the other up to the first one that
\* does not parse, which ends the list.
RECURSIVE Brokers(_, _)
Brokers(hosts, default_port) ==
    LET s == SkipSpaces(hosts)
        n == RunLength(s, Unreserved)
        port == ParsePorts(DropFirst(s, n), <<>>)
        path == ParsePaths(port.rest, <<>>)
        rest == SkipSpaces(path.rest)
        server == [host |-> SubSeq(s, 1, n),
                   port |-> IF port.val = <<>> THEN default_port ELSE port.val,
                   path |-> path.val]
    IN  IF hosts = <<>> \/ n = 0 \/ (rest # <<>> /\ Head(rest) # Comma) THEN <<>>
        ELSE IF rest = <<>> THEN <<server>>
        ELSE <<server>> \o Brokers(Tail(rest), default_port)
===============================================================================
