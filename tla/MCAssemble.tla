------------------------------ MODULE MCAssemble ------------------------------
EXTENDS Assemble

PacketsDef == {
    <<208, 0>>,                  \* PINGRESP, treated as a reply is
    <<48, 131, 0, 1, 2, 3>>,     \* PUBLISH, as large as may be, length in two bytes
    <<48, 1, 9>>,                \* PUBLISH that cannot be decoded
    <<50, 5, 1, 2, 3, 4, 5>>,    \* PUBLISH, one byte too large
    <<224, 0>>,                  \* DISCONNECT
    <<97, 2, 0, 1>> }            \* PUBREL with wrong flags
UndecodableDef == {<<48, 1, 9>>}
================================================================================
