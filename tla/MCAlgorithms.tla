----------------------------- MODULE MCAlgorithms -----------------------------
EXTENDS Algorithms

\* Around 127 and 128 bytes for one string with its identifier and length.
LengthsDef == {0, 1, 116, 118, 120, 121, 122, 123, 124, 125, 126, 256}

\* Both sides of every boundary of UTF-8 and of validate_mqtt_utf8_char.
CodePointsDef ==
    {0, 31, 32, Hash, Plus, 97, 126, 127, 128, 159, 160, 253, 254, 256, 2047, 2048,
     55295, 55296, 57343, 57344, 64975, 64976, 65007, 65008, 65533, 65534, 65536,
     131069, 131071, 1114109, 1114111}
===============================================================================
