-------------------------------- MODULE Varint --------------------------------
(***************************************************************************)
(* Variable Byte Integers: the encoder to_variable_bytes, its length       *)
(* variable_length and the parser varint_parser.  Their loops run at most  *)
(* four times, so they are written out.                                    *)
(*                                                                         *)
(* A definition named after another one with a remark is a mistaken form   *)
(* of it, which a property rules out.                                      *)
(***************************************************************************)
EXTENDS Integers, Sequences

MaxVarint == 128 * 128 * 128 * 128 - 1    \* 0xfffffff

\* to_variable_bytes
ToVariableBytes(val) ==
    LET Low(v) == 128 + (v % 128)
        v1 == val \div 128
        v2 == v1 \div 128
        v3 == v2 \div 128
    IN  IF val > MaxVarint THEN <<>>
        ELSE IF val <= 127 THEN <<val>>
        ELSE IF v1 <= 127 THEN <<Low(val), v1>>
        ELSE IF v2 <= 127 THEN <<Low(val), Low(v1), v2>>
        ELSE <<Low(val), Low(v1), Low(v2), v3>>

VariableLengthEarly(val) ==
    IF val > MaxVarint THEN 0
    ELSE IF val < 127 THEN 1
    ELSE IF val \div 128 <= 127 THEN 2
    ELSE IF (val \div 128) \div 128 <= 127 THEN 3
    ELSE 4

\* variable_length
VariableLength(val) ==
    IF val > MaxVarint THEN 0
    ELSE IF val <= 127 THEN 1
    ELSE IF val \div 128 <= 127 THEN 2
    ELSE IF (val \div 128) \div 128 <= 127 THEN 3
    ELSE 4

\* What a parser returns: success, the value and the position behind it.
Fail == [ok |-> FALSE, val |-> 0, pos |-> 0]
Parsed(val, pos) == [ok |-> TRUE, val |-> val, pos |-> pos]

\* varint_parser::parse over b, from position first up to last (excluded).
VarintParse(b, first, last) ==
    LET At(i) == b[first + i]
        Low(i) == b[first + i] % 128
        Cut(i) == first + i >= last
    IN  IF Cut(0) THEN Fail
        ELSE IF At(0) < 128 THEN Parsed(At(0), first + 1)
        ELSE IF Cut(1) THEN Fail
        ELSE IF At(1) < 128 THEN Parsed(Low(0) + 128 * At(1), first + 2)
        ELSE IF Cut(2) THEN Fail
        ELSE IF At(2) < 128
             THEN Parsed(Low(0) + 128 * Low(1) + 16384 * At(2), first + 3)
        ELSE IF Cut(3) THEN Fail
        ELSE IF At(3) < 128
             THEN Parsed(Low(0) + 128 * Low(1) + 16384 * Low(2)
                         + 2097152 * At(3), first + 4)
        ELSE Fail
===============================================================================
