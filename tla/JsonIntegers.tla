---------------------------- MODULE JsonIntegers ----------------------------
(***************************************************************************)
(* Integers in class binary_writer and class binary_reader of json.hpp:    *)
(* every format has its own widths, and first bytes that tell them.  The   *)
(* reader keeps the byte it read last in current; here i is the position   *)
(* of that byte and c the byte, and what a reading function gives is the   *)
(* value, or what it throws, with the position of the last byte it read.   *)
(***************************************************************************)
EXTENDS JsonWords, JsonTypes

-----------------------------------------------------------------------------
(* Writing.  write_number puts the n low bytes of a number, most           *)
(* significant first.                                                      *)

WriteNumber(word, n) == Tails(word, n)

\* Fault: 24 is written as if it were a size of its own.
CborHeadLong(base, word) ==
    IF LexLess(word, Word(25)) THEN <<base + word[8]>> ELSE <<base + 27>> \o WriteNumber(word, 8)

\* The first bytes of a CBOR item: base is its major type, word a number or size.
CborHead(base, word) ==
    CASE ~LexLess(Word(23), word) -> <<base + word[8]>>
      [] LexLess(Word(23), word) /\ Below(word, 1) -> <<base + 24>> \o WriteNumber(word, 1)
      [] Below(word, 2) /\ ~Below(word, 1) -> <<base + 25>> \o WriteNumber(word, 2)
      [] Below(word, 4) /\ ~Below(word, 2) -> <<base + 26>> \o WriteNumber(word, 4)
      [] OTHER -> <<base + 27>> \o WriteNumber(word, 8)

\* -1 - n is the complement of n.
Complement(word) == [k \in DOMAIN word |-> 255 - word[k]]

\* write_cbor of an integer.
CborInteger(v) ==
    IF v[1] = "integer" /\ SignBit(v[2]) THEN CborHead(32, Complement(v[2]))
    ELSE CborHead(0, v[2])

\* The narrowest of widths, which are pairs <<bytes, first byte>>, and the word in it.
Narrowest(widths) == CHOOSE w \in widths : \A u \in widths : w[1] <= u[1]
Marked(word, width) == <<width[2]>> \o WriteNumber(word, width[1])
MsgpackHead(word, widths) ==
    Marked(word, Narrowest({w \in widths : w[1] = 8 \/ Below(word, w[1])}))

UnsignedWidths == {<<1, 204>>, <<2, 205>>, <<4, 206>>, <<8, 207>>}
SignedWidths == {<<1, 208>>, <<2, 209>>, <<4, 210>>, <<8, 211>>}

\* The same of a negative number.
MsgpackNegative(word) ==
    IF FitsSigned(word, 1) /\ word[8] >= 224 THEN WriteNumber(word, 1)
    ELSE Marked(word, Narrowest({w \in SignedWidths : FitsSigned(word, w[1])}))

\* write_msgpack of an integer.
MsgpackInteger(v) ==
    CASE v[1] = "integer" /\ SignBit(v[2]) -> MsgpackNegative(v[2])
      [] ~(v[1] = "integer" /\ SignBit(v[2])) /\ Below(v[2], 1) /\ v[2][8] < 128 -> WriteNumber(v[2], 1)
      [] OTHER -> MsgpackHead(v[2], UnsignedWidths)

\* ubjson_prefix of an integer: the markers i, U, I, l and L.
TooLarge(v) == IsNumberUnsigned(v) /\ SignBit(v[2])
UbjsonMarker(v) ==
    CASE TooLarge(v) -> 76
      [] ~TooLarge(v) /\ FitsSigned(v[2], 1) -> 105
      [] ~TooLarge(v) /\ ~FitsSigned(v[2], 1) /\ Below(v[2], 1) -> 85
      [] OTHER -> IF FitsSigned(v[2], 2) THEN 73 ELSE IF FitsSigned(v[2], 4) THEN 108 ELSE 76

\* The bytes of a number by its marker.
UbjsonIntegers == {105, 85, 73, 108, 76}
UbjsonWidth ==
    [c \in UbjsonIntegers |->
        CASE c \in {105, 85} -> 1 [] c = 73 -> 2 [] c = 108 -> 4 [] c = 76 -> 8]

\* write_number_with_ubjson_prefix for the prefix c, without it.
UbjsonInteger(v, c) ==
    IF TooLarge(v) THEN ThrowText(407) ELSE WriteNumber(v[2], UbjsonWidth[c])

-----------------------------------------------------------------------------
(* Reading.                                                                *)

Read(v, at) == [value |-> v, at |-> at]
ReadFails(id, at) == Read(Throw(id), at)

\* get_string: n bytes after position i.
ReadBytes(bytes, i, n) ==
    IF i + n > Len(bytes) THEN ReadFails(110, Len(bytes) + 1)
    ELSE Read(String(SubSeq(bytes, i + 1, i + n)), i + n)

\* get_number<uintN_t>, <intN_t>, <float> and <double>, of the bytes r.
NumberAs(r, v) == IF Threw(r.value) THEN r ELSE Read(v, r.at)
AsUnsigned(r) == NumberAs(r, Unsigned(Widen(r.value[2])))
AsSigned(r) == NumberAs(r, Integer(WidenSigned(r.value[2])))

GetUnsigned(bytes, i, n) == AsUnsigned(ReadBytes(bytes, i, n))
GetSigned(bytes, i, n) == AsSigned(ReadBytes(bytes, i, n))

\* The widths by their place.
Eight == <<1, 2, 4, 8>>

\* The number or size in the first byte or after it.
CborArgument(bytes, i, c) ==
    IF c % 32 < 24 THEN Read(Unsigned(Word(c % 32)), i)
    ELSE GetUnsigned(bytes, i, Eight[(c % 32) - 23])

\* Numbers of major type 1: what follows is subtracted from -1.
CborNegative(n) == NumberAs(n, Integer(Complement(n.value[2])))

\* parse_cbor_internal, parse_msgpack_internal and get_ubjson_value of an integer.
CborIntegers == (0..27) \cup (32..59)
ReadCborInteger(bytes, i, c) ==
    IF c < 32 THEN CborArgument(bytes, i, c) ELSE CborNegative(CborArgument(bytes, i, c))

MsgpackIntegers == (0..127) \cup (204..211) \cup (224..255)
ReadMsgpackInteger(bytes, i, c) ==
    CASE c \in 0..127 -> Read(Unsigned(Word(c)), i)
      [] c \in 204..207 -> GetUnsigned(bytes, i, Eight[c - 203])
      [] c \in 208..211 -> GetSigned(bytes, i, Eight[c - 207])
      [] c \in 224..255 -> Read(Integer(WidenSigned(<<c>>)), i)

ReadUbjsonInteger(bytes, i, c) ==
    IF c = 85 THEN GetUnsigned(bytes, i, 1) ELSE GetSigned(bytes, i, UbjsonWidth[c])

=============================================================================
