--------------------------- MODULE JsonSerializer ---------------------------
(***************************************************************************)
(* class serializer of json.hpp: the text of a value.                      *)
(***************************************************************************)
EXTENDS JsonLexer

-----------------------------------------------------------------------------
(* Strings: the states of decode and what dump_escaped writes in each.     *)

Utf8Accept == 0
Utf8Reject == 1

\* The state after a byte, by the table of decode: 2, 3 and 7 wait for one, two
\* and three more bytes, 4, 5, 6 and 8 for a second byte in part of the range.
DecodeState(state, byte) ==
    LET more == byte \in Continuation
    IN CASE state = Utf8Accept ->
              CASE byte < 128 -> 0
                [] byte \in 194..223 -> 2
                [] byte = 224 -> 4
                [] byte \in (225..236) \cup {238, 239} -> 3
                [] byte = 237 -> 5
                [] byte = 240 -> 6
                [] byte \in 241..243 -> 7
                [] byte = 244 -> 8
                [] OTHER -> Utf8Reject
         [] state = 2 /\ more -> Utf8Accept
         [] state = 3 /\ more -> 2
         [] state = 4 /\ byte \in 160..191 -> 2
         [] state = 5 /\ byte \in 128..159 -> 2
         [] state = 6 /\ byte \in 144..191 -> 3
         [] state = 7 /\ more -> 3
         [] state = 8 /\ byte \in 128..143 -> 3
         [] OTHER -> Utf8Reject

\* The code point so far.
DecodePoint(state, codepoint, byte) ==
    CASE state # Utf8Accept -> codepoint * 64 + (byte % 64)
      [] state = Utf8Accept /\ byte < 128 -> byte
      [] state = Utf8Accept /\ byte \in 128..223 -> byte % 64
      [] state = Utf8Accept /\ byte \in 224..239 -> byte % 16
      [] state = Utf8Accept /\ byte > 239 -> byte % 8

Hex4(n) ==
    LET digit(d) == IF d < 10 THEN 48 + d ELSE 87 + d
    IN Bytes("\\u") \o <<digit(n \div 4096), digit((n \div 256) % 16), digit((n \div 16) % 16),
                         digit(n % 16)>>

\* Fault: the range of the control characters ends one too early.
EscapedShort(codepoint, byte, ascii) ==
    IF codepoint < 31 \/ (ascii /\ codepoint >= 127) THEN Hex4(codepoint) ELSE <<byte>>

\* What is written for a code point whose last byte is byte.
Escaped(codepoint, byte, ascii) ==
    CASE codepoint = 8 -> Bytes("\\b")
      [] codepoint = 9 -> Bytes("\\t")
      [] codepoint = 10 -> Bytes("\\n")
      [] codepoint = 12 -> Bytes("\\f")
      [] codepoint = 13 -> Bytes("\\r")
      [] codepoint \in {Quote, Backslash} -> <<Backslash, codepoint>>
      [] codepoint <= 31 \/ (ascii /\ codepoint >= 127) ->
            IF codepoint <= 65535 THEN Hex4(codepoint)
            ELSE Hex4(55232 + (codepoint \div 1024)) \o Hex4(56320 + (codepoint % 1024))
      [] OTHER -> <<byte>>

\* After a byte, out being what is written before it.
DumpByte(out, state, point, byte, ascii) ==
    [state |-> state, point |-> point,
     out |-> out \o CASE state = Utf8Accept -> Escaped(point, byte, ascii)
                      [] state = Utf8Reject -> ThrowText(316)
                      [] OTHER -> IF ascii THEN <<>> ELSE <<byte>>]
DumpEnd(end) == IF end.state = Utf8Accept THEN end.out ELSE ThrowText(316)
DumpEscaped(s, ascii) ==
    DumpEnd(FoldInHalves(LAMBDA acc, byte :
                             DumpByte(acc.out, DecodeState(acc.state, byte),
                                      DecodePoint(acc.state, acc.point, byte), byte, ascii),
                         [state |-> Utf8Accept, point |-> 0, out |-> <<>>], s))

-----------------------------------------------------------------------------
(* Numbers.                                                                *)

Characters(digits) == [i \in DOMAIN digits |-> 48 + digits[i]]

DumpInteger(v) ==
    IF v[2] = WordZero THEN Bytes("0")
    ELSE (IF Negative(v) THEN Bytes("-") ELSE <<>>) \o Characters(DecimalDigits(Absolute(v)))

\* A sign and at least two digits.
AppendExponent(e) ==
    LET k == IF e < 0 THEN -e ELSE e
    IN (IF e < 0 THEN Bytes("-") ELSE Bytes("+"))
       \o Characters((IF k < 100 THEN <<>> ELSE <<k \div 100>>) \o <<(k \div 10) % 10, k % 10>>)

MinExp == -4
MaxExp == 15

\* 0.digits * 10^n in decimal or, when that is long, scientific notation.
FormatBuffer(digits, n) ==
    LET k == Len(digits)
        text == Characters(digits)
    IN CASE k <= n /\ n <= MaxExp -> text \o Characters(Zeros(n - k)) \o Bytes(".0")
         [] 0 < n /\ n < k /\ n <= MaxExp -> SubSeq(text, 1, n) \o Bytes(".") \o SubSeq(text, n + 1, k)
         [] MinExp < n /\ n <= 0 -> Bytes("0.") \o Characters(Zeros(-n)) \o text
         [] OTHER -> (IF k = 1 THEN text ELSE <<text[1]>> \o Bytes(".") \o Tail(text))
                     \o Bytes("e") \o AppendExponent(n - 1)

\* to_chars
ToChars(x) ==
    (IF x.neg THEN Bytes("-") ELSE <<>>)
        \o IF IsZero(x) THEN Bytes("0.0") ELSE FormatBuffer(x.digits, x.exp)

DumpFloat(x) == IF IsFinite(x) THEN ToChars(x) ELSE Bytes("null")

-----------------------------------------------------------------------------
(* Values.                                                                 *)

QuotedText(s, ascii) == <<Quote>> \o DumpEscaped(s, ascii) \o <<Quote>>

\* The lines of an object or array whose entries are texts already.
NewLine(pretty, indent) == IF pretty THEN <<10>> \o [i \in 1..indent |-> 32] ELSE <<>>
Enclosed(open, entries, close, pretty, step, indent) ==
    IF entries = <<>> THEN Bytes(open \o close)
    ELSE Bytes(open)
         \o FlattenSeq([i \in DOMAIN entries |->
                (IF i = 1 THEN <<>> ELSE Bytes(",")) \o NewLine(pretty, indent + step) \o entries[i]])
         \o NewLine(pretty, indent) \o Bytes(close)

\* dump of the class.  Text that is nested deeper than the indent string reaches
\* is not modelled.
RECURSIVE DumpAt(_, _, _, _, _)
DumpAt(v, pretty, ascii, step, indent) ==
    LET inner(w) == DumpAt(w, pretty, ascii, step, indent + step)
        colon == IF pretty THEN Bytes(": ") ELSE Bytes(":")
    IN CASE IsObject(v) ->
              Enclosed("{", [i \in DOMAIN v[2] |->
                                QuotedText(v[2][i][1], ascii) \o colon \o inner(v[2][i][2])],
                       "}", pretty, step, indent)
         [] IsArray(v) ->
              Enclosed("[", [i \in DOMAIN v[2] |-> inner(v[2][i])], "]", pretty, step, indent)
         [] IsString(v) -> QuotedText(v[2], ascii)
         [] IsBoolean(v) -> IF v[2] THEN Bytes("true") ELSE Bytes("false")
         [] IsNumberInteger(v) -> DumpInteger(v)
         [] IsNumberFloat(v) -> DumpFloat(v[2])
         [] IsDiscarded(v) -> Bytes("<discarded>")
         [] IsNull(v) -> Bytes("null")

\* dump of a value: compact when indent is negative.
OrThrow(text, id) == IF ThrewText(text) THEN ThrowText(id) ELSE text
Dump(v, indent, ascii) ==
    OrThrow(DumpAt(v, indent >= 0, ascii, IF indent >= 0 THEN indent ELSE 0, 0), 316)

=============================================================================
