----------------------------- MODULE JsonLexer ------------------------------
(***************************************************************************)
(* class lexer of json.hpp and the adapter it reads from.  A text is the   *)
(* sequence of its bytes; a position is that of the character which get()  *)
(* reads next.  A token is what it is, its value and the position after    *)
(* it.                                                                     *)
(***************************************************************************)
EXTENDS JsonValue

\* The characters from 32 and those from 97.
Upper == " !\"#$%&'()*+,-./0123456789:;<=>?@ABCDEFGHIJKLMNOPQRSTUVWXYZ[\\]^_"
Lower == "abcdefghijklmnopqrstuvwxyz{|}~"

\* The byte of a character of the source, and the bytes of a text of it.
Code == [c \in {SubSeq(Upper, i, i) : i \in 1..64} |->
            31 + CHOOSE i \in 1..64 : SubSeq(Upper, i, i) = c]
        @@ [c \in {SubSeq(Lower, i, i) : i \in 1..30} |->
               96 + CHOOSE i \in 1..30 : SubSeq(Lower, i, i) = c]
Bytes(text) == [i \in 1..Len(text) |-> Code[SubSeq(text, i, i)]]

Digits == 48..57
Quote == 34
Backslash == 92
Whitespace == {32, 9, 10, 13}
Eof == -1

-----------------------------------------------------------------------------
(* The characters of the input.                                            *)

Bom == <<239, 187, 191>>

\* Where reading begins.
FirstPosition(text) == IF IsPrefix(Bom, text) THEN 4 ELSE 1

Get(text, i) == IF i <= Len(text) THEN text[i] ELSE Eof

\* The first position from i on at which the character is not in set.  unget()
\* at the end of the input takes nothing back, as get() read nothing.
SkipWhile(text, i, set) ==
    CHOOSE j \in i..(i + Len(text)) :
        /\ Get(text, j) \notin set
        /\ \A k \in i..(j - 1) : Get(text, k) \in set

-----------------------------------------------------------------------------
(* Literals and numbers.                                                   *)

Token(kind, value, next) == [kind |-> kind, value |-> value, next |-> next]
ParseError(next) == Token("parse_error", Null, next)

ScanLiteral(text, i, word, v) ==
    IF \A k \in 2..Len(word) : Get(text, i + k - 1) = word[k]
    THEN Token("value", v, i + Len(word)) ELSE ParseError(i)

(* The labels of scan_number by what they read: each gives the position    *)
(* after that, which is where the next begins, or 0 when there is no       *)
(* number.                                                                 *)

\* any1 or any2, after a first digit.
NumberDigits(text, i) == IF Get(text, i) \in Digits THEN SkipWhile(text, i + 1, Digits) ELSE 0

IsE(c) == c \in {69, 101}
IsSign(c) == c \in {Code["+"], Code["-"]}

\* exponent and sign.
NumberExponent(text, i) ==
    IF ~IsE(Get(text, i)) THEN i
    ELSE NumberDigits(text, IF IsSign(Get(text, i + 1)) THEN i + 2 ELSE i + 1)

\* decimal1 and decimal2.
NumberDecimal(text, i) == IF Get(text, i) = Code["."] THEN NumberDigits(text, i + 1) ELSE i

\* minus, zero and any1.
NumberMinus(text, i) == IF Get(text, i) = Code["0"] THEN i + 1 ELSE NumberDigits(text, i)

Then(i, next) == IF i = 0 THEN 0 ELSE next
NumberTail(text, i) == Then(i, NumberExponent(text, i))
NumberRest(text, i) == Then(i, NumberTail(text, NumberDecimal(text, i)))
NumberEnd(text, i) ==
    NumberRest(text, NumberMinus(text, IF text[i] = Code["-"] THEN i + 1 ELSE i))

DigitsOf(text) == [k \in 1..Len(text) |-> text[k] - 48]

\* What the digits of a numeral say, cut off where a sum would grow too large.
ToInteger(digits) == FoldInHalves(LAMBDA n, c : IF n > 9999 THEN n ELSE n * 10 + c - 48, 0, digits)

\* strtod of a numeral: whole, fraction and exponent are its texts between sign,
\* point and e.
Exponent(text) ==
    ToInteger(SelectSeq(text, LAMBDA c : c \in Digits))
        * (IF Get(text, 1) = Code["-"] THEN -1 ELSE 1)
Scientific(neg, whole, fraction, exponent) ==
    Double(neg, DigitsOf(whole \o fraction), Len(whole) + Exponent(exponent))
SplitPoint(neg, mantissa, point, exponent) ==
    Scientific(neg, SubSeq(mantissa, 1, point - 1), SubSeq(mantissa, point + 1, Len(mantissa)), exponent)
SplitE(neg, text, e) ==
    SplitPoint(neg, SubSeq(text, 1, e - 1),
               SelectInSeq(SubSeq(text, 1, e - 1) \o Bytes("."), LAMBDA c : c = Code["."]),
               SubSeq(text, e + 1, Len(text)))
Strtod(neg, text) == SplitE(neg, text, SelectInSeq(text \o Bytes("e"), IsE))

\* strtoull and strtoll: <<it set errno to ERANGE, value>>.
Strtoull(r) == <<r[1], Unsigned(r[2])>>
Strtoll(r) == <<r[1] \/ (SignBit(r[2]) /\ r[2] # <<128>> \o Zeros(7)), Integer(Negate(r[2]))>>

\* scan_number_done: what does not fit an integer becomes a double.
Converted(neg, text, r) == IF r[1] THEN Float(Strtod(neg, text)) ELSE r[2]
Number(neg, text) ==
    Converted(neg, text,
              CASE ~(ToSet(text) \subseteq Digits) -> <<TRUE>>
                [] ToSet(text) \subseteq Digits /\ neg -> Strtoll(FromDigits(DigitsOf(text)))
                [] OTHER -> Strtoull(FromDigits(DigitsOf(text))))

\* The text of a number after its sign.
NumberToken(text, i, neg, end) ==
    IF end = 0 THEN ParseError(i)
    ELSE Token("value", Number(neg, SubSeq(text, IF neg THEN i + 1 ELSE i, end - 1)), end)
ScanNumber(text, i) == NumberToken(text, i, text[i] = Code["-"], NumberEnd(text, i))

-----------------------------------------------------------------------------
(* Strings.                                                                *)

Continuation == 128..191

\* next_byte_in_range: what may follow the first byte of a code point; after
\* a byte that begins none, nothing may.
Following(c) ==
    CASE c \in 194..223 -> <<Continuation>>
      [] c = 224 -> <<160..191, Continuation>>
      [] c \in (225..236) \cup {238, 239} -> <<Continuation, Continuation>>
      [] c = 237 -> <<128..159, Continuation>>
      [] c = 240 -> <<144..191, Continuation, Continuation>>
      [] c \in 241..243 -> <<Continuation, Continuation, Continuation>>
      [] c = 244 -> <<128..143, Continuation, Continuation>>
      [] OTHER -> <<{}>>

HexDigit(c) ==
    CASE c \in Digits -> c - 48
      [] c \in 65..70 -> c - 55
      [] c \in 97..102 -> c - 87
      [] OTHER -> -1

\* get_codepoint: the four hexadecimal digits from position i, or -1.
Codepoint(text, i) ==
    IF \E k \in 0..3 : HexDigit(Get(text, i + k)) = -1 THEN -1
    ELSE FoldLeft(LAMBDA n, k : n * 16 + HexDigit(text[i + k]), 0, <<0, 1, 2, 3>>)

\* Bytes of a code point.
Utf8(n) ==
    CASE n < 128 -> <<n>>
      [] n \in 128..2047 -> <<192 + (n \div 64), 128 + (n % 64)>>
      [] n \in 2048..65535 -> <<224 + (n \div 4096), 128 + ((n \div 64) % 64), 128 + (n % 64)>>
      [] n > 65535 -> <<240 + (n \div 262144), 128 + ((n \div 4096) % 64),
                        128 + ((n \div 64) % 64), 128 + (n % 64)>>

HighSurrogate == 55296..56319
LowSurrogate == 56320..57343

\* An escape gives the bytes it stands for and the position after it, 0 when it
\* is not one.
NoEscape == <<<<>>, 0>>

\* After \u: the code point n, and m, which the text goes on with as \u or not.
CodeUnits(n, m, i) ==
    CASE n = -1 \/ n \in LowSurrogate -> NoEscape
      [] n \in HighSurrogate /\ m \in LowSurrogate -> <<Utf8(n * 1024 + m - 56613888), i + 10>>
      [] n \in HighSurrogate /\ m \notin LowSurrogate -> NoEscape
      [] OTHER -> <<Utf8(n), i + 4>>
UnicodeEscape(text, i) ==
    CodeUnits(Codepoint(text, i),
              IF Get(text, i + 4) = Backslash /\ Get(text, i + 5) = Code["u"] THEN Codepoint(text, i + 6) ELSE -1, i)

\* After a backslash: the character, or it stands for one.
Escapable == Bytes("\"\\/bfnrt")
Unescaped == <<Quote, Backslash, 47, 8, 12, 10, 13, 9>>

Escape(text, i, k) ==
    CASE k > 0 -> <<<<Unescaped[k]>>, i + 1>>
      [] k = 0 /\ Get(text, i) = Code["u"] -> UnicodeEscape(text, i + 1)
      [] OTHER -> NoEscape

\* A code point of more than one byte.
Multibyte(text, i, rest) ==
    IF \E k \in DOMAIN rest : Get(text, i + k) \notin rest[k] THEN NoEscape
    ELSE <<SubSeq(text, i, i + Len(rest)), i + 1 + Len(rest)>>

\* The characters that stand for themselves.
Plain == (32..127) \ {Quote, Backslash}

\* Another character, not the quote at the end, as Escape gives it.
Character(text, i, c) ==
    CASE c = Backslash ->
            Escape(text, i + 1, SelectInSeq(Escapable, LAMBDA e : e = Get(text, i + 1)))
      [] c = Eof \/ c \in 0..31 -> NoEscape
      [] c > 127 -> Multibyte(text, i, Following(c))

\* scan_string from position i, read being token_buffer: as many characters as
\* stand for themselves, up to position j, and what comes after them.
RECURSIVE ScanString(_, _, _)
ScanMore(text, i, read, character) ==
    IF character[2] = 0 THEN ParseError(i)
    ELSE ScanString(text, character[2], read \o character[1])
ScanAfter(text, j, read) ==
    IF Get(text, j) = Quote THEN Token("value_string", String(read), j + 1)
    ELSE ScanMore(text, j, read, Character(text, j, Get(text, j)))
ScanTo(text, i, j, read) == ScanAfter(text, j, read \o SubSeq(text, i, j - 1))
ScanString(text, i, read) == ScanTo(text, i, SkipWhile(text, i, Plain), read)

-----------------------------------------------------------------------------
(* Tokens.                                                                 *)

StructuralCharacters == Bytes("[]{}:,")
Structural == <<"begin_array", "end_array", "begin_object", "end_object", "name_separator",
                "value_separator">>

\* scan at the character c: a null character ends the input.
ScanAt(text, j, c, k) ==
    CASE k > 0 -> Token(Structural[k], Null, j + 1)
      [] k = 0 ->
         CASE c = Code["t"] -> ScanLiteral(text, j, Bytes("true"), Boolean(TRUE))
           [] c = Code["f"] -> ScanLiteral(text, j, Bytes("false"), Boolean(FALSE))
           [] c = Code["n"] -> ScanLiteral(text, j, Bytes("null"), Null)
           [] c = Quote -> ScanString(text, j + 1, <<>>)
           [] c \in Digits \cup {Code["-"]} -> ScanNumber(text, j)
           [] c \in {0, Eof} -> Token("end_of_input", Null, j + 1)
           [] OTHER -> ParseError(j)

ScanFrom(text, j) ==
    ScanAt(text, j, Get(text, j), SelectInSeq(StructuralCharacters, LAMBDA s : s = Get(text, j)))
Scan(text, i) == ScanFrom(text, SkipWhile(text, i, Whitespace))

=============================================================================
