---------------------------- MODULE JsonGrammar -----------------------------
(***************************************************************************)
(* The JSON texts of RFC 8259 in UTF-8, by an automaton that reads one     *)
(* byte at a time and keeps the brackets which are open.  It shares        *)
(* nothing with the lexer and the parser of json.hpp but the codes of the  *)
(* characters, and is what they are compared with.                         *)
(***************************************************************************)
EXTENDS JsonLexer

\* What is read (mode), the brackets and keys around it, the innermost first
\* (open), and the sets which the next bytes have to be from (want).
Begin == [mode |-> "value", open |-> <<>>, want |-> <<>>]
Rejected == [mode |-> "rejected", open |-> <<>>, want |-> <<>>]

Hex == (48..57) \cup (65..70) \cup (97..102)
Only(text) == [i \in 1..Len(text) |-> {Code[SubSeq(text, i, i)]}]

\* What follows the first byte of a code point of more than one.
UtfTail(c) ==
    LET tail == 128..191
    IN CASE c \in 194..223 -> <<tail>>
         [] c = 224 -> <<160..191, tail>>
         [] c = 237 -> <<128..159, tail>>
         [] c \in (225..239) \ {237} -> <<tail, tail>>
         [] c = 240 -> <<144..191, tail, tail>>
         [] c \in 241..243 -> <<tail, tail, tail>>
         [] c = 244 -> <<128..143, tail, tail>>
         [] OTHER -> <<{}>>

\* After the four digits \uD8.. to \uDB.. the other half of the pair.
OtherHalf == <<Hex, Hex, {Backslash}, {Code["u"]}, {68, 100}, {67, 68, 69, 70, 99, 100, 101, 102},
               Hex, Hex>>

Go(s, mode) == [s EXCEPT !.mode = mode]
Push(s, what, mode) == [s EXCEPT !.mode = mode, !.open = <<what>> \o @]
Pop(s, mode) == [s EXCEPT !.mode = mode, !.open = Tail(@)]
Expect(s, mode, want) == [s EXCEPT !.mode = mode, !.want = want]
Top(s) == IF s.open = <<>> THEN "" ELSE Head(s.open)

StepValue(s, c) ==
    CASE c \in Whitespace -> s
      [] c = Code["["] -> Push(s, "array", "first_element")
      [] c = Code["{"] -> Push(s, "object", "first_key")
      [] c = Quote -> Go(s, "string")
      [] c = Code["-"] -> Go(s, "minus")
      [] c = Code["0"] -> Go(s, "zero")
      [] c \in 49..57 -> Go(s, "digits")
      [] c = Code["t"] -> Expect(s, "after", Only("rue"))
      [] c = Code["f"] -> Expect(s, "after", Only("alse"))
      [] c = Code["n"] -> Expect(s, "after", Only("ull"))
      [] OTHER -> Rejected

StepKey(s, c) ==
    CASE c \in Whitespace -> s
      [] c = Quote -> Push(s, "key", "string")
      [] OTHER -> Rejected

StepAfter(s, c) ==
    CASE c \in Whitespace -> Go(s, "after")
      [] c = Code[","] /\ Top(s) = "array" -> Go(s, "value")
      [] c = Code[","] /\ Top(s) = "object" -> Go(s, "key")
      [] c = Code["]"] /\ Top(s) = "array" -> Pop(s, "after")
      [] c = Code["}"] /\ Top(s) = "object" -> Pop(s, "after")
      [] OTHER -> Rejected

StepString(s, c) ==
    CASE c = Quote -> IF Top(s) = "key" THEN Pop(s, "colon") ELSE Go(s, "after")
      [] c = Backslash -> Go(s, "escape")
      [] c \in (32..127) \ {Quote, Backslash} -> s
      [] c > 127 -> Expect(s, "string", UtfTail(c))
      [] OTHER -> Rejected

StepNumber(s, c) ==
    LET mode == s.mode
    IN CASE mode = "minus" /\ c = 48 -> Go(s, "zero")
         [] mode = "minus" /\ c \in 49..57 -> Go(s, "digits")
         [] mode \in {"digits", "fraction", "exponent"} /\ c \in Digits -> s
         [] mode \in {"zero", "digits"} /\ c = Code["."] -> Go(s, "point")
         [] mode = "point" /\ c \in Digits -> Go(s, "fraction")
         [] mode \in {"zero", "digits", "fraction"} /\ c \in {69, 101} -> Go(s, "e")
         [] mode = "e" /\ c \in {Code["+"], Code["-"]} -> Go(s, "sign")
         [] mode \in {"e", "sign"} /\ c \in Digits -> Go(s, "exponent")
         [] mode \in {"zero", "digits", "fraction", "exponent"} /\ c \notin Digits \cup {46, 69, 101} ->
               StepAfter(s, c)
         [] OTHER -> Rejected

StepGrammar(s, c) ==
    CASE s.want # <<>> ->
            IF c \in Head(s.want) THEN [s EXCEPT !.want = Tail(@)] ELSE Rejected
      [] s.want = <<>> ->
         CASE s.mode = "value" -> StepValue(s, c)
           [] s.mode = "first_element" -> IF c = Code["]"] THEN Pop(s, "after") ELSE StepValue(s, c)
           [] s.mode = "first_key" -> IF c = Code["}"] THEN Pop(s, "after") ELSE StepKey(s, c)
           [] s.mode = "key" -> StepKey(s, c)
           [] s.mode = "colon" -> IF c = Code[":"] THEN Go(s, "value")
                                  ELSE IF c \in Whitespace THEN s ELSE Rejected
           [] s.mode = "after" -> StepAfter(s, c)
           [] s.mode = "string" -> StepString(s, c)
           [] s.mode = "escape" ->
                 IF c \in {Quote, Backslash, 47, 98, 102, 110, 114, 116} THEN Go(s, "string")
                 ELSE IF c = Code["u"] THEN Go(s, "unicode") ELSE Rejected
           [] s.mode = "unicode" ->
                 IF c \in {68, 100} THEN Go(s, "surrogate")
                 ELSE IF c \in Hex THEN Expect(s, "string", <<Hex, Hex, Hex>>) ELSE Rejected
           [] s.mode = "surrogate" ->
                 IF c \in 48..55 THEN Expect(s, "string", <<Hex, Hex>>)
                 ELSE IF c \in {56, 57, 65, 66, 97, 98} THEN Expect(s, "string", OtherHalf) ELSE Rejected
           [] s.mode \in {"minus", "zero", "digits", "point", "fraction", "e", "sign", "exponent"} ->
                 StepNumber(s, c)
           [] OTHER -> Rejected

\* The bytes are one JSON text.
IsJson(bytes) ==
    LET end == FoldInHalves(StepGrammar, Begin, bytes)
    IN /\ end.want = <<>> /\ end.open = <<>>
       /\ end.mode \in {"after", "zero", "digits", "fraction", "exponent"}

\* They are UTF-8.
IsUtf8(bytes) ==
    IsJson(<<Quote>> \o [i \in DOMAIN bytes |-> IF bytes[i] < 128 THEN 65 ELSE bytes[i]] \o <<Quote>>)

\* What is left of a text once its byte order mark and all from its first null
\* byte on are gone.
Document(text) ==
    LET end == SelectInSeq(text, LAMBDA c : c = 0)
        body == IF end = 0 THEN text ELSE SubSeq(text, 1, end - 1)
    IN IF IsPrefix(<<239, 187, 191>>, text) THEN SubSeq(body, 4, Len(body)) ELSE body

=============================================================================
