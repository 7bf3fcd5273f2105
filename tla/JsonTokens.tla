----------------------------- MODULE JsonTokens -----------------------------
(***************************************************************************)
(* The reference tokens of a json_pointer, as sequences of bytes, and what *)
(* they look like in its text.                                             *)
(***************************************************************************)
EXTENDS Integers, SequencesExt, JsonTypes

Slash == 47
Tilde == 126
Digit0 == 48
Digit1 == 49

\* replace_substring: s with the byte c replaced by t.
ReplaceByte(s, c, t) == FlattenSeq([i \in DOMAIN s |-> IF s[i] = c THEN t ELSE <<s[i]>>])

\* The same with the two bytes c and d, which are not equal.
PairAt(s, i, c, d) == i \in 1..(Len(s) - 1) /\ s[i] = c /\ s[i + 1] = d
ReplacePair(s, c, d, t) ==
    FlattenSeq([i \in DOMAIN s |-> IF PairAt(s, i, c, d) THEN t
                                   ELSE IF PairAt(s, i - 1, c, d) THEN <<>>
                                   ELSE <<s[i]>>])

\* Fault: the other order.
EscapeSlashFirst(s) ==
    ReplaceByte(ReplaceByte(s, Slash, <<Tilde, Digit1>>), Tilde, <<Tilde, Digit0>>)

EscapeToken(s) ==
    ReplaceByte(ReplaceByte(s, Tilde, <<Tilde, Digit0>>), Slash, <<Tilde, Digit1>>)

UnescapeToken(s) ==
    ReplacePair(ReplacePair(s, Tilde, Digit1, <<Slash>>), Tilde, Digit0, <<Tilde>>)

\* Every ~ is followed by 0 or 1.
WellEscaped(s) == \A i \in DOMAIN s : s[i] = Tilde => i < Len(s) /\ s[i + 1] \in {Digit0, Digit1}

\* json_pointer::to_string
PointerText(tokens) == FlattenSeq([k \in DOMAIN tokens |-> <<Slash>> \o EscapeToken(tokens[k])])

\* What is between the slashes of a text that begins with one: a slash begins a
\* token, any other byte is the next of the last token.
Piece(pieces, byte) ==
    IF byte = Slash THEN Append(pieces, <<>>)
    ELSE [pieces EXCEPT ![Len(pieces)] = Append(pieces[Len(pieces)], byte)]
Pieces(text) ==
    LET read[n \in 0..Len(text)] ==
            IF n = 0 THEN <<>> ELSE Piece(read[n - 1], text[n])
    IN read[Len(text)]

TokensOf(pieces) ==
    IF \E k \in DOMAIN pieces : ~WellEscaped(pieces[k]) THEN Throw(108)
    ELSE <<"pointer", [k \in DOMAIN pieces |-> UnescapeToken(pieces[k])]>>

\* split: the tokens, or parse_error.107 or 108.
Split(text) ==
    CASE text = <<>> -> <<"pointer", <<>>>>
      [] text # <<>> /\ text[1] # Slash -> Throw(107)
      [] OTHER -> TokensOf(Pieces(text))

=============================================================================
