----------------------------- MODULE JsonParser -----------------------------
(***************************************************************************)
(* class parser of json.hpp: parse, which builds a value and asks a        *)
(* callback what to keep of it, and accept, which goes through the same    *)
(* grammar in code of its own.                                             *)
(***************************************************************************)
EXTENDS JsonLexer

(* A callback discards what it is asked about when the event and the type  *)
(* of the value are among cb.what, at depth cb.from or deeper.  Having no  *)
(* callback is having one that discards nothing.                           *)
NoCallback == [what |-> {}, from |-> 0]
Discards(cb, depth, event, v) == depth >= cb.from /\ <<event, v[1]>> \in cb.what

\* What parse_internal leaves: the exception or 0, the value, the position after
\* it and the member depth.
Outcome(error, v, next, depth) == [error |-> error, value |-> v, next |-> next, depth |-> depth]

\* expect() failed.
Unexpected(tok, depth) == Outcome(101, Discarded, tok.next, depth)

\* The last question about every value: is it kept?
AskValue(r, keep, cb) ==
    IF keep /\ Discards(cb, r.depth, "value", r.value) THEN [r EXCEPT !.value = Discarded] ELSE r

\* The end of an object or array, before that; asked says whether the callback
\* hears of it, which is when depth comes down.
AskEnd(r, event, asked, keep, cb) ==
    LET d == IF asked THEN r.depth - 1 ELSE r.depth
        v == IF asked /\ Discards(cb, d, event, r.value) THEN Discarded ELSE r.value
    IN IF r.error # 0 THEN r ELSE AskValue([r EXCEPT !.depth = d, !.value = v], keep, cb)

RECURSIVE ParseInternal(_, _, _, _, _)
RECURSIVE ParseMembers(_, _, _, _, _, _)
RECURSIVE ParseElements(_, _, _, _, _, _)

\* The members of an object from the token tok, which should be a key; and what
\* follows a key (colon) and a member (sep).
NextMember(text, sep, keep, pairs, depth, cb) ==
    CASE sep.kind = "value_separator" ->
            ParseMembers(text, Scan(text, sep.next), keep, pairs, depth, cb)
      [] sep.kind = "end_object" ->
            Outcome(0, IF keep THEN Object(pairs) ELSE Discarded, sep.next, depth)
      [] OTHER -> Unexpected(sep, depth)

AfterMember(text, r, key, keepTag, keep, pairs, cb) ==
    IF r.error # 0 THEN r
    ELSE NextMember(text, Scan(text, r.next), keep,
                    IF keepTag /\ ~IsDiscarded(r.value) THEN EmplacePair(pairs, key, r.value)
                    ELSE pairs,
                    r.depth, cb)

AfterKey(text, colon, key, keepTag, keep, pairs, depth, cb) ==
    IF colon.kind # "name_separator" THEN Unexpected(colon, depth)
    ELSE AfterMember(text, ParseInternal(text, Scan(text, colon.next), keep, depth, cb),
                     key, keepTag, keep, pairs, cb)

ParseMembers(text, tok, keep, pairs, depth, cb) ==
    IF tok.kind # "value_string" THEN Unexpected(tok, depth)
    ELSE AfterKey(text, Scan(text, tok.next), tok.value[2],
                  keep /\ ~Discards(cb, depth, "key", tok.value), keep, pairs, depth, cb)

\* The elements of an array from the token tok.
NextElement(text, sep, keep, elements, depth, cb) ==
    CASE sep.kind = "value_separator" ->
            ParseElements(text, Scan(text, sep.next), keep, elements, depth, cb)
      [] sep.kind = "end_array" ->
            Outcome(0, IF keep THEN Array(elements) ELSE Discarded, sep.next, depth)
      [] OTHER -> Unexpected(sep, depth)

\* Fault: a discarded element is kept as one.
AfterElementAll(text, r, keep, elements, cb) ==
    IF r.error # 0 THEN r
    ELSE NextElement(text, Scan(text, r.next), keep,
                     IF keep THEN Append(elements, r.value) ELSE elements, r.depth, cb)

AfterElement(text, r, keep, elements, cb) ==
    IF r.error # 0 THEN r
    ELSE NextElement(text, Scan(text, r.next), keep,
                     IF keep /\ ~IsDiscarded(r.value) THEN Append(elements, r.value) ELSE elements,
                     r.depth, cb)

ParseElements(text, tok, keep, elements, depth, cb) ==
    AfterElement(text, ParseInternal(text, tok, keep, depth, cb), keep, elements, cb)

\* An object or array from the token first, in a part that is kept or not.
ObjectFrom(text, first, kept, depth, cb) ==
    AskEnd(IF first.kind = "end_object"
           THEN Outcome(0, IF kept THEN Object(<<>>) ELSE Discarded, first.next, depth)
           ELSE ParseMembers(text, first, kept, <<>>, depth, cb),
           "object_end", kept, kept, cb)

\* The end of an empty array is reported whether or not it is kept.
ArrayFrom(text, first, kept, depth, cb) ==
    AskEnd(IF first.kind = "end_array"
           THEN Outcome(0, IF kept THEN Array(<<>>) ELSE Discarded, first.next, depth)
           ELSE ParseElements(text, first, kept, <<>>, depth, cb),
           "array_end", kept \/ first.kind = "end_array", kept, cb)

\* Asked of its start when the part around it is kept.
Inside(keep, depth) == IF keep THEN depth + 1 ELSE depth
ParseObject(text, tok, keep, depth, cb) ==
    ObjectFrom(text, Scan(text, tok.next), keep /\ ~Discards(cb, depth, "object_start", Discarded),
               Inside(keep, depth), cb)
ParseArray(text, tok, keep, depth, cb) ==
    ArrayFrom(text, Scan(text, tok.next), keep /\ ~Discards(cb, depth, "array_start", Discarded),
              Inside(keep, depth), cb)

Overflows(tok) == tok.kind = "value" /\ IsNumberFloat(tok.value) /\ ~IsFinite(tok.value[2])

ParseInternal(text, tok, keep, depth, cb) ==
    CASE tok.kind = "begin_object" -> ParseObject(text, tok, keep, depth, cb)
      [] tok.kind = "begin_array" -> ParseArray(text, tok, keep, depth, cb)
      [] Overflows(tok) -> Outcome(406, Discarded, tok.next, depth)
      [] tok.kind \in {"value", "value_string"} /\ ~Overflows(tok) ->
            AskValue(Outcome(0, tok.value, tok.next, depth), keep, cb)
      [] OTHER -> Unexpected(tok, depth)

\* parse: of a text, with a callback and with or without exceptions.
Result(r, end, allowExceptions) ==
    CASE r.error # 0 \/ end.kind # "end_of_input" ->
            IF allowExceptions THEN Throw(IF r.error # 0 THEN r.error ELSE 101) ELSE Discarded
      [] r.error = 0 /\ end.kind = "end_of_input" -> IF IsDiscarded(r.value) THEN Null ELSE r.value
ParseToEnd(text, r, allowExceptions) == Result(r, Scan(text, r.next), allowExceptions)
Parse(text, cb, allowExceptions) ==
    ParseToEnd(text, ParseInternal(text, Scan(text, FirstPosition(text)), TRUE, 0, cb), allowExceptions)

-----------------------------------------------------------------------------
(* accept_internal: the position after what is accepted from the token     *)
(* tok, or 0.                                                              *)

RECURSIVE AcceptInternal(_, _)
RECURSIVE AcceptMembers(_, _)
RECURSIVE AcceptElements(_, _)

\* sep is the token after a member.
AcceptNextMember(text, sep) ==
    CASE sep.kind = "value_separator" -> AcceptMembers(text, Scan(text, sep.next))
      [] sep.kind = "end_object" -> sep.next
      [] OTHER -> 0

AcceptAfterMember(text, end) == IF end = 0 THEN 0 ELSE AcceptNextMember(text, Scan(text, end))

AcceptAfterKey(text, colon) ==
    IF colon.kind # "name_separator" THEN 0
    ELSE AcceptAfterMember(text, AcceptInternal(text, Scan(text, colon.next)))

AcceptMembers(text, tok) ==
    IF tok.kind # "value_string" THEN 0 ELSE AcceptAfterKey(text, Scan(text, tok.next))

\* Fault: after a comma the array may end.
AcceptNextElementTrailing(text, sep) ==
    CASE sep.kind = "value_separator" ->
            IF Scan(text, sep.next).kind = "end_array" THEN Scan(text, sep.next).next
            ELSE AcceptElements(text, Scan(text, sep.next))
      [] sep.kind = "end_array" -> sep.next
      [] OTHER -> 0

AcceptNextElement(text, sep) ==
    CASE sep.kind = "value_separator" -> AcceptElements(text, Scan(text, sep.next))
      [] sep.kind = "end_array" -> sep.next
      [] OTHER -> 0

AcceptAfterElement(text, end) == IF end = 0 THEN 0 ELSE AcceptNextElement(text, Scan(text, end))

AcceptElements(text, tok) == AcceptAfterElement(text, AcceptInternal(text, tok))

\* first is the token after tok.
AcceptFrom(text, tok, first) ==
    CASE tok.kind = "begin_object" ->
            IF first.kind = "end_object" THEN first.next ELSE AcceptMembers(text, first)
      [] tok.kind = "begin_array" ->
            IF first.kind = "end_array" THEN first.next ELSE AcceptElements(text, first)
      [] tok.kind \in {"value", "value_string"} /\ ~Overflows(tok) -> tok.next
      [] OTHER -> 0

AcceptInternal(text, tok) == AcceptFrom(text, tok, Scan(text, tok.next))

AcceptToEnd(text, end) == end # 0 /\ Scan(text, end).kind = "end_of_input"
Accept(text) == AcceptToEnd(text, AcceptInternal(text, Scan(text, FirstPosition(text))))

=============================================================================
