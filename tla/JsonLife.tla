------------------------------ MODULE JsonLife ------------------------------
(***************************************************************************)
(* A JSON value of json.hpp from its text on: a text or the bytes of a     *)
(* binary format arrive, are parsed, and the value is then changed by the  *)
(* operations of basic_json.                                               *)
(***************************************************************************)
EXTENDS JsonParser, JsonPointer, JsonBinary, JsonGrammar

CONSTANTS Texts,        \* inputs that arrive as a whole
          Words,        \* pieces that inputs are typed from
          MaxWords,     \* bound: pieces of an input
          Callbacks,    \* what a parser callback may discard
          Keys, Values, \* what the operations are called with
          Patches,      \* JSON patches
          MaxEdits,     \* bound: operations on a value
          MaxNodes      \* bound: a larger value is not operated on

ASSUME LifeAssumption == /\ MaxWords \in Nat /\ MaxEdits \in Nat /\ MaxNodes \in Nat
                         /\ NoCallback \in Callbacks

VARIABLES
    input,      \* the bytes that have arrived
    words,      \* the pieces among them, MaxWords when input is one of Texts
    doc,        \* the value
    loaded,     \* the value as it was read
    edits       \* operations on it since

vars == <<input, words, doc, loaded, edits>>

Init == /\ input = <<>>
        /\ words = 0
        /\ doc = Null
        /\ loaded = Null
        /\ edits = 0

Fresh == words = 0 /\ edits = 0 /\ IsNull(loaded)

-----------------------------------------------------------------------------
(* Input.                                                                  *)

Receive ==
    /\ Fresh
    /\ input' \in Texts
    /\ words' = MaxWords
    /\ UNCHANGED <<doc, loaded, edits>>

Type ==
    /\ Fresh \/ words > 0
    /\ words < MaxWords
    /\ \E w \in Words : input' = input \o w
    /\ words' = words + 1
    /\ UNCHANGED <<doc, loaded, edits>>

\* What cannot be read leaves the value alone.
Become(v) ==
    /\ doc' = IF Threw(v) THEN doc ELSE v
    /\ loaded' = doc'
    /\ input' = <<>>
    /\ words' = 0
    /\ UNCHANGED edits

ReadText == words > 0 /\ \E cb \in Callbacks : Become(Parse(input, cb, TRUE))

ReadBinary == words > 0 /\ \E format \in {"cbor", "msgpack", "ubjson"} : Become(FromBinary(format, input))

-----------------------------------------------------------------------------
(* Operations.  One that throws leaves the value alone.                    *)

RECURSIVE Nodes(_)
Nodes(v) ==
    IF ~IsStructured(v) THEN 1
    ELSE FoldInHalves(LAMBDA n, e : n + Nodes(IF IsObject(v) THEN e[2] ELSE e), 1, v[2])

Edit(v) ==
    /\ words = 0
    /\ edits < MaxEdits
    /\ Nodes(doc) <= MaxNodes
    /\ doc' = IF Threw(v) THEN doc ELSE v
    /\ edits' = edits + 1
    /\ UNCHANGED <<input, words, loaded>>

Assign == \E k \in Keys, v \in Values : Edit(SetKey(doc, k, v))

AssignIndex == \E v \in Values : \E i \in 0..Size(doc) + 1 : Edit(SetIndex(doc, i, v))

Append1 == \E v \in Values : Edit(PushBack(doc, v)) \/ Edit(EmplaceBack(doc, v))

AppendPair ==
    \E k \in Keys, v \in Values :
        \/ Edit(PushPair(doc, k, v))
        \/ Edit(PushList(doc, String(k), v))
        \/ Edit(Emplace(doc, k, v))

InsertOne == \E v \in Values : \E n \in 0..Size(doc) : IsArray(doc) /\ Edit(Insert(doc, n, v))

Erase ==
    \/ \E k \in Keys : Edit(EraseKey(doc, k))
    \/ \E i \in 0..Size(doc) : Edit(EraseIndex(doc, i))
    \/ \E n \in 0..(Size(doc) - 1) : Edit(EraseAt(doc, n))

ClearAll == Edit(Clear(doc))

\* update() of a null has made an object of it before it can throw.
UpdateFrom ==
    \E v \in Values \cup {loaded} :
        Edit(IF IsNull(doc) /\ ~IsObject(v) THEN Default("object") ELSE Update(doc, v))

InsertFrom == Edit(InsertRange(doc, loaded))

Merge == \E v \in Values \cup {loaded} : Edit(MergePatch(doc, v))

ApplyPatch == \E p \in Patches : Edit(Patch(doc, p))

Swap ==
    /\ words = 0
    /\ edits < MaxEdits
    /\ doc' = loaded
    /\ loaded' = doc
    /\ edits' = edits + 1
    /\ UNCHANGED <<input, words>>

Next ==
    \/ Receive \/ Type \/ ReadText \/ ReadBinary
    \/ Assign \/ AssignIndex \/ Append1 \/ AppendPair \/ InsertOne \/ Erase \/ ClearAll
    \/ UpdateFrom \/ InsertFrom \/ Merge \/ ApplyPatch \/ Swap

Spec == Init /\ [][Next]_vars

-----------------------------------------------------------------------------
(* Properties.                                                             *)

\* The values in v, with v.
RECURSIVE Parts(_)
Parts(v) ==
    {v} \cup CASE IsArray(v) -> UNION {Parts(v[2][i]) : i \in DOMAIN v[2]}
               [] IsObject(v) -> UNION {Parts(v[2][i][2]) : i \in DOMAIN v[2]}
               [] OTHER -> {}

\* The strings in v and the keys of its objects.
Strings(v) ==
    {p[2] : p \in {q \in Parts(v) : IsString(q)}}
        \cup UNION {{p[2][i][1] : i \in DOMAIN p[2]} : p \in {q \in Parts(v) : IsObject(q)}}

Floats(v) == {p[2] : p \in {q \in Parts(v) : IsNumberFloat(q)}}
Without(v, kind) == \A x \in Floats(v) : x.kind # kind

\* The states of the grammar's automaton along a text, the first before it.
Course(text) == FoldInHalves(LAMBDA states, c : Append(states, StepGrammar(Last(states), c)), <<Begin>>, text)

InNumber(state) == state.mode \in {"minus", "zero", "digits", "point", "fraction", "e", "sign", "exponent"}
NumberMayEnd(state) == state.mode \in {"zero", "digits", "fraction", "exponent"}

\* In text, up to where it is right, a value is a number that no double can hold.
OutOfRange(text, states) ==
    \E i, j \in DOMAIN text :
        /\ ~InNumber(states[i]) /\ \A k \in i..j : InNumber(states[k + 1])
        /\ NumberMayEnd(states[j + 1]) /\ (j = Len(text) \/ ~InNumber(states[j + 2]))
        /\ ~IsFinite(Strtod(FALSE, SubSeq(text, IF text[i] = Code["-"] THEN i + 1 ELSE i, j)))

Agrees(v, quiet, text) ==
    /\ Accept(input) <=> ~Threw(v)
    /\ IF OutOfRange(text, Course(text)) THEN v = Throw(406)
       ELSE IF IsJson(text) THEN ~Threw(v) ELSE v = Throw(101)
    /\ quiet = IF Threw(v) THEN Discarded ELSE v

\* The parser and accept(), which have a copy of the grammar each, agree with each
\* other and with RFC 8259: they accept what is JSON, except for numbers too large
\* for a double.  Such a number, with an exponent or of many digits, is reported as
\* that (406) when all before it is right, whatever follows it, and any other text
\* that is not JSON as a parse error (101).
ParserAgrees == Agrees(Parse(input, NoCallback, TRUE), Parse(input, NoCallback, FALSE), Document(input))

\* What is left of v when everything that what names is gone.
RECURSIVE Pruned(_, _)
Pruned(v, what) ==
    LET keep(event, type) == <<event, type>> \notin what
        all(s) == SelectSeq(s, LAMBDA w : ~IsDiscarded(w))
        result ==
            CASE IsArray(v) -> Array(all([i \in DOMAIN v[2] |-> Pruned(v[2][i], what)]))
              [] IsObject(v) -> Object(SelectSeq([i \in DOMAIN v[2] |-> <<v[2][i][1], Pruned(v[2][i][2], what)>>],
                                                 LAMBDA p : keep("key", "string") /\ ~IsDiscarded(p[2])))
              [] OTHER -> v
    IN IF /\ IsStructured(v) => /\ keep(v[1] \o "_start", "discarded")
                                /\ keep(v[1] \o "_end", v[1])
          /\ keep("value", v[1])
       THEN result ELSE Discarded

\* A text where no two members of an object have the same key, and no string has a
\* colon in it.
RECURSIVE Members(_)
Members(v) ==
    CASE IsArray(v) -> FoldInHalves(LAMBDA n, e : n + Members(e), 0, v[2])
      [] IsObject(v) -> FoldInHalves(LAMBDA n, p : n + 1 + Members(p[2]), 0, v[2])
      [] OTHER -> 0
DistinctKeys(v) == Members(v) = Len(SelectSeq(input, LAMBDA c : c = Code[":"]))

OrNull(v) == IF IsDiscarded(v) THEN Null ELSE v
PrunedTo(parsed, v, cb) ==
    IF Threw(v) THEN parsed = v
    ELSE cb.from <= 0 /\ DistinctKeys(v) => parsed = OrNull(Pruned(v, cb.what))
CallbacksPrune(v) == \A cb \in Callbacks : PrunedTo(Parse(input, cb, TRUE), v, cb)

\* A callback that goes by event and type prunes the value: parsing with it is
\* parsing without it and taking away what it names, at whatever depth and after
\* whatever was discarded before.
CallbackPrunes == CallbacksPrune(Parse(input, NoCallback, TRUE))

TextReadsBack(text, indent, ascii, v) == Equals(v, doc) /\ Dump(v, indent, ascii) = text
Faithful(text, indent, ascii) ==
    IF \E s \in Strings(doc) : ~IsUtf8(s) THEN text = ThrowText(316)
    ELSE /\ IsJson(text)
         /\ ascii => \A i \in DOMAIN text : text[i] < 128
         /\ Without(doc, "inf") /\ Without(doc, "nan") =>
               TextReadsBack(text, indent, ascii, Parse(text, NoCallback, TRUE))

\* dump() writes JSON text that parse() reads back as an equal value and that is
\* written the same again, compact, indented or in ASCII; it throws exactly when
\* some string is not UTF-8.
DumpReadsBack ==
    \A indent \in {-1, 0, 2}, ascii \in BOOLEAN : Faithful(Dump(doc, indent, ascii), indent, ascii)

BytesReadBack(format, bytes) ==
    IF format \notin {"cbor", "msgpack"} /\ \E p \in Parts(doc) : TooLarge(p) THEN bytes = ThrowText(407)
    ELSE /\ Without(doc, "nan") => Equals(FromBinary(format, bytes), doc)
         /\ \A n \in 0..(Len(bytes) - 1) : Threw(FromBinary(format, SubSeq(bytes, 1, n)))

\* CBOR, MessagePack and UBJSON with and without sizes and types: what is written
\* is read back as an equal value, no proper beginning of it is taken for a value,
\* and only UBJSON refuses anything, an integer that no 64 signed bits hold.
BinaryReadsBack == \A format \in Formats : BytesReadBack(format, ToBinary(format, doc))

\* operator< and operator== agree: of two values that have no NaN, whatever their
\* types, either one is less than the other or they are equal.
OrderAgrees ==
    Without(doc, "nan") /\ Without(loaded, "nan") =>
        \A a, b \in Parts(doc) \cup Parts(loaded) :
            /\ Equals(a, b) <=> ~JsonLess(a, b) /\ ~JsonLess(b, a)
            /\ ~(JsonLess(a, b) /\ JsonLess(b, a))

Reaches(patch) ==
    /\ Equals(Patch(loaded, patch), doc)
    /\ Equals(loaded, doc) <=> patch = Array(<<>>)

\* The difference of two values is a patch that makes one of the other, and it is
\* empty when they are equal.
PatchReaches == Without(doc, "nan") /\ Without(loaded, "nan") => Reaches(Diff(loaded, doc))

\* unflatten() restores what flatten() has taken apart, unless a container is empty
\* or an object has a key "0".
FlattenReadsBack ==
    LET lossy(p) == IsStructured(p) /\ (Empty(p) \/ Count(p, Bytes("0")) = 1)
    IN Without(doc, "nan") /\ (\A p \in Parts(doc) : ~lossy(p)) =>
           Equals(Unflatten(FlattenValue(doc)), doc)

=============================================================================
