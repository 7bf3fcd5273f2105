---------------------------- MODULE JsonPointer -----------------------------
(***************************************************************************)
(* class json_pointer of json.hpp and what basic_json builds on it:        *)
(* flatten and unflatten, patch and diff, merge_patch.  A pointer is the   *)
(* sequence of its reference tokens; where the code has a reference into a *)
(* value, a pair of operators reads what it refers to and gives the whole  *)
(* value with something else there.                                        *)
(***************************************************************************)
EXTENDS JsonSerializer, JsonOrder, JsonTokens

\* std::to_string of an index.
Decimal(n) == DumpInteger(Unsigned(Word(n)))

-----------------------------------------------------------------------------
(* Tokens as indices.                                                      *)

\* array_index: std::stoi, whose own exceptions keep their names, and a check
\* that it read all of the token.  The caller's cast to size_type makes a
\* negative number huge.
Stoi(neg, word) ==
    CASE word[1] \/ ~FitsSigned(word[2], 4) \/ SignBit(word[2]) -> Throw(StdOutOfRange)
      [] OTHER -> <<"index", IF neg /\ word[2] # WordZero THEN Huge ELSE ToSize(word[2])>>
WholeToken(token, end, i) == IF ~Threw(i) /\ end <= Len(token) THEN Throw(404) ELSE i
IndexDigits(token, neg, first, end) ==
    IF end = first THEN Throw(StdInvalidArgument)
    ELSE WholeToken(token, end, Stoi(neg, FromDigits(DigitsOf(SubSeq(token, first, end - 1)))))
IndexFrom(token, neg, first) == IndexDigits(token, neg, first, SkipWhile(token, first, Digits))
IndexAt(token, start) ==
    IndexFrom(token, Get(token, start) = Code["-"], IF IsSign(Get(token, start)) THEN start + 1 ELSE start)
ArrayIndex(token) == IndexAt(token, SkipWhile(token, 1, Whitespace \cup {11, 12}))

-----------------------------------------------------------------------------
(* Where a token leads to.                                                 *)

\* A place in an array or object, for which there need not be an element yet.
Slot(container, i) == <<"slot", container, i>>

Content(slot) ==
    LET v == slot[2]
    IN CASE IsArray(v) -> IF slot[3] < Size(v) THEN AtIndex(v, slot[3]) ELSE Null
         [] IsObject(v) -> IF Count(v, slot[3]) = 1 THEN AtKey(v, slot[3]) ELSE Null

Fill(slot, new) ==
    CASE Threw(new) -> new
      [] ~Threw(new) /\ IsObject(slot[2]) -> SetKey(slot[2], slot[3], new)
      [] ~Threw(new) /\ IsArray(slot[2]) /\ slot[3] < Huge -> SetIndex(slot[2], slot[3], new)
      [] OTHER -> Throw(StdLengthError)

\* Where stoi found no number at all.
SlotAt(v, i) ==
    CASE i = Throw(StdInvalidArgument) -> Throw(109)
      [] Threw(i) /\ i # Throw(StdInvalidArgument) -> i
      [] OTHER -> Slot(v, i[2])
IndexSlot(v, token) == SlotAt(v, ArrayIndex(token))

LeadingZero(token) == Len(token) > 1 /\ token[1] = 48
Dash == Bytes("-")

\* A step of get_and_create.
CreatedSlot(v, token) ==
    CASE IsNull(v) -> IF token = Bytes("0") THEN Slot(Default("array"), 0)
                      ELSE Slot(Default("object"), token)
      [] IsObject(v) -> Slot(v, token)
      [] IsArray(v) -> IndexSlot(v, token)
      [] OTHER -> Throw(313)

\* A step of get_unchecked: a null becomes an array for a number or a dash.
SlotIn(v, token) ==
    CASE IsObject(v) -> Slot(v, token)
      [] IsArray(v) -> CASE LeadingZero(token) -> Throw(106)
                         [] token = Dash -> Slot(v, Size(v))
                         [] OTHER -> IndexSlot(v, token)
      [] OTHER -> Throw(404)
UncheckedSlot(v, token) ==
    SlotIn(Turned(v, IF ToSet(token) \subseteq Digits \/ token = Dash THEN "array" ELSE "object"), token)

\* A step of get_checked.
AtSlot(v, slot) == Unless(slot, AtIndex(v, slot[3]))
CheckedChild(v, token) ==
    CASE IsObject(v) -> AtKey(v, token)
      [] IsArray(v) ->
            CASE token = Dash -> Throw(402)
              [] LeadingZero(token) -> Throw(106)
              [] OTHER -> AtSlot(v, IndexSlot(v, token))
      [] OTHER -> Throw(404)

\* at(ptr)
GetChecked(v, tokens) ==
    FoldLeft(LAMBDA w, t : Unless(w, CheckedChild(w, t)), v, tokens)

\* What operator[](ptr) refers to, ...
Referenced(slot) == Unless(slot, Content(slot))
GetUnchecked(v, tokens) ==
    FoldLeft(LAMBDA w, t : Unless(w, Referenced(UncheckedSlot(w, t))), v, tokens)

\* ... and v once it is new.
RECURSIVE PutUnchecked(_, _, _)
PutBelow(slot, tokens, new) == Unless(slot, Fill(slot, PutUnchecked(Content(slot), tokens, new)))
PutUnchecked(v, tokens, new) ==
    IF tokens = <<>> THEN new ELSE PutBelow(UncheckedSlot(v, Head(tokens)), Tail(tokens), new)

\* The same of get_and_create.
RECURSIVE PutCreated(_, _, _)
PutCreatedBelow(slot, tokens, new) == Unless(slot, Fill(slot, PutCreated(Content(slot), tokens, new)))
PutCreated(v, tokens, new) ==
    IF tokens = <<>> THEN new ELSE PutCreatedBelow(CreatedSlot(v, Head(tokens)), Tail(tokens), new)

-----------------------------------------------------------------------------
(* flatten and unflatten.                                                  *)

RECURSIVE FlattenInto(_, _, _)
FlattenInto(path, v, result) ==
    CASE IsStructured(v) /\ Empty(v) -> SetKey(result, path, Null)
      [] IsArray(v) /\ ~Empty(v) ->
            FoldInHalves(LAMBDA acc, i : FlattenInto(path \o <<Slash>> \o Decimal(i - 1), v[2][i], acc),
                         result, [i \in DOMAIN v[2] |-> i])
      [] IsObject(v) /\ ~Empty(v) ->
            FoldInHalves(LAMBDA acc, p : FlattenInto(path \o <<Slash>> \o EscapeToken(p[1]), p[2], acc),
                         result, v[2])
      [] OTHER -> SetKey(result, path, v)

FlattenValue(v) == FlattenInto(<<>>, v, Default("object"))

PutPointer(v, pointer, new) == Unless(pointer, PutCreated(v, pointer[2], new))
Unflatten(v) ==
    IF IsObject(v)
    THEN FoldInHalves(LAMBDA acc, p : Unless(acc, IF IsPrimitive(p[2]) THEN PutPointer(acc, Split(p[1]), p[2])
                                                  ELSE Throw(315)),
                      Null, v[2])
    ELSE Throw(314)

-----------------------------------------------------------------------------
(* patch: every operation on the value so far and the pointer's tokens.    *)

AddAtIndex(parent, i, new) ==
    Unless(i, IF i[2] > Size(parent) THEN Throw(401) ELSE Insert(parent, i[2], new))
AddToParent(parent, last, new) ==
    CASE IsNull(parent) \/ IsObject(parent) -> SetKey(parent, last, new)
      [] IsArray(parent) /\ last = Dash -> PushBack(parent, new)
      [] IsArray(parent) /\ last # Dash -> AddAtIndex(parent, ArrayIndex(last), new)
      [] OTHER -> Throw(AssertionFails)

\* A parent that is neither stays as it is.
EraseAtIndex(parent, i) == Unless(i, EraseIndex(parent, i[2]))
RemoveFromParent(parent, last) ==
    CASE IsObject(parent) -> IF Count(parent, last) = 0 THEN Throw(403) ELSE EraseKey(parent, last)
      [] IsArray(parent) -> EraseAtIndex(parent, ArrayIndex(last))
      [] OTHER -> parent

\* v with parent, where tokens lead to, changed.
InParent(v, tokens, parent, changed) == Unless(parent, PutUnchecked(v, tokens, changed))

AddBelow(v, tokens, parent, new) ==
    InParent(v, Front(tokens), parent, AddToParent(parent, Last(tokens), new))
RemoveBelow(v, tokens, parent) ==
    InParent(v, Front(tokens), parent, RemoveFromParent(parent, Last(tokens)))

\* Of the parents only the outermost must be there: the rest is created.
OperationAdd(v, tokens, new) ==
    IF tokens = <<>> THEN new
    ELSE Unless(IF Len(tokens) > 1 THEN GetChecked(v, <<tokens[1]>>) ELSE v,
                AddBelow(v, tokens, GetUnchecked(v, Front(tokens)), new))

OperationRemove(v, tokens) ==
    IF tokens = <<>> THEN Throw(405) ELSE RemoveBelow(v, tokens, GetChecked(v, Front(tokens)))

OperationReplace(v, tokens, new, found) == InParent(v, tokens, found, new)

\* What is not there is not equal; other exceptions come through.
OperationTest(v, found, expected) ==
    CASE Threw(found) /\ found[2] \in {106, 109, StdOutOfRange} -> found
      [] ~Threw(found) /\ Equals(found, expected) -> v
      [] OTHER -> Throw(501)

\* get_value: a member that must be there and, if so, a string.
Checked(v, string) == IF Threw(v) \/ (string /\ ~IsString(v)) THEN Throw(105) ELSE v
Member(op, name, string) == Checked(AtKey(op, Bytes(name)), string)

SplitMember(text) == Unless(text, Split(text[2]))
PointerOf(op, name) == SplitMember(Member(op, name, TRUE))

\* What is added or compared: move and copy take it from another place, where
\* move then removes it.
Moves(name) == name \in {Bytes("move"), Bytes("copy")}
Operand(v, op, name, from) ==
    IF Moves(name) THEN Unless(from, GetChecked(v, from[2])) ELSE Member(op, "value", FALSE)
OperationMove(v, tokens, operand) == Unless(v, OperationAdd(v, tokens, operand))

\* An operation by its name.
Apply(v, name, tokens, from, operand) ==
    CASE name = Bytes("remove") -> OperationRemove(v, tokens)
      [] name = Bytes("replace") ->
            Unless(operand, OperationReplace(v, tokens, operand, GetChecked(v, tokens)))
      [] name = Bytes("test") -> Unless(operand, OperationTest(v, GetChecked(v, tokens), operand))
      [] name = Bytes("add") \/ Moves(name) ->
            Unless(operand, OperationMove(IF name = Bytes("move") THEN OperationRemove(v, from[2]) ELSE v,
                                          tokens, operand))
      [] OTHER -> Throw(105)

\* One element of a patch.
ApplyFrom(v, op, name, tokens, from) == Apply(v, name, tokens, from, Operand(v, op, name, from))
ApplyPath(v, op, name, path) ==
    Unless(name, Unless(path, ApplyFrom(v, op, name[2], path[2], PointerOf(op, "from"))))
Operation(v, op) ==
    IF ~IsObject(op) THEN Throw(104)
    ELSE ApplyPath(v, op, Member(op, "op", TRUE), PointerOf(op, "path"))

Patch(v, patch) ==
    IF IsArray(patch) THEN FoldInHalves(LAMBDA w, op : Unless(w, Operation(w, op)), v, patch[2])
    ELSE Throw(104)

-----------------------------------------------------------------------------
(* diff: the operations, in the order in which patch is to do them.        *)

\* An operation from its members, by the constructor from an initializer list.
OperationOf(op, path, more) ==
    LET pair(key, v) == Array(<<String(Bytes(key)), v>>)
    IN FromList(<<pair("op", String(Bytes(op))), pair("path", String(path))>>
                   \o [i \in DOMAIN more |-> pair("value", more[i])], TRUE, "array")

Child(path, token) == path \o <<Slash>> \o token

\* Fault: elements are removed from the front.
RemovalsForward(path, from, to) ==
    [k \in 1..(to - from) |-> OperationOf("remove", Child(path, Decimal(from + k - 1)), <<>>)]

\* The elements from .. to - 1, the last one first.
Removals(path, from, to) ==
    [k \in 1..(to - from) |-> OperationOf("remove", Child(path, Decimal(to - k)), <<>>)]

SmallerOf(m, n) == IF m < n THEN m ELSE n

RECURSIVE DiffOps(_, _, _)
DiffArrays(a, b, path) ==
    FlattenSeq([i \in 1..SmallerOf(Len(a), Len(b)) |-> DiffOps(a[i], b[i], Child(path, Decimal(i - 1)))])
        \o Removals(path, SmallerOf(Len(a), Len(b)), Len(a))
        \o [k \in 1..(Len(b) - SmallerOf(Len(a), Len(b))) |->
               OperationOf("add", Child(path, Decimal(Len(a) + k - 1)), <<b[Len(a) + k]>>)]

DiffMember(v, b, j, path) ==
    IF j = 0 THEN <<OperationOf("remove", path, <<>>)>> ELSE DiffOps(v, b[j][2], path)
DiffObjects(a, b, path) ==
    FlattenSeq([i \in DOMAIN a |->
                   DiffMember(a[i][2], b, FindKey(b, a[i][1]), Child(path, EscapeToken(a[i][1])))])
        \o FlattenSeq([i \in DOMAIN b |->
               IF FindKey(a, b[i][1]) # 0 THEN <<>>
               ELSE <<OperationOf("add", Child(path, EscapeToken(b[i][1])), <<b[i][2]>>)>>])

DiffOps(source, target, path) ==
    IF Equals(source, target) THEN <<>>
    ELSE CASE IsArray(source) /\ IsArray(target) -> DiffArrays(source[2], target[2], path)
           [] IsObject(source) /\ IsObject(target) -> DiffObjects(source[2], target[2], path)
           [] OTHER -> <<OperationOf("replace", path, <<target>>)>>

Diff(source, target) == Array(DiffOps(source, target, <<>>))

-----------------------------------------------------------------------------
(* merge_patch                                                             *)

RECURSIVE MergePatch(_, _)
MergePatch(v, patch) ==
    IF ~IsObject(patch) THEN patch
    ELSE FoldInHalves(LAMBDA w, p : IF IsNull(p[2]) THEN EraseKey(w, p[1])
                                    ELSE SetKey(w, p[1], MergePatch(Content(Slot(w, p[1])), p[2])),
                      IF IsObject(v) THEN v ELSE Default("object"), patch[2])

=============================================================================
