----------------------------- MODULE JsonValue ------------------------------
(***************************************************************************)
(* class basic_json of json.hpp: the operations that change a value and    *)
(* the comparison of its numbers.  An operation that throws gives what it  *)
(* throws, and the value it was called on is as it was before.             *)
(***************************************************************************)
EXTENDS JsonNumbers, JsonTypes

Empty(v) == IsNull(v) \/ (IsStructured(v) /\ v[2] = <<>>)
Size(v) == IF IsNull(v) THEN 0 ELSE IF IsStructured(v) THEN Len(v[2]) ELSE 1

\* The constructor from a value_t, and with it clear().
Default(type) ==
    CASE type \in {"null", "discarded"} -> <<type>>
      [] type = "boolean" -> Boolean(FALSE)
      [] type \in {"integer", "unsigned"} -> <<type, WordZero>>
      [] type = "float" -> Float(Zero(FALSE))
      [] type \in {"string", "array", "object"} -> <<type, <<>>>>

Clear(v) == Default(v[1])

-----------------------------------------------------------------------------
(* std::map.                                                               *)

\* The position of key, or 0.
FindKey(pairs, key) == SelectInSeq(pairs, LAMBDA p : p[1] = key)

\* std::map::lower_bound: the first pair whose key is not less than key, or 0.
LowerBound(pairs, key) == SelectInSeq(pairs, LAMBDA p : ~LexLess(p[1], key))

InsertBefore(pairs, i, pair) == IF i = 0 THEN Append(pairs, pair) ELSE InsertAt(pairs, i, pair)
InsertPair(pairs, key, v) == InsertBefore(pairs, LowerBound(pairs, key), <<key, v>>)

\* emplace and insert: nothing happens when the key is there.
EmplacePair(pairs, key, v) ==
    IF FindKey(pairs, key) # 0 THEN pairs ELSE InsertPair(pairs, key, v)

\* operator[](key) = v
PutPair(pairs, i, key, v) ==
    IF i # 0 THEN [pairs EXCEPT ![i] = <<key, v>>] ELSE InsertPair(pairs, key, v)
AssignPair(pairs, key, v) == PutPair(pairs, FindKey(pairs, key), key, v)

EraseFound(pairs, i) == IF i = 0 THEN pairs ELSE RemoveAt(pairs, i)
ErasePair(pairs, key) == EraseFound(pairs, FindKey(pairs, key))

-----------------------------------------------------------------------------
(* Element access.  Indices are those of the code, from 0.                 *)

Count(v, key) == IF IsObject(v) /\ FindKey(v[2], key) # 0 THEN 1 ELSE 0

AtIndex(v, idx) ==
    CASE ~IsArray(v) -> Throw(304)
      [] IsArray(v) /\ idx >= Len(v[2]) -> Throw(401)
      [] OTHER -> v[2][idx + 1]

AtKey(v, key) ==
    CASE ~IsObject(v) -> Throw(304)
      [] IsObject(v) /\ Count(v, key) = 0 -> Throw(403)
      [] OTHER -> v[2][FindKey(v[2], key)][2]

\* A null becomes an empty value of the type asked for.
Turned(v, type) == IF IsNull(v) THEN Default(type) ELSE v

\* v[idx] = new: a null becomes an array, an array grows until it has idx.
SetElement(a, idx, new) ==
    CASE ~IsArray(a) -> Throw(305)
      [] IsArray(a) /\ idx < Len(a[2]) ->
            Array(SubSeq(a[2], 1, idx) \o <<new>> \o SubSeq(a[2], idx + 2, Len(a[2])))
      [] OTHER -> Array(a[2] \o [i \in 1..(idx - Len(a[2])) |-> Null] \o <<new>>)
SetIndex(v, idx, new) == SetElement(Turned(v, "array"), idx, new)

\* v[key] = new
SetMember(o, key, new) ==
    IF ~IsObject(o) THEN Throw(305) ELSE Object(AssignPair(o[2], key, new))
SetKey(v, key, new) ==
    SetMember(Turned(v, "object"), key, new)

-----------------------------------------------------------------------------
(* Modifiers.                                                              *)

EraseKey(v, key) == IF IsObject(v) THEN Object(ErasePair(v[2], key)) ELSE Throw(307)

EraseIndex(v, idx) ==
    CASE ~IsArray(v) -> Throw(307)
      [] IsArray(v) /\ idx >= Len(v[2]) -> Throw(401)
      [] OTHER -> Array(RemoveAt(v[2], idx + 1))

\* erase(begin() + n): the n-th element, or a scalar as a whole.
EraseAt(v, n) ==
    CASE IsArray(v) -> Array(RemoveAt(v[2], n + 1))
      [] IsObject(v) -> Object(RemoveAt(v[2], n + 1))
      [] v[1] \in {"null", "discarded"} -> Throw(307)
      [] OTHER -> IF n = 0 THEN Null ELSE Throw(205)

PushBack(v, new) ==
    CASE IsNull(v) -> Array(<<new>>)
      [] IsArray(v) -> Array(Append(v[2], new))
      [] OTHER -> Throw(308)

PushPair(v, key, new) ==
    CASE IsNull(v) -> Object(<<<<key, new>>>>)
      [] IsObject(v) -> Object(EmplacePair(v[2], key, new))
      [] OTHER -> Throw(308)

\* push_back({a, b}): a pair for an object when the first is a string, else an
\* element, which the constructor from {a, b} makes an array.
PushList(v, a, b) ==
    IF IsObject(v) /\ IsString(a) THEN PushPair(v, a[2], b) ELSE PushBack(v, Array(<<a, b>>))

\* The same with another exception.
Emplaced(r) == IF Threw(r) THEN Throw(311) ELSE r
EmplaceBack(v, new) == Emplaced(PushBack(v, new))
Emplace(v, key, new) == Emplaced(PushPair(v, key, new))

\* insert(begin() + n, new)
Insert(v, n, new) == IF IsArray(v) THEN Array(InsertAt(v[2], n + 1, new)) ELSE Throw(309)

\* insert(other.begin(), other.end())
InsertRange(v, other) ==
    CASE ~IsObject(v) -> Throw(309)
      [] IsObject(v) /\ ~IsObject(other) -> Throw(202)
      [] OTHER -> Object(FoldInHalves(LAMBDA o, p : EmplacePair(o, p[1], p[2]), v[2], other[2]))

UpdateObject(o, other) ==
    IF IsObject(o) /\ IsObject(other)
    THEN Object(FoldInHalves(LAMBDA acc, p : AssignPair(acc, p[1], p[2]), o[2], other[2]))
    ELSE Throw(312)
Update(v, other) == UpdateObject(Turned(v, "object"), other)

\* The constructor from an initializer list, and array() and object() of one.
FromList(list, deduce, manual) ==
    LET pairs == \A i \in DOMAIN list :
                     IsArray(list[i]) /\ Len(list[i][2]) = 2 /\ IsString(list[i][2][1])
        object == pairs /\ (deduce \/ manual # "array")
    IN CASE ~deduce /\ manual = "object" /\ ~pairs -> Throw(301)
         [] object -> Object(FoldInHalves(LAMBDA o, e : EmplacePair(o, e[2][1][2], e[2][2]), <<>>, list))
         [] OTHER -> Array(list)

-----------------------------------------------------------------------------
(* Comparison of numbers.                                                  *)

\* The sign and the magnitude of an integer.
Negative(v) == v[1] = "integer" /\ SignBit(v[2])
Absolute(v) == IF Negative(v) THEN Negate(v[2]) ELSE v[2]

\* static_cast<double> of a number.
AsFloat(v) ==
    IF IsNumberFloat(v) THEN v[2] ELSE [FromUnsigned(Absolute(v)) EXCEPT !.neg = Negative(v)]

\* Two numbers of different types: an unsigned one is cast to a signed one of
\* the same bits, and both to double when the other is a double.
NumbersEqual(a, b) ==
    IF IsNumberFloat(a) \/ IsNumberFloat(b) THEN DoubleEquals(AsFloat(a), AsFloat(b))
    ELSE a[2] = b[2]

\* Fault: an unsigned number and another integer are not compared.
NumbersLessAlike(a, b) ==
    CASE IsNumberFloat(a) \/ IsNumberFloat(b) -> DoubleLess(AsFloat(a), AsFloat(b))
      [] IsNumberUnsigned(a) /\ IsNumberUnsigned(b) -> LexLess(a[2], b[2])
      [] OTHER -> a[1] = b[1] /\ SignedLess(a[2], b[2])

NumbersLess(a, b) ==
    CASE IsNumberFloat(a) \/ IsNumberFloat(b) -> DoubleLess(AsFloat(a), AsFloat(b))
      [] IsNumberUnsigned(a) /\ IsNumberUnsigned(b) -> LexLess(a[2], b[2])
      [] OTHER -> SignedLess(a[2], b[2])

=============================================================================
