----------------------------- MODULE JsonTypes ------------------------------
(***************************************************************************)
(* A value of json.hpp is its m_type and its m_value; a string is the      *)
(* sequence of its bytes, an object the sequence of its pairs in the order *)
(* of std::map.  What throws gives an exception in place of a value.       *)
(***************************************************************************)
EXTENDS Integers, Sequences

Null == <<"null">>
Discarded == <<"discarded">>
Boolean(b) == <<"boolean", b>>
String(bytes) == <<"string", bytes>>
Unsigned(word) == <<"unsigned", word>>
Integer(word) == <<"integer", word>>
Float(x) == <<"float", x>>
Array(elements) == <<"array", elements>>
Object(pairs) == <<"object", pairs>>

IsNull(v) == v[1] = "null"
IsBoolean(v) == v[1] = "boolean"
IsNumberFloat(v) == v[1] = "float"
IsNumberUnsigned(v) == v[1] = "unsigned"
IsNumberInteger(v) == v[1] \in {"integer", "unsigned"}
IsNumber(v) == IsNumberInteger(v) \/ IsNumberFloat(v)
IsString(v) == v[1] = "string"
IsArray(v) == v[1] = "array"
IsObject(v) == v[1] = "object"
IsDiscarded(v) == v[1] = "discarded"
IsStructured(v) == IsArray(v) \/ IsObject(v)
IsPrimitive(v) == IsNull(v) \/ IsString(v) \/ IsBoolean(v) \/ IsNumber(v)

\* An exception of the library by its number, or one of these.
StdInvalidArgument == -1
StdOutOfRange == -2
StdLengthError == -3
AssertionFails == -4

Throw(id) == <<"throw", id>>
Threw(v) == v[1] = "throw"

\* r, which is of no use when v is an exception.
Unless(v, r) == IF Threw(v) THEN v ELSE r

\* In place of a text: one with a negative number in it, the exception's.
ThrowText(id) == <<-id>>
ThrewText(text) == \E i \in DOMAIN text : text[i] < 0

=============================================================================
