----------------------------- MODULE JsonBinary -----------------------------
(***************************************************************************)
(* class binary_writer and class binary_reader of json.hpp: CBOR,          *)
(* MessagePack and UBJSON but for their integers.  Reading functions take  *)
(* and give what those of JsonIntegers do.                                 *)
(***************************************************************************)
EXTENDS JsonSerializer, JsonIntegers

Letter(c) == Code[c]

-----------------------------------------------------------------------------
(* Writing.                                                                *)

Length(s) == Word(Len(s))

RECURSIVE WriteCbor(_)
WriteCbor(v) ==
    CASE IsNull(v) -> <<246>>
      [] IsBoolean(v) -> IF v[2] THEN <<245>> ELSE <<244>>
      [] IsNumberInteger(v) -> CborInteger(v)
      [] IsNumberFloat(v) -> <<251>> \o DoubleBytes(v[2])
      [] IsString(v) -> CborHead(96, Length(v[2])) \o v[2]
      [] IsArray(v) -> CborHead(128, Length(v[2]))
                       \o FlattenSeq([k \in DOMAIN v[2] |-> WriteCbor(v[2][k])])
      [] IsObject(v) -> CborHead(160, Length(v[2]))
                        \o FlattenSeq([k \in DOMAIN v[2] |-> WriteCbor(String(v[2][k][1]))
                                                             \o WriteCbor(v[2][k][2])])
      [] IsDiscarded(v) -> <<>>

RECURSIVE WriteMsgpack(_)
WriteMsgpack(v) ==
    LET size == Len(v[2])
        head(short, base, widths) ==
            IF size <= short THEN <<base + size>> ELSE MsgpackHead(Length(v[2]), widths)
    IN CASE IsNull(v) -> <<192>>
         [] IsBoolean(v) -> IF v[2] THEN <<195>> ELSE <<194>>
         [] IsNumberInteger(v) -> MsgpackInteger(v)
         [] IsNumberFloat(v) -> <<203>> \o DoubleBytes(v[2])
         [] IsString(v) -> head(31, 160, {<<1, 217>>, <<2, 218>>, <<4, 219>>}) \o v[2]
         [] IsArray(v) -> head(15, 144, {<<2, 220>>, <<4, 221>>})
                          \o FlattenSeq([k \in DOMAIN v[2] |-> WriteMsgpack(v[2][k])])
         [] IsObject(v) -> head(15, 128, {<<2, 222>>, <<4, 223>>})
                           \o FlattenSeq([k \in DOMAIN v[2] |-> WriteMsgpack(String(v[2][k][1]))
                                                                \o WriteMsgpack(v[2][k][2])])
         [] IsDiscarded(v) -> <<>>

\* ubjson_prefix: the marker of a value.
UbjsonPrefix(v) ==
    IF IsNumberInteger(v) THEN UbjsonMarker(v)
    ELSE Letter(CASE IsNull(v) -> "Z"
                  [] IsBoolean(v) -> IF v[2] THEN "T" ELSE "F"
                  [] IsNumberFloat(v) -> "D"
                  [] IsString(v) -> "S"
                  [] IsArray(v) -> "["
                  [] IsObject(v) -> "{"
                  [] IsDiscarded(v) -> "N")

\* write_number_with_ubjson_prefix for the prefix c.
UbjsonContent(v, c) ==
    IF IsNumberFloat(v) THEN DoubleBytes(v[2]) ELSE UbjsonInteger(v, c)
Prefixed(c, addPrefix, content) == (IF addPrefix THEN <<c>> ELSE <<>>) \o content

UbjsonMarked(v, c) == Prefixed(c, TRUE, UbjsonContent(v, c))
UbjsonSizeOf(v) == UbjsonMarked(v, UbjsonPrefix(v))
UbjsonSize(s) == UbjsonSizeOf(Unsigned(Length(s)))

\* Containers get their size when useCount says so, and the marker of their
\* elements when useType does, there are some and they share it.
RECURSIVE WriteUbjson(_, _, _, _)
UbjsonText(s) == UbjsonSize(s) \o s
UbjsonEntry(v, k, useCount, useType, addPrefix) ==
    IF IsArray(v) THEN WriteUbjson(v[2][k], useCount, useType, addPrefix)
    ELSE UbjsonText(v[2][k][1]) \o WriteUbjson(v[2][k][2], useCount, useType, addPrefix)
\* prefixes are the markers of the elements.
UbjsonTyped(v, prefixes, typed, useCount, useType) ==
    (IF typed THEN <<Letter("$"), prefixes[1]>> ELSE <<>>)
        \o (IF useCount THEN <<Letter("#")>> \o UbjsonSize(v[2]) ELSE <<>>)
        \o FlattenSeq([k \in DOMAIN v[2] |-> UbjsonEntry(v, k, useCount, useType, ~typed)])
        \o (IF useCount THEN <<>> ELSE <<Letter(IF IsArray(v) THEN "]" ELSE "}")>>)
UbjsonContainer(v, prefixes, useCount, useType) ==
    UbjsonTyped(v, prefixes, useType /\ Cardinality(ToSet(prefixes)) = 1, useCount, useType)
Elements(v) == IF IsArray(v) THEN v[2] ELSE [k \in DOMAIN v[2] |-> v[2][k][2]]

UbjsonAfter(v, c, useCount, useType) ==
    CASE IsNumber(v) -> UbjsonContent(v, c)
      [] IsString(v) -> UbjsonText(v[2])
      [] IsStructured(v) ->
            UbjsonContainer(v, [k \in DOMAIN v[2] |-> UbjsonPrefix(Elements(v)[k])], useCount, useType)
      [] IsNull(v) \/ IsBoolean(v) \/ IsDiscarded(v) -> <<>>
UbjsonFrom(v, c, useCount, useType, addPrefix) ==
    Prefixed(c, addPrefix /\ ~IsDiscarded(v), UbjsonAfter(v, c, useCount, useType))
WriteUbjson(v, useCount, useType, addPrefix) ==
    UbjsonFrom(v, UbjsonPrefix(v), useCount, useType, addPrefix)

-----------------------------------------------------------------------------
(* Reading: what the three formats share.                                  *)

FloatBytes(r) ==
    NumberAs(r, Float(IF Len(r.value[2]) = 4 THEN FromFloatBytes(r.value[2]) ELSE FromDoubleBytes(r.value[2])))
GetFloat(bytes, i, n) == FloatBytes(ReadBytes(bytes, i, n))

\* A string whose size is a number of n bytes.
OfSize(bytes, size) ==
    IF Threw(size.value) THEN size ELSE ReadBytes(bytes, size.at, ToSize(size.value[2]))
SizedString(bytes, i, n) == OfSize(bytes, GetUnsigned(bytes, i, n))

\* get_ignore_noop
SkipNoop(bytes, i) == SkipWhile(bytes, i, {Letter("N")})

-----------------------------------------------------------------------------
(* Strings of the three formats, from the byte c at i.                     *)

RECURSIVE CborChunks(_, _, _)
CborString(bytes, i, c) ==
    CASE c = Eof -> ReadFails(110, i)
      [] c \in 96..119 -> ReadBytes(bytes, i, c % 32)
      [] c \in 120..123 -> SizedString(bytes, i, Eight[c - 119])
      [] c = 127 -> CborChunks(bytes, i + 1, <<>>)
      [] OTHER -> ReadFails(113, i)

\* Of indefinite length: strings up to the byte 0xFF.
AddChunk(bytes, read, r) ==
    IF Threw(r.value) THEN r ELSE CborChunks(bytes, r.at + 1, read \o r.value[2])
CborChunks(bytes, i, read) ==
    IF Get(bytes, i) = 255 THEN Read(String(read), i)
    ELSE AddChunk(bytes, read, CborString(bytes, i, Get(bytes, i)))

MsgpackString(bytes, i, c) ==
    CASE c = Eof -> ReadFails(110, i)
      [] c \in 160..191 -> ReadBytes(bytes, i, c % 32)
      [] c \in 217..219 -> SizedString(bytes, i, Eight[c - 216])
      [] OTHER -> ReadFails(113, i)

\* A negative size is no byte.
UbjsonSigned == UbjsonIntegers \ {Letter("U")}
SignedSize(size) == IF ~Threw(size.value) /\ SignBit(size.value[2]) THEN Read(Unsigned(WordZero), size.at) ELSE size
UbjsonString(bytes, i, c) ==
    CASE c = Eof -> ReadFails(110, i)
      [] c = Letter("U") -> SizedString(bytes, i, 1)
      [] c \in UbjsonSigned -> OfSize(bytes, SignedSize(GetSigned(bytes, i, UbjsonWidth[c])))
      [] OTHER -> ReadFails(113, i)

-----------------------------------------------------------------------------
(* Containers.  reader says how an element is read: in one of the formats  *)
(* or, in UBJSON, with a marker given for all of them.                     *)

\* Where what follows position i begins.
Beyond(reader, bytes, i) == IF reader[1] = "ubjson" THEN SkipNoop(bytes, i + 1) ELSE i + 1

ReadKeyAt(reader, bytes, i, c) ==
    CASE reader[1] = "cbor" -> CborString(bytes, i, c)
      [] reader[1] = "msgpack" -> MsgpackString(bytes, i, c)
      [] OTHER -> UbjsonString(bytes, i, c)
ReadKey(reader, bytes, i) == ReadKeyAt(reader, bytes, i + 1, Get(bytes, i + 1))

\* The element after position i.
RECURSIVE ReadNext(_, _, _)

\* generate_n into the back of an array.
RECURSIVE ReadElements(_, _, _, _, _)
AddElement(reader, bytes, n, elements, r) ==
    IF Threw(r.value) THEN r
    ELSE ReadElements(reader, bytes, r.at, n - 1, Append(elements, r.value))
ReadElements(reader, bytes, i, n, elements) ==
    IF n = 0 THEN Read(Array(elements), i)
    ELSE AddElement(reader, bytes, n, elements, ReadNext(reader, bytes, i))

\* generate_n into an object, where the first of several equal keys stays.
RECURSIVE ReadMembers(_, _, _, _, _)
AddMember(reader, bytes, n, pairs, key, r) ==
    IF Threw(r.value) THEN r
    ELSE ReadMembers(reader, bytes, r.at, n - 1, EmplacePair(pairs, key, r.value))
AddKey(reader, bytes, n, pairs, k) ==
    IF Threw(k.value) THEN k
    ELSE AddMember(reader, bytes, n, pairs, k.value[2], ReadNext(reader, bytes, k.at))
ReadMembers(reader, bytes, i, n, pairs) ==
    IF n = 0 THEN Read(Object(pairs), i)
    ELSE AddKey(reader, bytes, n, pairs, ReadKey(reader, bytes, i))

SizedArray(reader, bytes, size) ==
    IF Threw(size.value) THEN size ELSE ReadElements(reader, bytes, size.at, ToSize(size.value[2]), <<>>)
SizedObject(reader, bytes, size) ==
    IF Threw(size.value) THEN size ELSE ReadMembers(reader, bytes, size.at, ToSize(size.value[2]), <<>>)

\* Without a size: elements from position i up to the byte end.
RECURSIVE OpenElements(_, _, _, _, _)
AddOpenElement(reader, bytes, end, elements, r) ==
    IF Threw(r.value) THEN r
    ELSE OpenElements(reader, bytes, Beyond(reader, bytes, r.at), end, Append(elements, r.value))
OpenElements(reader, bytes, i, end, elements) ==
    IF Get(bytes, i) = end THEN Read(Array(elements), i)
    ELSE AddOpenElement(reader, bytes, end, elements, ReadNext(reader, bytes, i - 1))

\* The last of several equal keys stays.
RECURSIVE OpenMembers(_, _, _, _, _)
AddOpenMember(reader, bytes, end, pairs, key, r) ==
    IF Threw(r.value) THEN r
    ELSE OpenMembers(reader, bytes, Beyond(reader, bytes, r.at), end, AssignPair(pairs, key, r.value))
AddOpenKey(reader, bytes, end, pairs, k) ==
    IF Threw(k.value) THEN k
    ELSE AddOpenMember(reader, bytes, end, pairs, k.value[2], ReadNext(reader, bytes, k.at))
OpenMembers(reader, bytes, i, end, pairs) ==
    IF Get(bytes, i) = end THEN Read(Object(pairs), i)
    ELSE AddOpenKey(reader, bytes, end, pairs, ReadKey(reader, bytes, i - 1))

-----------------------------------------------------------------------------
(* CBOR, from the byte c at i.                                             *)

\* std::ldexp(n, e) for n below 2^11 and e in -24 .. 5: n / 2^k is n * 5^k / 10^k.
Scaled(digits, k) == Double(FALSE, digits, Len(digits) - k)
Ldexp(n, e) ==
    LET times(word, j) == MulAdd(word, 5^((j - e) \div 3), 0)[2]
    IN IF e >= 0 THEN Scaled(DecimalDigits(Word(n * 2^e)), 0)
       ELSE Scaled(DecimalDigits(times(times(times(Zeros(4) \o Word(n), 0), 1), 2)), -e)

\* Half precision.
WithSign(half, x) == IF half >= 32768 /\ x # NaN THEN [x EXCEPT !.neg = TRUE] ELSE x
HalfOf(half, exp, mant) ==
    WithSign(half, CASE exp = 31 /\ mant = 0 -> Infinite(FALSE)
                     [] exp = 31 /\ mant # 0 -> NaN
                     [] OTHER -> Ldexp(IF exp = 0 THEN mant ELSE mant + 1024, IF exp = 0 THEN -24 ELSE exp - 25))
HalfFloat(half) == HalfOf(half, (half \div 1024) % 32, half % 1024)
HalfBytes(r) == NumberAs(r, Float(HalfFloat(r.value[2][1] * 256 + r.value[2][2])))

\* The items of major type 7.
CborSimple(bytes, i, c) ==
    CASE c \in {244, 245} -> Read(Boolean(c = 245), i)
      [] c = 246 -> Read(Null, i)
      [] c = 249 -> HalfBytes(ReadBytes(bytes, i, 2))
      [] c \in {250, 251} -> GetFloat(bytes, i, IF c = 250 THEN 4 ELSE 8)
      [] OTHER -> ReadFails(112, i)

ParseCbor(bytes, i, c) ==
    LET me == <<"cbor">>
    IN CASE c = Eof -> ReadFails(110, i)
         [] c \in CborIntegers -> ReadCborInteger(bytes, i, c)
         [] c \in (96..123) \cup {127} -> CborString(bytes, i, c)
         [] c \in 128..155 -> SizedArray(me, bytes, CborArgument(bytes, i, c))
         [] c = 159 -> OpenElements(me, bytes, i + 1, 255, <<>>)
         [] c \in 160..187 -> SizedObject(me, bytes, CborArgument(bytes, i, c))
         [] c = 191 -> OpenMembers(me, bytes, i + 1, 255, <<>>)
         [] OTHER -> CborSimple(bytes, i, c)

-----------------------------------------------------------------------------
(* MessagePack, from the byte c at i.                                      *)

\* The size of an array or map.
MsgpackSize(bytes, i, c) ==
    IF c < 160 THEN Read(Unsigned(Word(c % 16)), i) ELSE GetUnsigned(bytes, i, IF c % 2 = 0 THEN 2 ELSE 4)

\* What begins with a byte over 127.
MsgpackMarked(bytes, i, c) ==
    LET me == <<"msgpack">>
    IN CASE c \in (128..143) \cup {222, 223} -> SizedObject(me, bytes, MsgpackSize(bytes, i, c))
         [] c \in (144..159) \cup {220, 221} -> SizedArray(me, bytes, MsgpackSize(bytes, i, c))
         [] c \in (160..191) \cup (217..219) -> MsgpackString(bytes, i, c)
         [] c = 192 -> Read(Null, i)
         [] c \in {194, 195} -> Read(Boolean(c = 195), i)
         [] c \in {202, 203} -> GetFloat(bytes, i, IF c = 202 THEN 4 ELSE 8)
         [] OTHER -> ReadFails(112, i)

ParseMsgpack(bytes, i, c) ==
    CASE c = Eof -> ReadFails(110, i)
      [] c \in MsgpackIntegers -> ReadMsgpackInteger(bytes, i, c)
      [] OTHER -> MsgpackMarked(bytes, i, c)

-----------------------------------------------------------------------------
(* UBJSON.                                                                 *)

\* std::string::npos, which says that a container has no size.
NoSize == Complement(WordZero)

\* The largest size of a vector of 16-byte elements.
MaxSize == <<7>> \o [k \in 1..7 |-> 255]

\* The conversion of a value to std::size_t.
SizeOf(v) ==
    CASE IsNumberInteger(v) -> v
      [] IsBoolean(v) -> Unsigned(Word(IF v[2] THEN 1 ELSE 0))
      [] OTHER -> Throw(302)

\* get_ubjson_size_type after position i: the size, the marker of the elements
\* or 0, and the position of the last byte read.  A $ may be at j, and a # at k,
\* without which the size is none.
SizeType(size, type, at) == [size |-> size, type |-> type, at |-> at]
CountRead(type, n) == SizeType(Unless(n.value, SizeOf(n.value)), type, n.at)
CountAt(bytes, k, type, none) ==
    CASE type = Eof -> SizeType(Throw(110), type, k)
      [] type # Eof /\ Get(bytes, k) = Letter("#") -> CountRead(type, ReadNext(<<"ubjson">>, bytes, k))
      [] OTHER -> SizeType(none, type, k)
TypeAt(bytes, j, typed) ==
    CountAt(bytes, IF typed THEN SkipNoop(bytes, j + 2) ELSE j, IF typed THEN Get(bytes, j + 1) ELSE 0,
            IF typed THEN Throw(112) ELSE Unsigned(NoSize))
TypeFrom(bytes, j) == TypeAt(bytes, j, Get(bytes, j) = Letter("$"))
UbjsonSizeType(bytes, i) == TypeFrom(bytes, SkipNoop(bytes, i + 1))

ElementReader(type) == IF type = 0 THEN <<"ubjson">> ELSE <<"typed", type>>

\* An array or object with that.  Elements that are all no-ops are not there.
WithSizeType(bytes, s, isArray) ==
    CASE Threw(s.size) -> Read(s.size, s.at)
      [] ~Threw(s.size) /\ s.size[2] = NoSize ->
            IF isArray THEN OpenElements(<<"ubjson">>, bytes, s.at, Letter("]"), <<>>)
            ELSE OpenMembers(<<"ubjson">>, bytes, s.at, Letter("}"), <<>>)
      [] ~Threw(s.size) /\ s.size[2] # NoSize /\ LexLess(MaxSize, s.size[2]) -> ReadFails(408, s.at)
      [] OTHER ->
            CASE isArray /\ s.type = Letter("N") -> Read(Array(<<>>), s.at)
              [] isArray /\ s.type # Letter("N") -> SizedArray(ElementReader(s.type), bytes, Read(s.size, s.at))
              [] ~isArray -> SizedObject(ElementReader(s.type), bytes, Read(s.size, s.at))

\* A char, the byte c at i.
UbjsonChar(c, i) ==
    IF c = Eof THEN ReadFails(110, i) ELSE IF c > 127 THEN ReadFails(113, i) ELSE Read(String(<<c>>), i)

\* The value that begins with a marker, whose content is after position i.
UbjsonValue(prefix, bytes, i) ==
    CASE prefix = Eof -> ReadFails(110, i)
      [] prefix \in ToSet(Bytes("TF")) -> Read(Boolean(prefix = Letter("T")), i)
      [] prefix = Letter("Z") -> Read(Null, i)
      [] prefix \in UbjsonIntegers -> ReadUbjsonInteger(bytes, i, prefix)
      [] prefix \in ToSet(Bytes("dD")) -> GetFloat(bytes, i, IF prefix = Letter("d") THEN 4 ELSE 8)
      [] prefix = Letter("C") -> UbjsonChar(Get(bytes, i + 1), i + 1)
      [] prefix = Letter("S") -> UbjsonString(bytes, i + 1, Get(bytes, i + 1))
      [] prefix \in ToSet(Bytes("[{")) -> WithSizeType(bytes, UbjsonSizeType(bytes, i), prefix = Letter("["))
      [] OTHER -> ReadFails(112, i)

-----------------------------------------------------------------------------
(* to_cbor, from_cbor and the others.                                      *)

ReadAt(reader, bytes, i, c) ==
    CASE reader[1] = "cbor" -> ParseCbor(bytes, i, c)
      [] reader[1] = "msgpack" -> ParseMsgpack(bytes, i, c)
      [] OTHER -> IF reader[1] = "typed" THEN UbjsonValue(reader[2], bytes, i - 1)
                  ELSE UbjsonValue(c, bytes, i)
ReadFrom(reader, bytes, i) == ReadAt(reader, bytes, i, Get(bytes, i))
ReadNext(reader, bytes, i) == ReadFrom(reader, bytes, Beyond(reader, bytes, i))

Formats == {"cbor", "msgpack", "ubjson", "ubjson_size", "ubjson_type"}

ToBinary(format, v) ==
    OrThrow(CASE format = "cbor" -> WriteCbor(v)
              [] format = "msgpack" -> WriteMsgpack(v)
              [] OTHER -> WriteUbjson(v, format # "ubjson", format = "ubjson_type", TRUE), 407)

\* Strict: nothing may follow the value, but no-ops may in UBJSON.
Strictly(reader, bytes, r) ==
    IF ~Threw(r.value) /\ Beyond(reader, bytes, r.at) <= Len(bytes) THEN Throw(110) ELSE r.value
Strict(reader, bytes) == Strictly(reader, bytes, ReadNext(reader, bytes, 0))
FromBinary(format, bytes) ==
    Strict(<<IF format \in {"cbor", "msgpack"} THEN format ELSE "ubjson">>, bytes)

=============================================================================
