------------------------------- MODULE MCJson -------------------------------
(***************************************************************************)
(* Words are those that meet at the grammar's joints; Texts has the values *)
(* at the bounds of the number types and of the sizes that the binary      *)
(* formats tell apart, strings at the bounds of UTF-8 and its escapes, and *)
(* forms that only a reader of binary formats meets.                       *)
(***************************************************************************)
EXTENDS JsonLife

MCWords ==
    {Bytes(w) : w \in {"[", "]", "{", "}", ",", "\"a\":", "\"\"", "0", "-1", ".5", "E400", "null"}}

Documents ==
    {"{\"a\":[1,{\"b\":[]}],\"c\":\"x\"}", "[[],[null,[1]],2]", "{\"~1\":1,\"/\":{\"~\":[2]}}",
     "{\"0\":1,\"\":{}}", "[0,1,2,3,4,5,6,7,8,9,10,{}]", "[1,2,3]", "{\"b\":{\"a\":true},\"a\":null}",
     "{\"a\":1,\"a\":[2]}", " [ {} , false ] ", "[{\"a\":[]},{\"a\":[[]]}]", "{\"a\":[],\"b\":[{}],\"c\":{}}"}

Numerals ==
    {"18446744073709551615", "18446744073709551616", "9223372036854775808", "9223372036854775807",
     "-9223372036854775808", "-9223372036854775809", "1e999", "-1e999", "-0", "-0.0", "4294967296",
     "4294967295", "2147483648", "65536", "65535", "32768", "256", "255", "128", "24", "23", "-24",
     "-25", "-32", "-33", "-128", "-129", "-32769", "-2147483649", "1E+20", "123456.75e-12", "1e14",
     "1e15", "0.001", "0.00001", "12.5", "01", "1.", "1e", "1e+", "-", "+1", "--1", "1 2",
     "-1.5E2", "[0.5E2]", "[-1E2000", "[1e999,]", "1e999]", "1e999e", "[1,1e999x", "{\"a\":1e999", "[}1e999",
     "\"1e999", "01e999"}

Escapes ==
    {"\"\\\"\\\\\\/\\b\\f\\n\\r\\t\"", "\"\\u0000\\u001f\\u001F\\u007f\"", "\"\\uD834\\udd1e\\u00e9\"",
     "\"\\uD834\"", "\"\\uDD1E\"", "\"\\uD834\\u0041\"", "\"\\uD834\\n\"", "\"\\u00g0\"", "\"\\x\"",
     "\"\\u12\"", "\"a", "nul", "tru", "falsy", "[1,]", "{\"a\":1,}", "{\"a\"}", "{1:2}", "[1 2]"}

Quoted(bytes) == <<Quote>> \o bytes \o <<Quote>>

Encodings ==
    {Quoted(s) : s \in {<<127>>, <<195, 169>>, <<240, 157, 132, 158>>, <<226, 130>>, <<192, 128>>,
                        <<237, 159, 191>>, <<237, 160, 128>>, <<244, 143, 191, 191>>,
                        <<244, 144, 128, 128>>, <<224, 128, 128>>, <<128>>, <<31>>, <<65, 0>>}}
        \cup {Bom \o Bytes("[1]"), SubSeq(Bom, 1, 2), Bytes("1") \o <<0, 93>>, Bytes("[1") \o <<0, 93>>}

\* Integers that are too large for a double, or for a text that goes wrong behind
\* the digits, and one that its exponent brings back.
Many == [i \in 1..310 |-> 57]
Large == {Many, Bytes("[-") \o Many, Many \o Bytes("e+"), Many \o Bytes("e-9"), Bytes("[1") \o Many \o Bytes("]]")}

\* Of sizes around the bounds of the binary formats.
Long ==
    {Quoted([i \in 1..n |-> 65]) : n \in {23, 24, 31, 32, 127, 128, 255, 256}}
        \cup {Bytes("[0") \o FlattenSeq([i \in 1..(n - 1) |-> Bytes(",0")]) \o Bytes("]") : n \in {15, 16, 24}}

Binary ==
    {<<249, 60, 0>>, <<249, 0, 1>>, <<249, 124, 0>>, <<249, 126, 0>>, <<249, 188, 1>>, <<250, 1, 130, 12, 50>>,
     <<97, 255>>, <<159, 127, 97, 65, 97, 66, 255, 1, 255>>, <<191, 97, 65, 1, 97, 65, 2, 255>>,
     <<162, 97, 65, 1, 97, 65, 2>>, <<130, 161, 65, 1, 161, 65, 2>>, <<59, 127, 255, 255, 255, 255, 255, 255, 255>>,
     <<59, 255, 255, 255, 255, 255, 255, 255, 255>>, <<152, 1, 56, 127>>, <<184, 1, 120, 1, 65, 245>>,
     <<220, 0, 1, 208, 128>>, <<222, 0, 1, 217, 1, 65, 224>>, <<202, 0, 129, 25, 0>>, <<196>>, <<28>>}
        \cup {Bytes("[NTNFN]N"), Bytes("[$N#U") \o <<3>>, Bytes("[#i") \o <<254>>, Bytes("[#i") \o <<255, 84, 93>>,
              Bytes("{i") \o <<1>> \o Bytes("aTi") \o <<1>> \o Bytes("aF}"),
              Bytes("{$T#i") \o <<2>> \o Bytes("i") \o <<1>> \o Bytes("ai") \o <<1>> \o Bytes("a"),
              Bytes("[#TCA"), Bytes("[#S"), Bytes("Si") \o <<255>>, Bytes("C") \o <<200>>, Bytes("[$i]")}

MCTexts == {Bytes(t) : t \in Documents \cup Numerals \cup Escapes \cup {""}} \cup Encodings \cup Large \cup Long \cup Binary

A == Bytes("a")
MCKeys == {A, Bytes("~/")}
MCValues == {Null, Unsigned(Word(2)), Array(<<Boolean(TRUE)>>), Object(<<<<A, Null>>>>)}

MCCallbacks ==
    {NoCallback}
        \cup {[what |-> w, from |-> 0] : w \in {{<<"value", "null">>}, {<<"key", "string">>},
                                                {<<"array_start", "discarded">>}, {<<"object_start", "discarded">>},
                                                {<<"array_end", "array">>, <<"value", "unsigned">>}}}
        \cup {[what |-> {<<"array_start", "discarded">>, <<"object_end", "object">>}, from |-> 1]}

MCPatches ==
    {Parse(Bytes(text), NoCallback, TRUE) : text \in
        {"[{\"op\":\"move\",\"from\":\"/a\",\"path\":\"/b\"},{\"op\":\"test\",\"path\":\"/b\",\"value\":1}]",
         "[{\"op\":\"copy\",\"from\":\"/0\",\"path\":\"/-\"},{\"op\":\"replace\",\"path\":\"/0\",\"value\":{\"\":[]}}]",
         "[{\"op\":\"add\",\"path\":\"/1\",\"value\":[]},{\"op\":\"remove\",\"path\":\"/0\"}]",
         "[{\"op\":\"add\",\"path\":\"/~01/b\",\"value\":3}]",
         "[{\"op\":\"add\",\"path\":\"\",\"value\":{\"a\":1}},{\"op\":\"none\",\"path\":\"/a\"}]",
         "[{\"op\":\"remove\",\"path\":\"/01\"}]", "{}"}}

=============================================================================
