---------------------------- MODULE MCEntityLife ----------------------------
(***************************************************************************)
(* Members that are missing, null, of every type the parsers tell apart,   *)
(* and, where it could show that something old is kept, two that differ.   *)
(* With Half = 2 the id 2 does not fit in an int.                          *)
(***************************************************************************)
EXTENDS EntityLife

MCIdValues == {Absent, JsonNull, JsonInteger(1), JsonInteger(2), JsonString("s"), JsonOther}

MCMethodValues == {Absent, JsonOther, JsonString(""), JsonString("s"), JsonString("t")}

MCParamsValues == {Absent, JsonNull, JsonArray("x"), JsonArray("y"), JsonMap("x")}

MCResultValues == {Absent, JsonNull, JsonString("s"), JsonString("t")}

MCErrorValues ==
    {Absent, JsonNull} \cup
    {JsonError(c, m, d) : c \in {Absent, JsonInteger(1), JsonString("s")},
                          m \in {Absent, JsonString("s")}, d \in {Absent, JsonString("t")}}

MCItems ==
    {Message(JsonInteger(1), JsonString("s"), Absent, Absent, Absent),
     Message(JsonString("s"), JsonOther, Absent, Absent, Absent),
     Message(JsonInteger(2), JsonString("s"), JsonNull, Absent, Absent),
     Message(Absent, JsonString("s"), JsonArray("x"), Absent, Absent),
     Message(Absent, JsonString(""), Absent, Absent, Absent),
     Message(JsonInteger(1), Absent, Absent, JsonNull, Absent),
     JsonOther, JsonBatch(<<>>)}

MCBatchValues ==
    {JsonBatch(<<>>)} \cup {JsonBatch(<<a>>) : a \in MCItems}
        \cup {JsonBatch(<<a, b>>) : a, b \in MCItems}
        \cup {JsonBatch(<<JsonBatch(<<a>>), b>>) : a, b \in MCItems \ {JsonBatch(<<>>)}}
=============================================================================
