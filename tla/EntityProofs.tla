---------------------------- MODULE EntityProofs ----------------------------
(***************************************************************************)
(* The entities in use: an id on its way through the conversions of        *)
(* Dispatch, for every width of an int and whatever else a call is made    *)
(* of; one entity parsed again and again, for every value it is given; the *)
(* text of a JSON pointer, for whatever bytes its tokens have; and an      *)
(* integer in each of the binary formats, for all sixty-four bits.         *)
(***************************************************************************)
EXTENDS Dispatch, EntityLife, JsonTokens, JsonIntegers, FiniteSetTheorems,
        SequenceTheorems, WellFoundedInduction, TLAPS

-----------------------------------------------------------------------------
(* Arithmetic of the conversions                                           *)

LEMMA Remainders ==
    ASSUME NEW w \in Nat \ {0}, NEW a \in 0..(w - 1)
    PROVE  a % w = a /\ (a + w) % w = a /\ (a - w) % w = a
OBVIOUS

\* An int is what a conversion to int yields.
LEMMA ToIntRange == \A n \in Int : ToInt(n) \in Ints
<1> DEFINE w == 2 * Half
<1>1. Half \in Nat \ {0} /\ w \in Nat \ {0}
      BY HalfAssumption
<1> SUFFICES ASSUME NEW n \in Int PROVE ToInt(n) \in Ints
    OBVIOUS
<1> DEFINE r == (n + Half) % w
<1>2. r \in 0..(w - 1)
      BY <1>1
<1>3. ToInt(n) = r - Half
      BY DEF ToInt
<1> HIDE DEF r
<1> QED BY <1>1, <1>2, <1>3 DEF Ints

\* What is an int is left alone.
LEMMA ToIntOfInt == \A n \in Ints : ToInt(n) = n
<1> DEFINE w == 2 * Half
<1>1. Half \in Nat \ {0} /\ w \in Nat \ {0}
      BY HalfAssumption
<1> SUFFICES ASSUME NEW n \in Ints PROVE ToInt(n) = n
    OBVIOUS
<1>2. n \in Int /\ n + Half \in 0..(w - 1)
      BY <1>1 DEF Ints
<1>3. (n + Half) % w = n + Half
      BY <1>1, <1>2, Remainders
<1>4. ToInt(n) = ((n + Half) % w) - Half
      BY DEF ToInt
<1> QED BY <1>1, <1>2, <1>3, <1>4

\* A uint32_t comes back from the int it is converted to.
LEMMA UnsignedComesBack == \A n \in 0..(2 * Half - 1) : ToUnsigned(ToInt(n)) = n
<1> DEFINE w == 2 * Half
<1>1. Half \in Nat \ {0} /\ w \in Nat \ {0}
      BY HalfAssumption
<1> SUFFICES ASSUME NEW n \in 0..(w - 1) PROVE ToUnsigned(ToInt(n)) = n
    OBVIOUS
<1>2. ToInt(n) = ((n + Half) % w) - Half
      BY DEF ToInt
<1>3. CASE n < Half
  <2>1. n + Half \in 0..(w - 1)
        BY <1>1, <1>3
  <2>2. ToInt(n) = n
        BY <1>1, <1>2, <2>1, Remainders
  <2> QED BY <1>1, <2>2, Remainders DEF ToUnsigned
<1>4. CASE n >= Half
  <2>1. n - Half \in 0..(w - 1) /\ (n - Half) + w = n + Half
        BY <1>1, <1>4
  <2>2. (n + Half) % w = n - Half
        BY <1>1, <2>1, Remainders
  <2>3. ToInt(n) = n - w
        BY <1>1, <1>2, <2>2
  <2> QED BY <1>1, <2>3, Remainders DEF ToUnsigned
<1> QED BY <1>1, <1>3, <1>4

-----------------------------------------------------------------------------
(* Ids in requests and responses                                           *)

LEMMA IdReadBack ==
    ASSUME NEW k \in Ints, NEW id \in IdFrom(JsonInteger(k))
    PROVE  id.int = k /\ IdToJson(id) = JsonInteger(k)
<1>1. PICK i \in Ints : id = IdParse([type |-> "null", int |-> i, string |-> ""], JsonInteger(k))
      BY DEF IdFrom
<1>2. id = [type |-> "integer", int |-> k, string |-> ""]
      BY <1>1, ToIntOfInt DEF IdParse, JsonInteger
<1> QED BY <1>2 DEF IdToJson

\* The request the server makes of async_call's text has the id of the text.
LEMMA RequestKeepsId ==
    ASSUME NEW k \in Ints, NEW m, NEW p,
           NEW parsed \in MessageParse(Message(JsonInteger(k), JsonString(m), p, Absent, Absent))
    PROVE  IdToJson(parsed.object.id) = JsonInteger(k)
<1> DEFINE said == Message(JsonInteger(k), JsonString(m), p, Absent, Absent)
<1>1. said.id = JsonInteger(k) /\ said.method = JsonString(m) /\ said.type = "message"
      BY DEF Message
<1>2. /\ IsRequest(said) /\ ~IsNotification(said) /\ ~IsResponse(said)
      /\ Has(said, "id") /\ Readable(said.id)
      BY <1>1 DEF IsRequest, IsNotification, IsResponse, Has, Readable, JsonInteger, JsonString, Absent
<1>3. MessageParse(said) = RequestParse(DefaultRequest, said)
      BY <1>2 DEF MessageParse
<1> HIDE DEF said
<1>4. PICK id \in IdFrom(JsonInteger(k)) :
         parsed = BodyParse([DefaultRequest EXCEPT !.id = id], said,
                            RequestException("invalid request", id),
                            RequestException("internal error", id))
      BY <1>1, <1>2, <1>3 DEF RequestParse, said
<1>5. parsed.object.id = id
      BY <1>4 DEF BodyParse, Outcome, DefaultRequest
<1> QED BY <1>5, IdReadBack

\* The response the client makes of the server's text has the id of the text.
LEMMA ResponseKeepsId ==
    ASSUME NEW k \in Ints,
           NEW parsed \in MessageParse(Message(JsonInteger(k), Absent, Absent, JsonNull, JsonNull))
    PROVE  parsed.object.id.int = k
<1> DEFINE said == Message(JsonInteger(k), Absent, Absent, JsonNull, JsonNull)
<1>1. /\ said.id = JsonInteger(k) /\ said.method = Absent /\ said.type = "message"
      /\ said.result = JsonNull
      BY DEF Message
<1>2. /\ ~IsRequest(said) /\ ~IsNotification(said) /\ IsResponse(said)
      /\ Has(said, "id") /\ Readable(said.id) /\ Has(said, "result")
      BY <1>1 DEF IsRequest, IsNotification, IsResponse, Has, Readable, JsonInteger, JsonNull, Absent
<1>3. MessageParse(said) = ResponseParse(DefaultResponse, said)
      BY <1>2 DEF MessageParse
<1> HIDE DEF said
<1>4. PICK id \in IdFrom(JsonInteger(k)) :
         parsed = AnswerParse([Blank(DefaultResponse) EXCEPT !.id = id], said)
      BY <1>1, <1>2, <1>3 DEF ResponseParse, said
<1>5. parsed.object.id = id
      BY <1>2, <1>4 DEF AnswerParse, Outcome, Blank, DefaultResponse
<1> QED BY <1>5, IdReadBack

-----------------------------------------------------------------------------
(* The invariant: wherever the call is, what travels with it is the int its *)
(* id was converted to.                                                    *)

Narrow == ToInt(callId)

IdsOK ==
    /\ callId \in 0..(2 * Half - 1)
    /\ stage \in {"sent", "answered", "returned"} => key = Narrow
    /\ stage = "sent" =>
         text = Message(JsonInteger(Narrow), JsonString(method), params, Absent, Absent)
    /\ stage = "answered" /\ text # ErrorText =>
         text = Message(JsonInteger(Narrow), Absent, Absent, JsonNull, JsonNull)
    /\ stage = "returned" => found = Narrow

LEMMA NarrowIsInt == IdsOK => Narrow \in Ints
<1>1. callId \in 0..(2 * Half - 1) => callId \in Int
      BY HalfAssumption
<1> QED BY <1>1, ToIntRange DEF IdsOK, Narrow

\* json_request::id gives async_remote_call the id back; the key and the text
\* have it as an int.
LEMMA SendNarrows == IdsOK /\ Send => IdsOK'
<1> SUFFICES ASSUME IdsOK, Send PROVE IdsOK'
    OBVIOUS
<1> DEFINE id == [NullId EXCEPT !.type = "integer", !.int = ToInt(callId)]
<1>1. id.type = "integer" /\ id.int = Narrow
      BY DEF NullId, Narrow
<1>2. IdToJson(id) = JsonInteger(Narrow) /\ id.int = Narrow
      BY <1>1 DEF IdToJson
<1>3. key' = ToInt(ToUnsigned(id.int))
      BY DEF Send
<1>4. text' = Message(IdToJson(id), JsonString(method), params, Absent, Absent)
      BY DEF Send
<1>5. stage' = "sent" /\ callId' = callId /\ method' = method /\ params' = params
      BY DEF Send
<1> HIDE DEF id
<1>6. key' = Narrow
      BY <1>2, <1>3, UnsignedComesBack DEF IdsOK, Narrow
<1> QED BY <1>2, <1>4, <1>5, <1>6 DEF IdsOK, Narrow

LEMMA ServeKeepsId == IdsOK /\ Serve => IdsOK'
<1> SUFFICES ASSUME IdsOK, Serve PROVE IdsOK'
    OBVIOUS
<1>1. Narrow \in Ints
      BY NarrowIsInt
<1>2. text = Message(JsonInteger(Narrow), JsonString(method), params, Absent, Absent)
      BY DEF IdsOK, Serve
<1>3. PICK parsed \in MessageParse(text) :
         IF parsed.threw = None
         THEN Exec(parsed.object)
         ELSE text' = ErrorText /\ UNCHANGED given
      BY DEF Serve
<1>4. IdToJson(parsed.object.id) = JsonInteger(Narrow)
      BY <1>1, <1>2, <1>3, RequestKeepsId
<1>5. text' = ErrorText \/ text' = ResponseToJson(ResponseOf(parsed.object.id, JsonNull))
      BY <1>3 DEF Exec
<1>6. ResponseToJson(ResponseOf(parsed.object.id, JsonNull))
        = Message(JsonInteger(Narrow), Absent, Absent, JsonNull, JsonNull)
      BY <1>4 DEF ResponseToJson, ResponseOf, NullError
<1>7. stage' = "answered" /\ callId' = callId /\ key' = key
      BY DEF Serve
<1>8. key = Narrow /\ Narrow' = Narrow
      BY <1>7 DEF IdsOK, Serve, Narrow
<1> QED BY <1>5, <1>6, <1>7, <1>8 DEF IdsOK

LEMMA ReturnFinds == IdsOK /\ Return => IdsOK'
<1> SUFFICES ASSUME IdsOK, Return PROVE IdsOK'
    OBVIOUS
<1>1. Narrow \in Ints
      BY NarrowIsInt
<1>2. text = Message(JsonInteger(Narrow), Absent, Absent, JsonNull, JsonNull)
      BY DEF IdsOK, Return
<1>3. PICK parsed \in MessageParse(text) : found' = parsed.object.id.int
      BY DEF Return
<1>4. found' = Narrow
      BY <1>1, <1>2, <1>3, ResponseKeepsId
<1> QED BY <1>4 DEF IdsOK, Return, Narrow

LEMMA IdsInvariant == Spec => []IdsOK
<1>1. Init => IdsOK
      BY DEF Init, IdsOK
<1>2. IdsOK /\ [Next]_vars => IdsOK'
  <2> SUFFICES ASSUME IdsOK, [Next]_vars PROVE IdsOK'
      OBVIOUS
  <2>1. CASE AddHandler
        BY <2>1 DEF AddHandler, IdsOK, Narrow
  <2>2. CASE PassArgument
    <3>1. PICK value, result : Pass(value, result)
          BY <2>2 DEF PassArgument
    <3> QED BY <3>1 DEF Pass, IdsOK, Narrow
  <2>3. CASE Send
        BY <2>3, SendNarrows
  <2>4. CASE Serve
        BY <2>4, ServeKeepsId
  <2>5. CASE Return
        BY <2>5, ReturnFinds
  <2>6. CASE Drop
        BY <2>6 DEF Drop, IdsOK, Narrow
  <2>7. CASE UNCHANGED vars
        BY <2>7 DEF vars, IdsOK, Narrow
  <2> QED BY <2>1, <2>2, <2>3, <2>4, <2>5, <2>6, <2>7 DEF Next
<1> QED BY <1>1, <1>2, PTL DEF Spec

\* Whatever the width of an int, the id of every call finds the callback it was
\* stored with (rpc_client.cpp:40,89) and no id that of another.
THEOREM DispatchIdComesBack == Spec => []IdComesBack
<1>1. IdsOK => IdComesBack
      BY UnsignedComesBack DEF IdsOK, IdComesBack, Narrow
<1> QED BY <1>1, IdsInvariant, PTL

-----------------------------------------------------------------------------
(* One parse of an id, an error, a request, a response                     *)

IdOf(t, n, s) == [type |-> t, int |-> n, string |-> s]
IsId(id) == \E t, n, s : id = IdOf(t, n, s)

ParamsOf(n, t, a, m) == [isNull |-> n, type |-> t, array |-> a, map |-> m]
IsParams(p) == \E n, t, a, m : p = ParamsOf(n, t, a, m)

ErrorOf(n, c, m, d) == [isNull |-> n, code |-> c, message |-> m, data |-> d]
IsError(e) == \E n, c, m, d : e = ErrorOf(n, c, m, d)

LEMMA Shapes ==
    /\ \A t, n, s : IsId(IdOf(t, n, s))
    /\ \A n, t, a, m : IsParams(ParamsOf(n, t, a, m))
    /\ \A n, c, m, d : IsError(ErrorOf(n, c, m, d))
    BY Zenon DEF IsId, IsParams, IsError

\* What is printed of an id is what was read last, in the width of an int.
LEMMA IdRead ==
    ASSUME NEW id, IsId(id), NEW value, Readable(value)
    PROVE  /\ IsId(IdParse(id, value))
           /\ IdToJson(IdParse(id, value)) = Narrowed(value)
<1>1. PICK t, n, s : id = IdOf(t, n, s)
      BY DEF IsId
<1>2. CASE value.type = "null"
  <2>1. IdParse(id, value) = IdOf("null", n, s)
        BY <1>1, <1>2 DEF IdParse, IdOf
  <2>2. IdToJson(IdOf("null", n, s)) = JsonNull
        BY DEF IdToJson, IdOf
  <2>3. Narrowed(value) = JsonNull
        BY <1>2 DEF Narrowed
  <2> QED BY <2>1, <2>2, <2>3, Shapes
<1>3. CASE value.type = "integer"
  <2> DEFINE k == ToInt(value.number)
  <2>1. IdParse(id, value) = IdOf("integer", k, s)
        BY <1>1, <1>3 DEF IdParse, IdOf
  <2>2. Narrowed(value) = JsonInteger(k)
        BY <1>3 DEF Narrowed
  <2> HIDE DEF k
  <2>3. IdToJson(IdOf("integer", k, s)) = JsonInteger(k)
        BY DEF IdToJson, IdOf
  <2> QED BY <2>1, <2>2, <2>3, Shapes
<1>4. CASE value.type = "string"
  <2>1. IdParse(id, value) = IdOf("string", n, value.text)
        BY <1>1, <1>4 DEF IdParse, IdOf
  <2>2. IdToJson(IdOf("string", n, value.text)) = JsonString(value.text)
        BY DEF IdToJson, IdOf
  <2>3. Narrowed(value) = JsonString(value.text)
        BY <1>4 DEF Narrowed
  <2> QED BY <2>1, <2>2, <2>3, Shapes
<1> QED BY <1>2, <1>3, <1>4 DEF Readable

LEMMA IdMade ==
    ASSUME NEW value, Readable(value), NEW id \in IdFrom(value)
    PROVE  IsId(id) /\ IdToJson(id) = Narrowed(value)
<1>1. PICK i \in Ints : id = IdParse([type |-> "null", int |-> i, string |-> ""], value)
      BY DEF IdFrom
<1>2. IsId([type |-> "null", int |-> i, string |-> ""])
      BY Shapes DEF IdOf
<1> QED BY <1>1, <1>2, IdRead

LEMMA ParamsMade ==
    ASSUME NEW p, IsParams(p), NEW value, Structured(value)
    PROVE  IsParams(ParameterParse(p, value)) /\ ParamsRead(ParameterParse(p, value), value)
<1>1. PICK n, t, a, m : p = ParamsOf(n, t, a, m)
      BY DEF IsParams
<1>2. CASE value.type = "array"
  <2>1. ParameterParse(p, value) = ParamsOf(n, "array", value.says, "")
        BY <1>1, <1>2 DEF ParameterParse, ParamsOf
  <2>2. ParamsRead(ParamsOf(n, "array", value.says, ""), value)
        BY <1>2 DEF ParamsRead, ParamsOf
  <2> QED BY <2>1, <2>2, Shapes
<1>3. CASE value.type = "map"
  <2>1. ParameterParse(p, value) = ParamsOf(n, "map", "", value.says)
        BY <1>1, <1>3 DEF ParameterParse, ParamsOf
  <2>2. ParamsRead(ParamsOf(n, "map", "", value.says), value)
        BY <1>3 DEF ParamsRead, ParamsOf
  <2> QED BY <2>1, <2>2, Shapes
<1> QED BY <1>2, <1>3 DEF Structured

LEMMA NullityKeepsShape ==
    ASSUME NEW p, IsParams(p), NEW no
    PROVE  IsParams([p EXCEPT !.isNull = no])
<1>1. PICK n, t, a, m : p = ParamsOf(n, t, a, m)
      BY DEF IsParams
<1>2. [p EXCEPT !.isNull = no] = ParamsOf(no, t, a, m)
      BY <1>1 DEF ParamsOf
<1> QED BY <1>2, Shapes

LEMMA NoParams ==
    /\ IsParams(NoParameter) /\ IsParams(DefaultParameter)
    /\ \A value : value.type = "absent" => ParamsRead(NoParameter, value)
<1>1. NoParameter = ParamsOf(TRUE, "null", "", "")
      BY DEF NoParameter, ParamsOf
<1>3. ASSUME NEW value, value.type = "absent" PROVE ParamsRead(NoParameter, value)
      BY <1>3 DEF ParamsRead, NoParameter
<1>4. IsParams(NoParameter)
      BY <1>1, Shapes
<1>5. IsParams(DefaultParameter)
  <2> HIDE DEF NoParameter, IsParams
  <2> QED BY <1>4, NullityKeepsShape DEF DefaultParameter
<1> QED BY <1>3, <1>4, <1>5

\* All of an error that is printed.
ErrorRead(e, value) ==
    /\ e.code = ToInt(value.code.number)
    /\ e.message = value.message.text
    /\ e.data = IF value.data = Absent THEN JsonNull ELSE value.data

\* Wherever the parse of an error throws, its code is the one read or the old one.
LEMMA ErrorMade ==
    ASSUME NEW e, IsError(e), NEW value, NEW out, out = ErrorParse(e, value)
    PROVE  /\ IsError(out.object)
           /\ \/ out.object = e
              \/ /\ value.type = "error" /\ value.code.type = "integer"
                 /\ out.object.code = ToInt(value.code.number)
           /\ out.threw = None => ErrorRead(out.object, value)
<1> DEFINE k == ToInt(value.code.number)
           x == IF value.data = Absent THEN JsonNull ELSE value.data
<1>1. PICK n, c, m, d : e = ErrorOf(n, c, m, d)
      BY DEF IsError
<1>2. RpcException # None
      BY DEF RpcException, None
<1>3. CASE value.type # "error" \/ value.code.type # "integer"
  <2>1. out.object = e /\ out.threw = RpcException
        BY <1>3 DEF ErrorParse, Outcome
  <2> QED BY <1>2, <2>1
<1>4. CASE value.type = "error" /\ value.code.type = "integer"
  <2>1. [e EXCEPT !.code = k] = ErrorOf(n, k, m, d)
    <3> HIDE DEF k
    <3> QED BY <1>1 DEF ErrorOf
  <2>2. CASE value.message.type # "string"
    <3>1. out = Outcome(ErrorOf(n, k, m, d), RpcException)
          BY <1>4, <2>1, <2>2 DEF ErrorParse
    <3> HIDE DEF k
    <3>2. out.object = ErrorOf(n, k, m, d) /\ out.threw = RpcException
          BY <3>1 DEF Outcome
    <3>3. out.object.code = k
          BY <3>2 DEF ErrorOf
    <3> QED BY <1>2, <1>4, <3>2, <3>3, Shapes DEF k
  <2>3. CASE value.message.type = "string"
    <3> DEFINE y == value.message.text
    <3>1. out = Outcome([ErrorOf(n, k, m, d) EXCEPT !.message = y, !.data = x], None)
          BY <1>4, <2>1, <2>3 DEF ErrorParse, ErrorData
    <3> HIDE DEF k, x, y
    <3>5. [ErrorOf(n, k, m, d) EXCEPT !.message = y] = ErrorOf(n, k, y, d)
          BY DEF ErrorOf
    <3>6. [ErrorOf(n, k, y, d) EXCEPT !.data = x] = ErrorOf(n, k, y, x)
          BY DEF ErrorOf
    <3>4. [ErrorOf(n, k, m, d) EXCEPT !.message = y, !.data = x] = ErrorOf(n, k, y, x)
          BY <3>5, <3>6
    <3>2. out.object = ErrorOf(n, k, y, x) /\ out.threw = None
          BY <3>1, <3>4 DEF Outcome
    <3>3. out.object.code = k /\ out.object.message = y /\ out.object.data = x
          BY <3>2 DEF ErrorOf
    <3> QED BY <1>4, <3>2, <3>3, Shapes DEF k, x, y, ErrorRead
  <2> QED BY <2>2, <2>3
<1> QED BY <1>3, <1>4

RequestOf(m, p, id) == [class |-> "request", method |-> m, params |-> p, id |-> id]
NotificationOf(m, p) == [class |-> "notification", method |-> m, params |-> p]
AnswerOf(id, r, e) == [class |-> "response", id |-> id, result |-> r, error |-> e]

LEMMA OutcomeParts ==
    \A o, t : Outcome(o, t).object = o /\ Outcome(o, t).threw = t
    BY DEF Outcome

MethodOf(c, m, p, id) == IF c = "request" THEN RequestOf(m, p, id) ELSE NotificationOf(m, p)

LEMMA MethodFields ==
    \A c, m, p, id, n, q :
        /\ MethodOf(c, m, p, id).method = m
        /\ MethodOf(c, m, p, id).params = p
        /\ [MethodOf(c, m, p, id) EXCEPT !.method = n] = MethodOf(c, n, p, id)
        /\ [MethodOf(c, m, p, id) EXCEPT !.params = q] = MethodOf(c, m, q, id)
<1> TAKE c, m, p, id, n, q
<1>1. CASE c = "request"
      BY <1>1 DEF MethodOf, RequestOf
<1>2. CASE c # "request"
      BY <1>2 DEF MethodOf, NotificationOf
<1> QED BY <1>1, <1>2

\* The method and the parameters of a request or a notification: all read, or
\* an exception thrown.
LEMMA MethodBody ==
    ASSUME NEW c, NEW m, NEW p, IsParams(p), NEW id, NEW value,
           NEW invalid, NEW unfit, invalid # None, unfit # None,
           NEW out, out = BodyParse(MethodOf(c, m, p, id), value, invalid, unfit)
    PROVE  /\ \E n, q : IsParams(q) /\ out.object = MethodOf(c, n, q, id)
           /\ out.threw \in {None, invalid, unfit}
           /\ out.threw = None =>
                 /\ out.object.method = value.method.text
                 /\ ParamsRead(out.object.params, value.params)
                 /\ \/ value.params = Absent
                    \/ /\ Structured(value.params)
                       /\ out.object.params = ParameterParse(p, value.params)
<1> DEFINE n == value.method.text
<1>1. CASE ~Has(value, "method") \/ value.method.type # "string"
  <2>1. out.object = MethodOf(c, m, p, id) /\ out.threw = invalid
        BY <1>1 DEF BodyParse, Outcome
  <2> QED BY <2>1, Zenon
<1>2. CASE Has(value, "method") /\ value.method.type = "string"
  <2>1. [MethodOf(c, m, p, id) EXCEPT !.method = n] = MethodOf(c, n, p, id)
        BY MethodFields
  <2>2. MethodOf(c, n, p, id).method = n
        BY MethodFields
  <2>4. CASE n = "" \/ (Has(value, "params") /\ ~Structured(value.params))
    <3>1. PICK t \in {invalid, unfit} : out = Outcome(MethodOf(c, n, p, id), t)
          BY <1>2, <2>1, <2>2, <2>4 DEF BodyParse
    <3>2. out.object = MethodOf(c, n, p, id) /\ out.threw \in {invalid, unfit}
      <4> HIDE DEF n
      <4> QED BY <3>1, OutcomeParts
    <3> QED BY <3>2, Zenon
  <2>5. CASE n # "" /\ ~Has(value, "params")
    <3>1. [MethodOf(c, n, p, id) EXCEPT !.params = NoParameter]
            = MethodOf(c, n, NoParameter, id)
          BY MethodFields
    <3>2. out = Outcome(MethodOf(c, n, NoParameter, id), None)
          BY <1>2, <2>1, <2>2, <2>5, <3>1 DEF BodyParse
    <3>3. out.object = MethodOf(c, n, NoParameter, id) /\ out.threw = None
          BY <3>2, OutcomeParts, Zenon
    <3>4. out.object.method = n /\ out.object.params = NoParameter
          BY <3>3, MethodFields
    <3>5. value.params = Absent
          BY <1>2, <2>5 DEF Has
    <3>6. ParamsRead(NoParameter, value.params)
          BY <3>5, NoParams DEF Absent
    <3> QED BY <3>3, <3>4, <3>5, <3>6, NoParams, Zenon
  <2>6. CASE n # "" /\ Has(value, "params") /\ Structured(value.params)
    <3> DEFINE q == ParameterParse(p, value.params)
    <3>1. [MethodOf(c, n, p, id) EXCEPT !.params = ParameterParse(@, value.params)]
            = MethodOf(c, n, q, id)
          BY MethodFields
    <3>2. out = Outcome(MethodOf(c, n, q, id), None)
          BY <1>2, <2>1, <2>2, <2>6, <3>1 DEF BodyParse
    <3>3. IsParams(q) /\ ParamsRead(q, value.params)
          BY <2>6, ParamsMade
    <3> HIDE DEF q
    <3>4. out.object = MethodOf(c, n, q, id) /\ out.threw = None
          BY <3>2, OutcomeParts, Zenon
    <3>5. out.object.method = n /\ out.object.params = q
          BY <3>4, MethodFields
    <3>6. out.object.params = ParameterParse(p, value.params)
          BY <3>5 DEF q
    <3> QED BY <2>6, <3>3, <3>4, <3>5, <3>6, Zenon
  <2> QED BY <2>4, <2>5, <2>6
<1> QED BY <1>1, <1>2

LEMMA RequestFields ==
    \A m, p, id, j :
        /\ RequestOf(m, p, id).id = id
        /\ [RequestOf(m, p, id) EXCEPT !.id = j] = RequestOf(m, p, j)
<1> TAKE m, p, id, j
<1> QED BY DEF RequestOf

LEMMA ExceptionFields ==
    \A c, id :
        /\ RequestException(c, id).class = c
        /\ RequestException(c, id).id = id
        /\ c # "none" => RequestException(c, id) # None
<1> TAKE c, id
<1>1. RequestException(c, id).class = c /\ RequestException(c, id).id = id
      BY DEF RequestException
<1>2. None.class = "none"
      BY DEF None
<1> QED BY <1>1, <1>2

\* What names a request, its id, is the one read or null, in the request and in
\* the exception for it.
NamesRead(out, value) ==
    /\ Has(value, "id") /\ Readable(value.id) =>
          IdToJson(out.object.id) = Narrowed(value.id)
    /\ out.threw # None =>
          /\ out.threw.class \in {"invalid request", "internal error"}
          /\ IdToJson(out.threw.id) =
                IF Has(value, "id") /\ Readable(value.id)
                THEN Narrowed(value.id) ELSE JsonNull

LEMMA RequestRead ==
    ASSUME NEW m, NEW p, IsParams(p), NEW id, IsId(id), NEW value,
           NEW out \in RequestParse(RequestOf(m, p, id), value)
    PROVE  /\ \E n, q, j : IsParams(q) /\ IsId(j) /\ out.object = RequestOf(n, q, j)
           /\ NamesRead(out, value)
           /\ out.threw = None =>
                 /\ out.object.method = value.method.text
                 /\ ParamsRead(out.object.params, value.params)
                 /\ IdToJson(out.object.id) = Narrowed(value.id)
<1>1. CASE ~Has(value, "id") \/ ~Readable(value.id)
  <2> DEFINE lost == RequestException("invalid request", NullId)
  <2>1. out = Outcome(RequestOf(m, p, id), lost)
        BY <1>1 DEF RequestParse
  <2>2. out.object = RequestOf(m, p, id) /\ out.threw = lost
        BY <2>1, OutcomeParts, Zenon
  <2>3. lost.class = "invalid request" /\ lost.id = NullId
        BY ExceptionFields, Zenon
  <2>4. IdToJson(NullId) = JsonNull
        BY DEF IdToJson, NullId
  <2>5. lost # None
        BY ExceptionFields, Zenon
  <2> HIDE DEF lost
  <2>6. NamesRead(out, value)
        BY <1>1, <2>2, <2>3, <2>4 DEF NamesRead
  <2> QED BY <2>2, <2>5, <2>6, Zenon
<1>2. CASE Has(value, "id") /\ Readable(value.id)
  <2>1. PICK j \in IdFrom(value.id) :
           out = BodyParse([RequestOf(m, p, id) EXCEPT !.id = j], value,
                                RequestException("invalid request", j),
                                RequestException("internal error", j))
        BY <1>2 DEF RequestParse
  <2> DEFINE invalid == RequestException("invalid request", j)
             unfit == RequestException("internal error", j)
  <2>2. /\ invalid.class = "invalid request" /\ invalid.id = j
        /\ unfit.class = "internal error" /\ unfit.id = j
        BY ExceptionFields, Zenon
  <2>3. invalid # None /\ unfit # None
        BY ExceptionFields, Zenon
  <2>4. MethodOf("request", m, p, j) = [RequestOf(m, p, id) EXCEPT !.id = j]
        BY RequestFields DEF MethodOf
  <2>5. out = BodyParse(MethodOf("request", m, p, j), value, invalid, unfit)
        BY <2>1, <2>4
  <2> HIDE DEF invalid, unfit
  <2>6. /\ \E n, q : IsParams(q) /\ out.object = MethodOf("request", n, q, j)
        /\ out.threw \in {None, invalid, unfit}
        /\ out.threw = None =>
              /\ out.object.method = value.method.text
              /\ ParamsRead(out.object.params, value.params)
        BY <2>3, <2>5, MethodBody
  <2>7. PICK n, q : IsParams(q) /\ out.object = RequestOf(n, q, j)
        BY <2>6 DEF MethodOf
  <2>8. IsId(j) /\ IdToJson(j) = Narrowed(value.id)
        BY <1>2, IdMade
  <2>9. out.object.id = j
        BY <2>7, RequestFields
  <2>10. NamesRead(out, value)
        BY <1>2, <2>2, <2>6, <2>8, <2>9 DEF NamesRead
  <2> QED BY <2>6, <2>7, <2>8, <2>9, <2>10, Zenon
<1> QED BY <1>1, <1>2

LEMMA NotificationRead ==
    ASSUME NEW m, NEW p, IsParams(p), NEW value,
           NEW out \in NotificationParse(NotificationOf(m, p), value)
    PROVE  /\ \E n, q : IsParams(q) /\ out.object = NotificationOf(n, q)
           /\ out.threw = None =>
                 /\ out.object.method = value.method.text
                 /\ ParamsRead(out.object.params, value.params)
<1> DEFINE thrown == RpcException
<1>1. out = BodyParse(MethodOf("notification", m, p, ""), value, thrown, thrown)
      BY DEF NotificationParse, MethodOf
<1>2. thrown # None
      BY DEF RpcException, None
<1>3. /\ \E n, q : IsParams(q) /\ out.object = MethodOf("notification", n, q, "")
      /\ out.threw = None =>
            /\ out.object.method = value.method.text
            /\ ParamsRead(out.object.params, value.params)
  <2> DEFINE c == "notification"
             id == ""
  <2>1. out = BodyParse(MethodOf(c, m, p, id), value, thrown, thrown)
        BY <1>1
  <2>2. thrown # None
        BY <1>2
  <2> HIDE DEF thrown, c, id
  <2>3. /\ \E n, q : IsParams(q) /\ out.object = MethodOf(c, n, q, id)
        /\ out.threw = None =>
              /\ out.object.method = value.method.text
              /\ ParamsRead(out.object.params, value.params)
        BY <2>1, <2>2, MethodBody
  <2> QED BY <2>3 DEF c, id
<1> QED BY <1>3 DEF MethodOf

\* Wherever the parse of a response throws, it has no answer of an earlier one.
LEMMA AnswerRead ==
    ASSUME NEW id, IsId(id), NEW value,
           NEW out, out = AnswerParse(AnswerOf(id, JsonNull, NullError), value)
    PROVE  /\ \E r, e : IsError(e) /\ out.object = AnswerOf(id, r, e)
           /\ out.object.result = IF Has(value, "result") THEN value.result ELSE JsonNull
           /\ out.object.error # NullError =>
                /\ ~Has(value, "result") /\ Has(value, "error")
                /\ value.error.type = "error" /\ value.error.code.type = "integer"
                /\ out.object.error.code = ToInt(value.error.code.number)
<1>1. IsError(NullError)
      BY Shapes DEF NullError, ErrorOf
<1>2. \A r, e : AnswerOf(id, r, e).result = r /\ AnswerOf(id, r, e).error = e
      BY DEF AnswerOf
<1>3. CASE Has(value, "result")
  <2>1. [AnswerOf(id, JsonNull, NullError) EXCEPT !.result = value.result]
          = AnswerOf(id, value.result, NullError)
        BY DEF AnswerOf
  <2>2. out = Outcome(AnswerOf(id, value.result, NullError), None)
        BY <1>3, <2>1 DEF AnswerParse
  <2>3. out.object = AnswerOf(id, value.result, NullError)
        BY <2>2, OutcomeParts, Zenon
  <2>4. out.object.result = value.result /\ out.object.error = NullError
        BY <1>2, <2>3
  <2> QED BY <1>1, <1>3, <2>3, <2>4
<1>4. CASE ~Has(value, "result") /\ ~Has(value, "error")
  <2>1. out = Outcome(AnswerOf(id, JsonNull, NullError), RpcException)
        BY <1>4 DEF AnswerParse
  <2>2. out.object = AnswerOf(id, JsonNull, NullError)
        BY <2>1, OutcomeParts, Zenon
  <2>3. out.object.result = JsonNull /\ out.object.error = NullError
        BY <1>2, <2>2
  <2> QED BY <1>1, <1>4, <2>2, <2>3
<1>5. CASE ~Has(value, "result") /\ Has(value, "error")
  <2> DEFINE parsed == ErrorParse(NullError, value.error)
  <2>1. /\ IsError(parsed.object)
        /\ \/ parsed.object = NullError
           \/ /\ value.error.type = "error" /\ value.error.code.type = "integer"
              /\ parsed.object.code = ToInt(value.error.code.number)
        BY <1>1, ErrorMade
  <2> HIDE DEF parsed
  <2>2. [AnswerOf(id, JsonNull, NullError) EXCEPT !.error = parsed.object]
          = AnswerOf(id, JsonNull, parsed.object)
        BY DEF AnswerOf
  <2>3. AnswerOf(id, JsonNull, NullError).error = NullError
        BY <1>2
  <2>4. out = Outcome(AnswerOf(id, JsonNull, parsed.object), parsed.threw)
        BY <1>5, <2>2, <2>3 DEF AnswerParse, parsed
  <2>5. out.object = AnswerOf(id, JsonNull, parsed.object)
        BY <2>4, OutcomeParts, Zenon
  <2>6. out.object.result = JsonNull /\ out.object.error = parsed.object
        BY <1>2, <2>5
  <2> QED BY <1>5, <2>1, <2>5, <2>6
<1> QED BY <1>3, <1>4, <1>5

LEMMA ResponseRead ==
    ASSUME NEW id, IsId(id), NEW r, NEW e, NEW value,
           NEW out \in ResponseParse(AnswerOf(id, r, e), value)
    PROVE  /\ \E j, s, f : IsId(j) /\ IsError(f) /\ out.object = AnswerOf(j, s, f)
           /\ out.threw = None => IdToJson(out.object.id) = Narrowed(value.id)
           /\ out.object.result =
                 IF Has(value, "id") /\ Readable(value.id) /\ Has(value, "result")
                 THEN value.result ELSE JsonNull
           /\ out.object.error # NullError =>
                /\ ~Has(value, "result") /\ Has(value, "error")
                /\ value.error.type = "error" /\ value.error.code.type = "integer"
                /\ out.object.error.code = ToInt(value.error.code.number)
<1> DEFINE blank == AnswerOf(id, JsonNull, NullError)
<1>1. Blank(AnswerOf(id, r, e)) = blank
  <2>1. [AnswerOf(id, r, e) EXCEPT !.result = JsonNull, !.error = NullError] = blank
    <3> DEFINE none == JsonNull
               no == NullError
    <3> HIDE DEF none, no
    <3>1. [AnswerOf(id, r, e) EXCEPT !.result = none] = AnswerOf(id, none, e)
          BY DEF AnswerOf
    <3>2. [AnswerOf(id, none, e) EXCEPT !.error = no] = AnswerOf(id, none, no)
          BY DEF AnswerOf
    <3>3. [AnswerOf(id, r, e) EXCEPT !.result = none, !.error = no] = AnswerOf(id, none, no)
          BY <3>1, <3>2
    <3> QED BY <3>3 DEF none, no
  <2> QED BY <2>1 DEF Blank
<1>2. \A j, s, f : /\ AnswerOf(j, s, f).id = j
                   /\ AnswerOf(j, s, f).result = s
                   /\ AnswerOf(j, s, f).error = f
      BY DEF AnswerOf
<1>3. CASE ~Has(value, "id") \/ ~Readable(value.id)
  <2>1. out = Outcome(blank, RpcException)
        BY <1>1, <1>3 DEF ResponseParse
  <2>2. out.object = blank /\ out.threw = RpcException
        BY <2>1, OutcomeParts, Zenon
  <2>3. IsError(NullError) /\ RpcException # None
        BY Shapes DEF NullError, ErrorOf, RpcException, None
  <2>4. out.object.result = JsonNull /\ out.object.error = NullError
        BY <1>2, <2>2
  <2> QED BY <1>3, <2>2, <2>3, <2>4
<1>4. CASE Has(value, "id") /\ Readable(value.id)
  <2>1. PICK j \in IdFrom(value.id) : out = AnswerParse([blank EXCEPT !.id = j], value)
        BY <1>1, <1>4 DEF ResponseParse
  <2>2. IsId(j) /\ IdToJson(j) = Narrowed(value.id)
        BY <1>4, IdMade
  <2>3. [blank EXCEPT !.id = j] = AnswerOf(j, JsonNull, NullError)
        BY DEF AnswerOf
  <2>4. out = AnswerParse(AnswerOf(j, JsonNull, NullError), value)
        BY <2>1, <2>3
  <2>5. /\ \E s, f : IsError(f) /\ out.object = AnswerOf(j, s, f)
        /\ out.object.result = IF Has(value, "result") THEN value.result ELSE JsonNull
        /\ out.object.error # NullError =>
             /\ ~Has(value, "result") /\ Has(value, "error")
             /\ value.error.type = "error" /\ value.error.code.type = "integer"
             /\ out.object.error.code = ToInt(value.error.code.number)
        BY <2>2, <2>4, AnswerRead
  <2>6. out.object.id = j
        BY <1>2, <2>5
  <2> QED BY <1>4, <2>2, <2>5, <2>6
<1> QED BY <1>3, <1>4

-----------------------------------------------------------------------------
(* What stands in a batch for each of its elements                         *)

LEMMA KeptNames ==
    ASSUME NEW value, IsRequest(value), Readable(value.id),
           NEW out \in ItemParse(value)
    PROVE  /\ "id" \in DOMAIN Kept(out)
           /\ IdToJson(Kept(out).id) = Narrowed(value.id)
<1>1. Has(value, "id") /\ value.type # "batch"
      BY DEF IsRequest, Has
<1>2. ~IsNotification(value) /\ ~IsResponse(value)
      BY DEF IsRequest, IsNotification, IsResponse
<1>3. ItemParse(value) = RequestParse(DefaultRequest, value)
      BY <1>1, <1>2 DEF ItemParse, MessageParse
<1>4. DefaultRequest = RequestOf("", DefaultParameter, NullId)
      BY DEF DefaultRequest, RequestOf
<1>5. IsParams(DefaultParameter)
      BY NoParams
<1>6. IsId(NullId)
      BY Shapes DEF NullId, IdOf
<1>7. /\ \E n, q, j : out.object = RequestOf(n, q, j)
      /\ NamesRead(out, value)
  <2> DEFINE p == DefaultParameter
             id == NullId
             m == ""
  <2>1. IsParams(p) /\ IsId(id) /\ out \in RequestParse(RequestOf(m, p, id), value)
        BY <1>3, <1>4, <1>5, <1>6
  <2> HIDE DEF p, id, m
  <2> QED BY <2>1, RequestRead
<1>8. PICK n, q, j : out.object = RequestOf(n, q, j)
      BY <1>7
<1>9. CASE out.threw = None
  <2>1. RequestOf(n, q, j) # Nothing
        BY DEF RequestOf, Nothing
  <2>2. Kept(out) = out.object
        BY <1>8, <1>9, <2>1 DEF Kept
  <2>3. "id" \in DOMAIN RequestOf(n, q, j)
        BY DEF RequestOf
  <2> QED BY <1>1, <1>7, <1>8, <2>2, <2>3 DEF NamesRead
<1>10. CASE out.threw # None
  <2>1. Kept(out) = [class |-> "exception", id |-> out.threw.id]
        BY <1>7, <1>10 DEF Kept, NamesRead
  <2>2. "id" \in DOMAIN Kept(out) /\ Kept(out).id = out.threw.id
        BY <2>1
  <2> QED BY <1>1, <1>7, <1>10, <2>2 DEF NamesRead
<1> QED BY <1>9, <1>10

LEMMA BatchRead ==
    ASSUME NEW value, value.type = "batch",
           Len(value.items) \in Nat, DOMAIN value.items = 1..Len(value.items),
           NEW out \in ParserParse(value)
    PROVE  /\ out.object.class = "batch"
           /\ Len(out.object.entities) = Len(value.items)
           /\ \A i \in 1..Len(value.items) :
                \E o \in ItemParse(value.items[i]) : out.object.entities[i] = Kept(o)
<1> DEFINE n == Len(value.items)
           outcomes == [i \in DOMAIN value.items |-> ItemParse(value.items[i])]
<1>1. out \in BatchParse(outcomes)
      BY DEF ParserParse
<1>2. DOMAIN outcomes = 1..n /\ \A i \in 1..n : outcomes[i] = ItemParse(value.items[i])
      OBVIOUS
<1> HIDE DEF outcomes
<1>3. CASE outcomes = <<>>
  <2> DEFINE lost == RequestException("invalid request", NullId)
  <2>1. out = Outcome(EmptyBatch, lost)
        BY <1>1, <1>3 DEF BatchParse
  <2>2. out.object = EmptyBatch
        BY <2>1, OutcomeParts, Zenon
  <2>3. 1..n = {}
        BY <1>2, <1>3
  <2>4. n = 0
    <3>1. n \in Nat
          OBVIOUS
    <3> HIDE DEF n
    <3> QED BY <2>3, <3>1
  <2>5. out.object.class = "batch" /\ out.object.entities = <<>>
        BY <2>2 DEF EmptyBatch
  <2> QED BY <2>4, <2>5
<1>4. CASE outcomes # <<>>
  <2> DEFINE entities == [i \in DOMAIN outcomes |-> {Kept(o) : o \in outcomes[i]}]
             all == UNION Range(entities)
  <2>1. PICK list \in [DOMAIN outcomes -> all] :
           /\ \A i \in DOMAIN outcomes : list[i] \in entities[i]
           /\ out = Outcome([EmptyBatch EXCEPT !.entities = list], None)
        BY <1>1, <1>4 DEF BatchParse
  <2>2. \A i \in 1..n : \E o \in ItemParse(value.items[i]) : list[i] = Kept(o)
        BY <1>2, <2>1
  <2> HIDE DEF all, entities
  <2>3. list \in Seq(all) /\ Len(list) = n
        BY <1>2, <2>1
  <2>4. [EmptyBatch EXCEPT !.entities = list] = [class |-> "batch", entities |-> list]
        BY DEF EmptyBatch
  <2>5. out.object = [class |-> "batch", entities |-> list]
        BY <2>1, <2>4, OutcomeParts
  <2>6. out.object.class = "batch" /\ out.object.entities = list
        BY <2>5
  <2> QED BY <2>2, <2>3, <2>6
<1> QED BY <1>3, <1>4

-----------------------------------------------------------------------------
(* One entity, parsed again and again                                      *)

IsEntity(o) ==
    \/ \E id : IsId(id) /\ o = IdObject(id)
    \/ \E p : IsParams(p) /\ o = ParameterObject(p)
    \/ \E e : IsError(e) /\ o = ErrorObject(e)
    \/ \E m, p, id : IsParams(p) /\ IsId(id) /\ o = RequestOf(m, p, id)
    \/ \E m, p : IsParams(p) /\ o = NotificationOf(m, p)
    \/ \E id, r, e : IsId(id) /\ IsError(e) /\ o = AnswerOf(id, r, e)
    \/ o.class = "batch"

\* What its properties say after a parse of v that made the outcome.
ReadWell(out, v) ==
    /\ IsEntity(out.object)
    /\ out.threw = None =>
         /\ out.object.class = "parameter" => ParamsRead(out.object.params, v)
         /\ out.object.class \in {"request", "notification"} =>
              out.object.method = v.method.text /\ ParamsRead(out.object.params, v.params)
         /\ out.object.class = "id" => IdToJson(out.object.id) = Narrowed(v)
         /\ out.object.class \in {"request", "response"} =>
              IdToJson(out.object.id) = Narrowed(v.id)
         /\ out.object.class = "error" => ErrorRead(out.object.error, v)
    /\ out.object.class = "response" =>
         /\ out.object.result =
              IF Has(v, "id") /\ Readable(v.id) /\ Has(v, "result")
              THEN v.result ELSE JsonNull
         /\ out.object.error # NullError =>
              /\ ~Has(v, "result") /\ Has(v, "error")
              /\ v.error.type = "error" /\ v.error.code.type = "integer"
              /\ out.object.error.code = ToInt(v.error.code.number)
    /\ out.object.class = "request" => NamesRead(out, v)
    /\ out.object.class = "batch" =>
         /\ Len(out.object.entities) = Len(v.items)
         /\ \A i \in 1..Len(v.items) :
              IsRequest(v.items[i]) /\ Readable(v.items[i].id) =>
                  /\ "id" \in DOMAIN out.object.entities[i]
                  /\ IdToJson(out.object.entities[i].id) = Narrowed(v.items[i].id)

EntityInv ==
    /\ IsEntity(object)
    /\ ContentsCurrent
    /\ NoOldAnswer
    /\ ExceptionNamesRequest
    /\ BatchAccounts

LEMMA Classes ==
    /\ \A id : IdObject(id).class = "id" /\ IdObject(id).id = id
    /\ \A p : ParameterObject(p).class = "parameter" /\ ParameterObject(p).params = p
    /\ \A e : ErrorObject(e).class = "error" /\ ErrorObject(e).error = e
    /\ \A m, p, id : RequestOf(m, p, id).class = "request"
    /\ \A m, p : NotificationOf(m, p).class = "notification"
    /\ \A id, r, e : AnswerOf(id, r, e).class = "response"
    BY DEF IdObject, ParameterObject, ErrorObject,
           RequestOf, NotificationOf, AnswerOf

LEMMA Failures == ParseError # None
BY DEF ParseError, None

LEMMA OneParse ==
    ASSUME IsEntity(object), NEW value, object.class = "batch" => value \in BatchValues,
           NEW out \in Parsed(value)
    PROVE  ReadWell(out, value)
<1>1. ASSUME NEW id, IsId(id), object = IdObject(id)
      PROVE  ReadWell(out, value)
  <2>1. object.class = "id" /\ object.id = id
        BY <1>1, Classes
  <2>2. CASE Readable(value)
    <3> DEFINE j == IdParse(id, value)
    <3>1. out = Outcome(IdObject(j), None)
          BY <2>1, <2>2 DEF Parsed
    <3>2. IsId(j) /\ IdToJson(j) = Narrowed(value)
          BY <1>1, <2>2, IdRead
    <3> HIDE DEF j
    <3>3. out.object = IdObject(j) /\ out.object.class = "id" /\ out.object.id = j
          BY <3>1, OutcomeParts, Classes
    <3>4. IsEntity(out.object)
          BY <3>2, <3>3, Zenon DEF IsEntity
    <3> QED BY <3>2, <3>3, <3>4 DEF ReadWell
  <2>3. CASE ~Readable(value)
    <3>1. out = Outcome(object, ParseError)
          BY <2>1, <2>3 DEF Parsed
    <3>2. out.object = object /\ out.threw # None
          BY <3>1, OutcomeParts, Failures
    <3> QED BY <2>1, <3>2 DEF ReadWell
  <2> QED BY <2>2, <2>3
<1>2. ASSUME NEW p, IsParams(p), object = ParameterObject(p)
      PROVE  ReadWell(out, value)
  <2>1. object.class = "parameter" /\ object.params = p
        BY <1>2, Classes
  <2>2. CASE Structured(value)
    <3> DEFINE q == ParameterParse(p, value)
    <3>1. out = Outcome(ParameterObject(q), None)
          BY <2>1, <2>2 DEF Parsed
    <3>2. IsParams(q) /\ ParamsRead(q, value)
          BY <1>2, <2>2, ParamsMade
    <3> HIDE DEF q
    <3>3. /\ out.object = ParameterObject(q)
          /\ out.object.class = "parameter" /\ out.object.params = q
          BY <3>1, OutcomeParts, Classes
    <3>4. IsEntity(out.object)
          BY <3>2, <3>3, Zenon DEF IsEntity
    <3> QED BY <3>2, <3>3, <3>4 DEF ReadWell
  <2>3. CASE ~Structured(value)
    <3>1. out = Outcome(object, ParseError)
          BY <2>1, <2>3 DEF Parsed
    <3>2. out.object = object /\ out.threw # None
          BY <3>1, OutcomeParts, Failures
    <3> QED BY <2>1, <3>2 DEF ReadWell
  <2> QED BY <2>2, <2>3
<1>3. ASSUME NEW e, IsError(e), object = ErrorObject(e)
      PROVE  ReadWell(out, value)
  <2>1. object.class = "error" /\ object.error = e
        BY <1>3, Classes
  <2> DEFINE parsed == ErrorParse(e, value)
  <2>2. out = Outcome(ErrorObject(parsed.object), parsed.threw)
        BY <2>1 DEF Parsed
  <2>3. /\ IsError(parsed.object)
        /\ parsed.threw = None => ErrorRead(parsed.object, value)
        BY <1>3, ErrorMade
  <2> HIDE DEF parsed
  <2>4. /\ out.object = ErrorObject(parsed.object) /\ out.threw = parsed.threw
        /\ out.object.class = "error" /\ out.object.error = parsed.object
        BY <2>2, OutcomeParts, Classes
  <2>5. IsEntity(out.object)
        BY <2>3, <2>4, Zenon DEF IsEntity
  <2> QED BY <2>3, <2>4, <2>5 DEF ReadWell
<1>4. ASSUME NEW m, NEW p, NEW id, IsParams(p), IsId(id), object = RequestOf(m, p, id)
      PROVE  ReadWell(out, value)
  <2>1. out \in RequestParse(RequestOf(m, p, id), value)
        BY <1>4, Classes DEF Parsed
  <2>2. /\ \E n, q, j : IsParams(q) /\ IsId(j) /\ out.object = RequestOf(n, q, j)
        /\ NamesRead(out, value)
        /\ out.threw = None =>
              /\ out.object.method = value.method.text
              /\ ParamsRead(out.object.params, value.params)
              /\ IdToJson(out.object.id) = Narrowed(value.id)
        BY <1>4, <2>1, RequestRead
  <2>3. PICK n, q, j : IsParams(q) /\ IsId(j) /\ out.object = RequestOf(n, q, j)
        BY <2>2
  <2>4. IsEntity(out.object)
        BY <2>3, Zenon DEF IsEntity
  <2>5. out.object.class = "request"
        BY <2>3, Classes
  <2> QED BY <2>2, <2>4, <2>5 DEF ReadWell
<1>5. ASSUME NEW m, NEW p, IsParams(p), object = NotificationOf(m, p)
      PROVE  ReadWell(out, value)
  <2>1. out \in NotificationParse(NotificationOf(m, p), value)
        BY <1>5, Classes DEF Parsed
  <2>2. /\ \E n, q : IsParams(q) /\ out.object = NotificationOf(n, q)
        /\ out.threw = None =>
              /\ out.object.method = value.method.text
              /\ ParamsRead(out.object.params, value.params)
        BY <1>5, <2>1, NotificationRead
  <2>3. PICK n, q : IsParams(q) /\ out.object = NotificationOf(n, q)
        BY <2>2
  <2>4. IsEntity(out.object)
        BY <2>3, Zenon DEF IsEntity
  <2>5. out.object.class = "notification"
        BY <2>3, Classes
  <2> QED BY <2>2, <2>4, <2>5 DEF ReadWell
<1>6. ASSUME NEW id, NEW r, NEW e, IsId(id), IsError(e), object = AnswerOf(id, r, e)
      PROVE  ReadWell(out, value)
  <2>1. out \in ResponseParse(AnswerOf(id, r, e), value)
        BY <1>6, Classes DEF Parsed
  <2>2. /\ \E j, s, f : IsId(j) /\ IsError(f) /\ out.object = AnswerOf(j, s, f)
        /\ out.threw = None => IdToJson(out.object.id) = Narrowed(value.id)
        /\ out.object.result =
              IF Has(value, "id") /\ Readable(value.id) /\ Has(value, "result")
              THEN value.result ELSE JsonNull
        /\ out.object.error # NullError =>
              /\ ~Has(value, "result") /\ Has(value, "error")
              /\ value.error.type = "error" /\ value.error.code.type = "integer"
              /\ out.object.error.code = ToInt(value.error.code.number)
        BY <1>6, <2>1, ResponseRead
  <2>3. PICK j, s, f : IsId(j) /\ IsError(f) /\ out.object = AnswerOf(j, s, f)
        BY <2>2
  <2>4. IsEntity(out.object)
        BY <2>3, Zenon DEF IsEntity
  <2>5. out.object.class = "response"
        BY <2>3, Classes
  <2> QED BY <2>2, <2>4, <2>5 DEF ReadWell
<1>7. ASSUME object.class = "batch"
      PROVE  ReadWell(out, value)
  <2>1. out \in ParserParse(value)
        BY <1>7 DEF Parsed
  <2>2. /\ value.type = "batch" /\ Len(value.items) \in Nat
        /\ DOMAIN value.items = 1..Len(value.items)
        BY <1>7, BatchAssumption
  <2>3. /\ out.object.class = "batch"
        /\ Len(out.object.entities) = Len(value.items)
        /\ \A i \in 1..Len(value.items) :
              \E o \in ItemParse(value.items[i]) : out.object.entities[i] = Kept(o)
        BY <2>1, <2>2, BatchRead
  <2>4. ASSUME NEW i \in 1..Len(value.items),
               IsRequest(value.items[i]), Readable(value.items[i].id)
        PROVE  /\ "id" \in DOMAIN out.object.entities[i]
               /\ IdToJson(out.object.entities[i].id) = Narrowed(value.items[i].id)
    <3>1. PICK o \in ItemParse(value.items[i]) : out.object.entities[i] = Kept(o)
          BY <2>3
    <3> QED BY <2>4, <3>1, KeptNames
  <2>5. IsEntity(out.object)
        BY <2>3 DEF IsEntity
  <2> QED BY <2>3, <2>4, <2>5 DEF ReadWell
<1> QED BY <1>1, <1>2, <1>3, <1>4, <1>5, <1>6, <1>7, Zenon DEF IsEntity

\* What the constructors make, one of each line of EntityConstructed.
LEMMA ConstructedWell == \A o \in Constructed : IsEntity(o)
<1> SUFFICES ASSUME NEW o \in Constructed PROVE IsEntity(o)
    OBVIOUS
<1>1. IsId(NullId)
      BY Shapes DEF NullId, IdOf
<1>2. IsError(NullError) /\ IsError(DefaultError)
      BY Shapes DEF NullError, DefaultError, ErrorOf
<1>3. DefaultRequest = RequestOf("", DefaultParameter, NullId)
      BY DEF DefaultRequest, RequestOf
<1>4. CASE o = DefaultRequest
      BY <1>1, <1>3, <1>4, NoParams, Zenon DEF IsEntity
<1>5. CASE o = [DefaultRequest EXCEPT !.params = NoParameter]
  <2> DEFINE p == DefaultParameter
             q == NoParameter
             id == NullId
             m == ""
  <2>1. o = [RequestOf(m, p, id) EXCEPT !.params = q]
        BY <1>3, <1>5
  <2>2. IsParams(q) /\ IsId(id)
        BY <1>1, NoParams
  <2> HIDE DEF p, q, id, m
  <2>3. o = RequestOf(m, q, id)
        BY <2>1 DEF RequestOf
  <2> QED BY <2>2, <2>3, Zenon DEF IsEntity
<1>6. CASE o = DefaultNotification
  <2>1. DefaultNotification = NotificationOf("", DefaultParameter)
        BY DEF DefaultNotification, NotificationOf
  <2> QED BY <1>6, <2>1, NoParams, Zenon DEF IsEntity
<1>7. CASE o = DefaultResponse
  <2>1. DefaultResponse = AnswerOf(NullId, JsonNull, DefaultError)
        BY DEF DefaultResponse, AnswerOf
  <2> QED BY <1>1, <1>2, <1>7, <2>1, Zenon DEF IsEntity
<1>8. CASE o = ResponseOf(NullId, JsonNull)
  <2>1. o = AnswerOf(NullId, JsonNull, NullError)
        BY <1>8 DEF ResponseOf, AnswerOf
  <2> QED BY <1>1, <1>2, <2>1, Zenon DEF IsEntity
<1>9. CASE o = EmptyBatch
  <2>1. o.class = "batch"
        BY <1>9 DEF EmptyBatch
  <2> QED BY <2>1 DEF IsEntity
<1>10. CASE o = IdObject(NullId)
      BY <1>1, <1>10, Zenon DEF IsEntity
<1>11. CASE o \in {ParameterObject(DefaultParameter), ParameterObject(NoParameter)}
      BY <1>11, NoParams, Zenon DEF IsEntity
<1>12. CASE o \in {ErrorObject(DefaultError), ErrorObject(NullError)}
      BY <1>2, <1>12, Zenon DEF IsEntity
<1> QED BY <1>4, <1>5, <1>6, <1>7, <1>8, <1>9, <1>10, <1>11, <1>12, Zenon DEF Constructed

LEMMA ParseReadsWell == IsEntity(object) /\ Parse => EntityInv'
<1> SUFFICES ASSUME IsEntity(object), Parse PROVE EntityInv'
    OBVIOUS
<1>1. PICK value \in Inputs : \E out \in Parsed(value) :
         object' = out.object /\ json' = value /\ threw' = out.threw
      BY DEF Parse
<1>2. PICK out \in Parsed(value) :
         object' = out.object /\ json' = value /\ threw' = out.threw
      BY <1>1
<1>3. object.class = "batch" => value \in BatchValues
      BY DEF Inputs
<1>4. ReadWell(out, value)
      BY <1>3, OneParse
<1>5. IsEntity(object)'
      BY <1>2, <1>4 DEF ReadWell
<1>6. ContentsCurrent'
      BY <1>2, <1>4 DEF ReadWell, ContentsCurrent, ErrorRead, Fresh
<1>7. NoOldAnswer'
      BY <1>2, <1>4 DEF ReadWell, NoOldAnswer, Fresh
<1>8. ExceptionNamesRequest'
      BY <1>2, <1>4 DEF ReadWell, NamesRead, ExceptionNamesRequest, Fresh
<1>9. BatchAccounts'
      BY <1>2, <1>4 DEF ReadWell, BatchAccounts, Fresh
<1> QED BY <1>5, <1>6, <1>7, <1>8, <1>9 DEF EntityInv

LEMMA EntityInvariant == LifeSpec => []EntityInv
<1>1. LifeInit => EntityInv
  <2> SUFFICES ASSUME LifeInit PROVE EntityInv
      OBVIOUS
  <2>1. IsEntity(object)
        BY ConstructedWell DEF LifeInit
  <2>2. ~Fresh
        BY DEF LifeInit, Fresh
  <2> QED BY <2>1, <2>2 DEF EntityInv, ContentsCurrent, NoOldAnswer,
                            ExceptionNamesRequest, BatchAccounts
<1>2. EntityInv /\ [LifeNext]_lifeVars => EntityInv'
  <2> SUFFICES ASSUME EntityInv, [LifeNext]_lifeVars PROVE EntityInv'
      OBVIOUS
  <2>1. CASE Parse
        BY <2>1, ParseReadsWell DEF EntityInv
  <2>2. CASE ParseMalformed
    <3>1. object' = object /\ ~Fresh'
          BY <2>2 DEF ParseMalformed, Fresh
    <3> QED BY <3>1 DEF EntityInv, ContentsCurrent, NoOldAnswer,
                        ExceptionNamesRequest, BatchAccounts
  <2>3. CASE UNCHANGED lifeVars
        BY <2>3 DEF lifeVars, EntityInv, Fresh, ContentsCurrent, NoOldAnswer,
                    ExceptionNamesRequest, BatchAccounts
  <2> QED BY <2>1, <2>2, <2>3 DEF LifeNext
<1> QED BY <1>1, <1>2, PTL DEF LifeSpec

\* However often an entity is parsed and whatever it was given before, its
\* method, parameters, printed id, and code, message and data of an error are those
\* it was given last; isNull of parameters and errors is left out, for it may be of
\* an earlier parse (jsonrp.cpp:246,342,434).
THEOREM EntityContentsCurrent == LifeSpec => []ContentsCurrent
<1>1. EntityInv => ContentsCurrent
      BY DEF EntityInv
<1> QED BY <1>1, EntityInvariant, PTL

\* A response never shows an answer of an earlier parse, whether or not the
\* last one threw (Response::parse_json).
THEOREM EntityNoOldAnswer == LifeSpec => []NoOldAnswer
<1>1. EntityInv => NoOldAnswer
      BY DEF EntityInv
<1> QED BY <1>1, EntityInvariant, PTL

\* The exception for a request is about that request (Request::parse_json).
THEOREM EntityExceptionNamesRequest == LifeSpec => []ExceptionNamesRequest
<1>1. EntityInv => ExceptionNamesRequest
      BY DEF EntityInv
<1> QED BY <1>1, EntityInvariant, PTL

\* Every element of an array has an entity in its place, that of a request with
\* the id of the request (Batch::parse_json).
THEOREM EntityBatchAccounts == LifeSpec => []BatchAccounts
<1>1. EntityInv => BatchAccounts
      BY DEF EntityInv
<1> QED BY <1>1, EntityInvariant, PTL

-----------------------------------------------------------------------------
(* Induction, from the least counterexample, and recursion                 *)

LEMMA Induction ==
    ASSUME NEW S, 0 \in S, \A n \in Nat : n \in S => n + 1 \in S
    PROVE  Nat \subseteq S
<1> DEFINE T == Nat \ S
           R == {pair \in Nat \X Nat : pair[1] < pair[2]}
<1> SUFFICES ASSUME T # {} PROVE FALSE
    OBVIOUS
<1>1. IsWellFoundedOn(R, Nat)
      BY NatLessThanWellFounded DEF OpToRel
<1>2. PICK x \in T : \A y \in T : ~(<<y, x>> \in R)
  <2>1. T \subseteq Nat
        OBVIOUS
  <2> HIDE DEF T, R
  <2> QED BY <1>1, <2>1, WFMin
<1>3. x # 0 /\ x - 1 \in Nat /\ x \in Nat
      OBVIOUS
<1>4. x - 1 \in S
  <2> SUFFICES ASSUME x - 1 \in T PROVE FALSE
      BY <1>3
  <2>1. <<x - 1, x>> \in R
        BY <1>3
  <2> QED BY <1>2, <2>1
<1>5. (x - 1) + 1 \in S
      BY <1>3, <1>4
<1> QED BY <1>3, <1>5

\* There is a list of values each of which is made from the one before.
Chains(X, base, n, step) ==
    {g \in [0..n -> X] : g[0] = base /\ \A i \in 1..n : g[i] = step[i][g[i - 1]]}

LEMMA Recursion ==
    ASSUME NEW X, NEW base \in X, NEW n \in Nat, NEW step \in [1..n -> [X -> X]]
    PROVE  Chains(X, base, n, step) # {}
<1> DEFINE Made(g, k) == g[0] = base /\ \A i \in 1..k : g[i] = step[i][g[i - 1]]
           S == {k \in Nat : k <= n => \E g \in [0..k -> X] : Made(g, k)}
<1>1. 0 \in S
  <2> DEFINE g == [i \in 0..0 |-> base]
  <2>1. g \in [0..0 -> X] /\ Made(g, 0)
        OBVIOUS
  <2> QED BY <2>1
<1>2. ASSUME NEW k \in Nat, k \in S PROVE k + 1 \in S
  <2> SUFFICES ASSUME k + 1 <= n PROVE \E g \in [0..(k + 1) -> X] : Made(g, k + 1)
      OBVIOUS
  <2>1. PICK g \in [0..k -> X] : Made(g, k)
        BY <1>2
  <2> DEFINE h == [i \in 0..(k + 1) |-> IF i = k + 1 THEN step[k + 1][g[k]] ELSE g[i]]
  <2>2. k \in 0..k /\ k + 1 \in 1..n
        OBVIOUS
  <2>3. step[k + 1][g[k]] \in X
        BY <2>2
  <2>4. h \in [0..(k + 1) -> X]
        BY <2>3
  <2>5. h[0] = base
        BY <2>1
  <2>6. ASSUME NEW i \in 1..(k + 1) PROVE h[i] = step[i][h[i - 1]]
    <3>1. CASE i = k + 1
      <4>1. h[k + 1] = step[k + 1][g[k]] /\ h[k] = g[k] /\ i - 1 = k
            BY <3>1
      <4> QED BY <3>1, <4>1
    <3>2. CASE i # k + 1
      <4>1. i \in 1..k /\ h[i] = g[i] /\ h[i - 1] = g[i - 1]
            BY <3>2
      <4> QED BY <2>1, <4>1
    <3> QED BY <3>1, <3>2
  <2> HIDE DEF h
  <2> QED BY <2>4, <2>5, <2>6
<1>3. n \in S
  <2> HIDE DEF S
  <2> QED BY <1>1, <1>2, Induction
<1> QED BY <1>3 DEF Chains

-----------------------------------------------------------------------------
(* Reading the handler's parameters                                        *)

Types == {"int", "string", "bool"}

\* What may be read of tokens in T.
ReadValues(T) == {Extract(token, type).value : token \in T, type \in Types}
               \cup {Zero(type) : type \in Types}

Streams(T) == [tokens : Seq(T), failed : BOOLEAN, values : Seq(ReadValues(T))]

LEMMA ExtractType ==
    ASSUME NEW token, NEW type \in Types
    PROVE  Extract(token, type).failed \in BOOLEAN
<1>1. \A value : Good(value).failed \in BOOLEAN /\ Failed(value).failed \in BOOLEAN
      BY DEF Good, Failed
<1>2. \E value : Extract(token, type) \in {Good(value), Failed(value)}
  <2> HIDE DEF Good, Failed
  <2>1. CASE type = "string"
        BY <2>1, Zenon DEF Extract
  <2> QED BY DEF Extract, Types
<1> QED BY <1>1, <1>2

LEMMA ReadIntoType ==
    ASSUME NEW T, NEW stream \in Streams(T), NEW type \in Types
    PROVE  ReadInto(stream, type) \in Streams(T)
<1>1. stream.tokens \in Seq(T) /\ stream.values \in Seq(ReadValues(T))
      BY DEF Streams
<1>2. CASE stream.failed \/ stream.tokens = <<>>
  <2>1. Zero(type) \in ReadValues(T)
        BY DEF ReadValues
  <2>2. Append(stream.values, Zero(type)) \in Seq(ReadValues(T))
        BY <1>1, <2>1
  <2> QED BY <1>2, <2>2 DEF ReadInto, Streams
<1>3. CASE ~(stream.failed \/ stream.tokens = <<>>)
  <2> DEFINE read == Extract(Head(stream.tokens), type)
  <2>1. Head(stream.tokens) \in T /\ Tail(stream.tokens) \in Seq(T)
        BY <1>1, <1>3
  <2>2. read.value \in ReadValues(T)
        BY <2>1 DEF ReadValues
  <2>3. read.failed \in BOOLEAN
        BY ExtractType
  <2>4. ReadInto(stream, type)
          = [tokens |-> Tail(stream.tokens), failed |-> read.failed,
             values |-> Append(stream.values, read.value)]
        BY <1>3 DEF ReadInto
  <2> HIDE DEF read
  <2>5. Append(stream.values, read.value) \in Seq(ReadValues(T))
        BY <1>1, <2>2
  <2> QED BY <2>1, <2>3, <2>4, <2>5 DEF Streams
<1> QED BY <1>2, <1>3

LEMMA ReadAllStreams ==
    ASSUME NEW T, NEW tokens \in Seq(T), NEW signature \in Seq(Types)
    PROVE  \E after \in [0..Len(signature) -> Streams(T)] :
              /\ after[0] = Stream(tokens)
              /\ \A i \in 1..Len(signature) : after[i] = ReadInto(after[i - 1], signature[i])
              /\ ReadAll(tokens, signature) = after[Len(signature)]
<1> DEFINE n == Len(signature)
           Follows(f) == f = [i \in 0..n |-> IF i = 0 THEN Stream(tokens)
                                             ELSE ReadInto(f[i - 1], signature[i])]
           after == CHOOSE f : Follows(f)
<1>1. n \in Nat /\ \A i \in 1..n : signature[i] \in Types
      OBVIOUS
<1>2. Stream(tokens) \in Streams(T)
      BY DEF Stream, Streams
<1>3. \E f : Follows(f)
  <2> DEFINE step == [i \in 1..n |-> [s \in Streams(T) |-> ReadInto(s, signature[i])]]
  <2>1. step \in [1..n -> [Streams(T) -> Streams(T)]]
        BY <1>1, ReadIntoType
  <2>2. \A s \in Streams(T), i \in 1..n : step[i][s] = ReadInto(s, signature[i])
        OBVIOUS
  <2> HIDE DEF step, n
  <2>3. PICK g \in [0..n -> Streams(T)] :
           g[0] = Stream(tokens) /\ \A i \in 1..n : g[i] = step[i][g[i - 1]]
    <3>1. Stream(tokens) \in Streams(T) /\ n \in Nat
          BY <1>1, <1>2
    <3> DEFINE X == Streams(T)
               base == Stream(tokens)
    <3> HIDE DEF X, base
    <3>2. base \in X /\ n \in Nat /\ step \in [1..n -> [X -> X]]
          BY <2>1, <3>1 DEF X, base
    <3>3. Chains(X, base, n, step) # {}
          BY ONLY <3>2, Recursion
    <3> QED BY <3>3 DEF Chains, X, base
  <2>4. ASSUME NEW i \in 1..n PROVE g[i] = ReadInto(g[i - 1], signature[i])
    <3>1. i - 1 \in 0..n
          BY <1>1
    <3> QED BY <2>2, <2>3, <3>1
  <2>5. Follows(g)
        BY <1>1, <2>3, <2>4
  <2> QED BY <2>5
<1>4. Follows(after)
  <2> HIDE DEF Follows
  <2> QED BY <1>3
<1>5. ReadAll(tokens, signature) = after[n]
      BY DEF ReadAll
<1> HIDE DEF after, n
<1>6. DOMAIN after = 0..n /\ after = [i \in 0..n |-> after[i]]
      BY <1>4
<1>7. after[0] = Stream(tokens)
      BY <1>1, <1>4
<1>8. \A i \in 1..n : after[i] = ReadInto(after[i - 1], signature[i])
      BY <1>1, <1>4
<1>9. \A i \in 0..n : after[i] \in Streams(T)
  <2> DEFINE S == {k \in Nat : k <= n => after[k] \in Streams(T)}
  <2>1. 0 \in S
        BY <1>2, <1>7
  <2>2. ASSUME NEW k \in Nat, k \in S PROVE k + 1 \in S
    <3> SUFFICES ASSUME k + 1 <= n PROVE after[k + 1] \in Streams(T)
        OBVIOUS
    <3>1. after[k] \in Streams(T) /\ k + 1 \in 1..n /\ (k + 1) - 1 = k
          BY <1>1, <2>2
    <3>2. after[k + 1] = ReadInto(after[k], signature[k + 1])
          BY <1>8, <3>1
    <3> QED BY <1>1, <3>1, <3>2, ReadIntoType
  <2>3. Nat \subseteq S
    <3> HIDE DEF S
    <3> QED BY <2>1, <2>2, Induction
  <2> QED BY <1>1, <2>3
<1> QED BY <1>5, <1>6, <1>7, <1>8, <1>9 DEF n

\* Whether the i-th token can be read as the i-th parameter.
Reads(tokens, signature, i) ==
    i <= Len(tokens) /\ ~Extract(tokens[i], signature[i]).failed

\* What the i-th parameter is.
ReadAt(tokens, signature, i) ==
    IF i <= Len(tokens) /\ \A j \in 1..(i - 1) : Reads(tokens, signature, j)
    THEN Extract(tokens[i], signature[i]).value
    ELSE Zero(signature[i])

\* The stream after k parameters.
ReadSoFar(tokens, signature, stream, k) ==
    /\ Len(stream.values) = k
    /\ \A i \in 1..k : stream.values[i] = ReadAt(tokens, signature, i)
    /\ stream.failed <=> \E i \in 1..k : ~Reads(tokens, signature, i)
    /\ ~stream.failed =>
          /\ Len(stream.tokens) = Len(tokens) - k
          /\ \A i \in 1..(Len(tokens) - k) : stream.tokens[i] = tokens[k + i]

LEMMA ReadOne ==
    ASSUME NEW T, NEW tokens \in Seq(T), NEW signature \in Seq(Types), NEW k \in Nat,
           k + 1 <= Len(signature), NEW stream \in Streams(T),
           ReadSoFar(tokens, signature, stream, k)
    PROVE  ReadSoFar(tokens, signature, ReadInto(stream, signature[k + 1]), k + 1)
<1> DEFINE type == signature[k + 1]
           left == stream.tokens
           done == stream.values
           next == ReadInto(stream, type)
<1>1. /\ left \in Seq(T) /\ done \in Seq(ReadValues(T)) /\ type \in Types
      /\ stream.failed \in BOOLEAN /\ Len(tokens) \in Nat
      BY DEF Streams
<1>2. /\ Len(done) = k
      /\ \A i \in 1..k : done[i] = ReadAt(tokens, signature, i)
      /\ stream.failed <=> \E i \in 1..k : ~Reads(tokens, signature, i)
      /\ ~stream.failed =>
            /\ Len(left) = Len(tokens) - k
            /\ \A i \in 1..(Len(tokens) - k) : left[i] = tokens[k + i]
      BY DEF ReadSoFar
<1>3. \A i \in 1..(k + 1) : i \in 1..k \/ i = k + 1
      OBVIOUS
<1>4. ASSUME NEW value, value \in ReadValues(T), value = ReadAt(tokens, signature, k + 1)
      PROVE  /\ Len(Append(done, value)) = k + 1
             /\ \A i \in 1..(k + 1) : Append(done, value)[i] = ReadAt(tokens, signature, i)
  <2> HIDE DEF done
  <2>1. /\ Len(Append(done, value)) = k + 1 /\ Append(done, value)[k + 1] = value
        /\ \A i \in 1..k : Append(done, value)[i] = done[i]
        BY <1>1, <1>2, <1>4
  <2> QED BY <1>2, <1>3, <1>4, <2>1
<1>5. CASE stream.failed \/ left = <<>>
  <2>1. \E i \in 1..(k + 1) : ~Reads(tokens, signature, i)
    <3>1. CASE stream.failed
          BY <1>2, <3>1
    <3>2. CASE ~stream.failed
      <4>1. Len(tokens) - k = 0
            BY <1>2, <1>5, <3>2
      <4> QED BY <1>1, <4>1 DEF Reads
    <3> QED BY <3>1, <3>2
  <2>2. ~(k + 1 <= Len(tokens) /\ \A j \in 1..k : Reads(tokens, signature, j))
    <3>1. CASE stream.failed
          BY <1>2, <3>1
    <3>2. CASE ~stream.failed
      <4>1. Len(tokens) - k = 0
            BY <1>2, <1>5, <3>2
      <4> QED BY <1>1, <4>1
    <3> QED BY <3>1, <3>2
  <2>3. ReadAt(tokens, signature, k + 1) = Zero(type)
        BY <2>2 DEF ReadAt
  <2>4. Zero(type) \in ReadValues(T)
        BY <1>1 DEF ReadValues
  <2>5. next.values = Append(done, Zero(type)) /\ next.failed = TRUE
        BY <1>5 DEF ReadInto, Streams
  <2> HIDE DEF next, done, left, type
  <2>6. /\ Len(next.values) = k + 1
        /\ \A i \in 1..(k + 1) : next.values[i] = ReadAt(tokens, signature, i)
        BY <1>4, <2>3, <2>4, <2>5
  <2>7. ReadSoFar(tokens, signature, next, k + 1)
        BY <2>1, <2>5, <2>6 DEF ReadSoFar
  <2> QED BY <2>7 DEF next, type
<1>6. CASE ~(stream.failed \/ left = <<>>)
  <2> DEFINE read == Extract(Head(left), type)
  <2>1. Len(left) = Len(tokens) - k /\ Len(left) > 0
        BY <1>1, <1>2, <1>6
  <2>2. Head(left) = tokens[k + 1] /\ k + 1 <= Len(tokens)
        BY <1>1, <1>2, <1>6, <2>1
  <2>3. \A j \in 1..k : Reads(tokens, signature, j)
        BY <1>2, <1>6
  <2>4. ReadAt(tokens, signature, k + 1) = read.value
        BY <2>2, <2>3 DEF ReadAt
  <2>5. read.failed <=> ~Reads(tokens, signature, k + 1)
        BY <2>2 DEF Reads
  <2>6. next = [tokens |-> Tail(left), failed |-> read.failed, values |-> Append(done, read.value)]
        BY <1>6 DEF ReadInto
  <2>7. read.value \in ReadValues(T)
        BY <1>1, <1>6 DEF ReadValues
  <2>8. Head(left) \in T /\ Tail(left) \in Seq(T) /\ Len(Tail(left)) = Len(tokens) - (k + 1)
        BY <1>1, <1>6, <2>1
  <2>9. \A i \in 1..(Len(tokens) - (k + 1)) : Tail(left)[i] = tokens[(k + 1) + i]
    <3> SUFFICES ASSUME NEW i \in 1..(Len(tokens) - (k + 1))
                 PROVE  Tail(left)[i] = tokens[(k + 1) + i]
        OBVIOUS
    <3>1. i + 1 \in 1..(Len(tokens) - k) /\ k + (i + 1) = (k + 1) + i
          BY <1>1
    <3>2. left[i + 1] = tokens[k + (i + 1)]
          BY <1>2, <1>6, <3>1
    <3> HIDE DEF left
    <3>3. Tail(left)[i] = left[i + 1]
          BY <1>1, <1>6, <2>1, <3>1
    <3> QED BY <3>1, <3>2, <3>3
  <2> HIDE DEF next, done, left, type, read
  <2>10. next.tokens = Tail(left) /\ next.failed = read.failed
         /\ next.values = Append(done, read.value)
         BY <2>6
  <2>11. next.failed <=> \E i \in 1..(k + 1) : ~Reads(tokens, signature, i)
         BY <1>3, <2>3, <2>5, <2>10
  <2>12. /\ Len(next.values) = k + 1
         /\ \A i \in 1..(k + 1) : next.values[i] = ReadAt(tokens, signature, i)
         BY <1>4, <2>4, <2>7, <2>10
  <2>13. /\ Len(next.tokens) = Len(tokens) - (k + 1)
         /\ \A i \in 1..(Len(tokens) - (k + 1)) : next.tokens[i] = tokens[(k + 1) + i]
         BY <2>8, <2>9, <2>10
  <2>14. ReadSoFar(tokens, signature, next, k + 1)
         BY <2>11, <2>12, <2>13 DEF ReadSoFar
  <2> QED BY <2>14 DEF next, type
<1> QED BY <1>5, <1>6

LEMMA ReadArgumentsAt ==
    ASSUME NEW T, NEW tokens \in Seq(T), NEW signature \in Seq(Types)
    PROVE  /\ Len(ReadArguments(tokens, signature)) = Len(signature)
           /\ \A i \in 1..Len(signature) :
                 ReadArguments(tokens, signature)[i] = ReadAt(tokens, signature, i)
<1> DEFINE n == Len(signature)
<1>1. n \in Nat
      OBVIOUS
<1>2. PICK after \in [0..n -> Streams(T)] :
              /\ after[0] = Stream(tokens)
              /\ \A i \in 1..n : after[i] = ReadInto(after[i - 1], signature[i])
              /\ ReadAll(tokens, signature) = after[n]
      BY ReadAllStreams
<1> DEFINE S == {k \in Nat : k <= n => ReadSoFar(tokens, signature, after[k], k)}
<1> HIDE DEF n
<1>3. 0 \in S
  <2>1. /\ Stream(tokens).tokens = tokens /\ Stream(tokens).values = <<>>
        /\ ~Stream(tokens).failed /\ Len(tokens) \in Nat
        BY DEF Stream
  <2>2. ReadSoFar(tokens, signature, Stream(tokens), 0)
        BY <2>1 DEF ReadSoFar
  <2> QED BY <1>2, <2>2
<1>4. ASSUME NEW k \in Nat, k \in S PROVE k + 1 \in S
  <2> SUFFICES ASSUME k + 1 <= n PROVE ReadSoFar(tokens, signature, after[k + 1], k + 1)
      OBVIOUS
  <2>1. k \in 0..n /\ k + 1 \in 1..n /\ (k + 1) - 1 = k
        BY <1>1
  <2>2. after[k] \in Streams(T) /\ ReadSoFar(tokens, signature, after[k], k)
        BY <1>1, <1>4, <2>1
  <2>3. after[k + 1] = ReadInto(after[k], signature[k + 1])
        BY <1>2, <2>1
  <2>4. k + 1 <= Len(signature)
        BY DEF n
  <2>5. ReadSoFar(tokens, signature, ReadInto(after[k], signature[k + 1]), k + 1)
    <3> HIDE DEF S
    <3> QED BY <2>2, <2>4, ReadOne
  <2> QED BY <2>3, <2>5
<1>5. n \in S
  <2> HIDE DEF S
  <2> QED BY <1>1, <1>3, <1>4, Induction
<1>6. ReadSoFar(tokens, signature, after[n], n)
      BY <1>1, <1>5
<1>7. ReadArguments(tokens, signature) = after[n].values
      BY <1>2 DEF ReadArguments
<1> QED BY <1>6, <1>7 DEF ReadSoFar, n

-----------------------------------------------------------------------------
(* Writing the arguments                                                   *)

LEMMA Flatten ==
    ASSUME NEW T, NEW seqs \in Seq(Seq(T)), seqs # <<>>
    PROVE  \E flat \in [1..Len(seqs) -> Seq(T)] :
              /\ flat[1] = seqs[1]
              /\ \A i \in 2..Len(seqs) : flat[i] = flat[i - 1] \o seqs[i]
              /\ FlattenSeq(seqs) = flat[Len(seqs)]
<1> DEFINE n == Len(seqs)
           Follows(f) == f = [i \in 1..n |-> IF i = 1 THEN seqs[i] ELSE f[i - 1] \o seqs[i]]
           flat == CHOOSE f : Follows(f)
           X == Seq(T)
           step == [i \in 1..(n - 1) |-> [s \in X |-> s \o seqs[i + 1]]]
<1>1. n \in Nat /\ n > 0 /\ \A i \in 1..n : seqs[i] \in X
      OBVIOUS
<1>2. FlattenSeq(seqs) = flat[n]
      BY DEF FlattenSeq
<1> HIDE DEF n
<1>3. step \in [1..(n - 1) -> [X -> X]]
  <2>1. ASSUME NEW i \in 1..(n - 1), NEW s \in X PROVE s \o seqs[i + 1] \in X
        BY <1>1
  <2> HIDE DEF X
  <2> QED BY <2>1
<1>4. \A i \in 1..(n - 1), s \in X : step[i][s] = s \o seqs[i + 1]
  <2> HIDE DEF X
  <2> QED OBVIOUS
<1>5. PICK g \in [0..(n - 1) -> X] :
           /\ g[0] = seqs[1]
           /\ \A i \in 1..(n - 1) : g[i] = step[i][g[i - 1]]
  <2> HIDE DEF step, X
  <2> DEFINE m == n - 1
             base == seqs[1]
  <2>1. m \in Nat /\ base \in X
        BY <1>1
  <2>2. step \in [1..m -> [X -> X]]
        BY <1>3
  <2> HIDE DEF m, base
  <2>3. Chains(X, base, m, step) # {}
        BY ONLY <2>1, <2>2, Recursion
  <2> QED BY <2>3 DEF Chains, m, base
<1> HIDE DEF X
<1> DEFINE f == [i \in 1..n |-> g[i - 1]]
<1>6. f \in [1..n -> X] /\ f[1] = seqs[1]
      BY <1>1, <1>5
<1>7. \A i \in 2..n : f[i] = f[i - 1] \o seqs[i]
  <2> SUFFICES ASSUME NEW i \in 2..n PROVE f[i] = f[i - 1] \o seqs[i]
      OBVIOUS
  <2>1. i - 1 \in 1..(n - 1) /\ (i - 1) - 1 \in 0..(n - 1) /\ (i - 1) + 1 = i /\ i \in 1..n /\ i - 1 \in 1..n
        BY <1>1
  <2>2. f[i] = g[i - 1] /\ f[i - 1] = g[(i - 1) - 1]
        BY <2>1
  <2>3. g[i - 1] = step[i - 1][g[(i - 1) - 1]] /\ g[(i - 1) - 1] \in X
        BY <1>5, <2>1
  <2> HIDE DEF f, step
  <2> QED BY <1>4, <2>1, <2>2, <2>3
<1>8. Follows(f)
  <2> HIDE DEF f
  <2>1. f = [i \in 1..n |-> f[i]]
        BY <1>6
  <2>2. \A i \in 1..n : f[i] = IF i = 1 THEN seqs[i] ELSE f[i - 1] \o seqs[i]
    <3> SUFFICES ASSUME NEW i \in 1..n
                 PROVE  f[i] = IF i = 1 THEN seqs[i] ELSE f[i - 1] \o seqs[i]
        OBVIOUS
    <3>1. CASE i = 1
          BY <1>6, <3>1
    <3>2. CASE i # 1
      <4>1. i \in 2..n
            BY <1>1, <3>2
      <4> QED BY <1>7, <3>2, <4>1
    <3> QED BY <3>1, <3>2
  <2> QED BY <2>1, <2>2
<1> HIDE DEF f
<1>9. Follows(flat)
  <2> HIDE DEF Follows
  <2> QED BY <1>8
\* Any such function is f.
<1>10. flat = f
  <2> HIDE DEF flat
  <2> DEFINE S == {k \in Nat : k + 1 <= n => flat[k + 1] = f[k + 1]}
  <2>1. 0 \in S
        BY <1>1, <1>6, <1>9
  <2>2. ASSUME NEW k \in Nat, k \in S PROVE k + 1 \in S
    <3> SUFFICES ASSUME (k + 1) + 1 <= n PROVE flat[(k + 1) + 1] = f[(k + 1) + 1]
        OBVIOUS
    <3>1. (k + 1) + 1 \in 2..n /\ (k + 1) + 1 \in 1..n /\ ((k + 1) + 1) - 1 = k + 1 /\ (k + 1) + 1 # 1
          BY <1>1
    <3>2. flat[(k + 1) + 1] = flat[k + 1] \o seqs[(k + 1) + 1]
          BY <1>9, <3>1
    <3>3. f[(k + 1) + 1] = f[k + 1] \o seqs[(k + 1) + 1]
          BY <1>7, <3>1
    <3>4. flat[k + 1] = f[k + 1]
          BY <1>1, <2>2, <3>1
    <3> QED BY <3>2, <3>3, <3>4
  <2>3. Nat \subseteq S
    <3> HIDE DEF S
    <3> QED BY <2>1, <2>2, Induction
  <2>4. \A i \in 1..n : flat[i] = f[i]
    <3> SUFFICES ASSUME NEW i \in 1..n PROVE flat[i] = f[i]
        OBVIOUS
    <3>1. i - 1 \in Nat /\ (i - 1) + 1 = i
          BY <1>1
    <3> QED BY <1>1, <2>3, <3>1
  <2>5. flat = [i \in 1..n |-> flat[i]] /\ f = [i \in 1..n |-> f[i]]
        BY <1>6, <1>9
  <2> HIDE DEF Follows
  <2> QED BY <2>4, <2>5
<1> QED BY <1>2, <1>6, <1>7, <1>10 DEF n, X

LEMMA FlattenType ==
    ASSUME NEW T, NEW seqs \in Seq(Seq(T))
    PROVE  FlattenSeq(seqs) \in Seq(T)
<1>1. CASE seqs = <<>>
      BY <1>1 DEF FlattenSeq
<1>2. CASE seqs # <<>>
  <2>1. PICK flat \in [1..Len(seqs) -> Seq(T)] : FlattenSeq(seqs) = flat[Len(seqs)]
        BY <1>2, Flatten
  <2>2. Len(seqs) \in 1..Len(seqs)
        BY <1>2
  <2> QED BY <2>1, <2>2
<1> QED BY <1>1, <1>2

LEMMA OneMore ==
    ASSUME NEW T, NEW s \in Seq(T), NEW x \in T
    PROVE  /\ Len(s \o <<x>>) = Len(s) + 1
           /\ (s \o <<x>>)[Len(s) + 1] = x
           /\ \A i \in 1..Len(s) : (s \o <<x>>)[i] = s[i]
<1>1. <<x>> \in Seq(T) /\ Len(<<x>>) = 1 /\ <<x>>[1] = x /\ Len(s) \in Nat
      OBVIOUS
<1> DEFINE one == <<x>>
<1> HIDE DEF one
<1>2. /\ Len(s \o one) = Len(s) + Len(one)
      /\ \A i \in 1..(Len(s) + Len(one)) :
            (s \o one)[i] = IF i <= Len(s) THEN s[i] ELSE one[i - Len(s)]
      BY <1>1, ConcatProperties DEF one
<1>3. (s \o one)[Len(s) + 1] = one[1]
      BY <1>1, <1>2 DEF one
<1> QED BY <1>1, <1>2, <1>3 DEF one

LEMMA FlattenSingles ==
    ASSUME NEW T, NEW values \in Seq(T)
    PROVE  FlattenSeq([i \in 1..Len(values) |-> <<values[i]>>]) = values
<1> DEFINE n == Len(values)
           seqs == [i \in 1..n |-> <<values[i]>>]
<1>1. n \in Nat /\ \A i \in 1..n : values[i] \in T
      OBVIOUS
<1>2. seqs \in Seq(Seq(T)) /\ Len(seqs) = n /\ \A i \in 1..n : seqs[i] = <<values[i]>>
  <2> HIDE DEF n
  <2>1. \A i \in 1..n : <<values[i]>> \in Seq(T)
        BY <1>1
  <2>2. seqs \in [1..n -> Seq(T)]
        BY <2>1
  <2> QED BY <1>1, <2>2
<1>3. CASE values = <<>>
  <2>1. seqs = <<>>
        BY <1>3
  <2> HIDE DEF seqs
  <2> QED BY <1>3, <2>1 DEF FlattenSeq, seqs
<1>4. CASE values # <<>>
  <2>1. n > 0
        BY <1>4
  <2> HIDE DEF n, seqs
  <2>2. seqs # <<>>
        BY <1>2, <2>1
  <2>3. PICK flat \in [1..Len(seqs) -> Seq(T)] :
              /\ flat[1] = seqs[1]
              /\ \A i \in 2..Len(seqs) : flat[i] = flat[i - 1] \o seqs[i]
              /\ FlattenSeq(seqs) = flat[Len(seqs)]
        BY <1>2, <2>2, Flatten
  <2>4. flat \in [1..n -> Seq(T)] /\ FlattenSeq(seqs) = flat[n] /\ flat[1] = <<values[1]>>
        BY <1>1, <1>2, <2>1, <2>3
  <2>5. \A i \in 2..n : flat[i] = flat[i - 1] \o <<values[i]>>
    <3> SUFFICES ASSUME NEW i \in 2..n PROVE flat[i] = flat[i - 1] \o <<values[i]>>
        OBVIOUS
    <3>1. i \in 2..Len(seqs) /\ i \in 1..n
          BY <1>1, <1>2
    <3>2. flat[i] = flat[i - 1] \o seqs[i] /\ seqs[i] = <<values[i]>>
          BY <1>2, <2>3, <3>1
    <3> QED BY <3>2
  <2> DEFINE FlatTo(k) == Len(flat[k]) = k /\ \A i \in 1..k : flat[k][i] = values[i]
             S == {k \in Nat : k + 1 <= n => FlatTo(k + 1)}
  <2>6. 0 \in S
    <3>1. Len(flat[1]) = 1 /\ flat[1][1] = values[1]
          BY <2>4
    <3>2. \A i \in 1..1 : i = 1
          OBVIOUS
    <3>3. FlatTo(1)
          BY <3>1, <3>2
    <3> QED BY <3>3
  <2>7. ASSUME NEW k \in Nat, k \in S PROVE k + 1 \in S
    <3> SUFFICES ASSUME (k + 1) + 1 <= n PROVE FlatTo((k + 1) + 1)
        OBVIOUS
    <3> DEFINE m == k + 1
    <3>1. m \in 1..n /\ m + 1 \in 2..n /\ (m + 1) - 1 = m /\ m \in Nat
          BY <1>1
    <3>2. flat[m] \in Seq(T) /\ FlatTo(m)
          BY <1>1, <2>4, <2>7, <3>1
    <3>3. flat[m + 1] = flat[m] \o <<values[m + 1]>> /\ values[m + 1] \in T
          BY <1>1, <2>5, <3>1
    <3> HIDE DEF m
    <3>4. /\ Len(flat[m + 1]) = m + 1 /\ flat[m + 1][m + 1] = values[m + 1]
          /\ \A i \in 1..m : flat[m + 1][i] = flat[m][i]
      <4> DEFINE s == flat[m]
                 x == values[m + 1]
      <4>1. s \in Seq(T) /\ x \in T /\ Len(s) = m /\ flat[m + 1] = s \o <<x>>
            BY <3>2, <3>3
      <4> HIDE DEF s, x
      <4>2. /\ Len(s \o <<x>>) = Len(s) + 1
            /\ (s \o <<x>>)[Len(s) + 1] = x
            /\ \A i \in 1..Len(s) : (s \o <<x>>)[i] = s[i]
            BY <4>1, OneMore
      <4> QED BY <4>1, <4>2 DEF s, x
    <3>5. ASSUME NEW i \in 1..(m + 1) PROVE flat[m + 1][i] = values[i]
      <4>1. CASE i = m + 1
            BY <3>4, <4>1
      <4>2. CASE i # m + 1
        <5>1. i \in 1..m
              BY <3>1, <4>2
        <5> QED BY <3>2, <3>4, <5>1
      <4> QED BY <4>1, <4>2
    <3> QED BY <3>4, <3>5 DEF m
  <2>8. Nat \subseteq S
    <3> HIDE DEF S
    <3> QED BY <2>6, <2>7, Induction
  <2>9. FlatTo(n)
    <3>1. n - 1 \in Nat /\ (n - 1) + 1 = n
          BY <1>1, <2>1
    <3> QED BY <2>8, <3>1
  <2>10. flat[n] \in Seq(T)
         BY <1>1, <2>1, <2>4
  <2>11. \A s, t \in Seq(T) : Len(s) = Len(t) /\ (\A i \in 1..Len(s) : s[i] = t[i]) => s = t
         BY SeqEqual
  <2>12. flat[n] = values
    <3>1. Len(flat[n]) = Len(values) /\ \A i \in 1..Len(flat[n]) : flat[n][i] = values[i]
          BY <2>9 DEF n
    <3> QED BY <2>10, <2>11, <3>1
  <2> QED BY <2>4, <2>12 DEF seqs, n
<1> QED BY <1>3, <1>4

-----------------------------------------------------------------------------
(* The names in their order                                                *)

Rising(list, n) == \A i, j \in 1..n : i < j => list[i] < list[j]

Lists(names, n) == {list \in [1..n -> names] : Rising(list, n)}

LEMMA Least ==
    ASSUME NEW names \in SUBSET Nat, names # {}
    PROVE  \E x \in names : \A y \in names : x <= y
<1> DEFINE R == {pair \in Nat \X Nat : pair[1] < pair[2]}
<1>1. IsWellFoundedOn(R, Nat)
      BY NatLessThanWellFounded DEF OpToRel
<1>2. PICK x \in names : \A y \in names : ~(<<y, x>> \in R)
  <2> HIDE DEF R
  <2> QED BY <1>1, WFMin
<1>3. ASSUME NEW y \in names PROVE x <= y
  <2>1. <<y, x>> \notin R
        BY <1>2
  <2> QED BY <2>1
<1> QED BY <1>3

LEMMA ListsExist ==
    ASSUME NEW names \in SUBSET Nat, IsFiniteSet(names)
    PROVE  Lists(names, Cardinality(names)) # {}
<1> DEFINE S == {n \in Nat : \A set \in SUBSET Nat :
                    IsFiniteSet(set) /\ Cardinality(set) = n => Lists(set, n) # {}}
<1>1. 0 \in S
  <2> SUFFICES ASSUME NEW set \in SUBSET Nat, IsFiniteSet(set), Cardinality(set) = 0
               PROVE  Lists(set, 0) # {}
      OBVIOUS
  <2>1. [i \in 1..0 |-> 0] \in Lists(set, 0)
    <3>1. 1..0 = {}
          OBVIOUS
    <3> QED BY <3>1 DEF Lists, Rising
  <2> QED BY <2>1
<1>2. ASSUME NEW n \in Nat, n \in S PROVE n + 1 \in S
  <2> SUFFICES ASSUME NEW set \in SUBSET Nat, IsFiniteSet(set), Cardinality(set) = n + 1
               PROVE  Lists(set, n + 1) # {}
      OBVIOUS
  <2>1. set # {}
        BY FS_EmptySet
  <2>2. PICK x \in set : \A y \in set : x <= y
        BY <2>1, Least
  <2> DEFINE rest == set \ {x}
  <2>3. IsFiniteSet(rest) /\ Cardinality(rest) = n
    <3>1. /\ IsFiniteSet(set \ {x})
          /\ Cardinality(set \ {x}) = IF x \in set THEN Cardinality(set) - 1 ELSE Cardinality(set)
          BY FS_RemoveElement
    <3> QED BY <3>1
  <2>4. rest \in SUBSET Nat /\ \A y \in rest : x < y
        BY <2>2
  <2>5. PICK list : list \in Lists(rest, n)
        BY <1>2, <2>3, <2>4
  <2>6. list \in [1..n -> rest] /\ Rising(list, n)
        BY <2>5 DEF Lists
  <2> DEFINE longer == [i \in 1..(n + 1) |-> IF i = 1 THEN x ELSE list[i - 1]]
  <2>7. \A i \in 1..(n + 1) : i # 1 => i - 1 \in 1..n
        OBVIOUS
  <2>8. longer \in [1..(n + 1) -> set]
        BY <2>6, <2>7
  <2>9. Rising(longer, n + 1)
    <3> SUFFICES ASSUME NEW i \in 1..(n + 1), NEW j \in 1..(n + 1), i < j
                 PROVE  longer[i] < longer[j]
        BY DEF Rising
    <3>1. j # 1 /\ longer[j] = list[j - 1] /\ list[j - 1] \in rest
          BY <2>6, <2>7
    <3>2. CASE i = 1
          BY <2>4, <3>1, <3>2
    <3>3. CASE i # 1
      <4>1. longer[i] = list[i - 1] /\ i - 1 \in 1..n /\ j - 1 \in 1..n /\ i - 1 < j - 1
            BY <2>7, <3>1, <3>3
      <4> HIDE DEF longer
      <4> QED BY <2>6, <3>1, <4>1 DEF Rising
    <3> QED BY <3>2, <3>3
  <2>10. longer \in Lists(set, n + 1)
    <3> HIDE DEF longer
    <3> QED BY <2>8, <2>9 DEF Lists
  <2> QED BY <2>10
<1>3. Nat \subseteq S
  <2> HIDE DEF S
  <2> QED BY <1>1, <1>2, Induction
<1>4. Cardinality(names) \in S
  <2> HIDE DEF S
  <2> QED BY <1>3, FS_CardinalityType
<1> QED BY <1>4

\* The names in their order make a list as long as there are names.
LEMMA InOrderLists ==
    ASSUME NEW names \in SUBSET Nat, IsFiniteSet(names)
    PROVE  /\ Cardinality(names) \in Nat
           /\ InOrder(names) \in [1..Cardinality(names) -> names]
<1> DEFINE c == Cardinality(names)
           list == InOrder(names)
<1>1. c \in Nat
      BY FS_CardinalityType
<1>2. list = CHOOSE l \in [1..c -> names] : \A i, j \in 1..c : i < j => l[i] < l[j]
      BY DEF InOrder
<1> HIDE DEF c, list
<1>3. \E l \in [1..c -> names] : \A i, j \in 1..c : i < j => l[i] < l[j]
  <2>1. Lists(names, c) # {}
        BY ListsExist DEF c
  <2>2. PICK l : l \in Lists(names, c)
        BY <2>1
  <2> QED BY <2>2 DEF Lists, Rising
<1>4. list \in [1..c -> names]
      BY <1>2, <1>3
<1> QED BY <1>1, <1>4 DEF c, list

-----------------------------------------------------------------------------
(* What the handler is given                                               *)

Tokens == UNION {Range(Dump(value)) : value \in Arguments}

LEMMA DumpType ==
    ASSUME NEW value \in Arguments
    PROVE  Dump(value) \in Seq(Tokens)
<1>1. \A s : Range(s) = {s[i] : i \in DOMAIN s}
      BY DEF Range
<1> SUFFICES Dump(value) \in Seq(Range(Dump(value)))
  <2>1. Range(Dump(value)) \subseteq Tokens
        BY DEF Tokens
  <2> HIDE DEF Tokens
  <2> DEFINE R == Range(Dump(value))
             d == Dump(value)
  <2> SUFFICES ASSUME d \in Seq(R), R \subseteq Tokens PROVE d \in Seq(Tokens)
      BY <2>1
  <2> HIDE DEF d, R
  <2> QED OBVIOUS
<1>2. \A x : <<x>> \in Seq(Range(<<x>>))
  <2> TAKE x
  <2>1. x \in Range(<<x>>)
        BY <1>1
  <2> QED BY <2>1
<1>3. CASE value = Text(<<>>)
  <2>1. \E x : Dump(value) = <<x>>
        BY <1>3 DEF Dump
  <2> QED BY <1>2, <2>1
<1>4. CASE value # Text(<<>>) /\ value.type = "string"
  <2> DEFINE n == Len(value.words)
             word(i) == [value.words[i] EXCEPT !.open = (i = 1), !.close = (i = n)]
             d == [i \in 1..n |-> word(i)]
  <2>1. Dump(value) = d
        BY <1>4 DEF Dump
  <2>2. value.words \in Seq(Range(value.words))
    <3>1. value.type # "int" /\ value.type # "bool"
          BY <1>4
    <3> QED BY <3>1, ArgumentsAssumption
  <2>3. n \in Nat
        BY <2>2
  <2>4. Range(d) = {word(i) : i \in 1..n}
    <3> HIDE DEF n, word
    <3>1. DOMAIN d = 1..n /\ \A i \in 1..n : d[i] = word(i)
          OBVIOUS
    <3> HIDE DEF d
    <3> QED BY <1>1, <3>1
  <2>5. d \in Seq(Range(d))
    <3> HIDE DEF n, word
    <3>1. d \in [1..n -> Range(d)]
          BY <2>4
    <3> HIDE DEF d
    <3> QED BY <2>3, <3>1
  <2> HIDE DEF d
  <2> QED BY <2>1, <2>5
<1>5. CASE value # Text(<<>>) /\ value.type # "string"
  <2>1. Dump(value) = <<value>>
        BY <1>5 DEF Dump
  <2> QED BY <1>2, <2>1
<1> QED BY <1>3, <1>4, <1>5

\* The arguments of the call as they are written into its text.
Values == Written(Parameters)

\* What was passed by place is what the parameters say.
PlacesOK ==
    /\ params.type = "null" => passed = <<>>
    /\ params.type = "array" => passed = params.says

ParamsOK ==
    \/ params = JsonNull
    \/ params = JsonArray(params.says) /\ params.says \in Seq(Arguments)
    \/ /\ params = JsonMap(params.says)
       /\ DOMAIN params.says \in SUBSET Names
       /\ IsFiniteSet(DOMAIN params.says)
       /\ params.says \in [DOMAIN params.says -> Arguments]

\* The call that is on its way, and what it has come to.
CallOK ==
    /\ \A name \in DOMAIN handlers : handlers[name] \in Signatures
    /\ ParamsOK
    /\ PlacesOK
    /\ stage = "building" => given = NotCalled
    /\ Called =>
         /\ method \in DOMAIN handlers
         /\ Structured(params)
         /\ given = Call(ReadArguments(Serialization(Parameters), handlers[method]))

\* The types of the three kinds of parameters.
LEMMA ParamsKinds ==
    /\ JsonNull.type = "null"
    /\ \A says : JsonArray(says).type = "array" /\ JsonArray(says).says = says
    /\ \A says : JsonMap(says).type = "map" /\ JsonMap(says).says = says
    /\ \A says : JsonArray(says) # JsonOther /\ JsonMap(says) # JsonOther
BY DEF JsonNull, JsonArray, JsonMap, JsonOther

\* The arguments as they are written: the array, or the values of the names in
\* their order.
LEMMA WrittenValues ==
    ASSUME NEW blank \in {NoParameter, DefaultParameter}, NEW doc
    PROVE  /\ doc.type = "array" => Written(ParameterParse(blank, doc)) = doc.says
           /\ doc.type = "map" =>
                 Written(ParameterParse(blank, doc))
                    = [i \in 1..Len(InOrder(DOMAIN doc.says)) |->
                         doc.says[InOrder(DOMAIN doc.says)[i]]]
<1> DEFINE parsed == ParameterParse(blank, doc)
<1>1. CASE doc.type = "array"
  <2>1. parsed.type = "array" /\ parsed.array = doc.says
        BY <1>1 DEF ParameterParse, NoParameter, DefaultParameter
  <2> HIDE DEF parsed
  <2>2. Written(parsed) = parsed.array
        BY <2>1 DEF Written
  <2> QED BY <1>1, <2>1, <2>2 DEF parsed
<1>2. CASE doc.type = "map"
  <2>1. parsed.type = "map" /\ parsed.map = doc.says
        BY <1>2 DEF ParameterParse, NoParameter, DefaultParameter
  <2> HIDE DEF parsed
  <2>2. Written(parsed)
          = [i \in 1..Len(InOrder(DOMAIN parsed.map)) |-> parsed.map[InOrder(DOMAIN parsed.map)[i]]]
        BY <2>1 DEF Written
  <2> QED BY <1>2, <2>1, <2>2 DEF parsed
<1> QED BY <1>1, <1>2

\* The server reads the method and the parameters of the text that was sent.
LEMMA RequestKeepsCall ==
    ASSUME NEW k, NEW m, NEW p, p # Absent,
           NEW parsed \in MessageParse(Message(JsonInteger(k), JsonString(m), p, Absent, Absent)),
           parsed.threw = None
    PROVE  /\ parsed.object.method = m
           /\ Structured(p)
           /\ parsed.object.params = ParameterParse(DefaultParameter, p)
<1> DEFINE said == Message(JsonInteger(k), JsonString(m), p, Absent, Absent)
<1>1. /\ said.id = JsonInteger(k) /\ said.method = JsonString(m) /\ said.type = "message"
      /\ said.params = p
      BY DEF Message
<1>2. /\ IsRequest(said) /\ ~IsNotification(said) /\ ~IsResponse(said)
      /\ Has(said, "id") /\ Readable(said.id) /\ said.method.text = m
      BY <1>1 DEF IsRequest, IsNotification, IsResponse, Has, Readable, JsonInteger, JsonString, Absent
<1>3. MessageParse(said) = RequestParse(DefaultRequest, said)
      BY <1>2 DEF MessageParse
<1> DEFINE nameless == ""
<1>4. DefaultRequest = RequestOf(nameless, DefaultParameter, NullId)
      BY DEF DefaultRequest, RequestOf
<1> HIDE DEF said, nameless
<1>5. PICK id \in IdFrom(JsonInteger(k)) :
         parsed = BodyParse([RequestOf(nameless, DefaultParameter, NullId) EXCEPT !.id = id], said,
                            RequestException("invalid request", id),
                            RequestException("internal error", id))
      BY <1>1, <1>2, <1>3, <1>4 DEF RequestParse, said
<1> DEFINE invalid == RequestException("invalid request", id)
           unfit == RequestException("internal error", id)
<1>6. invalid # None /\ unfit # None
      BY ExceptionFields, Zenon
<1>7. [RequestOf(nameless, DefaultParameter, NullId) EXCEPT !.id = id]
        = MethodOf("request", nameless, DefaultParameter, id)
      BY RequestFields DEF MethodOf
<1>8. parsed = BodyParse(MethodOf("request", nameless, DefaultParameter, id), said, invalid, unfit)
      BY <1>5, <1>7
<1>9. IsParams(DefaultParameter)
      BY NoParams
<1> HIDE DEF invalid, unfit
<1>10. /\ parsed.object.method = said.method.text
       /\ \/ said.params = Absent
          \/ /\ Structured(said.params)
             /\ parsed.object.params = ParameterParse(DefaultParameter, said.params)
       BY <1>6, <1>8, <1>9, MethodBody
<1> QED BY <1>1, <1>2, <1>10

\* What is passed is put behind an array or under its name.
LEMMA PassKeepsParams == ParamsOK /\ PassArgument => ParamsOK'
<1> SUFFICES ASSUME ParamsOK, PassArgument PROVE ParamsOK'
    OBVIOUS
<1> DEFINE Well(p) ==
        \/ p = JsonNull
        \/ p = JsonArray(p.says) /\ p.says \in Seq(Arguments)
        \/ /\ p = JsonMap(p.says)
           /\ DOMAIN p.says \in SUBSET Names
           /\ IsFiniteSet(DOMAIN p.says)
           /\ p.says \in [DOMAIN p.says -> Arguments]
<1>1. ASSUME NEW list \in Seq(Arguments) PROVE Well(JsonArray(list))
      BY ParamsKinds
<1>2. ASSUME NEW set \in SUBSET Names, IsFiniteSet(set), NEW map \in [set -> Arguments]
      PROVE  Well(JsonMap(map))
  <2>1. JsonMap(map).says = map /\ DOMAIN map = set
        BY ParamsKinds
  <2> QED BY <1>2, <2>1
<1>3. Well(params)
      BY DEF ParamsOK
<1>4. \/ params = JsonNull /\ params.type = "null"
      \/ params.type = "array" /\ params.says \in Seq(Arguments)
      \/ /\ params.type = "map"
         /\ DOMAIN params.says \in SUBSET Names
         /\ IsFiniteSet(DOMAIN params.says)
         /\ params.says \in [DOMAIN params.says -> Arguments]
      BY <1>3, ParamsKinds, Zenon
<1> SUFFICES Well(params')
    BY DEF ParamsOK
<1> HIDE DEF Well
<1>5. ASSUME NEW value \in Arguments PROVE Well(Pushed(value)) \/ Pushed(value) = JsonOther
  <2>1. CASE params.type = "null"
    <3>1. <<value>> \in Seq(Arguments)
          OBVIOUS
    <3>2. Pushed(value) = JsonArray(<<value>>)
          BY <2>1 DEF Pushed
    <3> QED BY <1>1, <3>1, <3>2
  <2>2. CASE params.type = "array"
    <3>1. Append(params.says, value) \in Seq(Arguments)
          BY <1>4, <2>2
    <3>2. Pushed(value) = JsonArray(Append(params.says, value))
          BY <2>2 DEF Pushed
    <3> QED BY <1>1, <3>1, <3>2
  <2>3. CASE params.type = "map"
        BY <2>3 DEF Pushed
  <2> QED BY <1>4, <2>1, <2>2, <2>3
<1>6. ASSUME NEW name \in Names, NEW value \in Arguments
      PROVE  Well(Named(name, value)) \/ Named(name, value) = JsonOther
  <2>1. CASE params.type = "null"
    <3>1. {name} \in SUBSET Names /\ IsFiniteSet({name}) /\ [n \in {name} |-> value] \in [{name} -> Arguments]
          BY FS_Singleton
    <3>2. Named(name, value) = JsonMap([n \in {name} |-> value])
          BY <2>1 DEF Named
    <3> QED BY <1>2, <3>1, <3>2
  <2>2. CASE params.type = "map"
    <3> DEFINE set == DOMAIN params.says \cup {name}
               map == [n \in set |-> IF n = name THEN value ELSE params.says[n]]
    <3>1. set \in SUBSET Names /\ IsFiniteSet(set)
          BY <1>4, <2>2, FS_AddElement
    <3>2. map \in [set -> Arguments]
          BY <1>4, <2>2
    <3>3. Named(name, value) = JsonMap(map)
          BY <2>2 DEF Named
    <3> HIDE DEF set, map
    <3> QED BY <1>2, <3>1, <3>2, <3>3
  <2>3. CASE params.type = "array"
        BY <2>3 DEF Named
  <2> QED BY <1>4, <2>1, <2>2, <2>3
<1>7. PICK value, result : Pass(value, result) /\ (Well(result) \/ result = JsonOther)
      BY <1>5, <1>6 DEF PassArgument
<1> QED BY <1>3, <1>7 DEF Pass

\* A value passed by place goes to the end of both.
LEMMA PassKeepsPlaces == ParamsOK /\ PlacesOK /\ PassArgument => PlacesOK'
<1> SUFFICES ASSUME ParamsOK, PlacesOK, PassArgument PROVE PlacesOK'
    OBVIOUS
<1>1. \/ params.type = "null" /\ passed = <<>>
      \/ params.type = "array" /\ passed = params.says
      \/ params.type = "map"
      BY ParamsKinds DEF ParamsOK, PlacesOK
<1>2. CASE \E value \in Arguments : Pass(value, Pushed(value))
  <2>1. PICK value \in Arguments : Pass(value, Pushed(value))
        BY <1>2
  <2>2. CASE Pushed(value) = JsonOther
        BY <2>1, <2>2 DEF Pass, PlacesOK
  <2>3. CASE Pushed(value) # JsonOther
    <3>1. params' = Pushed(value) /\ passed' = Append(passed, value)
          BY <2>1, <2>3 DEF Pass
    <3>2. Pushed(value) = JsonArray(Append(passed, value))
      <4>1. Append(<<>>, value) = <<value>>
            OBVIOUS
      <4> QED BY <1>1, <2>3, <4>1 DEF Pushed
    <3> QED BY <3>1, <3>2, ParamsKinds DEF PlacesOK
  <2> QED BY <2>2, <2>3
<1>3. CASE \E name \in Names, value \in Arguments : Pass(value, Named(name, value))
  <2>1. PICK name \in Names, value \in Arguments : Pass(value, Named(name, value))
        BY <1>3
  <2>2. CASE Named(name, value) = JsonOther
        BY <2>1, <2>2 DEF Pass, PlacesOK
  <2>3. CASE Named(name, value) # JsonOther
    <3>1. params' = Named(name, value)
          BY <2>1, <2>3 DEF Pass
    <3>2. \E says : Named(name, value) = JsonMap(says)
          BY <1>1, <2>3 DEF Named
    <3> QED BY <3>1, <3>2, ParamsKinds DEF PlacesOK
  <2> QED BY <2>2, <2>3
<1> QED BY <1>2, <1>3 DEF PassArgument

\* What the handler is given is read from the text of the parameters that were
\* passed.
LEMMA ServeGives == IdsOK /\ CallOK /\ Serve => CallOK'
<1> SUFFICES ASSUME IdsOK, CallOK, Serve PROVE CallOK'
    OBVIOUS
<1>1. text = Message(JsonInteger(Narrow), JsonString(method), params, Absent, Absent)
      BY DEF IdsOK, Serve
<1>2. /\ handlers' = handlers /\ method' = method /\ params' = params
      /\ passed' = passed /\ stage' = "answered"
      BY DEF Serve
<1>3. ParamsOK' /\ PlacesOK' /\ Parameters' = Parameters
      BY <1>2 DEF CallOK, ParamsOK, PlacesOK, Parameters
<1>4. PICK parsed \in MessageParse(text) :
         IF parsed.threw = None
         THEN Exec(parsed.object)
         ELSE text' = ErrorText /\ UNCHANGED given
      BY DEF Serve
<1>5. CASE given' = given
      BY <1>2, <1>3, <1>5 DEF CallOK, Called
<1>6. CASE given' # given
  <2>1. parsed.threw = None /\ Exec(parsed.object)
        BY <1>4, <1>6
  <2>2. params # Absent
    <3>1. params = JsonNull \/ params.type \in {"array", "map"}
          BY ParamsKinds DEF CallOK, ParamsOK
    <3> QED BY <3>1 DEF JsonNull, Absent
  <2>3. /\ parsed.object.method = method
        /\ Structured(params)
        /\ parsed.object.params = ParameterParse(DefaultParameter, params)
        BY <1>1, <1>4, <2>1, <2>2, RequestKeepsCall
  <2>4. /\ method \in DOMAIN handlers
        /\ given' = Call(ReadArguments(Serialization(parsed.object.params), handlers[method]))
        BY <1>6, <2>1, <2>3 DEF Exec
  <2>5. params # JsonNull
        BY <2>3 DEF Structured, JsonNull
  <2>6. Written(parsed.object.params) = Written(Parameters)
    <3>1. Parameters = ParameterParse(NoParameter, params)
          BY <2>5 DEF Parameters
    <3>2. params.type = "array" \/ params.type = "map"
          BY <2>3 DEF Structured
    <3> QED BY <2>3, <3>1, <3>2, WrittenValues
  <2>7. Serialization(parsed.object.params) = Serialization(Parameters)
        BY <2>6 DEF Serialization
  <2> QED BY <1>2, <1>3, <2>3, <2>4, <2>7 DEF CallOK
<1> QED BY <1>5, <1>6

LEMMA CallInvariant == Spec => []CallOK
<1>1. Init => CallOK
      BY ParamsKinds DEF Init, CallOK, ParamsOK, PlacesOK, Called
<1>2. IdsOK /\ CallOK /\ [Next]_vars => CallOK'
  <2> SUFFICES ASSUME IdsOK, CallOK, [Next]_vars PROVE CallOK'
      OBVIOUS
  <2>1. CASE AddHandler
    <3>1. PICK name \in Methods, signature \in Signatures : handlers' = Registered(name, signature)
          BY <2>1 DEF AddHandler
    <3>2. \A n \in DOMAIN handlers : n \in DOMAIN handlers' /\ handlers'[n] = handlers[n]
          BY <3>1 DEF Registered
    <3>3. \A n \in DOMAIN handlers' : handlers'[n] \in Signatures
          BY <3>1 DEF Registered, CallOK
    <3>4. /\ stage' = stage /\ given' = given /\ method' = method /\ params' = params
          /\ passed' = passed
          BY <2>1 DEF AddHandler
    <3>5. ParamsOK' /\ PlacesOK' /\ Parameters' = Parameters
          BY <3>4 DEF CallOK, ParamsOK, PlacesOK, Parameters
    <3> QED BY <3>2, <3>3, <3>4, <3>5 DEF CallOK, Called
  <2>2. CASE PassArgument
    <3>1. PICK value, result : Pass(value, result)
          BY <2>2 DEF PassArgument
    <3>2. ParamsOK' /\ PlacesOK'
          BY <2>2, PassKeepsParams, PassKeepsPlaces DEF CallOK
    <3>3. handlers' = handlers /\ given' = given /\ given = NotCalled
          BY <3>1 DEF Pass, CallOK
    <3> QED BY <3>2, <3>3 DEF CallOK, Called
  <2>3. CASE Serve
        BY <2>3, ServeGives
  <2>4. CASE Send \/ Return \/ Drop \/ UNCHANGED vars
    <3>1. /\ handlers' = handlers /\ given' = given /\ method' = method /\ params' = params
          /\ passed' = passed
          /\ stage' = "building" => stage = "building"
          BY <2>4 DEF Send, Return, Drop, vars
    <3>2. ParamsOK' /\ PlacesOK' /\ Parameters' = Parameters
          BY <3>1 DEF CallOK, ParamsOK, PlacesOK, Parameters
    <3> QED BY <3>1, <3>2 DEF CallOK, Called
  <2> QED BY <2>1, <2>2, <2>3, <2>4 DEF Next
<1> QED BY <1>1, <1>2, IdsInvariant, PTL DEF Spec

\* Of the call: its values are a list of arguments, its text a list of words,
\* and each parameter is read as ReadAt says.
LEMMA CallRead ==
    ASSUME CallOK, Called
    PROVE  /\ Values \in Seq(Arguments)
           /\ handlers[method] \in Seq(Types)
           /\ Serialization(Parameters) \in Seq(Tokens)
           /\ Len(given.arguments) = Len(handlers[method])
           /\ \A i \in 1..Len(handlers[method]) :
                 given.arguments[i] = ReadAt(Serialization(Parameters), handlers[method], i)
<1>1. Structured(params) /\ params # JsonNull
      BY DEF CallOK, Structured, JsonNull
<1>2. Parameters = ParameterParse(NoParameter, params)
      BY <1>1 DEF Parameters
<1>3. Values \in Seq(Arguments)
  <2>1. CASE params.type = "array"
    <3>1. params.says \in Seq(Arguments)
          BY <1>1, <2>1, ParamsKinds DEF CallOK, ParamsOK
    <3> QED BY <1>2, <2>1, <3>1, WrittenValues DEF Values
  <2>2. CASE params.type = "map"
    <3> DEFINE names == DOMAIN params.says
               list == InOrder(names)
               n == Cardinality(names)
    <3>1. /\ names \in SUBSET Nat /\ IsFiniteSet(names)
          /\ params.says \in [names -> Arguments]
          BY <1>1, <2>2, ParamsKinds, NamesAssumption DEF CallOK, ParamsOK
    <3>2. n \in Nat /\ list \in [1..n -> names]
          BY <3>1, InOrderLists
    <3>3. Values = [i \in 1..Len(list) |-> params.says[list[i]]]
          BY <1>2, <2>2, WrittenValues DEF Values
    <3> HIDE DEF n, list
    <3>4. Len(list) = n
          BY <3>2
    <3>5. Values \in [1..n -> Arguments]
          BY <3>1, <3>2, <3>3, <3>4
    <3> QED BY <3>2, <3>5
  <2> QED BY <1>1, <2>1, <2>2 DEF Structured
<1>4. handlers[method] \in Seq(Types)
      BY SignaturesAssumption DEF CallOK, Types
<1>5. Serialization(Parameters) \in Seq(Tokens)
  <2> DEFINE n == Len(Values)
             dumps == [i \in 1..n |-> Dump(Values[i])]
  <2>1. n \in Nat /\ \A i \in 1..n : Values[i] \in Arguments
        BY <1>3
  <2>2. Serialization(Parameters) = FlattenSeq(dumps)
        BY DEF Serialization, Values
  <2> HIDE DEF n
  <2>3. dumps \in [1..n -> Seq(Tokens)]
        BY <2>1, DumpType
  <2> HIDE DEF dumps
  <2>4. dumps \in Seq(Seq(Tokens))
        BY <2>1, <2>3
  <2> QED BY <2>2, <2>4, FlattenType
<1>6. given.arguments = ReadArguments(Serialization(Parameters), handlers[method])
      BY DEF CallOK, Call
<1> QED BY <1>3, <1>4, <1>5, <1>6, ReadArgumentsAt

\* However many parameters a handler has and whatever is passed, an argument
\* that cannot be read leaves those before it alone and makes those behind it
\* zero (rpc_server.hpp:42-58).
THEOREM DispatchFirstFailureStops == Spec => []FirstFailureStops
<1>1. CallOK => FirstFailureStops
  <2> SUFFICES ASSUME CallOK, Called PROVE FirstFailureStops
      BY DEF FirstFailureStops
  <2> DEFINE signature == handlers[method]
             tokens == Serialization(Parameters)
  <2>1. /\ tokens \in Seq(Tokens) /\ signature \in Seq(Types)
        /\ Len(given.arguments) = Len(signature)
        /\ \A i \in 1..Len(signature) : given.arguments[i] = ReadAt(tokens, signature, i)
        BY CallRead
  <2> HIDE DEF tokens, signature
  <2>2. Len(signature) \in Nat /\ Len(tokens) \in Nat
        BY <2>1
  <2>3. ASSUME NEW i \in 1..Len(signature), \A j \in 1..i : Reads(tokens, signature, j)
        PROVE  ReadAt(tokens, signature, i) = Extract(tokens[i], signature[i]).value
    <3>1. i <= Len(tokens)
          BY <2>2, <2>3 DEF Reads
    <3>2. \A j \in 1..(i - 1) : j \in 1..i
          BY <2>2
    <3> QED BY <2>3, <3>1, <3>2 DEF ReadAt
  <2>4. ASSUME NEW i \in 1..Len(signature), \E j \in 1..(i - 1) : ~Reads(tokens, signature, j)
        PROVE  ReadAt(tokens, signature, i) = Zero(signature[i])
        BY <2>4 DEF ReadAt
  <2> QED BY <2>1, <2>3, <2>4 DEF FirstFailureStops, Reads, tokens, signature
<1> QED BY <1>1, CallInvariant, PTL

\* The values of a call by place are those passed.
LEMMA ValuesPassed ==
    ASSUME CallOK, params.type = "array"
    PROVE  Values = passed
<1>1. Parameters = ParameterParse(NoParameter, params)
      BY DEF Parameters, JsonNull
<1>2. Values = params.says
      BY <1>1, WrittenValues DEF Values
<1> QED BY <1>2 DEF CallOK, PlacesOK

\* However many numbers are passed by place, a handler of numbers is given them
\* in the order they were passed in, and 0 for those that are missing.
THEOREM DispatchNumbersArrive == Spec => []NumbersArrive
<1>1. CallOK => NumbersArrive
  <2> DEFINE signature == handlers[method]
             Fits(value) == value.type = "int" /\ value.number \in Ints
             Expected(i) == IF i > Len(passed) THEN Number(0) ELSE passed[i]
  <2> SUFFICES ASSUME CallOK, Called, params.type = "array", Range(signature) = {"int"},
                      \A value \in Range(passed) : Fits(value),
                      NEW i \in 1..Len(signature)
               PROVE  given.arguments[i] = Expected(i)
      BY DEF NumbersArrive
  <2> HIDE DEF Expected
  <2>1. /\ Values \in Seq(Arguments) /\ signature \in Seq(Types)
        /\ given.arguments[i] = ReadAt(Serialization(Parameters), signature, i)
        BY CallRead
  <2> DEFINE n == Len(Values)
  <2>2. /\ Values = passed /\ n \in Nat /\ n = Len(passed)
        /\ Len(signature) \in Nat /\ DOMAIN signature = 1..Len(signature)
        BY <2>1, ValuesPassed
  <2>3. \A j \in 1..n : Values[j] \in Arguments /\ Fits(Values[j])
    <3>1. \A j \in 1..n : Values[j] \in Range(Values)
          BY <2>1 DEF Range
    <3> QED BY <2>1, <2>2, <3>1
  <2>4. \A j \in 1..Len(signature) : signature[j] = "int"
    <3>1. \A j \in 1..Len(signature) : signature[j] \in Range(signature)
          BY <2>2 DEF Range
    <3> QED BY <3>1
  <2>5. ASSUME NEW j \in 1..n
        PROVE  /\ Values[j] = Number(Values[j].number)
               /\ Dump(Values[j]) = <<Values[j]>>
    <3> DEFINE value == Values[j]
    <3>1. value \in Arguments /\ value.type = "int"
          BY <2>3
    <3> HIDE DEF value
    <3>2. value = Number(value.number)
          BY <3>1, ArgumentsAssumption
    <3>3. value # Text(<<>>)
          BY <3>1 DEF Text
    <3>4. Dump(value) = <<value>>
          BY <3>1, <3>3 DEF Dump
    <3> QED BY <3>2, <3>4 DEF value
  <2>6. Serialization(Parameters) = Values
    <3>1. Serialization(Parameters) = FlattenSeq([j \in 1..n |-> Dump(Values[j])])
          BY DEF Serialization, Values
    <3>2. [j \in 1..n |-> Dump(Values[j])] = [j \in 1..n |-> <<Values[j]>>]
          BY <2>5
    <3> QED BY <2>1, <3>1, <3>2, FlattenSingles
  <2>7. ASSUME NEW j \in 1..n
        PROVE  Extract(Values[j], "int") = Good(Values[j])
    <3> DEFINE value == Values[j]
    <3>1. value = Number(value.number) /\ value.number \in Ints
          BY <2>3, <2>5
    <3> HIDE DEF value
    <3>2. IsNumeral(value)
          BY <3>1 DEF IsNumeral, Number
    <3> QED BY <3>1, <3>2 DEF Extract, value
  <2>8. \A value : Good(value).value = value /\ ~Good(value).failed
        BY DEF Good
  <2>9. ASSUME NEW j \in 1..Len(signature), j <= n PROVE Reads(Values, signature, j)
    <3>1. j \in 1..n
          BY <2>2, <2>9
    <3> QED BY <2>4, <2>7, <2>8, <2>9, <3>1 DEF Reads
  <2>10. CASE i <= n
    <3>1. i \in 1..n /\ \A j \in 1..(i - 1) : j \in 1..Len(signature) /\ j <= n
          BY <2>2, <2>10
    <3>2. ReadAt(Values, signature, i) = Extract(Values[i], "int").value
          BY <2>4, <2>9, <3>1 DEF ReadAt
    <3>3. ReadAt(Values, signature, i) = Values[i]
          BY <2>7, <2>8, <3>1, <3>2
    <3>4. Values[i] = Expected(i)
          BY <2>2, <2>10 DEF Expected
    <3> QED BY <2>1, <2>6, <3>3, <3>4
  <2>11. CASE ~(i <= n)
    <3>1. ReadAt(Values, signature, i) = Zero("int")
          BY <2>4, <2>11 DEF ReadAt
    <3>2. Zero("int") = Number(0)
          BY DEF Zero
    <3>3. i > Len(passed)
          BY <2>2, <2>11
    <3> QED BY <2>1, <2>6, <3>1, <3>2, <3>3 DEF Expected
  <2> QED BY <2>10, <2>11
<1> QED BY <1>1, CallInvariant, PTL

\* One more sequence goes to the end.
LEMMA FlattenAppend ==
    ASSUME NEW T, NEW seqs \in Seq(Seq(T)), NEW x \in Seq(T)
    PROVE  FlattenSeq(Append(seqs, x)) = FlattenSeq(seqs) \o x
<1> DEFINE n == Len(seqs)
           more == Append(seqs, x)
<1>1. /\ n \in Nat /\ more \in Seq(Seq(T)) /\ Len(more) = n + 1
      /\ \A i \in 1..n : more[i] = seqs[i]
      /\ more[n + 1] = x
      OBVIOUS
<1> HIDE DEF more
<1>2. more # <<>>
      BY <1>1
<1>3. PICK g \in [1..Len(more) -> Seq(T)] :
           /\ g[1] = more[1]
           /\ \A i \in 2..Len(more) : g[i] = g[i - 1] \o more[i]
           /\ FlattenSeq(more) = g[Len(more)]
      BY <1>1, <1>2, Flatten
<1>4. CASE seqs = <<>>
  <2>1. n = 0 /\ FlattenSeq(seqs) = <<>>
        BY <1>4 DEF FlattenSeq
  <2>2. FlattenSeq(more) = x
        BY <1>1, <1>3, <2>1
  <2>3. <<>> \o x = x
        OBVIOUS
  <2> QED BY <2>1, <2>2, <2>3 DEF more
<1>5. CASE seqs # <<>>
  <2>1. PICK f \in [1..n -> Seq(T)] :
              /\ f[1] = seqs[1]
              /\ \A i \in 2..n : f[i] = f[i - 1] \o seqs[i]
              /\ FlattenSeq(seqs) = f[n]
        BY <1>5, Flatten
  <2>2. n > 0
        BY <1>5
  <2> HIDE DEF n
  <2> DEFINE S == {k \in Nat : k + 1 <= n => g[k + 1] = f[k + 1]}
  <2>3. 0 \in S
        BY <1>1, <1>3, <2>1, <2>2
  <2>4. ASSUME NEW k \in Nat, k \in S PROVE k + 1 \in S
    <3> SUFFICES ASSUME (k + 1) + 1 <= n PROVE g[(k + 1) + 1] = f[(k + 1) + 1]
        OBVIOUS
    <3> DEFINE j == (k + 1) + 1
    <3>1. j \in 2..n /\ j \in 2..Len(more) /\ j - 1 = k + 1 /\ j \in 1..n
          BY <1>1
    <3>2. g[j - 1] = f[j - 1]
          BY <1>1, <2>4, <3>1
    <3> HIDE DEF j
    <3>3. g[j] = g[j - 1] \o more[j] /\ f[j] = f[j - 1] \o seqs[j] /\ more[j] = seqs[j]
          BY <1>1, <1>3, <2>1, <3>1
    <3>4. g[j] = f[j]
          BY <3>2, <3>3
    <3> QED BY <3>4 DEF j
  <2>5. Nat \subseteq S
    <3> HIDE DEF S
    <3> QED BY <2>3, <2>4, Induction
  <2>6. g[n] = f[n]
    <3>1. n - 1 \in Nat /\ (n - 1) + 1 = n
          BY <1>1, <2>2
    <3> QED BY <2>5, <3>1
  <2>7. n + 1 \in 2..Len(more) /\ (n + 1) - 1 = n
        BY <1>1, <2>2
  <2>8. g[n + 1] = g[(n + 1) - 1] \o more[n + 1]
        BY <1>3, <2>7
  <2>9. FlattenSeq(more) = g[n + 1]
        BY <1>1, <1>3
  <2> QED BY <1>1, <2>1, <2>6, <2>7, <2>8, <2>9 DEF more
<1> QED BY <1>4, <1>5

-----------------------------------------------------------------------------
(* Reference tokens of a JSON pointer                                      *)

\* A property of sequences that one more element keeps holds for every sequence.
LEMMA ByLength ==
    ASSUME NEW T, NEW P, <<>> \in P,
           \A s \in Seq(T), x \in T : s \in P => Append(s, x) \in P
    PROVE  Seq(T) \subseteq P
<1> DEFINE S == {n \in Nat : \A s \in Seq(T) : Len(s) = n => s \in P}
<1>1. 0 \in S
      OBVIOUS
<1>2. ASSUME NEW n \in Nat, n \in S PROVE n + 1 \in S
  <2> SUFFICES ASSUME NEW s \in Seq(T), Len(s) = n + 1 PROVE s \in P
      OBVIOUS
  <2> DEFINE front == SubSeq(s, 1, n)
  <2>1. front \in Seq(T) /\ Len(front) = n /\ s[n + 1] \in T
        OBVIOUS
  <2>2. s = Append(front, s[n + 1])
        OBVIOUS
  <2> HIDE DEF front
  <2>3. front \in P
        BY <1>2, <2>1
  <2> QED BY <2>1, <2>2, <2>3
<1>3. Nat \subseteq S
  <2> HIDE DEF S
  <2> QED BY <1>1, <1>2, Induction
<1> SUFFICES ASSUME NEW s \in Seq(T) PROVE s \in P
    OBVIOUS
<1>4. Len(s) \in Nat
      OBVIOUS
<1> QED BY <1>3, <1>4

\* What replaces a byte does so one byte after the other.
LEMMA ReplaceMore ==
    ASSUME NEW T, NEW s \in Seq(T), NEW x \in T, NEW c, NEW t \in Seq(T)
    PROVE  /\ ReplaceByte(s, c, t) \in Seq(T)
           /\ x = c => ReplaceByte(Append(s, x), c, t) = ReplaceByte(s, c, t) \o t
           /\ x # c => ReplaceByte(Append(s, x), c, t) = Append(ReplaceByte(s, c, t), x)
<1> DEFINE One(y) == IF y = c THEN t ELSE <<y>>
           parts == [i \in 1..Len(s) |-> One(s[i])]
           longer == Append(s, x)
           more == [i \in 1..Len(longer) |-> One(longer[i])]
<1>1. /\ longer \in Seq(T) /\ Len(longer) = Len(s) + 1 /\ Len(s) \in Nat
      /\ \A i \in 1..Len(s) : longer[i] = s[i] /\ s[i] \in T
      /\ longer[Len(s) + 1] = x
      OBVIOUS
<1> HIDE DEF longer
<1>2. \A y \in T : One(y) \in Seq(T)
      OBVIOUS
<1> HIDE DEF One
<1>3. parts \in [1..Len(s) -> Seq(T)]
      BY <1>1, <1>2
<1>4. parts \in Seq(Seq(T)) /\ Len(parts) = Len(s)
      BY <1>1, <1>3
<1>5. more = Append(parts, One(x))
  <2>1. Append(parts, One(x)) = [i \in 1..(Len(s) + 1) |-> IF i = Len(s) + 1 THEN One(x) ELSE parts[i]]
        BY <1>1, <1>2, <1>4
  <2>2. \A i \in 1..(Len(s) + 1) : One(longer[i]) = IF i = Len(s) + 1 THEN One(x) ELSE parts[i]
        BY <1>1
  <2> QED BY <1>1, <2>1, <2>2
<1>6. FlattenSeq(more) = FlattenSeq(parts) \o One(x)
  <2> HIDE DEF parts, more
  <2>1. One(x) \in Seq(T)
        BY <1>2
  <2> QED BY <1>4, <1>5, <2>1, FlattenAppend
<1>7. FlattenSeq(parts) \in Seq(T)
  <2> HIDE DEF parts
  <2> QED BY <1>4, FlattenType
<1>8. ReplaceByte(s, c, t) = FlattenSeq(parts) /\ ReplaceByte(longer, c, t) = FlattenSeq(more)
  <2>1. DOMAIN s = 1..Len(s) /\ DOMAIN longer = 1..Len(longer)
        BY <1>1
  <2> QED BY <2>1 DEF ReplaceByte, One
<1>9. FlattenSeq(parts) \o <<x>> = Append(FlattenSeq(parts), x)
  <2> HIDE DEF parts
  <2> QED BY <1>7
<1> HIDE DEF parts, more
<1> QED BY <1>6, <1>7, <1>8, <1>9 DEF One, longer

\* The byte b written as the pair of c and d, and read back.
Encoded(s, b, c, d) == ReplaceByte(s, b, <<c, d>>)
Decoded(s, b, c, d) == ReplacePair(s, c, d, <<b>>)

\* Encoding works byte by byte.
EncodesOne(T, b, c, d) ==
    \A s \in Seq(T), x \in T :
       /\ Encoded(s, b, c, d) \in Seq(T)
       /\ x = b => Encoded(Append(s, x), b, c, d) = Append(Append(Encoded(s, b, c, d), c), d)
       /\ x # b => Encoded(Append(s, x), b, c, d) = Append(Encoded(s, b, c, d), x)

LEMMA EncodeMore ==
    ASSUME NEW T, NEW b \in T, NEW c \in T, NEW d \in T
    PROVE  EncodesOne(T, b, c, d)
<1> USE DEF EncodesOne
<1> TAKE s \in Seq(T), x \in T
<1> DEFINE two == <<c, d>>
<1>1. two \in Seq(T)
      OBVIOUS
<1> HIDE DEF two
<1>2. /\ ReplaceByte(s, b, two) \in Seq(T)
      /\ x = b => ReplaceByte(Append(s, x), b, two) = ReplaceByte(s, b, two) \o two
      /\ x # b => ReplaceByte(Append(s, x), b, two) = Append(ReplaceByte(s, b, two), x)
      BY <1>1, ReplaceMore
<1>3. \A r \in Seq(T) : r \o <<c, d>> = Append(Append(r, c), d)
      OBVIOUS
<1> QED BY <1>2, <1>3 DEF two, Encoded

\* Nothing is nothing either way.
LEMMA NothingEncoded ==
    \A b, c, d : Encoded(<<>>, b, c, d) = <<>> /\ Decoded(<<>>, b, c, d) = <<>>
<1> SUFFICES ASSUME NEW b, NEW c, NEW d
             PROVE  Encoded(<<>>, b, c, d) = <<>> /\ Decoded(<<>>, b, c, d) = <<>>
    OBVIOUS
<1>1. ReplaceByte(<<>>, b, <<c, d>>) = FlattenSeq(<<>>)
      BY DEF ReplaceByte
<1>2. ReplacePair(<<>>, c, d, <<b>>) = FlattenSeq(<<>>)
      BY DEF ReplacePair
<1>3. FlattenSeq(<<>>) = <<>>
      BY DEF FlattenSeq
<1> QED BY <1>1, <1>2, <1>3 DEF Encoded, Decoded

\* Replacing a pair yields a sequence of the same elements.
LEMMA PairType ==
    ASSUME NEW T, NEW s \in Seq(T), NEW c, NEW d, NEW t \in Seq(T)
    PROVE  ReplacePair(s, c, d, t) \in Seq(T)
<1> DEFINE One(i) == IF PairAt(s, i, c, d) THEN t ELSE IF PairAt(s, i - 1, c, d) THEN <<>> ELSE <<s[i]>>
           parts == [i \in 1..Len(s) |-> One(i)]
<1>1. \A i \in 1..Len(s) : One(i) \in Seq(T)
  <2>1. \A i \in 1..Len(s) : <<s[i]>> \in Seq(T)
        OBVIOUS
  <2>2. <<>> \in Seq(T)
        OBVIOUS
  <2> QED BY <2>1, <2>2
<1>2. DOMAIN s = 1..Len(s) /\ Len(s) \in Nat
      OBVIOUS
<1>3. ReplacePair(s, c, d, t) = FlattenSeq(parts)
      BY <1>2 DEF ReplacePair
<1> HIDE DEF One
<1>4. parts \in [1..Len(s) -> Seq(T)]
      BY <1>1
<1>5. parts \in Seq(Seq(T))
      BY <1>2, <1>4
<1> HIDE DEF parts
<1> QED BY <1>3, <1>5, FlattenType

\* What replaces a pair of bytes leaves one more byte alone that ends no pair, ...
LEMMA PairMore ==
    ASSUME NEW T, NEW s \in Seq(T), NEW x \in T, NEW c, NEW d, NEW t \in Seq(T),
           s # <<>> => ~(s[Len(s)] = c /\ x = d)
    PROVE  ReplacePair(Append(s, x), c, d, t) = ReplacePair(s, c, d, t) \o <<x>>
<1> DEFINE One(u, i) == IF PairAt(u, i, c, d) THEN t ELSE IF PairAt(u, i - 1, c, d) THEN <<>> ELSE <<u[i]>>
           n == Len(s)
           parts == [i \in 1..n |-> One(s, i)]
           longer == Append(s, x)
           more == [i \in 1..Len(longer) |-> One(longer, i)]
<1>1. /\ longer \in Seq(T) /\ Len(longer) = n + 1 /\ n \in Nat
      /\ \A i \in 1..n : longer[i] = s[i] /\ s[i] \in T
      /\ longer[n + 1] = x
      OBVIOUS
<1>2. n > 0 => ~(s[n] = c /\ x = d)
      OBVIOUS
<1> HIDE DEF longer, n
<1>3. \A i \in 1..n : PairAt(longer, i, c, d) <=> PairAt(s, i, c, d)
      BY <1>1, <1>2 DEF PairAt, n
<1>4. \A i \in 1..(n + 1) : PairAt(longer, i - 1, c, d) <=> PairAt(s, i - 1, c, d)
      BY <1>1, <1>2 DEF PairAt, n
<1>5. ~PairAt(longer, n + 1, c, d) /\ ~PairAt(longer, n, c, d)
      BY <1>1, <1>2 DEF PairAt
<1>6. \A i \in 1..n : One(longer, i) = One(s, i)
      BY <1>1, <1>3, <1>4
<1>7. One(longer, n + 1) = <<x>>
      BY <1>1, <1>5
<1>8. \A i \in 1..n : One(s, i) \in Seq(T)
      BY <1>1
<1> HIDE DEF One
<1>9. parts \in Seq(Seq(T)) /\ Len(parts) = n /\ <<x>> \in Seq(T)
  <2>1. parts \in [1..n -> Seq(T)]
        BY <1>8
  <2> QED BY <1>1, <2>1
<1>10. more = Append(parts, <<x>>)
  <2>1. Append(parts, <<x>>) = [i \in 1..(n + 1) |-> IF i = n + 1 THEN <<x>> ELSE parts[i]]
        BY <1>1, <1>9
  <2>2. \A i \in 1..(n + 1) : One(longer, i) = IF i = n + 1 THEN <<x>> ELSE parts[i]
        BY <1>1, <1>6, <1>7
  <2> QED BY <1>1, <2>1, <2>2
<1>11. FlattenSeq(more) = FlattenSeq(parts) \o <<x>>
  <2> HIDE DEF parts, more
  <2> DEFINE one == <<x>>
  <2>1. one \in Seq(T) /\ more = Append(parts, one)
        BY <1>9, <1>10
  <2> HIDE DEF one
  <2>2. FlattenSeq(more) = FlattenSeq(parts) \o one
        BY <1>9, <2>1, FlattenAppend
  <2> QED BY <2>2 DEF one
<1>12. ReplacePair(s, c, d, t) = FlattenSeq(parts) /\ ReplacePair(longer, c, d, t) = FlattenSeq(more)
  <2>1. DOMAIN s = 1..n /\ DOMAIN longer = 1..Len(longer)
        BY <1>1 DEF n
  <2> QED BY <2>1 DEF ReplacePair, One
<1> QED BY <1>11, <1>12 DEF longer

\* ... and replaces the pair that two more bytes are.
LEMMA PairEnd ==
    ASSUME NEW T, NEW s \in Seq(T), NEW c \in T, NEW d \in T, c # d, NEW t \in Seq(T)
    PROVE  ReplacePair(Append(Append(s, c), d), c, d, t) = ReplacePair(s, c, d, t) \o t
<1> DEFINE One(u, i) == IF PairAt(u, i, c, d) THEN t ELSE IF PairAt(u, i - 1, c, d) THEN <<>> ELSE <<u[i]>>
           n == Len(s)
           parts == [i \in 1..n |-> One(s, i)]
           longer == Append(Append(s, c), d)
           more == [i \in 1..Len(longer) |-> One(longer, i)]
<1>1. /\ longer \in Seq(T) /\ Len(longer) = n + 2 /\ n \in Nat
      /\ \A i \in 1..n : longer[i] = s[i] /\ s[i] \in T
      /\ longer[n + 1] = c /\ longer[n + 2] = d
      OBVIOUS
<1> HIDE DEF longer, n
<1>2. \A i \in 1..n : PairAt(longer, i, c, d) <=> PairAt(s, i, c, d)
      BY <1>1 DEF PairAt, n
<1>3. \A i \in 1..n : PairAt(longer, i - 1, c, d) <=> PairAt(s, i - 1, c, d)
      BY <1>1 DEF PairAt, n
<1>4. PairAt(longer, n + 1, c, d) /\ ~PairAt(longer, n + 2, c, d)
      BY <1>1 DEF PairAt
<1>5. \A i \in 1..n : One(longer, i) = One(s, i)
      BY <1>1, <1>2, <1>3
<1>6. One(longer, n + 1) = t /\ One(longer, n + 2) = <<>>
  <2>1. (n + 2) - 1 = n + 1
        BY <1>1
  <2> QED BY <1>4, <2>1
<1>7. \A i \in 1..n : One(s, i) \in Seq(T)
      BY <1>1
<1> HIDE DEF One
<1>8. parts \in Seq(Seq(T)) /\ Len(parts) = n /\ <<>> \in Seq(T)
  <2>1. parts \in [1..n -> Seq(T)]
        BY <1>7
  <2>2. parts \in Seq(Seq(T)) /\ Len(parts) = n
    <3> DEFINE X == Seq(T)
    <3>1. parts \in [1..n -> X]
          BY <2>1
    <3> HIDE DEF parts, X
    <3>2. parts \in Seq(X) /\ Len(parts) = n
          BY <1>1, <3>1
    <3> QED BY <3>2 DEF X
  <2>3. <<>> \in Seq(T)
        OBVIOUS
  <2> QED BY <2>2, <2>3
<1> DEFINE middle == Append(parts, t)
<1>9. /\ middle \in Seq(Seq(T)) /\ Len(middle) = n + 1
      /\ middle = [i \in 1..(n + 1) |-> IF i = n + 1 THEN t ELSE parts[i]]
      BY <1>1, <1>8
<1>10. more = Append(middle, <<>>)
  <2> HIDE DEF middle
  <2>1. Append(middle, <<>>) = [i \in 1..((n + 1) + 1) |-> IF i = (n + 1) + 1 THEN <<>> ELSE middle[i]]
        BY <1>1, <1>8, <1>9
  <2>2. \A i \in 1..(n + 1) : middle[i] = IF i = n + 1 THEN t ELSE parts[i]
        BY <1>9
  <2>3. \A i \in 1..n : parts[i] = One(s, i)
        OBVIOUS
  <2> HIDE DEF parts
  <2>4. \A i \in 1..(n + 2) : One(longer, i) = IF i = n + 2 THEN <<>> ELSE middle[i]
        BY <1>1, <1>5, <1>6, <2>2, <2>3
  <2>5. (n + 1) + 1 = n + 2
        BY <1>1
  <2> QED BY <1>1, <2>1, <2>4, <2>5
<1>11. FlattenSeq(more) = FlattenSeq(middle) \o <<>> /\ FlattenSeq(middle) \in Seq(T)
  <2> HIDE DEF middle, more
  <2> DEFINE none == <<>>
  <2>1. none \in Seq(T) /\ more = Append(middle, none)
        BY <1>8, <1>10
  <2> HIDE DEF none
  <2>2. FlattenSeq(more) = FlattenSeq(middle) \o none
        BY <1>9, <2>1, FlattenAppend
  <2>3. FlattenSeq(middle) \in Seq(T)
        BY <1>9, FlattenType
  <2> QED BY <2>2, <2>3 DEF none
<1>12. FlattenSeq(middle) = FlattenSeq(parts) \o t
  <2> HIDE DEF parts
  <2> QED BY <1>8, FlattenAppend
<1>13. FlattenSeq(more) = FlattenSeq(middle)
  <2> DEFINE f == FlattenSeq(middle)
  <2>1. f \in Seq(T)
        BY <1>11
  <2> HIDE DEF f
  <2>2. f \o <<>> = f
        BY <2>1
  <2> QED BY <1>11, <2>2 DEF f
<1>14. ReplacePair(s, c, d, t) = FlattenSeq(parts) /\ ReplacePair(longer, c, d, t) = FlattenSeq(more)
  <2>1. DOMAIN s = 1..n /\ DOMAIN longer = 1..Len(longer)
        BY <1>1 DEF n
  <2> QED BY <2>1 DEF ReplacePair, One
<1> QED BY <1>12, <1>13, <1>14 DEF longer

Ends(s, c) == s # <<>> /\ s[Len(s)] = c

\* Decoding works byte by byte, and a pair at a time where one ends.
DecodesOne(T, b, c, d) ==
    \A s \in Seq(T), x \in T :
       /\ ~(Ends(s, c) /\ x = d) => Decoded(Append(s, x), b, c, d) = Append(Decoded(s, b, c, d), x)
       /\ Decoded(Append(Append(s, c), d), b, c, d) = Append(Decoded(s, b, c, d), b)

LEMMA DecodeMore ==
    ASSUME NEW T, NEW b \in T, NEW c \in T, NEW d \in T, c # d
    PROVE  DecodesOne(T, b, c, d)
<1> USE DEF DecodesOne
<1> TAKE s \in Seq(T), x \in T
<1> DEFINE one == <<b>>
           f == ReplacePair(s, c, d, one)
<1>1. one \in Seq(T)
      OBVIOUS
<1> HIDE DEF one
<1>2. ReplacePair(Append(Append(s, c), d), c, d, one) = f \o one
      BY <1>1, PairEnd
<1>3. ~(Ends(s, c) /\ x = d) => ReplacePair(Append(s, x), c, d, one) = f \o <<x>>
      BY <1>1, PairMore DEF Ends
<1>4. f \in Seq(T)
      BY <1>1, PairType
<1> HIDE DEF f
<1>5. f \o <<b>> = Append(f, b) /\ f \o <<x>> = Append(f, x)
      BY <1>4
<1> QED BY <1>2, <1>3, <1>5 DEF one, f, Decoded

\* The pair of c and d is nowhere in u.
Pairless(u, c, d) == \A i \in 1..Len(u) : ~PairAt(u, i, c, d)

\* A byte that was replaced by a pair comes back from it, if the pair stood nowhere
\* else.
LEMMA PairsBack ==
    ASSUME NEW T, NEW b \in T, NEW c \in T, NEW d \in T, c # d,
           NEW u \in Seq(T), b = c \/ Pairless(u, c, d)
    PROVE  Decoded(Encoded(u, b, c, d), b, c, d) = u
<1> DEFINE Pair(s) == Encoded(s, b, c, d)
           Back(s) == Decoded(s, b, c, d)
           P == {s \in Seq(T) : b = c \/ Pairless(s, c, d) =>
                    /\ Back(Pair(s)) = s
                    /\ Ends(Pair(s), c) => Ends(s, c) /\ b # c}
<1>1. <<>> \in P
  <2>1. Pair(<<>>) = <<>> /\ Back(<<>>) = <<>>
        BY NothingEncoded
  <2>2. ~Ends(<<>>, c)
        BY DEF Ends
  <2>3. <<>> \in Seq(T)
        OBVIOUS
  <2> HIDE DEF Pair, Back
  <2> QED BY <2>1, <2>2, <2>3
<1>2. DecodesOne(T, b, c, d)
      BY DecodeMore
<1>3. ASSUME NEW s \in Seq(T), NEW x \in T, s \in P PROVE Append(s, x) \in P
  <2> DEFINE more == Append(s, x)
             pair == Pair(s)
  <2>1. /\ more \in Seq(T) /\ Len(more) = Len(s) + 1 /\ Len(s) \in Nat /\ more # <<>>
        /\ \A i \in 1..Len(s) : more[i] = s[i]
        /\ more[Len(s) + 1] = x
        OBVIOUS
  <2>2. /\ pair \in Seq(T)
        /\ x = b => Pair(more) = Append(Append(pair, c), d)
        /\ x # b => Pair(more) = Append(pair, x)
    <3> HIDE DEF P, Back
    <3>1. EncodesOne(T, b, c, d)
          BY EncodeMore
    <3> QED BY <3>1 DEF EncodesOne
  <2> HIDE DEF more
  <2> SUFFICES ASSUME b = c \/ Pairless(more, c, d)
               PROVE  /\ Back(Pair(more)) = more
                      /\ Ends(Pair(more), c) => Ends(more, c) /\ b # c
      BY <2>1 DEF more
  <2>3. b = c \/ (Pairless(s, c, d) /\ ~(Ends(s, c) /\ x = d))
    <3> SUFFICES ASSUME b # c PROVE Pairless(s, c, d) /\ ~(Ends(s, c) /\ x = d)
        OBVIOUS
    <3>1. \A i \in 1..Len(more) : ~PairAt(more, i, c, d)
          BY DEF Pairless
    <3>2. ASSUME NEW i \in 1..Len(s), PairAt(s, i, c, d) PROVE FALSE
      <4>1. PairAt(more, i, c, d)
            BY <2>1, <3>2 DEF PairAt
      <4> QED BY <2>1, <3>1, <4>1
    <3>3. ASSUME Ends(s, c), x = d PROVE FALSE
      <4>1. PairAt(more, Len(s), c, d) /\ Len(s) \in 1..Len(more)
            BY <2>1, <3>3 DEF PairAt, Ends
      <4> QED BY <3>1, <4>1
    <3> QED BY <3>2, <3>3 DEF Pairless
  <2>4. Back(pair) = s /\ (Ends(pair, c) => Ends(s, c) /\ b # c)
        BY <1>3, <2>3
  <2>5. CASE x = b
    <3>1. Pair(more) = Append(Append(pair, c), d)
          BY <2>2, <2>5
    <3>2. Back(Append(Append(pair, c), d)) = Append(Back(pair), b)
      <4> HIDE DEF pair
      <4> QED BY <1>2, <2>2 DEF DecodesOne
    <3>3. Append(s, b) = more
          BY <2>5 DEF more
    <3>4. ~Ends(Pair(more), c)
      <4> HIDE DEF pair, Pair
      <4> QED BY <2>2, <3>1 DEF Ends
    <3> HIDE DEF Pair, Back, pair
    <3> QED BY <2>4, <3>1, <3>2, <3>3, <3>4
  <2>6. CASE x # b
    <3>1. Pair(more) = Append(pair, x)
          BY <2>2, <2>6
    <3>2. ~(Ends(pair, c) /\ x = d)
          BY <2>3, <2>4
    <3>3. Back(Append(pair, x)) = Append(Back(pair), x)
      <4> HIDE DEF pair
      <4> QED BY <1>2, <2>2, <3>2 DEF DecodesOne
    <3>4. Append(s, x) = more
          BY DEF more
    <3>5. Ends(Pair(more), c) => x = c
      <4> HIDE DEF pair, Pair
      <4> QED BY <2>2, <3>1 DEF Ends
    <3>6. x = c => Ends(more, c) /\ b # c
          BY <2>1, <2>6 DEF Ends
    <3> HIDE DEF Pair, Back, pair
    <3> QED BY <2>4, <3>1, <3>3, <3>4, <3>5, <3>6
  <2> QED BY <2>5, <2>6
<1>4. Seq(T) \subseteq P
  <2> HIDE DEF P
  <2> QED BY <1>1, <1>3, ByLength
<1> QED BY <1>4

\* Every ~ is followed by one of digits.
Marks(bytes, digits) ==
    \A i \in 1..Len(bytes) : bytes[i] = Tilde => i < Len(bytes) /\ bytes[i + 1] \in digits

\* One more byte, or one more ~ with its digit, keeps that.
LEMMA MarksMore ==
    ASSUME NEW T, NEW bytes \in Seq(T), NEW digits, Marks(bytes, digits), Tilde \in T
    PROVE  /\ \A x \in T \ {Tilde} : Marks(Append(bytes, x), digits)
           /\ \A d \in (digits \cap T) \ {Tilde} : Marks(Append(Append(bytes, Tilde), d), digits)
<1>1. ASSUME NEW x \in T \ {Tilde} PROVE Marks(Append(bytes, x), digits)
  <2> DEFINE more == Append(bytes, x)
  <2>1. /\ Len(more) = Len(bytes) + 1 /\ Len(bytes) \in Nat /\ more[Len(bytes) + 1] = x
        /\ \A i \in 1..Len(bytes) : more[i] = bytes[i]
        OBVIOUS
  <2> HIDE DEF more
  <2> SUFFICES ASSUME NEW i \in 1..Len(more), more[i] = Tilde
               PROVE  i < Len(more) /\ more[i + 1] \in digits
      BY DEF Marks, more
  <2>2. i \in 1..Len(bytes) /\ bytes[i] = Tilde
        BY <2>1
  <2>3. i + 1 \in 1..Len(bytes) /\ bytes[i + 1] \in digits
        BY <2>1, <2>2 DEF Marks
  <2> QED BY <2>1, <2>3
<1>2. ASSUME NEW d \in (digits \cap T) \ {Tilde} PROVE Marks(Append(Append(bytes, Tilde), d), digits)
  <2> DEFINE n == Len(bytes)
             more == Append(Append(bytes, Tilde), d)
  <2>1. /\ Len(more) = n + 2 /\ n \in Nat /\ more[n + 1] = Tilde /\ more[n + 2] = d
        /\ \A i \in 1..n : more[i] = bytes[i]
        OBVIOUS
  <2> HIDE DEF more
  <2> SUFFICES ASSUME NEW i \in 1..Len(more), more[i] = Tilde
               PROVE  i < Len(more) /\ more[i + 1] \in digits
      BY DEF Marks, more
  <2>2. CASE i = n + 1
    <3>1. i + 1 = n + 2
          BY <2>1, <2>2
    <3> QED BY <2>1, <2>2, <3>1
  <2>3. CASE i # n + 1
    <3>1. i \in 1..n /\ bytes[i] = Tilde
      <4>1. i # n + 2
            BY <2>1
      <4> QED BY <2>1, <2>3, <4>1
    <3>2. i + 1 \in 1..n /\ bytes[i + 1] \in digits
          BY <2>1, <3>1 DEF Marks
    <3> QED BY <2>1, <3>2
  <2> QED BY <2>2, <2>3
<1> QED BY <1>1, <1>2

\* A char of std::string.
Bytes == 0..255

\* The four bytes escape is about are different.
LEMMA SpecialBytes == /\ {Slash, Tilde, Digit0, Digit1} \subseteq Bytes
                      /\ Slash # Tilde /\ Digit0 # Tilde /\ Digit1 # Tilde
                      /\ Slash # Digit0 /\ Slash # Digit1 /\ Digit0 # Digit1
BY DEF Slash, Tilde, Digit0, Digit1, Bytes

Slashless(bytes) == \A i \in 1..Len(bytes) : bytes[i] # Slash

\* The text of a token once its ~ are escaped, and once its slashes are, too.
TildesEscaped(s) == Encoded(s, Tilde, Tilde, Digit0)

\* After the first pass of escape every ~ is followed by 0.
LEMMA TildesFirst ==
    ASSUME NEW s \in Seq(Bytes)
    PROVE  /\ TildesEscaped(s) \in Seq(Bytes)
           /\ Marks(TildesEscaped(s), {Digit0})
<1> DEFINE zero == {Digit0}
           Escaped(u) == TildesEscaped(u) \in Seq(Bytes) /\ Marks(TildesEscaped(u), zero)
           P == {u \in Seq(Bytes) : Escaped(u)}
<1>1. EncodesOne(Bytes, Tilde, Tilde, Digit0)
      BY SpecialBytes, EncodeMore
<1>2. Escaped(<<>>)
  <2>1. TildesEscaped(<<>>) = <<>>
        BY NothingEncoded DEF TildesEscaped
  <2>2. Marks(<<>>, zero)
        BY DEF Marks
  <2>3. <<>> \in Seq(Bytes)
        OBVIOUS
  <2> QED BY <2>1, <2>2, <2>3
<1>3. ASSUME NEW u \in Seq(Bytes), NEW x \in Bytes, Escaped(u) PROVE Escaped(Append(u, x))
  <2> DEFINE e == TildesEscaped(u)
  <2>1. e \in Seq(Bytes) /\ Marks(e, zero)
        BY <1>3
  <2>2. /\ x = Tilde => TildesEscaped(Append(u, x)) = Append(Append(e, Tilde), Digit0)
        /\ x # Tilde => TildesEscaped(Append(u, x)) = Append(e, x)
        BY <1>1 DEF TildesEscaped, EncodesOne
  <2> HIDE DEF e
  <2>3. CASE x = Tilde
    <3>1. TildesEscaped(Append(u, x)) = Append(Append(e, Tilde), Digit0)
          BY <2>2, <2>3
    <3>2. Marks(Append(Append(e, Tilde), Digit0), zero)
      <4>1. Digit0 \in (zero \cap Bytes) \ {Tilde} /\ Tilde \in Bytes
            BY SpecialBytes
      <4> HIDE DEF zero
      <4> QED BY <2>1, <4>1, MarksMore
    <3>3. Append(Append(e, Tilde), Digit0) \in Seq(Bytes)
          BY <2>1, SpecialBytes
    <3> QED BY <3>1, <3>2, <3>3
  <2>4. CASE x # Tilde
    <3>1. Append(e, x) \in Seq(Bytes)
          BY <2>1
    <3>2. TildesEscaped(Append(u, x)) = Append(e, x)
          BY <2>2, <2>4
    <3>3. Marks(Append(e, x), zero)
      <4>1. x \in Bytes \ {Tilde} /\ Tilde \in Bytes
            BY <2>4, SpecialBytes
      <4> HIDE DEF zero
      <4> QED BY <2>1, <4>1, MarksMore
    <3> QED BY <3>1, <3>2, <3>3
  <2> QED BY <2>3, <2>4
<1> HIDE DEF Escaped
<1>4. <<>> \in P
  <2>1. <<>> \in Seq(Bytes)
        OBVIOUS
  <2> QED BY <1>2, <2>1
<1>5. \A u \in Seq(Bytes), x \in Bytes : u \in P => Append(u, x) \in P
      BY <1>3
<1>6. Seq(Bytes) \subseteq P
  <2> HIDE DEF P
  <2> QED BY <1>4, <1>5, ByLength
<1> QED BY <1>6 DEF Escaped

\* The two passes of escape, byte by byte.
LEMMA EscapeMore ==
    ASSUME NEW s \in Seq(Bytes), NEW x \in Bytes
    PROVE  /\ EscapeToken(s) \in Seq(Bytes)
           /\ x = Tilde => EscapeToken(Append(s, x)) = Append(Append(EscapeToken(s), Tilde), Digit0)
           /\ x = Slash => EscapeToken(Append(s, x)) = Append(Append(EscapeToken(s), Tilde), Digit1)
           /\ x \notin {Tilde, Slash} => EscapeToken(Append(s, x)) = Append(EscapeToken(s), x)
<1> DEFINE Slashes(u) == Encoded(u, Slash, Tilde, Digit1)
           e == TildesEscaped(s)
<1>1. \A u \in Seq(Bytes), y \in Bytes :
         /\ Slashes(u) \in Seq(Bytes)
         /\ y = Slash => Slashes(Append(u, y)) = Append(Append(Slashes(u), Tilde), Digit1)
         /\ y # Slash => Slashes(Append(u, y)) = Append(Slashes(u), y)
  <2>1. EncodesOne(Bytes, Slash, Tilde, Digit1)
        BY SpecialBytes, EncodeMore
  <2> QED BY <2>1 DEF EncodesOne
<1> HIDE DEF Slashes
<1>2. \A u : EscapeToken(u) = Slashes(TildesEscaped(u))
      BY DEF EscapeToken, TildesEscaped, Slashes, Encoded
<1>3. /\ e \in Seq(Bytes)
      /\ x = Tilde => TildesEscaped(Append(s, x)) = Append(Append(e, Tilde), Digit0)
      /\ x # Tilde => TildesEscaped(Append(s, x)) = Append(e, x)
  <2>1. EncodesOne(Bytes, Tilde, Tilde, Digit0)
        BY SpecialBytes, EncodeMore
  <2> QED BY <2>1 DEF TildesEscaped, EncodesOne
<1>4. EscapeToken(s) = Slashes(e) /\ Slashes(e) \in Seq(Bytes)
      BY <1>1, <1>2, <1>3
<1> HIDE DEF e
<1>5. CASE x = Tilde
  <2>1. Append(e, Tilde) \in Seq(Bytes) /\ Tilde \in Bytes /\ Digit0 \in Bytes
        BY <1>3, SpecialBytes
  <2>2. Slashes(Append(Append(e, Tilde), Digit0)) = Append(Slashes(Append(e, Tilde)), Digit0)
        BY <1>1, <2>1, SpecialBytes
  <2>3. Slashes(Append(e, Tilde)) = Append(Slashes(e), Tilde)
        BY <1>1, <1>3, <2>1, SpecialBytes
  <2> QED BY <1>2, <1>3, <1>4, <1>5, <2>2, <2>3, SpecialBytes
<1>6. CASE x = Slash
  <2>1. TildesEscaped(Append(s, x)) = Append(e, Slash) /\ Slash \in Bytes
        BY <1>3, <1>6, SpecialBytes
  <2>2. Slashes(Append(e, Slash)) = Append(Append(Slashes(e), Tilde), Digit1)
        BY <1>1, <1>3, <2>1
  <2> QED BY <1>2, <1>4, <1>6, <2>1, <2>2, SpecialBytes
<1>7. CASE x \notin {Tilde, Slash}
      BY <1>1, <1>2, <1>3, <1>4, <1>7
<1> QED BY <1>4, <1>5, <1>6, <1>7

\* The text of a token has no slash, and a digit behind every ~.
LEMMA TokenText ==
    ASSUME NEW s \in Seq(Bytes)
    PROVE  /\ EscapeToken(s) \in Seq(Bytes)
           /\ WellEscaped(EscapeToken(s))
           /\ Slashless(EscapeToken(s))
<1> DEFINE digits == {Digit0, Digit1}
           Escapes(u) == Marks(EscapeToken(u), digits) /\ Slashless(EscapeToken(u))
           P == {u \in Seq(Bytes) : Escapes(u)}
<1>1. <<>> \in P
  <2>1. EscapeToken(<<>>) = <<>>
        BY NothingEncoded DEF EscapeToken, Encoded
  <2>2. Marks(<<>>, digits) /\ Slashless(<<>>)
        BY DEF Marks, Slashless
  <2>3. <<>> \in Seq(Bytes)
        OBVIOUS
  <2> QED BY <2>1, <2>2, <2>3
<1>2. ASSUME NEW u \in Seq(Bytes), NEW x \in Bytes, Escapes(u) PROVE Escapes(Append(u, x))
  <2> DEFINE e == EscapeToken(u)
  <2>1. e \in Seq(Bytes)
        BY EscapeMore
  <2>2. Marks(e, digits) /\ Slashless(e)
        BY <1>2
  <2>3. \A d \in digits : d \in (digits \cap Bytes) \ {Tilde} /\ d # Slash /\ Tilde \in Bytes
        BY SpecialBytes
  <2>4. Digit0 \in digits /\ Digit1 \in digits
        OBVIOUS
  <2> HIDE DEF e, digits
  <2>5. ASSUME NEW d \in digits
        PROVE  Marks(Append(Append(e, Tilde), d), digits) /\ Slashless(Append(Append(e, Tilde), d))
    <3>1. Marks(Append(Append(e, Tilde), d), digits)
          BY <2>1, <2>2, <2>3, MarksMore
    <3>2. Slashless(Append(Append(e, Tilde), d))
      <4> DEFINE more == Append(Append(e, Tilde), d)
      <4>1. /\ Len(more) = Len(e) + 2 /\ Len(e) \in Nat
            /\ more[Len(e) + 1] = Tilde /\ more[Len(e) + 2] = d
            /\ \A i \in 1..Len(e) : more[i] = e[i]
            BY <2>1, <2>3
      <4> HIDE DEF more
      <4>2. \A i \in 1..Len(more) : i \in 1..Len(e) \/ i = Len(e) + 1 \/ i = Len(e) + 2
            BY <4>1
      <4>3. \A i \in 1..Len(more) : more[i] # Slash
            BY <2>2, <2>3, <4>1, <4>2, SpecialBytes DEF Slashless
      <4> QED BY <4>3 DEF Slashless, more
    <3> QED BY <3>1, <3>2
  <2>6. ASSUME x \notin {Tilde, Slash}
        PROVE  Marks(Append(e, x), digits) /\ Slashless(Append(e, x))
    <3>1. Marks(Append(e, x), digits)
      <4>1. x \in Bytes \ {Tilde} /\ Tilde \in Bytes
            BY <2>6, SpecialBytes
      <4> QED BY <2>1, <2>2, <4>1, MarksMore
    <3>2. Slashless(Append(e, x))
          BY <2>1, <2>2, <2>6 DEF Slashless
    <3> QED BY <3>1, <3>2
  <2>7. /\ x = Tilde => EscapeToken(Append(u, x)) = Append(Append(e, Tilde), Digit0)
        /\ x = Slash => EscapeToken(Append(u, x)) = Append(Append(e, Tilde), Digit1)
        /\ x \notin {Tilde, Slash} => EscapeToken(Append(u, x)) = Append(e, x)
        BY EscapeMore DEF e
  <2> QED BY <2>4, <2>5, <2>6, <2>7
<1> HIDE DEF Escapes
<1>3. \A u \in Seq(Bytes), x \in Bytes : u \in P => Append(u, x) \in P
      BY <1>2
<1>4. Seq(Bytes) \subseteq P
  <2> HIDE DEF P
  <2> QED BY <1>1, <1>3, ByLength
<1>5. Escapes(s)
      BY <1>4
<1>6. EscapeToken(s) \in Seq(Bytes)
  <2>1. 0 \in Bytes
        BY DEF Bytes
  <2> QED BY <2>1, EscapeMore
<1>7. WellEscaped(EscapeToken(s))
  <2> DEFINE e == EscapeToken(s)
  <2>1. DOMAIN e = 1..Len(e) /\ Marks(e, {Digit0, Digit1})
        BY <1>5, <1>6 DEF Escapes
  <2> HIDE DEF e
  <2> QED BY <2>1 DEF Marks, WellEscaped, e
<1> QED BY <1>5, <1>6, <1>7 DEF Escapes

\* The passes of unescape undo those of escape, the last one first: ~1 is nowhere in
\* what the first pass of escape leaves, so only slashes come back from it.
LEMMA TokenBack == \A s \in Seq(Bytes) : UnescapeToken(EscapeToken(s)) = s
<1> SUFFICES ASSUME NEW s \in Seq(Bytes) PROVE UnescapeToken(EscapeToken(s)) = s
    OBVIOUS
<1> DEFINE e == TildesEscaped(s)
<1>1. e \in Seq(Bytes) /\ Marks(e, {Digit0})
      BY TildesFirst
<1>2. Pairless(e, Tilde, Digit1)
  <2> HIDE DEF e
  <2> SUFFICES ASSUME NEW i \in 1..Len(e), PairAt(e, i, Tilde, Digit1) PROVE FALSE
      BY DEF Pairless
  <2> QED BY <1>1, SpecialBytes DEF PairAt, Marks
<1>3. Decoded(Encoded(e, Slash, Tilde, Digit1), Slash, Tilde, Digit1) = e
  <2> HIDE DEF e
  <2> QED BY <1>1, <1>2, SpecialBytes, PairsBack
<1>4. Decoded(e, Tilde, Tilde, Digit0) = s
      BY SpecialBytes, PairsBack DEF TildesEscaped
<1> QED BY <1>3, <1>4 DEF EscapeToken, UnescapeToken, TildesEscaped, Encoded, Decoded

\* The last element replaced.
LEMMA SetLast ==
    ASSUME NEW X, NEW q \in Seq(X), NEW y \in X, Len(q) > 0
    PROVE  /\ [q EXCEPT ![Len(q)] = y] \in Seq(X)
           /\ Len([q EXCEPT ![Len(q)] = y]) = Len(q)
           /\ \A i \in 1..Len(q) : [q EXCEPT ![Len(q)] = y][i] = IF i = Len(q) THEN y ELSE q[i]
<1> DEFINE n == Len(q)
           r == [q EXCEPT ![n] = y]
<1>1. q \in [1..n -> X] /\ n \in Nat /\ n \in 1..n
      OBVIOUS
<1> HIDE DEF n
<1>2. r \in [1..n -> X]
      BY <1>1
<1>3. \A i \in 1..n : r[i] = IF i = n THEN y ELSE q[i]
      BY <1>1
<1> HIDE DEF r
<1>4. r \in Seq(X) /\ Len(r) = n
      BY <1>1, <1>2
<1> QED BY <1>3, <1>4 DEF n, r

\* The element that was appended replaced.
LEMMA ReplaceLast ==
    ASSUME NEW X, NEW q \in Seq(X), NEW e \in X, NEW y \in X
    PROVE  [Append(q, e) EXCEPT ![Len(Append(q, e))] = y] = Append(q, y)
<1> DEFINE a == Append(q, e)
           b == Append(q, y)
           r == [a EXCEPT ![Len(a)] = y]
<1>1. /\ a \in Seq(X) /\ b \in Seq(X) /\ Len(a) = Len(q) + 1 /\ Len(b) = Len(q) + 1 /\ Len(q) \in Nat
      /\ b[Len(q) + 1] = y
      /\ \A i \in 1..Len(q) : a[i] = q[i] /\ b[i] = q[i]
      OBVIOUS
<1> HIDE DEF a, b
<1>2. Len(a) > 0
      BY <1>1
<1>3. r \in Seq(X) /\ Len(r) = Len(a) /\ \A i \in 1..Len(a) : r[i] = IF i = Len(a) THEN y ELSE a[i]
      BY <1>1, <1>2, SetLast
<1> HIDE DEF r
<1>4. \A i \in 1..Len(r) : r[i] = b[i]
      BY <1>1, <1>3
<1>5. Len(r) = Len(b)
      BY <1>1, <1>3
<1>6. r = b
      BY <1>1, <1>3, <1>4, <1>5, SeqEqual
<1> QED BY <1>6 DEF r, a, b

\* A byte that is no slash is the next of the last token.
LEMMA PieceType ==
    ASSUME NEW p \in Seq(Seq(Bytes)), NEW x \in Bytes
    PROVE  /\ Piece(p, x) \in Seq(Seq(Bytes))
           /\ \A q \in Seq(Seq(Bytes)), e \in Seq(Bytes) :
                 x # Slash => Piece(Append(q, e), x) = Append(q, Append(e, x))
<1>1. CASE x = Slash
  <2>1. <<>> \in Seq(Bytes)
        OBVIOUS
  <2>2. Append(p, <<>>) \in Seq(Seq(Bytes))
        BY <2>1
  <2> QED BY <1>1, <2>2 DEF Piece
<1>2. CASE x # Slash
  <2>1. ASSUME NEW q \in Seq(Seq(Bytes)), NEW e \in Seq(Bytes)
        PROVE  Piece(Append(q, e), x) = Append(q, Append(e, x))
    <3> DEFINE X == Seq(Bytes)
               longer == Append(e, x)
               more == Append(q, e)
    <3>1. longer \in X /\ more \in Seq(X) /\ more[Len(more)] = e
          OBVIOUS
    <3>2. Piece(more, x) = [more EXCEPT ![Len(more)] = longer]
      <4>1. Piece(more, x) = [more EXCEPT ![Len(more)] = Append(more[Len(more)], x)]
            BY <1>2 DEF Piece
      <4> HIDE DEF more
      <4> QED BY <3>1, <4>1
    <3> HIDE DEF X, longer
    <3>3. [more EXCEPT ![Len(more)] = longer] = Append(q, longer)
          BY <3>1, ReplaceLast DEF X
    <3> QED BY <3>2, <3>3 DEF longer
  <2>2. Piece(p, x) \in Seq(Seq(Bytes))
    <3> DEFINE X == Seq(Bytes)
    <3>1. p = <<>> \/ Len(p) > 0
          OBVIOUS
    <3>2. CASE p = <<>>
      <4>1. Piece(p, x) = p
            BY <1>2, <3>2 DEF Piece
      <4> QED BY <4>1
    <3>3. CASE Len(p) > 0
      <4>1. p[Len(p)] \in X
        <5> HIDE DEF X
        <5>1. p \in Seq(X)
              BY DEF X
        <5> QED BY <3>3, <5>1
      <4> DEFINE y == Append(p[Len(p)], x)
      <4>2. y \in X
            BY <4>1
      <4>3. Piece(p, x) = [p EXCEPT ![Len(p)] = y]
            BY <1>2 DEF Piece
      <4> HIDE DEF y, X
      <4>4. p \in Seq(X)
            BY DEF X
      <4>5. [p EXCEPT ![Len(p)] = y] \in Seq(X)
            BY <3>3, <4>2, <4>4, SetLast
      <4> QED BY <4>3, <4>5 DEF X
    <3> QED BY <3>1, <3>2, <3>3
  <2> QED BY <2>1, <2>2
<1> QED BY <1>1, <1>2

\* The bytes of a text are read one after the other.
LEMMA PiecesRead ==
    ASSUME NEW bytes \in Seq(Bytes)
    PROVE  \E f \in [0..Len(bytes) -> Seq(Seq(Bytes))] :
              /\ f[0] = <<>>
              /\ \A i \in 1..Len(bytes) : f[i] = Piece(f[i - 1], bytes[i])
              /\ Pieces(bytes) = f[Len(bytes)]
<1> DEFINE n == Len(bytes)
           X == Seq(Seq(Bytes))
           Follows(f) == f = [i \in 0..n |-> IF i = 0 THEN <<>> ELSE Piece(f[i - 1], bytes[i])]
           read == CHOOSE f : Follows(f)
           step == [i \in 1..n |-> [p \in X |-> Piece(p, bytes[i])]]
<1>1. n \in Nat /\ \A i \in 1..n : bytes[i] \in Bytes
      OBVIOUS
<1>2. Pieces(bytes) = read[n]
      BY DEF Pieces
<1>3. step \in [1..n -> [X -> X]]
  <2>1. ASSUME NEW i \in 1..n, NEW p \in X PROVE Piece(p, bytes[i]) \in X
        BY <1>1, PieceType
  <2> HIDE DEF X, n
  <2> QED BY <2>1
<1>4. \A i \in 1..n, p \in X : step[i][p] = Piece(p, bytes[i])
  <2> HIDE DEF X
  <2> QED OBVIOUS
<1>5. <<>> \in X
      OBVIOUS
<1> HIDE DEF n, X, step
<1>6. PICK f \in [0..n -> X] : f[0] = <<>> /\ \A i \in 1..n : f[i] = step[i][f[i - 1]]
  <2> DEFINE base == <<>>
  <2>1. base \in X
        BY <1>5
  <2> HIDE DEF base
  <2>2. Chains(X, base, n, step) # {}
        BY ONLY <1>1, <1>3, <2>1, Recursion
  <2> QED BY <2>2 DEF Chains, base
<1>7. \A i \in 1..n : f[i] = Piece(f[i - 1], bytes[i])
  <2> SUFFICES ASSUME NEW i \in 1..n PROVE f[i] = Piece(f[i - 1], bytes[i])
      OBVIOUS
  <2>1. i - 1 \in 0..n
        BY <1>1
  <2> QED BY <1>4, <1>6, <2>1
<1>8. Follows(f)
  <2>1. f = [i \in 0..n |-> f[i]]
        BY <1>6
  <2>2. \A i \in 0..n : f[i] = IF i = 0 THEN <<>> ELSE Piece(f[i - 1], bytes[i])
    <3> SUFFICES ASSUME NEW i \in 0..n PROVE f[i] = IF i = 0 THEN <<>> ELSE Piece(f[i - 1], bytes[i])
        OBVIOUS
    <3>1. i # 0 => i \in 1..n
          BY <1>1
    <3> QED BY <1>6, <1>7, <3>1
  <2> QED BY <2>1, <2>2
<1>9. Follows(read)
  <2> HIDE DEF Follows
  <2> QED BY <1>8
<1>10. read[n] = f[n]
  <2> HIDE DEF read
  <2> DEFINE S == {k \in Nat : k <= n => read[k] = f[k]}
  <2>1. 0 \in S
        BY <1>1, <1>6, <1>9
  <2>2. ASSUME NEW k \in Nat, k \in S PROVE k + 1 \in S
    <3> SUFFICES ASSUME k + 1 <= n PROVE read[k + 1] = f[k + 1]
        OBVIOUS
    <3>1. k + 1 \in 1..n /\ k + 1 \in 0..n /\ (k + 1) - 1 = k /\ k + 1 # 0 /\ k <= n
          BY <1>1
    <3>2. read[k + 1] = Piece(read[k], bytes[k + 1])
          BY <1>9, <3>1
    <3>3. f[k + 1] = Piece(f[k], bytes[k + 1])
          BY <1>7, <3>1
    <3> QED BY <2>2, <3>1, <3>2, <3>3
  <2>3. Nat \subseteq S
    <3> HIDE DEF S
    <3> QED BY <2>1, <2>2, Induction
  <2> QED BY <1>1, <2>3
<1> HIDE DEF read
<1>11. f \in [0..n -> X] /\ Pieces(bytes) = f[n]
       BY <1>2, <1>6, <1>10
<1> QED BY <1>6, <1>7, <1>11 DEF n, X

\* So one more byte is one more step.
LEMMA PiecesMore ==
    ASSUME NEW bytes \in Seq(Bytes), NEW x \in Bytes
    PROVE  /\ Pieces(bytes) \in Seq(Seq(Bytes))
           /\ Pieces(Append(bytes, x)) = Piece(Pieces(bytes), x)
<1> DEFINE n == Len(bytes)
           more == Append(bytes, x)
<1>1. /\ n \in Nat /\ more \in Seq(Bytes) /\ Len(more) = n + 1 /\ more[n + 1] = x
      /\ \A i \in 1..n : more[i] = bytes[i]
      OBVIOUS
<1> HIDE DEF more
<1>2. PICK f \in [0..n -> Seq(Seq(Bytes))] :
           /\ f[0] = <<>>
           /\ \A i \in 1..n : f[i] = Piece(f[i - 1], bytes[i])
           /\ Pieces(bytes) = f[n]
      BY PiecesRead
<1>3. PICK g \in [0..Len(more) -> Seq(Seq(Bytes))] :
           /\ g[0] = <<>>
           /\ \A i \in 1..Len(more) : g[i] = Piece(g[i - 1], more[i])
           /\ Pieces(more) = g[Len(more)]
      BY <1>1, PiecesRead
<1> HIDE DEF n
<1>4. \A i \in 1..(n + 1) : g[i] = Piece(g[i - 1], more[i])
      BY <1>1, <1>3
<1> DEFINE S == {k \in Nat : k <= n => g[k] = f[k]}
<1>5. 0 \in S
      BY <1>2, <1>3
<1>6. ASSUME NEW k \in Nat, k \in S PROVE k + 1 \in S
  <2> SUFFICES ASSUME k + 1 <= n PROVE g[k + 1] = f[k + 1]
      OBVIOUS
  <2>1. k + 1 \in 1..n /\ k + 1 \in 1..(n + 1) /\ (k + 1) - 1 = k /\ k <= n
        BY <1>1
  <2>2. g[k + 1] = Piece(g[k], more[k + 1]) /\ f[k + 1] = Piece(f[k], bytes[k + 1])
        BY <1>2, <1>4, <2>1
  <2> QED BY <1>1, <1>6, <2>1, <2>2
<1>7. Nat \subseteq S
  <2> HIDE DEF S
  <2> QED BY <1>5, <1>6, Induction
<1>8. g[n] = f[n]
      BY <1>1, <1>7
<1>9. n + 1 \in 1..(n + 1) /\ (n + 1) - 1 = n /\ n \in 0..n
      BY <1>1
<1>10. g[n + 1] = Piece(g[n], x)
       BY <1>1, <1>4, <1>9
<1> QED BY <1>1, <1>2, <1>3, <1>8, <1>9, <1>10 DEF more

\* A slash and a text without one are one more token.
LEMMA TokenPiece ==
    ASSUME NEW bytes \in Seq(Bytes), NEW token \in Seq(Bytes), Slashless(token)
    PROVE  Pieces(bytes \o (<<Slash>> \o token)) = Append(Pieces(bytes), token)
<1> DEFINE begun == Append(bytes, Slash)
           pieces == Pieces(bytes)
           IsRead(e) == Slashless(e) => Pieces(begun \o e) = Append(pieces, e)
           P == {e \in Seq(Bytes) : IsRead(e)}
<1>1. begun \in Seq(Bytes) /\ pieces \in Seq(Seq(Bytes))
      BY SpecialBytes, PiecesMore
<1>2. Pieces(begun) = Append(pieces, <<>>)
      BY SpecialBytes, PiecesMore DEF Piece
<1> HIDE DEF begun, pieces
<1>3. <<>> \in P
  <2>1. begun \o <<>> = begun /\ <<>> \in Seq(Bytes)
        BY <1>1
  <2> QED BY <1>2, <2>1
<1>4. ASSUME NEW e \in Seq(Bytes), NEW x \in Bytes, IsRead(e) PROVE IsRead(Append(e, x))
  <2> DEFINE more == Append(e, x)
  <2>1. /\ Len(more) = Len(e) + 1 /\ Len(e) \in Nat /\ more[Len(e) + 1] = x
        /\ \A i \in 1..Len(e) : more[i] = e[i]
        OBVIOUS
  <2> SUFFICES ASSUME Slashless(more) PROVE Pieces(begun \o more) = Append(pieces, more)
      OBVIOUS
  <2>2. Slashless(e) /\ x # Slash
    <3> HIDE DEF more
    <3> QED BY <2>1 DEF Slashless
  <2>3. Pieces(begun \o e) = Append(pieces, e)
        BY <1>4, <2>2
  <2>4. begun \o more = Append(begun \o e, x) /\ begun \o e \in Seq(Bytes)
        BY <1>1
  <2>5. Pieces(Append(begun \o e, x)) = Piece(Pieces(begun \o e), x)
    <3> DEFINE u == begun \o e
    <3>1. u \in Seq(Bytes)
          BY <2>4
    <3> HIDE DEF u
    <3> QED BY <3>1, PiecesMore DEF u
  <2>6. Piece(Append(pieces, e), x) = Append(pieces, Append(e, x))
        BY <1>1, <2>2, PieceType
  <2> QED BY <2>3, <2>4, <2>5, <2>6
<1> HIDE DEF IsRead
<1>5. \A e \in Seq(Bytes), x \in Bytes : e \in P => Append(e, x) \in P
      BY <1>4
<1>6. Seq(Bytes) \subseteq P
  <2> HIDE DEF P
  <2> QED BY <1>3, <1>5, ByLength
<1>7. IsRead(token)
      BY <1>6
<1>8. bytes \o (<<Slash>> \o token) = begun \o token
      BY SpecialBytes DEF begun
<1> QED BY <1>7, <1>8 DEF IsRead, pieces

\* The text of one more token goes to the end.
LEMMA TextMore ==
    ASSUME NEW tokens \in Seq(Seq(Bytes)), NEW token \in Seq(Bytes)
    PROVE  /\ PointerText(tokens) \in Seq(Bytes)
           /\ PointerText(Append(tokens, token))
                = PointerText(tokens) \o (<<Slash>> \o EscapeToken(token))
<1> DEFINE One(t) == <<Slash>> \o EscapeToken(t)
           n == Len(tokens)
           parts == [k \in 1..n |-> One(tokens[k])]
           longer == Append(tokens, token)
           more == [k \in 1..(n + 1) |-> One(longer[k])]
<1>1. \A t \in Seq(Bytes) : One(t) \in Seq(Bytes)
  <2> TAKE t \in Seq(Bytes)
  <2>1. EscapeToken(t) \in Seq(Bytes)
        BY TokenText
  <2> QED BY <2>1, SpecialBytes
<1> DEFINE X == Seq(Bytes)
<1>2. /\ n \in Nat /\ DOMAIN tokens = 1..n
      /\ \A k \in 1..n : tokens[k] \in X
      /\ DOMAIN longer = 1..(n + 1) /\ longer[n + 1] = token
      /\ \A k \in 1..n : longer[k] = tokens[k]
  <2>1. tokens \in Seq(X) /\ token \in X
        OBVIOUS
  <2> HIDE DEF X
  <2> QED BY <2>1
<1>3. PointerText(tokens) = FlattenSeq(parts) /\ PointerText(longer) = FlattenSeq(more)
      BY <1>2 DEF PointerText
<1> HIDE DEF One, n, longer
<1>4. parts \in Seq(X) /\ Len(parts) = n /\ One(token) \in X
  <2>1. \A k \in 1..n : One(tokens[k]) \in X
        BY <1>1, <1>2
  <2>2. One(token) \in X
        BY <1>1
  <2> HIDE DEF X
  <2>3. parts \in [1..n -> X]
        BY <2>1
  <2> QED BY <1>2, <2>2, <2>3
<1>5. \A k \in 1..(n + 1) : more[k] = IF k = n + 1 THEN One(token) ELSE parts[k]
      BY <1>2
<1> DEFINE last == Append(parts, One(token))
<1>6. more = last
  <2> HIDE DEF X, parts
  <2>1. /\ last \in Seq(X) /\ Len(last) = n + 1
        /\ \A k \in 1..(n + 1) : last[k] = IF k = n + 1 THEN One(token) ELSE parts[k]
        BY <1>4, <1>2
  <2> HIDE DEF last
  <2>2. DOMAIN last = 1..(n + 1) /\ last = [k \in 1..(n + 1) |-> last[k]]
        BY <2>1
  <2>3. \A k \in 1..(n + 1) : more[k] = last[k]
        BY <1>5, <2>1
  <2> QED BY <2>2, <2>3
<1> HIDE DEF more, parts
<1>7. FlattenSeq(last) = FlattenSeq(parts) \o One(token)
      BY <1>4, FlattenAppend DEF X
<1>8. FlattenSeq(parts) \in Seq(Bytes)
      BY <1>4, FlattenType DEF X
<1> QED BY <1>3, <1>6, <1>7, <1>8 DEF One, longer

\* The text of a pointer is cut into the texts of its tokens.
LEMMA TextPieces ==
    ASSUME NEW tokens \in Seq(Seq(Bytes))
    PROVE  /\ PointerText(tokens) \in Seq(Bytes)
           /\ tokens # <<>> => PointerText(tokens) # <<>> /\ PointerText(tokens)[1] = Slash
           /\ Pieces(PointerText(tokens)) = [k \in 1..Len(tokens) |-> EscapeToken(tokens[k])]
<1> DEFINE X == Seq(Bytes)
           IsRead(s) == /\ s # <<>> => PointerText(s) # <<>> /\ PointerText(s)[1] = Slash
                        /\ Pieces(PointerText(s)) = [k \in 1..Len(s) |-> EscapeToken(s[k])]
           P == {s \in Seq(X) : IsRead(s)}
<1>1. IsRead(<<>>)
  <2>1. PointerText(<<>>) = FlattenSeq(<<>>)
        BY DEF PointerText
  <2>2. PointerText(<<>>) = <<>>
        BY <2>1 DEF FlattenSeq
  <2>3. Pieces(<<>>) = <<>>
    <3>1. <<>> \in Seq(Bytes) /\ Len(<<>>) = 0
          OBVIOUS
    <3>2. PICK f \in [0..Len(<<>>) -> Seq(Seq(Bytes))] : f[0] = <<>> /\ Pieces(<<>>) = f[Len(<<>>)]
          BY <3>1, PiecesRead
    <3> QED BY <3>1, <3>2
  <2>4. [k \in 1..Len(<<>>) |-> EscapeToken(<<>>[k])] = <<>>
        OBVIOUS
  <2> QED BY <2>2, <2>3, <2>4
<1>2. ASSUME NEW s \in Seq(X), NEW t \in X, IsRead(s) PROVE IsRead(Append(s, t))
  <2> DEFINE bytes == PointerText(s)
             token == EscapeToken(t)
             more == bytes \o (<<Slash>> \o token)
  <2>1. bytes \in Seq(Bytes) /\ PointerText(Append(s, t)) = more
        BY TextMore
  <2>2. token \in Seq(Bytes) /\ Slashless(token)
        BY TokenText
  <2>3. Pieces(more) = Append(Pieces(bytes), token)
    <3> HIDE DEF bytes, token
    <3> QED BY <2>1, <2>2, TokenPiece
  <2>4. more # <<>> /\ more[1] = Slash
    <3>1. bytes = <<>> \/ (bytes # <<>> /\ bytes[1] = Slash)
      <4>1. s = <<>> \/ s # <<>>
            OBVIOUS
      <4>2. CASE s = <<>>
        <5>1. PointerText(<<>>) = FlattenSeq(<<>>)
              BY DEF PointerText
        <5> QED BY <4>2, <5>1 DEF FlattenSeq
      <4>3. CASE s # <<>>
            BY <1>2, <4>3
      <4> QED BY <4>1, <4>2, <4>3
    <3> HIDE DEF bytes, token
    <3> DEFINE tail == <<Slash>> \o token
    <3>2. tail \in Seq(Bytes) /\ tail[1] = Slash /\ Len(tail) > 0
          BY <2>2, SpecialBytes
    <3> HIDE DEF tail
    <3>3. /\ Len(bytes \o tail) = Len(bytes) + Len(tail) /\ Len(bytes) \in Nat
          /\ (bytes \o tail)[1] = IF 1 <= Len(bytes) THEN bytes[1] ELSE tail[1 - Len(bytes)]
          BY <2>1, <3>2
    <3>4. CASE bytes = <<>>
      <4>1. Len(bytes) = 0 /\ 1 - Len(bytes) = 1
            BY <3>4
      <4> QED BY <3>2, <3>3, <4>1 DEF tail
    <3>5. CASE bytes # <<>> /\ bytes[1] = Slash
      <4>1. Len(bytes) > 0
            BY <2>1, <3>5
      <4> QED BY <3>2, <3>3, <3>5, <4>1 DEF tail
    <3> QED BY <3>1, <3>4, <3>5
  <2>5. Append(Pieces(bytes), token) = [k \in 1..Len(Append(s, t)) |-> EscapeToken(Append(s, t)[k])]
    <3> DEFINE pieces == Pieces(bytes)
               longer == Append(s, t)
               last == Append(pieces, token)
    <3>1. /\ Len(longer) = Len(s) + 1 /\ Len(s) \in Nat /\ longer[Len(s) + 1] = t
          /\ \A k \in 1..Len(s) : longer[k] = s[k]
      <4> HIDE DEF X
      <4> QED OBVIOUS
    <3>2. pieces \in Seq(X)
      <4> HIDE DEF bytes
      <4> QED BY <2>1, <2>2, SpecialBytes, PiecesMore
    <3>3. token \in X
          BY <2>2
    <3>4. pieces = [k \in 1..Len(s) |-> EscapeToken(s[k])]
          BY <1>2
    <3> HIDE DEF X, bytes, token, pieces, longer
    <3>5. Len(pieces) = Len(s) /\ \A k \in 1..Len(s) : pieces[k] = EscapeToken(s[k])
      <4>1. DOMAIN pieces = 1..Len(s)
            BY <3>4
      <4>2. Len(pieces) = Len(s)
            BY <3>1, <3>2, <4>1
      <4> QED BY <3>4, <4>2
    <3>6. /\ last \in Seq(X) /\ Len(last) = Len(s) + 1 /\ last[Len(s) + 1] = token
          /\ \A k \in 1..Len(s) : last[k] = pieces[k]
          BY <3>1, <3>2, <3>3, <3>5
    <3> HIDE DEF last
    <3>7. last = [k \in 1..(Len(s) + 1) |-> last[k]]
          BY <3>6
    <3>8. \A k \in 1..(Len(s) + 1) : last[k] = EscapeToken(longer[k])
      <4> SUFFICES ASSUME NEW k \in 1..(Len(s) + 1) PROVE last[k] = EscapeToken(longer[k])
          OBVIOUS
      <4>1. CASE k = Len(s) + 1
            BY <3>1, <3>6, <4>1 DEF token
      <4>2. CASE k # Len(s) + 1
        <5>1. k \in 1..Len(s)
              BY <3>1, <4>2
        <5> QED BY <3>1, <3>5, <3>6, <5>1
      <4> QED BY <4>1, <4>2
    <3>9. last = [k \in 1..Len(longer) |-> EscapeToken(longer[k])]
          BY <3>1, <3>7, <3>8
    <3> QED BY <3>9 DEF last, pieces, longer
  <2> HIDE DEF bytes, token
  <2> QED BY <2>1, <2>3, <2>4, <2>5
<1> HIDE DEF IsRead
<1>3. <<>> \in P
  <2>1. <<>> \in Seq(X)
    <3> HIDE DEF X
    <3> QED OBVIOUS
  <2> QED BY <1>1, <2>1
<1>4. \A s \in Seq(X), t \in X : s \in P => Append(s, t) \in P
  <2>1. \A s \in Seq(X), t \in X : Append(s, t) \in Seq(X)
    <3> HIDE DEF X
    <3> QED OBVIOUS
  <2> QED BY <1>2, <2>1
<1>5. Seq(X) \subseteq P
  <2> HIDE DEF P
  <2> QED BY <1>3, <1>4, ByLength
<1>6. IsRead(tokens)
      BY <1>5
<1>7. PointerText(tokens) \in Seq(Bytes)
  <2>1. <<>> \in Seq(Bytes)
        OBVIOUS
  <2> QED BY <2>1, TextMore
<1> QED BY <1>6, <1>7 DEF IsRead

\* What to_string makes of a pointer split makes into the same pointer, whatever
\* bytes its tokens have, tildes and slashes included, and throws nothing: neither
\* for a text that does not begin with a slash (107) nor for an escape (108).  It
\* is what json.hpp states of every pointer (8985), and why escape and unescape
\* replace in opposite orders.
THEOREM JsonPointersReadBack ==
    \A tokens \in Seq(Seq(Bytes)) : Split(PointerText(tokens)) = <<"pointer", tokens>>
<1> TAKE tokens \in Seq(Seq(Bytes))
<1> DEFINE n == Len(tokens)
           X == Seq(Bytes)
           bytes == PointerText(tokens)
           pieces == Pieces(bytes)
<1>1. tokens # <<>> => bytes # <<>> /\ bytes[1] = Slash
      BY TextPieces
<1>2. pieces = [k \in 1..n |-> EscapeToken(tokens[k])]
      BY TextPieces
<1>3. /\ n \in Nat /\ tokens = [k \in 1..n |-> tokens[k]]
      /\ \A k \in 1..n : tokens[k] \in X
  <2>1. tokens \in Seq(X)
        OBVIOUS
  <2> HIDE DEF X
  <2> QED BY <2>1
<1> HIDE DEF n, pieces, bytes
<1>4. DOMAIN pieces = 1..n /\ \A k \in 1..n : pieces[k] = EscapeToken(tokens[k])
      BY <1>2
<1>5. \A k \in 1..n : WellEscaped(pieces[k])
      BY <1>3, <1>4, TokenText
<1>6. \A k \in 1..n : UnescapeToken(pieces[k]) = tokens[k]
      BY <1>3, <1>4, TokenBack
<1>7. [k \in DOMAIN pieces |-> UnescapeToken(pieces[k])] = tokens
      BY <1>3, <1>4, <1>6
<1>8. TokensOf(pieces) = <<"pointer", tokens>>
      BY <1>4, <1>5, <1>7 DEF TokensOf
<1>9. CASE tokens = <<>>
  <2>1. PointerText(<<>>) = FlattenSeq(<<>>)
        BY DEF PointerText
  <2>2. bytes = <<>>
        BY <1>9, <2>1 DEF FlattenSeq, bytes
  <2> QED BY <1>9, <2>2 DEF Split, bytes
<1>10. CASE tokens # <<>>
       BY <1>1, <1>8, <1>10 DEF Split, bytes, pieces
<1> QED BY <1>9, <1>10

-----------------------------------------------------------------------------
(* Integers in the binary formats                                          *)

\* The sixty-four bits of an integer.
Words == {w \in Seq(Bytes) : Len(w) = 8}

Widths == {1, 2, 4, 8}

LEMMA WordBytes ==
    ASSUME NEW w \in Words
    PROVE  /\ w \in Seq(Bytes) /\ Len(w) = 8
           /\ \A i \in 1..8 : w[i] \in Bytes /\ w[i] \in 0..255
<1>1. w \in Seq(Bytes) /\ Len(w) = 8
      BY DEF Words
<1>2. \A i \in 1..8 : w[i] \in Bytes
      BY <1>1, ElementOfSeq
<1> QED BY <1>1, <1>2 DEF Bytes

\* The low bytes of a word.
LEMMA LowBytes ==
    ASSUME NEW w \in Words, NEW n \in Widths
    PROVE  /\ Tails(w, n) \in Seq(Bytes) /\ Len(Tails(w, n)) = n
           /\ \A i \in 1..n : Tails(w, n)[i] = w[8 - n + i]
           /\ Below(w, n) <=> \A i \in 1..(8 - n) : w[i] = 0
<1>1. w \in Seq(Bytes) /\ Len(w) = 8 /\ n \in 1..8 /\ \A i \in 1..8 : w[i] \in Bytes
      BY WordBytes DEF Widths
<1>2. /\ SubSeq(w, 8 - n + 1, 8) \in Seq(Bytes) /\ Len(SubSeq(w, 8 - n + 1, 8)) = n
      /\ \A i \in 1..n : SubSeq(w, 8 - n + 1, 8)[i] = w[8 - n + i]
  <2> DEFINE m == 8 - n + 1
  <2>1. m \in Int /\ m <= 8 /\ 8 - m + 1 = n /\ \A i \in m..8 : w[i] \in Bytes
        BY <1>1
  <2>2. \A i \in 1..n : m + i - 1 = 8 - n + i
        BY <1>1
  <2> HIDE DEF m
  <2>3. /\ SubSeq(w, m, 8) \in Seq(Bytes)
        /\ Len(SubSeq(w, m, 8)) = IF m <= 8 THEN 8 - m + 1 ELSE 0
        /\ \A i \in 1..(8 - m + 1) : SubSeq(w, m, 8)[i] = w[m + i - 1]
        BY <2>1, SubSeqProperties
  <2> QED BY <2>1, <2>2, <2>3 DEF m
<1>3. /\ SubSeq(w, 1, 8 - n) \in Seq(Bytes) /\ Len(SubSeq(w, 1, 8 - n)) = 8 - n
      /\ \A i \in 1..(8 - n) : SubSeq(w, 1, 8 - n)[i] = w[i]
  <2> DEFINE m == 8 - n
  <2>1. m \in Int /\ m >= 0 /\ \A i \in 1..m : w[i] \in Bytes
        BY <1>1
  <2> HIDE DEF m
  <2>2. /\ SubSeq(w, 1, m) \in Seq(Bytes)
        /\ Len(SubSeq(w, 1, m)) = IF 1 <= m THEN m - 1 + 1 ELSE 0
        /\ \A i \in 1..(m - 1 + 1) : SubSeq(w, 1, m)[i] = w[1 + i - 1]
        BY <2>1, SubSeqProperties
  <2>3. \A i \in 1..m : i \in 1..(m - 1 + 1) /\ 1 + i - 1 = i
        BY <2>1
  <2>4. Len(SubSeq(w, 1, m)) = m
        BY <2>1, <2>2
  <2> QED BY <2>2, <2>3, <2>4 DEF m
<1>4. Below(w, n) <=> SubSeq(w, 1, 8 - n) = [i \in 1..(8 - n) |-> 0]
      BY <1>1 DEF Below, Heads, Zeros
<1>5. SubSeq(w, 1, 8 - n) = [i \in 1..(8 - n) |-> 0] <=> \A i \in 1..(8 - n) : w[i] = 0
  <2> DEFINE h == SubSeq(w, 1, 8 - n)
  <2>1. h = [i \in 1..(8 - n) |-> h[i]]
        BY <1>1, <1>3
  <2>2. \A i \in 1..(8 - n) : h[i] = w[i]
        BY <1>3
  <2> HIDE DEF h
  <2> QED BY <2>1, <2>2 DEF h
<1> QED BY <1>1, <1>2, <1>4, <1>5 DEF Tails

\* A number that fits a width comes back from its low bytes.
LEMMA WidenLow ==
    ASSUME NEW w \in Words, NEW n \in Widths
    PROVE  /\ Below(w, n) => Widen(Tails(w, n)) = w
           /\ FitsSigned(w, n) => WidenSigned(Tails(w, n)) = w
<1> DEFINE low == Tails(w, n)
<1>1. w \in Seq(Bytes) /\ Len(w) = 8 /\ n \in 1..8 /\ \A i \in 1..8 : w[i] \in Bytes /\ w[i] \in 0..255
      BY WordBytes DEF Widths
<1>2. low \in Seq(Bytes) /\ Len(low) = n /\ \A i \in 1..n : low[i] = w[8 - n + i]
      BY LowBytes
<1> HIDE DEF low
<1>3. ASSUME NEW b \in Bytes, \A i \in 1..(8 - n) : w[i] = b
      PROVE  [i \in 1..(8 - n) |-> b] \o low = w
  <2> DEFINE high == [i \in 1..(8 - n) |-> b]
             both == high \o low
  <2>1. high \in Seq(Bytes) /\ Len(high) = 8 - n /\ \A i \in 1..(8 - n) : high[i] = w[i]
        BY <1>1, <1>3
  <2> HIDE DEF high
  <2>2. /\ both \in Seq(Bytes) /\ Len(both) = 8
        /\ \A i \in 1..8 : both[i] = IF i <= 8 - n THEN high[i] ELSE low[i - (8 - n)]
    <3>1. /\ both \in Seq(Bytes) /\ Len(both) = Len(high) + Len(low)
          /\ \A i \in 1..(Len(high) + Len(low)) :
                both[i] = IF i <= Len(high) THEN high[i] ELSE low[i - Len(high)]
      <4>1. high \in Seq(Bytes) /\ low \in Seq(Bytes)
            BY <1>2, <2>1
      <4> QED BY <4>1, ConcatProperties
    <3>2. Len(high) + Len(low) = 8
          BY <1>1, <1>2, <2>1
    <3> HIDE DEF both
    <3> QED BY <2>1, <3>1, <3>2
  <2> HIDE DEF both
  <2>3. ASSUME NEW i \in 1..8 PROVE both[i] = w[i]
    <3>1. CASE i <= 8 - n
      <4>1. i \in 1..(8 - n)
            BY <1>1, <3>1
      <4> QED BY <2>1, <2>2, <3>1, <4>1
    <3>2. CASE ~(i <= 8 - n)
      <4>1. i - (8 - n) \in 1..n /\ 8 - n + (i - (8 - n)) = i
            BY <1>1, <3>2
      <4>2. both[i] = low[i - (8 - n)]
            BY <2>2, <3>2
      <4> QED BY <1>2, <4>1, <4>2
    <3> QED BY <3>1, <3>2
  <2>4. both = w
        BY <1>1, <2>2, <2>3, SeqEqual
  <2> QED BY <2>4 DEF both, high
<1>4. 0 \in Bytes /\ 255 \in Bytes
      BY DEF Bytes
<1>5. ASSUME Below(w, n) PROVE Widen(low) = w
  <2>1. \A i \in 1..(8 - n) : w[i] = 0
        BY <1>5, LowBytes
  <2> QED BY <1>2, <1>3, <1>4, <2>1 DEF Widen, Zeros
<1>6. ASSUME FitsSigned(w, n) PROVE WidenSigned(low) = w
  <2>0. low[1] \in 0..255
    <3>1. 1 \in 1..n /\ 8 - n + 1 \in 1..8
          BY <1>1
    <3>2. low[1] = w[8 - n + 1]
          BY <1>2, <3>1
    <3> QED BY <1>1, <3>1, <3>2
  <2>1. CASE Below(w, n) /\ low[1] < 128
    <3>1. \A i \in 1..(8 - n) : w[i] = 0
          BY <2>1, LowBytes
    <3>2. [i \in 1..(8 - Len(low)) |-> IF low[1] >= 128 THEN 255 ELSE 0] = [i \in 1..(8 - n) |-> 0]
      <4>1. Len(low) = n
            BY <1>2
      <4>2. ~(low[1] >= 128)
            BY <2>0, <2>1
      <4> QED BY <4>1, <4>2
    <3>3. WidenSigned(low) = [i \in 1..(8 - n) |-> 0] \o low
          BY <3>2 DEF WidenSigned
    <3> QED BY <1>3, <1>4, <3>1, <3>3
  <2>2. CASE (\A i \in 1..(8 - n) : w[i] = 255) /\ low[1] >= 128
    <3>1. [i \in 1..(8 - Len(low)) |-> IF low[1] >= 128 THEN 255 ELSE 0] = [i \in 1..(8 - n) |-> 255]
      <4>1. Len(low) = n /\ low[1] >= 128
            BY <1>2, <2>2
      <4> QED BY <4>1
    <3>2. WidenSigned(low) = [i \in 1..(8 - n) |-> 255] \o low
          BY <3>1 DEF WidenSigned
    <3> QED BY <1>3, <1>4, <2>2, <3>2
  <2> QED BY <1>6, <2>1, <2>2 DEF FitsSigned, low
<1> QED BY <1>5, <1>6 DEF low

\* The word of a number that one byte holds.
LEMMA WordOfByte ==
    ASSUME NEW n \in 0..255
    PROVE  /\ Word(n) \in Seq(Bytes) /\ Len(Word(n)) = 8
           /\ \A i \in 1..7 : Word(n)[i] = 0
           /\ Word(n)[8] = n
<1>1. n \div 16777216 = 0 /\ (n \div 65536) % 256 = 0 /\ (n \div 256) % 256 = 0 /\ n % 256 = n
      OBVIOUS
<1>2. Word(n) = [i \in 1..4 |-> 0] \o <<0, 0, 0, n>>
      BY <1>1 DEF Word, Zeros
<1> DEFINE four == [i \in 1..4 |-> 0]
           low == <<0, 0, 0, n>>
<1>3. four \in Seq(Bytes) /\ Len(four) = 4 /\ \A i \in 1..4 : four[i] = 0
      BY DEF Bytes
<1>4. low \in Seq(Bytes) /\ Len(low) = 4 /\ low[1] = 0 /\ low[2] = 0 /\ low[3] = 0 /\ low[4] = n
      BY DEF Bytes
<1> HIDE DEF four, low
<1>5. /\ four \o low \in Seq(Bytes) /\ Len(four \o low) = 8
      /\ \A i \in 1..8 : (four \o low)[i] = IF i <= 4 THEN four[i] ELSE low[i - 4]
  <2>1. /\ four \o low \in Seq(Bytes) /\ Len(four \o low) = Len(four) + Len(low)
        /\ \A i \in 1..(Len(four) + Len(low)) :
              (four \o low)[i] = IF i <= Len(four) THEN four[i] ELSE low[i - Len(four)]
        BY <1>3, <1>4, ConcatProperties
  <2> QED BY <1>3, <1>4, <2>1
<1>6. \A i \in 1..7 : (four \o low)[i] = 0
      BY <1>3, <1>4, <1>5
<1> QED BY <1>2, <1>4, <1>5, <1>6 DEF four, low

\* A word of which only the last byte is not zero.
LEMMA OneByteWord ==
    ASSUME NEW w \in Words, \A i \in 1..7 : w[i] = 0
    PROVE  w = Word(w[8])
<1> DEFINE v == Word(w[8])
<1>1. w \in Seq(Bytes) /\ Len(w) = 8 /\ w[8] \in 0..255
      BY WordBytes
<1>2. v \in Seq(Bytes) /\ Len(v) = 8 /\ (\A i \in 1..7 : v[i] = 0) /\ v[8] = w[8]
      BY <1>1, WordOfByte
<1> HIDE DEF v
<1>3. \A i \in 1..8 : v[i] = w[i]
      BY <1>2
<1>4. v = w
      BY <1>1, <1>2, <1>3, SeqEqual
<1> QED BY <1>4 DEF v

\* What is not more than 23 is one byte, which is the number.
LEMMA SmallWord ==
    ASSUME NEW w \in Words, ~LexLess(Word(23), w)
    PROVE  w[8] \in 0..23 /\ w = Word(w[8]) /\ Below(w, 1)
<1> DEFINE s == Word(23)
<1>1. w \in Seq(Bytes) /\ Len(w) = 8 /\ \A i \in 1..8 : w[i] \in Bytes /\ w[i] \in 0..255
      BY WordBytes
<1>3. s \in Seq(Bytes) /\ Len(s) = 8 /\ (\A i \in 1..7 : s[i] = 0) /\ s[8] = 23
      BY WordOfByte
<1> HIDE DEF s
<1>4. ASSUME NEW i \in 1..8, \A k \in 1..(i - 1) : s[k] = w[k] PROVE ~(s[i] < w[i])
      BY <1>1, <1>3, <1>4 DEF LexLess, s
<1> DEFINE S == {k \in Nat : k <= 7 => \A i \in 1..k : w[i] = 0}
<1>5. 0 \in S
      OBVIOUS
<1>6. ASSUME NEW k \in Nat, k \in S PROVE k + 1 \in S
  <2> SUFFICES ASSUME k + 1 <= 7 PROVE \A i \in 1..(k + 1) : w[i] = 0
      OBVIOUS
  <2>1. \A i \in 1..k : w[i] = 0
        BY <1>6
  <2>2. k + 1 \in 1..7 /\ k + 1 \in 1..8 /\ (k + 1) - 1 = k
        OBVIOUS
  <2>3. ~(s[k + 1] < w[k + 1])
        BY <1>3, <1>4, <2>1, <2>2
  <2>4. w[k + 1] = 0
    <3>1. s[k + 1] = 0 /\ w[k + 1] \in 0..255
          BY <1>1, <1>3, <2>2
    <3> QED BY <2>3, <3>1
  <2> QED BY <2>1, <2>4
<1>7. Nat \subseteq S
  <2> HIDE DEF S
  <2> QED BY <1>5, <1>6, Induction
<1>8. \A i \in 1..7 : w[i] = 0
      BY <1>7
<1>9. w[8] \in 0..23
  <2>1. ~(s[8] < w[8])
    <3>1. 8 \in 1..8 /\ \A k \in 1..(8 - 1) : s[k] = w[k]
          BY <1>3, <1>8
    <3> QED BY <1>4, <3>1
  <2>2. s[8] = 23 /\ w[8] \in 0..255
    <3>1. 8 \in 1..8
          OBVIOUS
    <3> QED BY <1>1, <1>3, <3>1
  <2> QED BY <2>1, <2>2
<1>10. Below(w, 1)
  <2>1. 1 \in Widths
        BY DEF Widths
  <2>2. Below(w, 1) <=> \A i \in 1..(8 - 1) : w[i] = 0
        BY <2>1, LowBytes
  <2> QED BY <1>8, <2>2
<1> QED BY <1>8, <1>9, <1>10, OneByteWord

\* The text of a value with others around it.
Among(before, written, after) == (before \o written) \o after

\* Where a text is read: its first byte, and what get_string gives for the rest.
LEMMA MiddleRead ==
    ASSUME NEW before \in Seq(Bytes), NEW b \in Bytes, NEW tail \in Seq(Bytes), NEW after \in Seq(Bytes)
    PROVE  LET all == Among(before, <<b>> \o tail, after)
               i == Len(before) + 1
           IN  /\ all[i] = b
               /\ ReadBytes(all, i, Len(tail)) = Read(String(tail), i + Len(tail))
               /\ Len(<<b>> \o tail) = 1 + Len(tail)
<1> DEFINE one == <<b>>
           written == one \o tail
           most == before \o written
           all == most \o after
           m == Len(before) + 1
           n == Len(tail)
<1>1. Len(before) \in Nat /\ n \in Nat /\ Len(after) \in Nat /\ m \in Nat
      OBVIOUS
<1>2. one \in Seq(Bytes) /\ Len(one) = 1 /\ one[1] = b
      OBVIOUS
<1> HIDE DEF one
<1>3. /\ written \in Seq(Bytes) /\ Len(written) = 1 + n
      /\ \A i \in 1..(1 + n) : written[i] = IF i <= 1 THEN one[i] ELSE tail[i - 1]
  <2>1. /\ written \in Seq(Bytes) /\ Len(written) = Len(one) + Len(tail)
        /\ \A i \in 1..(Len(one) + Len(tail)) :
              written[i] = IF i <= Len(one) THEN one[i] ELSE tail[i - Len(one)]
        BY <1>2, ConcatProperties
  <2> QED BY <1>2, <2>1
<1> HIDE DEF written
<1>4. /\ most \in Seq(Bytes) /\ Len(most) = Len(before) + Len(written)
      /\ \A i \in 1..(Len(before) + Len(written)) :
            most[i] = IF i <= Len(before) THEN before[i] ELSE written[i - Len(before)]
      BY <1>3, ConcatProperties
<1> HIDE DEF most
<1>5. /\ all \in Seq(Bytes) /\ Len(all) = Len(most) + Len(after)
      /\ \A i \in 1..(Len(most) + Len(after)) :
            all[i] = IF i <= Len(most) THEN most[i] ELSE after[i - Len(most)]
  <2>1. most \in Seq(Bytes)
        BY <1>4
  <2> QED BY <2>1, ConcatProperties
<1> HIDE DEF all, n
<1>6. ASSUME NEW i \in 1..(1 + n) PROVE all[Len(before) + i] = written[i]
  <2>1. Len(before) + i \in 1..(Len(before) + Len(written)) /\ ~(Len(before) + i <= Len(before))
        BY <1>1, <1>3
  <2>2. Len(before) + i \in 1..(Len(most) + Len(after)) /\ Len(before) + i <= Len(most)
        BY <1>1, <1>3, <1>4, <2>1
  <2>3. all[Len(before) + i] = most[Len(before) + i]
        BY <1>5, <2>2
  <2>4. most[Len(before) + i] = written[(Len(before) + i) - Len(before)]
        BY <1>4, <2>1
  <2>5. (Len(before) + i) - Len(before) = i
        BY <1>1
  <2> QED BY <2>3, <2>4, <2>5
<1>7. all[m] = b
  <2>1. 1 \in 1..(1 + n) /\ 1 <= 1
        BY <1>1
  <2>2. all[Len(before) + 1] = written[1]
        BY <1>6, <2>1
  <2>3. written[1] = one[1]
        BY <1>3, <2>1
  <2> QED BY <1>2, <2>2, <2>3
<1>8. ASSUME NEW i \in 1..n PROVE all[m + i] = tail[i]
  <2>1. 1 + i \in 1..(1 + n) /\ ~(1 + i <= 1) /\ (1 + i) - 1 = i /\ Len(before) + (1 + i) = m + i
        BY <1>1
  <2>2. all[Len(before) + (1 + i)] = written[1 + i]
        BY <1>6, <2>1
  <2>3. written[1 + i] = tail[(1 + i) - 1]
        BY <1>3, <2>1
  <2> QED BY <2>1, <2>2, <2>3
<1> HIDE DEF m
<1>9. ~(m + n > Len(all))
      BY <1>1, <1>3, <1>4, <1>5 DEF m
<1>10. SubSeq(all, m + 1, m + n) = tail
  <2> DEFINE first == m + 1
             last == m + n
             part == SubSeq(all, first, last)
  <2>1. first \in Int /\ last \in Int /\ last - first + 1 = n /\ (first <= last <=> n # 0)
        BY <1>1
  <2>2. \A i \in first..last : all[i] \in Bytes
    <3> SUFFICES ASSUME NEW i \in first..last PROVE all[i] \in Bytes
        OBVIOUS
    <3>1. i \in 1..Len(all)
          BY <1>1, <1>9, <1>5
    <3> QED BY <1>5, <3>1, ElementOfSeq
  <2>3. \A i \in 1..n : first + i - 1 = m + i
        BY <1>1
  <2> HIDE DEF first, last
  <2>4. /\ part \in Seq(Bytes) /\ Len(part) = IF first <= last THEN last - first + 1 ELSE 0
        /\ \A i \in 1..(last - first + 1) : part[i] = all[first + i - 1]
        BY <2>1, <2>2, SubSeqProperties
  <2> HIDE DEF part
  <2>5. Len(part) = n
        BY <1>1, <2>1, <2>4
  <2>6. \A i \in 1..n : part[i] = tail[i]
        BY <1>8, <2>1, <2>3, <2>4
  <2>7. part = tail
        BY <2>4, <2>5, <2>6, SeqEqual DEF n
  <2> QED BY <2>7 DEF part, first, last
<1>11. ReadBytes(all, m, n) = Read(String(tail), m + n)
       BY <1>9, <1>10 DEF ReadBytes
<1> QED BY <1>3, <1>7, <1>11 DEF Among, all, most, written, one, m, n

\* What the low bytes of a word are read as, after a first byte.
LEMMA NumberRead ==
    ASSUME NEW before \in Seq(Bytes), NEW b \in Bytes, NEW after \in Seq(Bytes),
           NEW w \in Words, NEW n \in Widths
    PROVE  LET written == <<b>> \o WriteNumber(w, n)
               all == Among(before, written, after)
               i == Len(before) + 1
           IN  /\ all[i] = b
               /\ Below(w, n) => GetUnsigned(all, i, n) = Read(Unsigned(w), Len(before) + Len(written))
               /\ FitsSigned(w, n) => GetSigned(all, i, n) = Read(Integer(w), Len(before) + Len(written))
<1> DEFINE low == Tails(w, n)
           written == <<b>> \o low
           all == Among(before, written, after)
           i == Len(before) + 1
<1>1. low \in Seq(Bytes) /\ Len(low) = n /\ n \in Nat /\ Len(before) \in Nat
  <2>1. low \in Seq(Bytes) /\ Len(low) = n
        BY LowBytes
  <2>2. Len(before) \in Nat
        OBVIOUS
  <2> QED BY <2>1, <2>2 DEF Widths
<1>2. /\ Below(w, n) => Widen(low) = w
      /\ FitsSigned(w, n) => WidenSigned(low) = w
      BY WidenLow
<1> HIDE DEF low
<1>3. /\ all[i] = b
      /\ ReadBytes(all, i, Len(low)) = Read(String(low), i + Len(low))
      /\ Len(written) = 1 + Len(low)
  <2>1. low \in Seq(Bytes)
        BY <1>1
  <2> QED BY <2>1, MiddleRead
<1> HIDE DEF all, written
<1>4. i + n = Len(before) + Len(written) /\ ReadBytes(all, i, n) = Read(String(low), Len(before) + Len(written))
      BY <1>1, <1>3
<1> HIDE DEF i
<1>5. /\ Read(String(low), Len(before) + Len(written)).value = String(low)
      /\ Read(String(low), Len(before) + Len(written)).at = Len(before) + Len(written)
      BY DEF Read
<1>6. String(low)[2] = low /\ ~Threw(String(low))
      BY DEF String, Threw
<1>7. GetUnsigned(all, i, n) = Read(Unsigned(Widen(low)), Len(before) + Len(written))
      BY <1>4, <1>5, <1>6 DEF GetUnsigned, AsUnsigned, NumberAs
<1>8. GetSigned(all, i, n) = Read(Integer(WidenSigned(low)), Len(before) + Len(written))
      BY <1>4, <1>5, <1>6 DEF GetSigned, AsSigned, NumberAs
<1> QED BY <1>2, <1>3, <1>7, <1>8 DEF WriteNumber, low, written, all, i

\* A text of one byte.
LEMMA ByteRead ==
    ASSUME NEW before \in Seq(Bytes), NEW b \in Bytes, NEW after \in Seq(Bytes)
    PROVE  Among(before, <<b>>, after)[Len(before) + 1] = b
<1> DEFINE none == <<>>
           one == <<b>>
<1>1. none \in Seq(Bytes) /\ one \in Seq(Bytes)
      OBVIOUS
<1>2. one \o none = one
      BY <1>1, ConcatEmptySeq
<1>3. Among(before, <<b>> \o none, after)[Len(before) + 1] = b
  <2> HIDE DEF none
  <2> QED BY <1>1, MiddleRead
<1> QED BY <1>2, <1>3

\* A word below 2^8 is below 2^16, and so on.
LEMMA BelowMore ==
    ASSUME NEW w \in Words
    PROVE  /\ Below(w, 8)
           /\ Below(w, 1) => Below(w, 2)
           /\ Below(w, 2) => Below(w, 4)
           /\ FitsSigned(w, 8)
<1>1. 1 \in Widths /\ 2 \in Widths /\ 4 \in Widths /\ 8 \in Widths
      BY DEF Widths
<1>2. /\ Below(w, 1) <=> \A i \in 1..7 : w[i] = 0
      /\ Below(w, 2) <=> \A i \in 1..6 : w[i] = 0
      /\ Below(w, 4) <=> \A i \in 1..4 : w[i] = 0
      /\ Below(w, 8) <=> \A i \in 1..0 : w[i] = 0
  <2>1. ASSUME NEW n \in Widths PROVE Below(w, n) <=> \A i \in 1..(8 - n) : w[i] = 0
        BY LowBytes
  <2>2. 8 - 1 = 7 /\ 8 - 2 = 6 /\ 8 - 4 = 4 /\ 8 - 8 = 0
        OBVIOUS
  <2> QED BY <1>1, <2>1, <2>2
<1>3. Tails(w, 8)[1] = w[1] /\ w[1] \in 0..255
  <2>1. \A i \in 1..8 : Tails(w, 8)[i] = w[8 - 8 + i]
        BY <1>1, LowBytes
  <2> QED BY <2>1, WordBytes
<1>4. Below(w, 8)
      BY <1>2
<1>5. FitsSigned(w, 8)
      BY <1>3, <1>4 DEF FitsSigned
<1> QED BY <1>2, <1>4, <1>5

\* The major types of CBOR that a number or a size follows.
MajorTypes == {0, 32, 96, 128, 160}

\* What write_cbor puts in the first bytes is what the reader finds there.
CborHeadReads(base, w, before, after) ==
    LET written == CborHead(base, w)
        all == Among(before, written, after)
        i == Len(before) + 1
    IN  /\ all[i] \in base..(base + 27)
        /\ CborArgument(all, i, all[i]) = Read(Unsigned(w), Len(before) + Len(written))

\* A first byte and its five low bits.
LEMMA MajorAndLow ==
    ASSUME NEW base \in MajorTypes, NEW k \in 0..27
    PROVE  base + k \in Bytes /\ base + k \in base..(base + 27) /\ (base + k) % 32 = k
<1>1. base \in 0..160 /\ base \in Nat
      BY DEF MajorTypes
<1>2. base + k \in 0..255 /\ base + k \in base..(base + 27)
      BY <1>1
<1>3. (base + k) % 32 = k
  <2>1. k % 32 = k
        OBVIOUS
  <2>2. (32 + k) % 32 = k
        OBVIOUS
  <2>3. (96 + k) % 32 = k
        OBVIOUS
  <2>4. (128 + k) % 32 = k
        OBVIOUS
  <2>5. (160 + k) % 32 = k
        OBVIOUS
  <2>6. base = 0 \/ base = 32 \/ base = 96 \/ base = 128 \/ base = 160
        BY DEF MajorTypes
  <2>7. 0 + k = k
        OBVIOUS
  <2> QED BY <2>1, <2>2, <2>3, <2>4, <2>5, <2>6, <2>7
<1> QED BY <1>2, <1>3 DEF Bytes

LEMMA CborHeadForms ==
    ASSUME NEW w \in Words, NEW base \in MajorTypes
    PROVE  \/ /\ CborHead(base, w) = <<base + w[8]>>
              /\ w[8] \in 0..23 /\ w = Word(w[8])
           \/ \E k \in 1..4 : /\ CborHead(base, w) = <<base + 23 + k>> \o WriteNumber(w, Eight[k])
                              /\ Below(w, Eight[k])
<1>1. Eight[1] = 1 /\ Eight[2] = 2 /\ Eight[3] = 4 /\ Eight[4] = 8
      BY DEF Eight
<1>2. base + 24 = base + 23 + 1 /\ base + 25 = base + 23 + 2 /\ base + 26 = base + 23 + 3 /\ base + 27 = base + 23 + 4
      BY DEF MajorTypes
<1>3. /\ Below(w, 8)
      /\ Below(w, 1) => Below(w, 2)
      /\ Below(w, 2) => Below(w, 4)
      BY BelowMore
<1> DEFINE small == ~LexLess(Word(23), w)
<1>4. small => w[8] \in 0..23 /\ w = Word(w[8]) /\ Below(w, 1)
      BY SmallWord
<1>5. CborHead(base, w) =
          CASE small -> <<base + w[8]>>
            [] ~small /\ Below(w, 1) -> <<base + 24>> \o WriteNumber(w, 1)
            [] Below(w, 2) /\ ~Below(w, 1) -> <<base + 25>> \o WriteNumber(w, 2)
            [] Below(w, 4) /\ ~Below(w, 2) -> <<base + 26>> \o WriteNumber(w, 4)
            [] OTHER -> <<base + 27>> \o WriteNumber(w, 8)
      BY DEF CborHead
<1> HIDE DEF small
<1>6. CASE small
  <2>1. CborHead(base, w) = <<base + w[8]>>
        BY <1>3, <1>4, <1>5, <1>6
  <2> QED BY <1>4, <1>6, <2>1
<1>7. CASE ~small /\ Below(w, 1)
  <2>1. CborHead(base, w) = <<base + 24>> \o WriteNumber(w, 1)
        BY <1>3, <1>5, <1>7
  <2>2. CborHead(base, w) = <<base + 23 + 1>> \o WriteNumber(w, Eight[1]) /\ Below(w, Eight[1])
        BY <1>1, <1>2, <1>7, <2>1
  <2>3. 1 \in 1..4
        OBVIOUS
  <2> QED BY <2>2, <2>3
<1>8. CASE ~small /\ ~Below(w, 1) /\ Below(w, 2)
  <2>1. CborHead(base, w) = <<base + 25>> \o WriteNumber(w, 2)
        BY <1>3, <1>5, <1>8
  <2>2. CborHead(base, w) = <<base + 23 + 2>> \o WriteNumber(w, Eight[2]) /\ Below(w, Eight[2])
        BY <1>1, <1>2, <1>8, <2>1
  <2>3. 2 \in 1..4
        OBVIOUS
  <2> QED BY <2>2, <2>3
<1>9. CASE ~small /\ ~Below(w, 2) /\ Below(w, 4)
  <2>1. CborHead(base, w) = <<base + 26>> \o WriteNumber(w, 4)
        BY <1>3, <1>5, <1>9
  <2>2. CborHead(base, w) = <<base + 23 + 3>> \o WriteNumber(w, Eight[3]) /\ Below(w, Eight[3])
        BY <1>1, <1>2, <1>9, <2>1
  <2>3. 3 \in 1..4
        OBVIOUS
  <2> QED BY <2>2, <2>3
<1>10. CASE ~small /\ ~Below(w, 4)
  <2>1. CborHead(base, w) = <<base + 27>> \o WriteNumber(w, 8)
        BY <1>3, <1>5, <1>10
  <2>2. CborHead(base, w) = <<base + 23 + 4>> \o WriteNumber(w, Eight[4]) /\ Below(w, Eight[4])
        BY <1>1, <1>2, <1>3, <2>1
  <2>3. 4 \in 1..4
        OBVIOUS
  <2> QED BY <2>2, <2>3
<1> QED BY <1>3, <1>6, <1>7, <1>8, <1>9, <1>10

LEMMA CborHeadRead ==
    ASSUME NEW w \in Words, NEW base \in MajorTypes, NEW before \in Seq(Bytes), NEW after \in Seq(Bytes)
    PROVE  CborHeadReads(base, w, before, after)
<1> DEFINE written == CborHead(base, w)
           all == Among(before, written, after)
           i == Len(before) + 1
<1>1. CASE written = <<base + w[8]>> /\ w[8] \in 0..23 /\ w = Word(w[8])
  <2> DEFINE c == base + w[8]
  <2>1. c \in Bytes /\ c \in base..(base + 27) /\ c % 32 = w[8] /\ c % 32 < 24
    <3>1. w[8] \in 0..27 /\ w[8] < 24
          BY <1>1
    <3> QED BY <3>1, MajorAndLow
  <2>2. written = <<c>> /\ Len(<<c>>) = 1
        BY <1>1
  <2> HIDE DEF written, c
  <2>3. all[i] = c
        BY <2>1, <2>2, ByteRead
  <2>4. CborArgument(all, i, c) = Read(Unsigned(w), i)
        BY <1>1, <2>1 DEF CborArgument
  <2>5. Len(before) + Len(written) = i
        BY <2>2
  <2> QED BY <2>1, <2>3, <2>4, <2>5 DEF CborHeadReads, written
<1>2. ASSUME NEW k \in 1..4, written = <<base + 23 + k>> \o WriteNumber(w, Eight[k]), Below(w, Eight[k])
      PROVE  CborHeadReads(base, w, before, after)
  <2> DEFINE c == base + 23 + k
             n == Eight[k]
  <2>1. c \in Bytes /\ c \in base..(base + 27) /\ c % 32 = 23 + k /\ ~(c % 32 < 24) /\ (c % 32) - 23 = k
    <3>1. 23 + k \in 0..27 /\ base + (23 + k) = c
          BY DEF MajorTypes
    <3>2. c \in Bytes /\ c \in base..(base + 27) /\ c % 32 = 23 + k
          BY <3>1, MajorAndLow
    <3> QED BY <3>1, <3>2
  <2>2. n \in Widths
    <3>1. k = 1 \/ k = 2 \/ k = 3 \/ k = 4
          OBVIOUS
    <3> QED BY <3>1 DEF Eight, Widths
  <2>3. written = <<c>> \o WriteNumber(w, n) /\ Below(w, n)
        BY <1>2
  <2> HIDE DEF written, c
  <2>4. all[i] = c /\ GetUnsigned(all, i, n) = Read(Unsigned(w), Len(before) + Len(written))
        BY <2>1, <2>2, <2>3, NumberRead
  <2>5. CborArgument(all, i, c) = GetUnsigned(all, i, n)
        BY <2>1 DEF CborArgument
  <2> QED BY <2>1, <2>4, <2>5 DEF CborHeadReads, written
<1> QED BY <1>1, <1>2, CborHeadForms

\* The same of every bit and twice.
LEMMA ComplementTwice ==
    ASSUME NEW w \in Words
    PROVE  Complement(w) \in Words /\ Complement(Complement(w)) = w
<1> DEFINE c == Complement(w)
           d == Complement(c)
<1>1. w \in Seq(Bytes) /\ Len(w) = 8 /\ DOMAIN w = 1..8 /\ \A i \in 1..8 : w[i] \in 0..255
      BY WordBytes
<1>2. c = [i \in 1..8 |-> 255 - w[i]]
      BY <1>1 DEF Complement
<1>3. \A i \in 1..8 : 255 - w[i] \in Bytes
  <2> SUFFICES ASSUME NEW i \in 1..8 PROVE 255 - w[i] \in 0..255
      BY DEF Bytes
  <2>1. w[i] \in 0..255
        BY <1>1
  <2> QED BY <2>1
<1>4. c \in Seq(Bytes) /\ Len(c) = 8 /\ DOMAIN c = 1..8 /\ \A i \in 1..8 : c[i] = 255 - w[i]
      BY <1>2, <1>3
<1> HIDE DEF c
<1>5. d = [i \in 1..8 |-> 255 - c[i]]
      BY <1>4 DEF Complement
<1>6. \A i \in 1..8 : 255 - c[i] = w[i] /\ w[i] \in Bytes
  <2> SUFFICES ASSUME NEW i \in 1..8 PROVE 255 - c[i] = w[i] /\ w[i] \in Bytes
      OBVIOUS
  <2>1. w[i] \in 0..255 /\ w[i] \in Bytes
        BY <1>1 DEF Bytes
  <2>2. c[i] = 255 - w[i]
        BY <1>4
  <2> QED BY <2>1, <2>2
<1>7. d \in Seq(Bytes) /\ Len(d) = 8 /\ \A i \in 1..8 : d[i] = w[i]
      BY <1>5, <1>6
<1> HIDE DEF d
<1>8. d = w
      BY <1>1, <1>7, SeqEqual
<1> QED BY <1>4, <1>8 DEF Words, c, d

\* The values of json.hpp that are integers.
IntegerValues == {Unsigned(w) : w \in Words} \cup {Integer(w) : w \in Words}

\* r gives the number v and ends at position at: one that is not negative may
\* come back as number_unsigned_t for number_integer_t or the other way.
GivesNumber(r, v, at) ==
    /\ r.at = at
    /\ IsNumberInteger(r.value) /\ r.value[2] = v[2]
    /\ r.value[1] = v[1] \/ ~SignBit(v[2])

LEMMA GivesUnsigned ==
    ASSUME NEW v \in IntegerValues, NEW at, v[1] = "unsigned" \/ ~SignBit(v[2])
    PROVE  GivesNumber(Read(Unsigned(v[2]), at), v, at)
<1>1. /\ Read(Unsigned(v[2]), at).at = at
      /\ Read(Unsigned(v[2]), at).value = Unsigned(v[2])
      BY DEF Read
<1>2. Unsigned(v[2])[1] = "unsigned" /\ Unsigned(v[2])[2] = v[2]
      BY DEF Unsigned
<1> QED BY <1>1, <1>2 DEF GivesNumber, IsNumberInteger

LEMMA GivesInteger ==
    ASSUME NEW v \in IntegerValues, NEW at, v[1] = "integer" \/ ~SignBit(v[2])
    PROVE  GivesNumber(Read(Integer(v[2]), at), v, at)
<1>1. /\ Read(Integer(v[2]), at).at = at
      /\ Read(Integer(v[2]), at).value = Integer(v[2])
      BY DEF Read
<1>2. Integer(v[2])[1] = "integer" /\ Integer(v[2])[2] = v[2]
      BY DEF Integer
<1> QED BY <1>1, <1>2 DEF GivesNumber, IsNumberInteger

LEMMA IntegerForms ==
    ASSUME NEW v \in IntegerValues
    PROVE  v[2] \in Words /\ (v[1] = "integer" \/ v[1] = "unsigned")
<1>1. ASSUME NEW w \in Words
      PROVE  /\ Unsigned(w)[1] = "unsigned" /\ Unsigned(w)[2] = w
             /\ Integer(w)[1] = "integer" /\ Integer(w)[2] = w
      BY DEF Unsigned, Integer
<1>2. CASE \E w \in Words : v = Unsigned(w)
      BY <1>1, <1>2
<1>3. CASE \E w \in Words : v = Integer(w)
      BY <1>1, <1>3
<1> QED BY <1>2, <1>3 DEF IntegerValues

\* An integer in CBOR, with any bytes before and after it.
CborReadsBack(v, before, after) ==
    LET written == CborInteger(v)
        all == Among(before, written, after)
        i == Len(before) + 1
    IN  /\ all[i] \in CborIntegers
        /\ GivesNumber(ReadCborInteger(all, i, all[i]), v, Len(before) + Len(written))

LEMMA CborIntegerRead ==
    ASSUME NEW v \in IntegerValues, NEW before \in Seq(Bytes), NEW after \in Seq(Bytes)
    PROVE  CborReadsBack(v, before, after)
<1> DEFINE w == v[2]
           written == CborInteger(v)
           all == Among(before, written, after)
           i == Len(before) + 1
           c == all[i]
           end == Len(before) + Len(written)
<1>1. w \in Words /\ (v[1] = "integer" \/ v[1] = "unsigned")
      BY IntegerForms
<1>2. 0 \in MajorTypes /\ 32 \in MajorTypes
      BY DEF MajorTypes
<1>3. CASE v[1] = "integer" /\ SignBit(w)
  <2>1. written = CborHead(32, Complement(w))
        BY <1>3 DEF CborInteger
  <2>2. Complement(w) \in Words /\ Complement(Complement(w)) = w
        BY <1>1, ComplementTwice
  <2>3. CborHeadReads(32, Complement(w), before, after)
        BY <1>2, <2>2, CborHeadRead
  <2>4. c \in 32..(32 + 27) /\ CborArgument(all, i, c) = Read(Unsigned(Complement(w)), end)
        BY <2>1, <2>3 DEF CborHeadReads
  <2> HIDE DEF c, all, i, end, written, w
  <2>5. c \in CborIntegers /\ ~(c < 32)
        BY <2>4 DEF CborIntegers
  <2>6. ReadCborInteger(all, i, c) = CborNegative(Read(Unsigned(Complement(w)), end))
        BY <2>4, <2>5 DEF ReadCborInteger
  <2>7. /\ Read(Unsigned(Complement(w)), end).value = Unsigned(Complement(w))
        /\ Read(Unsigned(Complement(w)), end).at = end
        BY DEF Read
  <2>8. Unsigned(Complement(w))[2] = Complement(w) /\ ~Threw(Unsigned(Complement(w)))
        BY DEF Unsigned, Threw
  <2>9. CborNegative(Read(Unsigned(Complement(w)), end)) = Read(Integer(w), end)
        BY <2>2, <2>7, <2>8 DEF CborNegative, NumberAs
  <2>10. GivesNumber(Read(Integer(w), end), v, end)
         BY <1>3, GivesInteger DEF w
  <2> QED BY <2>5, <2>6, <2>9, <2>10 DEF CborReadsBack, c, all, i, end, written
<1>4. CASE ~(v[1] = "integer" /\ SignBit(w))
  <2>1. written = CborHead(0, w)
        BY <1>4 DEF CborInteger
  <2>2. CborHeadReads(0, w, before, after)
        BY <1>1, <1>2, CborHeadRead
  <2>3. c \in 0..(0 + 27) /\ CborArgument(all, i, c) = Read(Unsigned(w), end)
        BY <2>1, <2>2 DEF CborHeadReads
  <2> HIDE DEF c, all, i, end, written, w
  <2>4. c \in CborIntegers /\ c < 32
        BY <2>3 DEF CborIntegers
  <2>5. ReadCborInteger(all, i, c) = Read(Unsigned(w), end)
        BY <2>3, <2>4 DEF ReadCborInteger
  <2>6. v[1] = "unsigned" \/ ~SignBit(v[2])
        BY <1>1, <1>4 DEF w
  <2>7. GivesNumber(Read(Unsigned(w), end), v, end)
        BY <2>6, GivesUnsigned DEF w
  <2> QED BY <2>4, <2>5, <2>7 DEF CborReadsBack, c, all, i, end, written
<1> QED BY <1>3, <1>4

\* The widths of a format, with the first byte for each.
FourWidths(a, b, c, d) == {<<1, a>>, <<2, b>>, <<4, c>>, <<8, d>>}

\* The narrowest of some of the widths is one of them.
LEMMA NarrowestOfFour ==
    ASSUME NEW a, NEW b, NEW c, NEW d,
           NEW widths \in SUBSET FourWidths(a, b, c, d), widths # {}
    PROVE  Narrowest(widths) \in widths
<1> DEFINE IsNarrowest(w) == \A u \in widths : w[1] <= u[1]
<1>1. \E w \in widths : IsNarrowest(w)
  <2>0. \A w \in widths : w = <<1, a>> \/ w = <<2, b>> \/ w = <<4, c>> \/ w = <<8, d>>
        BY DEF FourWidths
  <2>1. CASE <<1, a>> \in widths
        BY <2>0, <2>1
  <2>2. CASE <<1, a>> \notin widths /\ <<2, b>> \in widths
        BY <2>0, <2>2
  <2>3. CASE <<1, a>> \notin widths /\ <<2, b>> \notin widths /\ <<4, c>> \in widths
        BY <2>0, <2>3
  <2>4. CASE <<1, a>> \notin widths /\ <<2, b>> \notin widths /\ <<4, c>> \notin widths
        BY <2>0, <2>4
  <2> QED BY <2>1, <2>2, <2>3, <2>4
<1> HIDE DEF IsNarrowest
<1>2. (CHOOSE w \in widths : IsNarrowest(w)) \in widths
      BY <1>1
<1> QED BY <1>2 DEF Narrowest, IsNarrowest

\* The widths of MessagePack by their place.
LEMMA WidthForms ==
    /\ \A u \in UnsignedWidths : \E k \in 1..4 : u = <<Eight[k], 203 + k>>
    /\ \A u \in SignedWidths : \E k \in 1..4 : u = <<Eight[k], 207 + k>>
<1>1. Eight[1] = 1 /\ Eight[2] = 2 /\ Eight[3] = 4 /\ Eight[4] = 8
      BY DEF Eight
<1>2. /\ 203 + 1 = 204 /\ 203 + 2 = 205 /\ 203 + 3 = 206 /\ 203 + 4 = 207
      /\ 207 + 1 = 208 /\ 207 + 2 = 209 /\ 207 + 3 = 210 /\ 207 + 4 = 211
      OBVIOUS
<1>3. 1 \in 1..4 /\ 2 \in 1..4 /\ 3 \in 1..4 /\ 4 \in 1..4
      OBVIOUS
<1>4. ASSUME NEW u \in UnsignedWidths
      PROVE  \E k \in 1..4 : u = <<Eight[k], 203 + k>>
  <2>1. u = <<1, 204>> \/ u = <<2, 205>> \/ u = <<4, 206>> \/ u = <<8, 207>>
        BY DEF UnsignedWidths
  <2> QED BY <1>1, <1>2, <1>3, <2>1
<1>5. ASSUME NEW u \in SignedWidths
      PROVE  \E k \in 1..4 : u = <<Eight[k], 207 + k>>
  <2>1. u = <<1, 208>> \/ u = <<2, 209>> \/ u = <<4, 210>> \/ u = <<8, 211>>
        BY DEF SignedWidths
  <2> QED BY <1>1, <1>2, <1>3, <2>1
<1> QED BY <1>4, <1>5

\* An integer in MessagePack, with any bytes before and after it.
MsgpackReadsBack(v, before, after) ==
    LET written == MsgpackInteger(v)
        all == Among(before, written, after)
        i == Len(before) + 1
    IN  /\ all[i] \in MsgpackIntegers
        /\ GivesNumber(ReadMsgpackInteger(all, i, all[i]), v, Len(before) + Len(written))

\* One byte, which is the number.
LEMMA LastByte ==
    ASSUME NEW w \in Words
    PROVE  /\ WriteNumber(w, 1) = <<w[8]>>
           /\ Below(w, 1) => w = Word(w[8])
           /\ FitsSigned(w, 1) => WidenSigned(<<w[8]>>) = w
<1>1. 1 \in Widths
      BY DEF Widths
<1>2. /\ Tails(w, 1) \in Seq(Bytes) /\ Len(Tails(w, 1)) = 1
      /\ \A i \in 1..1 : Tails(w, 1)[i] = w[8 - 1 + i]
      /\ Below(w, 1) <=> \A i \in 1..(8 - 1) : w[i] = 0
      BY <1>1, LowBytes
<1> DEFINE low == Tails(w, 1)
           one == <<w[8]>>
<1>3. low[1] = w[8]
      BY <1>2
<1>4. one \in Seq(Bytes) /\ Len(one) = 1 /\ one[1] = w[8]
  <2>1. w[8] \in Bytes
        BY WordBytes
  <2> QED BY <2>1
<1>5. low = one
  <2> HIDE DEF low, one
  <2>1. \A i \in 1..1 : low[i] = one[i]
        BY <1>3, <1>4
  <2> QED BY <1>2, <1>4, <2>1, SeqEqual DEF low
<1>6. Below(w, 1) => w = Word(w[8])
      BY <1>2, OneByteWord
<1>7. FitsSigned(w, 1) => WidenSigned(low) = w
      BY <1>1, WidenLow
<1> QED BY <1>5, <1>6, <1>7 DEF WriteNumber

\* What a first byte of MessagePack tells the reader to do.
LEMMA MsgpackOneByte ==
    ASSUME NEW all, NEW i, NEW c
    PROVE  /\ c \in 0..127 => ReadMsgpackInteger(all, i, c) = Read(Unsigned(Word(c)), i)
           /\ c \in 224..255 => ReadMsgpackInteger(all, i, c) = Read(Integer(WidenSigned(<<c>>)), i)
<1>1. ASSUME c \in 0..127
      PROVE  ReadMsgpackInteger(all, i, c) = Read(Unsigned(Word(c)), i)
  <2>1. c \notin 204..207 /\ c \notin 208..211 /\ c \notin 224..255
        BY <1>1
  <2> QED BY <1>1, <2>1 DEF ReadMsgpackInteger
<1>2. ASSUME c \in 224..255
      PROVE  ReadMsgpackInteger(all, i, c) = Read(Integer(WidenSigned(<<c>>)), i)
  <2>1. c \notin 0..127 /\ c \notin 204..207 /\ c \notin 208..211
        BY <1>2
  <2> QED BY <1>2, <2>1 DEF ReadMsgpackInteger
<1> QED BY <1>1, <1>2

LEMMA MsgpackBytes ==
    ASSUME NEW all, NEW i, NEW c, NEW k \in 1..4
    PROVE  /\ c = 203 + k => ReadMsgpackInteger(all, i, c) = GetUnsigned(all, i, Eight[k])
           /\ c = 207 + k => ReadMsgpackInteger(all, i, c) = GetSigned(all, i, Eight[k])
<1>1. ASSUME c = 203 + k
      PROVE  ReadMsgpackInteger(all, i, c) = GetUnsigned(all, i, Eight[k])
  <2>1. c \in 204..207 /\ c \notin 0..127 /\ c \notin 208..211 /\ c \notin 224..255 /\ c - 203 = k
        BY <1>1
  <2> QED BY <2>1 DEF ReadMsgpackInteger
<1>2. ASSUME c = 207 + k
      PROVE  ReadMsgpackInteger(all, i, c) = GetSigned(all, i, Eight[k])
  <2>1. c \in 208..211 /\ c \notin 0..127 /\ c \notin 204..207 /\ c \notin 224..255 /\ c - 207 = k
        BY <1>2
  <2> QED BY <2>1 DEF ReadMsgpackInteger
<1> QED BY <1>1, <1>2

\* A number by its width, after the first byte for that width.
LEMMA MsgpackMarkedRead ==
    ASSUME NEW v \in IntegerValues, NEW before \in Seq(Bytes), NEW after \in Seq(Bytes), NEW k \in 1..4,
           \/ MsgpackInteger(v) = Marked(v[2], <<Eight[k], 203 + k>>) /\ Below(v[2], Eight[k])
                  /\ (v[1] = "unsigned" \/ ~SignBit(v[2]))
           \/ MsgpackInteger(v) = Marked(v[2], <<Eight[k], 207 + k>>) /\ FitsSigned(v[2], Eight[k])
                  /\ v[1] = "integer"
    PROVE  MsgpackReadsBack(v, before, after)
<1> DEFINE w == v[2]
           written == MsgpackInteger(v)
           all == Among(before, written, after)
           i == Len(before) + 1
           n == Eight[k]
           end == Len(before) + Len(written)
<1>1. w \in Words
      BY IntegerForms
<1>2. n \in Widths
  <2>1. k = 1 \/ k = 2 \/ k = 3 \/ k = 4
        OBVIOUS
  <2> QED BY <2>1 DEF Eight, Widths
<1>3. ASSUME NEW b, written = Marked(w, <<n, b>>)
      PROVE  written = <<b>> \o WriteNumber(w, n)
      BY <1>3 DEF Marked
<1>4. CASE written = Marked(w, <<n, 203 + k>>) /\ Below(w, n) /\ (v[1] = "unsigned" \/ ~SignBit(w))
  <2> DEFINE b == 203 + k
  <2>1. b \in Bytes /\ b \in MsgpackIntegers
        BY DEF Bytes, MsgpackIntegers
  <2>2. written = <<b>> \o WriteNumber(w, n)
        BY <1>3, <1>4
  <2> HIDE DEF written, n
  <2>3. all[i] = b /\ GetUnsigned(all, i, n) = Read(Unsigned(w), end)
    <3>1. Below(w, n)
          BY <1>4
    <3> HIDE DEF b, w
    <3> QED BY <1>1, <1>2, <2>1, <2>2, <3>1, NumberRead
  <2>4. ReadMsgpackInteger(all, i, b) = GetUnsigned(all, i, n)
        BY MsgpackBytes DEF n
  <2>5. GivesNumber(Read(Unsigned(w), end), v, end)
        BY <1>4, GivesUnsigned
  <2> QED BY <2>1, <2>3, <2>4, <2>5 DEF MsgpackReadsBack, written
<1>5. CASE written = Marked(w, <<n, 207 + k>>) /\ FitsSigned(w, n) /\ v[1] = "integer"
  <2> DEFINE b == 207 + k
  <2>1. b \in Bytes /\ b \in MsgpackIntegers
        BY DEF Bytes, MsgpackIntegers
  <2>2. written = <<b>> \o WriteNumber(w, n)
        BY <1>3, <1>5
  <2> HIDE DEF written, n
  <2>3. all[i] = b /\ GetSigned(all, i, n) = Read(Integer(w), end)
    <3>1. FitsSigned(w, n)
          BY <1>5
    <3> HIDE DEF b, w
    <3> QED BY <1>1, <1>2, <2>1, <2>2, <3>1, NumberRead
  <2>4. ReadMsgpackInteger(all, i, b) = GetSigned(all, i, n)
        BY MsgpackBytes DEF n
  <2>5. GivesNumber(Read(Integer(w), end), v, end)
        BY <1>5, GivesInteger
  <2> QED BY <2>1, <2>3, <2>4, <2>5 DEF MsgpackReadsBack, written
<1> QED BY <1>4, <1>5

LEMMA MsgpackIntegerRead ==
    ASSUME NEW v \in IntegerValues, NEW before \in Seq(Bytes), NEW after \in Seq(Bytes)
    PROVE  MsgpackReadsBack(v, before, after)
<1> DEFINE w == v[2]
           written == MsgpackInteger(v)
           all == Among(before, written, after)
           i == Len(before) + 1
           end == Len(before) + Len(written)
           b == w[8]
           negative == v[1] = "integer" /\ SignBit(w)
<1>1. w \in Words /\ (v[1] = "integer" \/ v[1] = "unsigned") 
      BY IntegerForms
<1>2. b \in Bytes /\ b \in 0..255
      BY <1>1, WordBytes
<1>3. /\ WriteNumber(w, 1) = <<b>>
      /\ Below(w, 1) => w = Word(b)
      /\ FitsSigned(w, 1) => WidenSigned(<<b>>) = w
      BY <1>1, LastByte
<1>4. ASSUME written = <<b>>
      PROVE  all[i] = b /\ end = i
  <2>1. Len(<<b>>) = 1
        OBVIOUS
  <2>2. all[i] = b
    <3> HIDE DEF b, written
    <3> QED BY <1>2, <1>4, ByteRead
  <2> QED BY <1>4, <2>1, <2>2
<1>5. CASE negative /\ FitsSigned(w, 1) /\ b >= 224
  <2>1. written = <<b>>
        BY <1>3, <1>5 DEF MsgpackInteger, MsgpackNegative
  <2>2. b \in 224..255 /\ b \in MsgpackIntegers
    <3>1. b \in 0..255 /\ b >= 224
          BY <1>2, <1>5
    <3> HIDE DEF b
    <3> QED BY <3>1 DEF MsgpackIntegers
  <2> HIDE DEF b, written, w, all, i, end
  <2>3. all[i] = b /\ end = i
        BY <1>4, <2>1
  <2>4. ReadMsgpackInteger(all, i, b) = Read(Integer(w), end)
    <3>1. ReadMsgpackInteger(all, i, b) = Read(Integer(WidenSigned(<<b>>)), i)
          BY <2>2, MsgpackOneByte
    <3>2. WidenSigned(<<b>>) = w
          BY <1>3, <1>5
    <3> QED BY <2>3, <3>1, <3>2
  <2>5. GivesNumber(Read(Integer(w), end), v, end)
        BY <1>5, GivesInteger DEF w
  <2> QED BY <2>2, <2>3, <2>4, <2>5 DEF MsgpackReadsBack, written, all, i, end
<1>6. CASE negative /\ ~(FitsSigned(w, 1) /\ b >= 224)
  <2> DEFINE widths == {u \in SignedWidths : FitsSigned(w, u[1])}
  <2>1. written = Marked(w, Narrowest(widths))
        BY <1>6 DEF MsgpackInteger, MsgpackNegative
  <2>2. <<8, 211>> \in widths
        BY <1>1, BelowMore DEF SignedWidths
  <2>3. widths \in SUBSET FourWidths(208, 209, 210, 211) /\ widths # {}
        BY <2>2 DEF SignedWidths, FourWidths
  <2>4. \A u \in widths : u \in SignedWidths /\ FitsSigned(w, u[1])
        OBVIOUS
  <2> HIDE DEF widths
  <2>5. Narrowest(widths) \in widths
        BY <2>3, NarrowestOfFour
  <2>6. PICK k \in 1..4 : Narrowest(widths) = <<Eight[k], 207 + k>>
        BY <2>4, <2>5, WidthForms
  <2>7. FitsSigned(w, Eight[k])
    <3>1. <<Eight[k], 207 + k>>[1] = Eight[k]
          OBVIOUS
    <3> QED BY <2>4, <2>5, <2>6, <3>1
  <2> QED BY <1>6, <2>1, <2>6, <2>7, MsgpackMarkedRead
<1>7. CASE ~negative /\ Below(w, 1) /\ b < 128
  <2>1. written = <<b>>
        BY <1>3, <1>7 DEF MsgpackInteger
  <2>2. b \in 0..127 /\ b \in MsgpackIntegers
    <3>1. b \in 0..255 /\ b < 128
          BY <1>2, <1>7
    <3> HIDE DEF b
    <3> QED BY <3>1 DEF MsgpackIntegers
  <2>3. v[1] = "unsigned" \/ ~SignBit(v[2])
        BY <1>1, <1>7
  <2> HIDE DEF b, written, w, all, i, end
  <2>4. all[i] = b /\ end = i
        BY <1>4, <2>1
  <2>5. ReadMsgpackInteger(all, i, b) = Read(Unsigned(w), end)
    <3>1. ReadMsgpackInteger(all, i, b) = Read(Unsigned(Word(b)), i)
          BY <2>2, MsgpackOneByte
    <3>2. Word(b) = w
          BY <1>3, <1>7
    <3> QED BY <2>4, <3>1, <3>2
  <2>6. GivesNumber(Read(Unsigned(w), end), v, end)
        BY <2>3, GivesUnsigned DEF w
  <2> QED BY <2>2, <2>4, <2>5, <2>6 DEF MsgpackReadsBack, written, all, i, end
<1>8. CASE ~negative /\ ~(Below(w, 1) /\ b < 128)
  <2> DEFINE widths == {u \in UnsignedWidths : u[1] = 8 \/ Below(w, u[1])}
  <2>1. written = Marked(w, Narrowest(widths))
        BY <1>8 DEF MsgpackInteger, MsgpackHead
  <2>2. <<8, 207>> \in widths
        BY DEF UnsignedWidths
  <2>3. widths \in SUBSET FourWidths(204, 205, 206, 207) /\ widths # {}
        BY <2>2 DEF UnsignedWidths, FourWidths
  <2>4. \A u \in widths : u \in UnsignedWidths /\ Below(w, u[1])
        BY <1>1, BelowMore
  <2>5. v[1] = "unsigned" \/ ~SignBit(v[2])
        BY <1>1, <1>8
  <2> HIDE DEF widths
  <2>6. Narrowest(widths) \in widths
        BY <2>3, NarrowestOfFour
  <2>7. PICK k \in 1..4 : Narrowest(widths) = <<Eight[k], 203 + k>>
        BY <2>4, <2>6, WidthForms
  <2>8. Below(w, Eight[k])
    <3>1. <<Eight[k], 203 + k>>[1] = Eight[k]
          OBVIOUS
    <3> QED BY <2>4, <2>6, <2>7, <3>1
  <2> QED BY <2>1, <2>5, <2>7, <2>8, MsgpackMarkedRead
<1> QED BY <1>5, <1>6, <1>7, <1>8

\* An integer in UBJSON, its marker first, with any bytes before and after it.
UbjsonReadsBack(v, before, after) ==
    LET written == <<UbjsonMarker(v)>> \o UbjsonInteger(v, UbjsonMarker(v))
        all == Among(before, written, after)
        i == Len(before) + 1
    IN  /\ all[i] \in UbjsonIntegers
        /\ GivesNumber(ReadUbjsonInteger(all, i, all[i]), v, Len(before) + Len(written))

\* The markers and what fits them.
LEMMA UbjsonMarkerForms ==
    ASSUME NEW v \in IntegerValues, ~TooLarge(v)
    PROVE  \/ UbjsonMarker(v) = 85 /\ Below(v[2], 1) /\ ~SignBit(v[2])
           \/ UbjsonMarker(v) \in {105, 73, 108, 76} /\ FitsSigned(v[2], UbjsonWidth[UbjsonMarker(v)])
<1> DEFINE w == v[2]
<1>1. UbjsonWidth[105] = 1 /\ UbjsonWidth[73] = 2 /\ UbjsonWidth[108] = 4 /\ UbjsonWidth[76] = 8
      BY DEF UbjsonWidth, UbjsonIntegers
<1>2. w \in Words
      BY IntegerForms
<1>3. FitsSigned(w, 8)
      BY <1>2, BelowMore
<1>4. Below(w, 1) => ~SignBit(w)
  <2>1. Below(w, 1) <=> \A i \in 1..(8 - 1) : w[i] = 0
        BY <1>2, LowBytes DEF Widths
  <2> QED BY <2>1 DEF SignBit
<1>5. CASE FitsSigned(w, 1)
  <2>1. UbjsonMarker(v) = 105
        BY <1>5 DEF UbjsonMarker
  <2> QED BY <1>1, <1>5, <2>1
<1>6. CASE ~FitsSigned(w, 1) /\ Below(w, 1)
  <2>1. UbjsonMarker(v) = 85
        BY <1>6 DEF UbjsonMarker
  <2> QED BY <1>4, <1>6, <2>1
<1>7. CASE ~FitsSigned(w, 1) /\ ~Below(w, 1)
  <2>1. UbjsonMarker(v) = IF FitsSigned(w, 2) THEN 73 ELSE IF FitsSigned(w, 4) THEN 108 ELSE 76
        BY <1>7 DEF UbjsonMarker
  <2> QED BY <1>1, <1>3, <2>1
<1> QED BY <1>5, <1>6, <1>7

LEMMA UbjsonIntegerRead ==
    ASSUME NEW v \in IntegerValues, ~TooLarge(v), NEW before \in Seq(Bytes), NEW after \in Seq(Bytes)
    PROVE  UbjsonReadsBack(v, before, after)
<1> DEFINE w == v[2]
           c == UbjsonMarker(v)
           n == UbjsonWidth[c]
           written == <<c>> \o UbjsonInteger(v, c)
           all == Among(before, written, after)
           i == Len(before) + 1
           end == Len(before) + Len(written)
<1>1. w \in Words /\ (v[1] = "integer" \/ v[1] = "unsigned")
      BY IntegerForms
<1>2. \/ c = 85 /\ Below(w, 1) /\ ~SignBit(w)
      \/ c \in {105, 73, 108, 76} /\ FitsSigned(w, n)
      BY UbjsonMarkerForms
<1>3. written = <<c>> \o WriteNumber(w, n)
      BY DEF UbjsonInteger
<1>4. c \in UbjsonIntegers /\ c \in Bytes
      BY <1>2 DEF UbjsonIntegers, Bytes
<1>5. n \in Widths /\ (c = 85 => n = 1)
      BY <1>4 DEF UbjsonWidth, UbjsonIntegers, Widths
<1>6. /\ all[i] = c
      /\ Below(w, n) => GetUnsigned(all, i, n) = Read(Unsigned(w), end)
      /\ FitsSigned(w, n) => GetSigned(all, i, n) = Read(Integer(w), end)
  <2> HIDE DEF written, c, n, w
  <2> QED BY <1>1, <1>3, <1>4, <1>5, NumberRead
<1>7. v[1] = "integer" \/ ~SignBit(w)
      BY <1>1 DEF TooLarge, IsNumberUnsigned
<1>8. CASE c = 85 /\ Below(w, 1) /\ ~SignBit(w)
  <2>1. ReadUbjsonInteger(all, i, c) = Read(Unsigned(w), end)
    <3> HIDE DEF all, i, end, c, n, w
    <3> QED BY <1>5, <1>6, <1>8 DEF ReadUbjsonInteger
  <2>2. GivesNumber(Read(Unsigned(w), end), v, end)
        BY <1>8, GivesUnsigned
  <2> QED BY <1>4, <1>6, <2>1, <2>2 DEF UbjsonReadsBack
<1>9. CASE c \in {105, 73, 108, 76} /\ FitsSigned(w, n)
  <2>1. ReadUbjsonInteger(all, i, c) = Read(Integer(w), end)
    <3>1. c # 85
          BY <1>9
    <3>2. ReadUbjsonInteger(all, i, c) = GetSigned(all, i, n)
          BY <3>1 DEF ReadUbjsonInteger
    <3> QED BY <1>6, <1>9, <3>2
  <2>2. GivesNumber(Read(Integer(w), end), v, end)
        BY <1>7, GivesInteger
  <2> QED BY <1>4, <1>6, <2>1, <2>2 DEF UbjsonReadsBack
<1> QED BY <1>2, <1>8, <1>9

\* Each integer written by to_cbor, to_msgpack and to_ubjson, whichever width
\* it is given and whatever stands before and after it, is read back as the same
\* number, and the reader stops at its last byte.  UBJSON has no marker for the
\* unsigned ones from 2^63: there the writer throws out_of_range.407 instead.
THEOREM JsonIntegersReadBack ==
    ASSUME NEW v \in IntegerValues, NEW before \in Seq(Bytes), NEW after \in Seq(Bytes)
    PROVE  /\ CborReadsBack(v, before, after)
           /\ MsgpackReadsBack(v, before, after)
           /\ IF TooLarge(v) THEN UbjsonInteger(v, UbjsonMarker(v)) = ThrowText(407)
              ELSE UbjsonReadsBack(v, before, after)
<1>1. TooLarge(v) => UbjsonInteger(v, UbjsonMarker(v)) = ThrowText(407)
      BY DEF UbjsonInteger
<1> QED BY <1>1, CborIntegerRead, MsgpackIntegerRead, UbjsonIntegerRead

=============================================================================
