----------------------------- MODULE EntityLife -----------------------------
(***************************************************************************)
(* One entity through any sequence of calls of Entity::parse, whatever was *)
(* parsed before and whether or not it threw.                              *)
(***************************************************************************)
EXTENDS Entities

CONSTANTS
    IdValues,       \* JSON values for the id of a message
    MethodValues,
    ParamsValues,
    ResultValues,
    ErrorValues,
    BatchValues     \* arrays of messages

\* Bound: a batch is given arrays, for which alone the parser makes one
\* (jsonrp.cpp:936).
ASSUME BatchAssumption ==
    \A value \in BatchValues :
        /\ value.type = "batch"
        /\ Len(value.items) \in Nat
        /\ DOMAIN value.items = 1..Len(value.items)

VARIABLES
    object,     \* the entity
    json,       \* what it was last given, or Absent
    threw       \* what that call threw, or None

lifeVars == <<object, json, threw>>

Malformed == [type |-> "malformed"]

IdObject(id) == [class |-> "id", id |-> id]
ParameterObject(p) == [class |-> "parameter", params |-> p]
ErrorObject(error) == [class |-> "error", error |-> error]

\* What the constructors make.
Constructed ==
    {DefaultRequest, [DefaultRequest EXCEPT !.params = NoParameter], DefaultNotification,
     DefaultResponse, ResponseOf(NullId, JsonNull), EmptyBatch, IdObject(NullId),
     ParameterObject(DefaultParameter), ParameterObject(NoParameter),
     ErrorObject(DefaultError), ErrorObject(NullError)}

LifeInit ==
    /\ object \in Constructed
    /\ json = Absent
    /\ threw = None

\* parse_json of the object's class.
Parsed(value) ==
    CASE object.class = "id" ->
            IF Readable(value) THEN {Outcome(IdObject(IdParse(object.id, value)), None)}
            ELSE {Outcome(object, ParseError)}
      [] object.class = "parameter" ->
            IF Structured(value)
            THEN {Outcome(ParameterObject(ParameterParse(object.params, value)), None)}
            ELSE {Outcome(object, ParseError)}
      [] object.class = "error" ->
            LET parsed == ErrorParse(object.error, value)
            IN  {Outcome(ErrorObject(parsed.object), parsed.threw)}
      [] object.class = "request" -> RequestParse(object, value)
      [] object.class = "notification" -> NotificationParse(object, value)
      [] object.class = "response" -> ResponseParse(object, value)
      [] object.class = "batch" -> ParserParse(value)

\* The values an object of each class is given.
Inputs ==
    CASE object.class = "id" -> IdValues \ {Absent}
      [] object.class = "parameter" -> ParamsValues \ {Absent}
      [] object.class = "error" -> ErrorValues \ {Absent}
      [] object.class = "batch" -> BatchValues
      [] object.class = "response" ->
            {Message(i, Absent, Absent, r, e) : i \in IdValues, r \in ResultValues, e \in ErrorValues}
      [] object.class \in {"request", "notification"} ->
            {Message(i, m, p, Absent, Absent) : i \in IdValues, m \in MethodValues, p \in ParamsValues}

Parse ==
    \E value \in Inputs : \E outcome \in Parsed(value) :
        /\ object' = outcome.object
        /\ json' = value
        /\ threw' = outcome.threw

\* A text that is no JSON leaves the object alone.
ParseMalformed ==
    /\ json' = Malformed
    /\ threw' = ParseError
    /\ UNCHANGED object

LifeNext == Parse \/ ParseMalformed

LifeSpec == LifeInit /\ [][LifeNext]_lifeVars

-----------------------------------------------------------------------------
Fresh == json # Absent /\ json # Malformed

\* What an id read from a JSON value prints: the value, in the width of an int.
Narrowed(value) ==
    CASE value.type = "null" -> JsonNull
      [] value.type = "string" -> JsonString(value.text)
      [] value.type = "integer" -> JsonInteger(ToInt(value.number))

\* What parameters say: their type, and the array or the map.
ParamsRead(p, value) ==
    CASE value.type = "array" -> p.type = "array" /\ p.array = value.says
      [] value.type = "map" -> p.type = "map" /\ p.map = value.says
      [] value.type = "absent" -> p = NoParameter

\* After a parse that does not throw an object's contents are what was parsed,
\* and none of an earlier parse's: method, type and values of the parameters
\* (is_array, is_map, has, get), the id that is printed, though int_id and
\* string_id keep what earlier ids left in them, and code, message and data of an
\* error.  What is_null() and operator bool say is none of these and may be of an
\* earlier parse: Parameter::parse_json and Error::parse_json never reset isNull
\* (jsonrp.cpp:246,342), so that a request parsed without parameters (434) and
\* then with an array has the array, and yet prints no parameters (455).
ContentsCurrent ==
    Fresh /\ threw = None =>
        /\ object.class = "parameter" => ParamsRead(object.params, json)
        /\ object.class \in {"request", "notification"} =>
             object.method = json.method.text /\ ParamsRead(object.params, json.params)
        /\ object.class = "id" => IdToJson(object.id) = Narrowed(json)
        /\ object.class \in {"request", "response"} => IdToJson(object.id) = Narrowed(json.id)
        /\ object.class = "error" =>
             /\ object.error.code = ToInt(json.code.number)
             /\ object.error.message = json.message.text
             /\ object.error.data = IF json.data = Absent THEN JsonNull ELSE json.data

\* Whether or not the parse of a response throws, and wherever it throws, its
\* result and error are none of an earlier response's.
NoOldAnswer ==
    object.class = "response" /\ Fresh =>
        /\ object.result = IF Has(json, "id") /\ Readable(json.id) /\ Has(json, "result")
                           THEN json.result ELSE JsonNull
        /\ object.error # NullError =>
             /\ ~Has(json, "result")
             /\ Has(json, "error") /\ json.error.type = "error" /\ json.error.code.type = "integer"
             /\ object.error.code = ToInt(json.error.code.number)

\* The exception for a request that cannot be used names the request, so that
\* it can be answered, and never an earlier one (RequestException::id).
ExceptionNamesRequest ==
    object.class = "request" /\ Fresh /\ threw # None =>
        IdToJson(threw.id) =
            IF Has(json, "id") /\ Readable(json.id) THEN Narrowed(json.id) ELSE JsonNull

\* Every element of a batch has an entity at its place, however bad its
\* neighbours are; that of a request with an id carries the id.
BatchAccounts ==
    object.class = "batch" /\ Fresh =>
        /\ Len(object.entities) = Len(json.items)
        /\ \A i \in 1..Len(json.items) :
             IsRequest(json.items[i]) /\ Readable(json.items[i].id) =>
                 /\ "id" \in DOMAIN object.entities[i]
                 /\ IdToJson(object.entities[i].id) = Narrowed(json.items[i].id)

\* jsonrp.cpp:677 "response must contain result or error": a response parsed
\* from an error is printed with that error.
ErrorSurvives ==
    object.class = "response" /\ Fresh /\ threw = None /\ ~Has(json, "result") =>
        Has(ResponseToJson(object), "error") /\ ResponseToJson(object).error # JsonNull
=============================================================================
