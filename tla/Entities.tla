------------------------------ MODULE Entities ------------------------------
(***************************************************************************)
(* The entities of jsonrp.cpp: what each class keeps, how parse_json       *)
(* changes an object, step by step and up to where it throws, and what     *)
(* to_json prints of it.  A parse gives a set of outcomes, since a field   *)
(* of an Id that nobody has set holds whatever was in memory.              *)
(***************************************************************************)
EXTENDS Integers, Sequences, FiniteSets, Functions

CONSTANTS
    Half,       \* an int is one of -Half..Half-1
    Strings,    \* non-empty strings
    Payloads    \* what parameters, results and error data say

ASSUME HalfAssumption == Half \in Nat \ {0}
ASSUME StringsAssumption == "" \notin Strings

Ints == -Half..(Half - 1)

\* Fault: what does not fit is brought to the nearest that does.
ToIntClamped(n) == IF n >= Half THEN Half - 1 ELSE IF n < -Half THEN -Half ELSE n

\* Conversion of an integer, or of a uint32_t, to int and back.
ToInt(n) == ((n + Half) % (2 * Half)) - Half

ToUnsigned(n) == n % (2 * Half)

-----------------------------------------------------------------------------
(* JSON values.  "absent" is a member that is not there.  A message is an  *)
(* object that may be a request, notification or response, an error object *)
(* what a response may have for its error.                                 *)

Absent == [type |-> "absent"]
JsonNull == [type |-> "null"]
JsonOther == [type |-> "other"]                             \* a boolean or a fraction
JsonInteger(n) == [type |-> "integer", number |-> n]
JsonString(s) == [type |-> "string", text |-> s]
JsonArray(p) == [type |-> "array", says |-> p]
JsonMap(p) == [type |-> "map", says |-> p]
JsonError(c, m, d) == [type |-> "error", code |-> c, message |-> m, data |-> d]
JsonBatch(items) == [type |-> "batch", items |-> items]     \* an array of messages
Message(i, m, p, r, e) ==
    [type |-> "message", id |-> i, method |-> m, params |-> p, result |-> r, error |-> e]

\* json.count(member), which is 0 for all that is no object.
Has(json, member) == json.type = "message" /\ json[member] # Absent

-----------------------------------------------------------------------------
(* Id                                                                      *)

NullId == [type |-> "null", int |-> 0, string |-> ""]

Readable(json) == json.type \in {"null", "integer", "string"}

IdParse(id, json) ==
    CASE json.type = "null" -> [id EXCEPT !.type = "null"]
      [] json.type = "integer" -> [id EXCEPT !.type = "integer", !.int = ToInt(json.number)]
      [] json.type = "string" -> [id EXCEPT !.type = "string", !.string = json.text]

\* Id(const Json&) sets int_id for an integer only.
IdFrom(json) == {IdParse([type |-> "null", int |-> i, string |-> ""], json) : i \in Ints}

\* Fault: a string that is set is printed.
IdToJsonByString(id) ==
    IF id.string # "" THEN JsonString(id.string)
    ELSE IF id.type = "integer" THEN JsonInteger(id.int) ELSE JsonNull

IdToJson(id) ==
    CASE id.type = "null" -> JsonNull
      [] id.type = "string" -> JsonString(id.string)
      [] id.type = "integer" -> JsonInteger(id.int)

-----------------------------------------------------------------------------
(* Parameter                                                               *)

\* Parameter(nullptr) and Parameter(Json()).
NoParameter == [isNull |-> TRUE, type |-> "null", array |-> "", map |-> ""]
DefaultParameter == [NoParameter EXCEPT !.isNull = FALSE]

\* json.get<map>() throws on all that is neither an array nor an object.
Structured(json) == json.type \in {"array", "map"}

\* Fault: only an array sets the type.
ParameterParseArrayOnly(p, json) ==
    IF json.type = "array" THEN [p EXCEPT !.type = "array", !.array = json.says, !.map = ""]
    ELSE [p EXCEPT !.map = json.says, !.array = ""]

ParameterParse(p, json) ==
    IF json.type = "array" THEN [p EXCEPT !.type = "array", !.array = json.says, !.map = ""]
    ELSE [p EXCEPT !.type = "map", !.map = json.says, !.array = ""]

ParameterToJson(p) ==
    CASE p.type = "array" -> JsonArray(p.array)
      [] p.type = "map" -> JsonMap(p.map)
      [] p.type = "null" -> JsonNull

-----------------------------------------------------------------------------
(* Outcomes                                                                *)

None == [class |-> "none"]

\* The exceptions derived from RequestException carry an id.
RequestException(class, id) == [class |-> class, id |-> id]
RpcException == [class |-> "rpc"]

\* What Entity::parse makes of any other exception.
ParseError == [class |-> "parse error"]

Outcome(object, threw) == [object |-> object, threw |-> threw]

-----------------------------------------------------------------------------
(* Error                                                                   *)

\* Error(nullptr), and Error(const Json& = nullptr).
NullError == [isNull |-> TRUE, code |-> 0, message |-> "", data |-> JsonNull]
InternalError == -32603
DefaultError ==
    [isNull |-> FALSE, code |-> InternalError, message |-> "Internal error", data |-> JsonNull]

\* Fault: the data of an earlier error is kept.
ErrorDataKept(error, json) == IF json.data = Absent THEN error.data ELSE json.data

ErrorData(error, json) == IF json.data = Absent THEN JsonNull ELSE json.data

\* Bound: a code that is a boolean or a fraction, which json would convert to
\* an int, is left out.
ErrorParse(error, json) ==
    IF json.type # "error" \/ json.code.type # "integer"
    THEN Outcome(error, RpcException)
    ELSE LET coded == [error EXCEPT !.code = ToInt(json.code.number)]
         IN  IF json.message.type # "string"
             THEN Outcome(coded, RpcException)
             ELSE Outcome([coded EXCEPT !.message = json.message.text,
                                        !.data = ErrorData(error, json)], None)

ErrorToJson(error) ==
    JsonError(JsonInteger(error.code), JsonString(error.message),
              IF error.data = JsonNull THEN Absent ELSE error.data)

-----------------------------------------------------------------------------
(* Request and Notification                                                *)

DefaultRequest ==
    [class |-> "request", method |-> "", params |-> DefaultParameter, id |-> NullId]

DefaultNotification == [class |-> "notification", method |-> "", params |-> DefaultParameter]

\* What Request and Notification have in common: `invalid' is thrown for a
\* method that is missing, no string or empty, `unfit' for parameters that are
\* neither an array nor an object.
BodyParse(x, json, invalid, unfit) ==
    IF ~Has(json, "method") \/ json.method.type # "string"
    THEN Outcome(x, invalid)
    ELSE LET named == [x EXCEPT !.method = json.method.text]
         IN  IF named.method = "" THEN Outcome(named, invalid)
             ELSE IF ~Has(json, "params")
             THEN Outcome([named EXCEPT !.params = NoParameter], None)
             ELSE IF Structured(json.params)
             THEN Outcome([named EXCEPT !.params = ParameterParse(@, json.params)], None)
             ELSE Outcome(named, unfit)

\* Fault: the exceptions are made before the id is read.
RequestParseIdLast(x, json) ==
    IF ~Has(json, "id") \/ ~Readable(json.id)
    THEN {Outcome(x, RequestException("invalid request", NullId))}
    ELSE {BodyParse([x EXCEPT !.id = id], json, RequestException("invalid request", x.id),
                    RequestException("internal error", x.id)) : id \in IdFrom(json.id)}

RequestParse(x, json) ==
    IF ~Has(json, "id") \/ ~Readable(json.id)
    THEN {Outcome(x, RequestException("invalid request", NullId))}
    ELSE {BodyParse([x EXCEPT !.id = id], json, RequestException("invalid request", id),
                    RequestException("internal error", id)) : id \in IdFrom(json.id)}

NotificationParse(x, json) == {BodyParse(x, json, RpcException, RpcException)}

Params(x) == IF x.params.isNull THEN Absent ELSE ParameterToJson(x.params)

RequestToJson(x) == Message(IdToJson(x.id), JsonString(x.method), Params(x), Absent, Absent)

NotificationToJson(x) == Message(Absent, JsonString(x.method), Params(x), Absent, Absent)

-----------------------------------------------------------------------------
(* Response                                                                *)

DefaultResponse ==
    [class |-> "response", id |-> NullId, result |-> JsonNull, error |-> DefaultError]

\* Response(id, result), and Response(id, error).
ResponseOf(id, result) ==
    [class |-> "response", id |-> id, result |-> result, error |-> NullError]

\* Fault: nothing is reset.
BlankKeepingAll(x) == x

Blank(x) == [x EXCEPT !.result = JsonNull, !.error = NullError]

AnswerParse(x, json) ==
    IF Has(json, "result") THEN Outcome([x EXCEPT !.result = json.result], None)
    ELSE IF Has(json, "error")
    THEN LET parsed == ErrorParse(x.error, json.error)
         IN  Outcome([x EXCEPT !.error = parsed.object], parsed.threw)
    ELSE Outcome(x, RpcException)

ResponseParse(x, json) ==
    IF ~Has(json, "id") \/ ~Readable(json.id)
    THEN {Outcome(Blank(x), RpcException)}
    ELSE {AnswerParse([Blank(x) EXCEPT !.id = id], json) : id \in IdFrom(json.id)}

ResponseToJson(x) ==
    IF x.error.isNull
    THEN Message(IdToJson(x.id), Absent, Absent, x.result, JsonNull)
    ELSE Message(IdToJson(x.id), Absent, Absent, Absent, ErrorToJson(x.error))

-----------------------------------------------------------------------------
(* Parser and Batch                                                        *)

IsRequest(json) == Has(json, "method") /\ Has(json, "id")
IsNotification(json) == Has(json, "method") /\ ~Has(json, "id")
IsResponse(json) == Has(json, "result") /\ Has(json, "id") /\ ~Has(json, "method")

Nothing == [class |-> "nothing"]

\* Parser::do_parse_json of all that is no array.
MessageParse(json) ==
    CASE IsRequest(json) -> RequestParse(DefaultRequest, json)
      [] IsNotification(json) -> NotificationParse(DefaultNotification, json)
      [] IsResponse(json) -> ResponseParse(DefaultResponse, json)
      [] OTHER -> {Outcome(Nothing, None)}

\* What stands in a batch for an element that is no entity.
BatchError == [class |-> "error", error |-> [NullError EXCEPT !.isNull = FALSE, !.code = -32600]]

\* Fault: what an exception says of the request is lost.
KeptWithoutId(outcome) ==
    IF outcome.threw = None
    THEN IF outcome.object = Nothing THEN BatchError ELSE outcome.object
    ELSE BatchError

\* What a batch keeps of an element's outcome.
Kept(outcome) ==
    IF outcome.threw = None
    THEN IF outcome.object = Nothing THEN BatchError ELSE outcome.object
    ELSE IF outcome.threw.class \in {"invalid request", "internal error"}
    THEN [class |-> "exception", id |-> outcome.threw.id]
    ELSE BatchError

EmptyBatch == [class |-> "batch", entities |-> <<>>]

\* From the outcomes that each of its elements may have.
BatchParse(outcomes) ==
    LET entities == [i \in DOMAIN outcomes |-> {Kept(o) : o \in outcomes[i]}]
    IN  IF outcomes = <<>>
        THEN {Outcome(EmptyBatch, RequestException("invalid request", NullId))}
        ELSE {Outcome([EmptyBatch EXCEPT !.entities = list], None) :
                list \in {l \in [DOMAIN outcomes -> UNION Range(entities)] :
                            \A i \in DOMAIN outcomes : l[i] \in entities[i]}}

\* Bound: a batch in a batch holds no batch.
ItemParse(json) ==
    IF json.type = "batch"
    THEN BatchParse([i \in DOMAIN json.items |-> MessageParse(json.items[i])])
    ELSE MessageParse(json)

ParserParse(json) ==
    IF json.type = "batch"
    THEN BatchParse([i \in DOMAIN json.items |-> ItemParse(json.items[i])])
    ELSE MessageParse(json)
=============================================================================
