------------------------------ MODULE Dispatch ------------------------------
(***************************************************************************)
(* One call on its way from async_call to a handler and back, through every *)
(* conversion: json_request, the request's text, the text of the arguments *)
(* that server::exec is given, the handler's parameters, the response and  *)
(* the callback's id.  The texts do get across: that is Rpc's subject.     *)
(***************************************************************************)
EXTENDS Entities, SequencesExt

CONSTANTS
    Methods,        \* function names
    Signatures,     \* sequences of "int", "string" and "bool"
    Arguments,      \* values a caller may pass
    Names,          \* names of named parameters, numbered in the order of the strings
    MaxArguments    \* bound: arguments of a call

ASSUME NamesAssumption == Names \subseteq Nat

ASSUME SignaturesAssumption ==
    \A signature \in Signatures : signature \in Seq({"int", "string", "bool"})

VARIABLES
    handlers,   \* m_handlers: the signature of the function under each name
    stage,      \* "building", "sent", "answered", "returned", "dropped"
    callId,     \* the uint32_t the caller gave
    method,
    params,     \* json_request's m_params
    passed,     \* history: the values the caller passed, in the order of the call
    key,        \* the key in m_callback_map, or NoKey
    text,       \* the text under way
    given,      \* what the handler was given, or NotCalled
    found       \* the key parse_response looked up, or NoKey

vars == <<handlers, stage, callId, method, params, passed, key, text, given, found>>

NoKey == [none |-> "key"]
NotCalled == [none |-> "call"]
Call(arguments) == [arguments |-> arguments]
NoText == [none |-> "text"]
ErrorText == [none |-> "json"]      \* e.what()

-----------------------------------------------------------------------------
(* Values.  A string is a sequence of words, a word one that a text may     *)
(* hold between blanks, with the quotation marks that begin and end it.    *)

Number(n) == [type |-> "int", number |-> n]
Truth(b) == [type |-> "bool", truth |-> b]
Plain(w) == [word |-> w, open |-> FALSE, close |-> FALSE]
Text(words) == [type |-> "string", words |-> words]

ASSUME ArgumentsAssumption ==
    \A value \in Arguments :
        \/ value.type = "int" /\ value = Number(value.number)
        \/ value.type = "bool" /\ value = Truth(value.truth)
        \/ /\ value.type = "string" /\ value = Text(value.words)
           /\ value.words \in Seq(Range(value.words))

\* What dump() writes, cut at the blanks.
Dump(value) ==
    CASE value = Text(<<>>) -> <<[word |-> "", open |-> TRUE, close |-> TRUE]>>
      [] value.type = "string" /\ value # Text(<<>>) ->
            [i \in 1..Len(value.words) |->
                [value.words[i] EXCEPT !.open = (i = 1), !.close = (i = Len(value.words))]]
      [] OTHER -> <<value>>

InOrder(names) ==
    CHOOSE list \in [1..Cardinality(names) -> names] :
        \A i, j \in 1..Cardinality(names) : i < j => list[i] < list[j]

\* The arguments in the order parse_json writes them: a std::map's is that of
\* the names.
Written(parameters) ==
    CASE parameters.type = "array" -> parameters.array
      [] parameters.type = "map" ->
            LET names == InOrder(DOMAIN parameters.map)
            IN  [i \in 1..Len(names) |-> parameters.map[names[i]]]
      [] parameters.type = "null" -> <<>>

Serialization(parameters) ==
    LET values == Written(parameters)
    IN  FlattenSeq([i \in 1..Len(values) |-> Dump(values[i])])

-----------------------------------------------------------------------------
(* operator>> of an istringstream.  Once it fails it reads nothing more.   *)

Zero(type) ==
    CASE type = "int" -> Number(0)
      [] type = "bool" -> Truth(FALSE)
      [] type = "string" -> Text(<<>>)

\* A value read and whether reading failed.
Good(value) == [value |-> value, failed |-> FALSE]
Failed(value) == [value |-> value, failed |-> TRUE]

IsNumeral(token) == "number" \in DOMAIN token

\* A word is taken as it is, with its quotation marks; an int that does not
\* fit is brought to the nearest that does; a bool is written as 0 or 1.
Extract(token, type) ==
    CASE type = "string" -> Good(Text(<<token>>))
      [] type = "int" /\ IsNumeral(token) ->
            IF token.number \in Ints THEN Good(token)
            ELSE Failed(Number(IF token.number > 0 THEN Half - 1 ELSE -Half))
      [] type = "bool" /\ IsNumeral(token) ->
            IF token.number \in 0..1 THEN Good(Truth(token.number = 1)) ELSE Failed(Truth(TRUE))
      [] OTHER -> Failed(Zero(type))

\* Fault: a failure is forgotten.
ReadIntoAnew(stream, type) ==
    LET read == Extract(Head(stream.tokens), type)
    IN  IF stream.tokens = <<>>
        THEN [stream EXCEPT !.values = Append(@, Zero(type))]
        ELSE [stream EXCEPT !.tokens = Tail(@), !.values = Append(@, read.value)]

ReadInto(stream, type) ==
    IF stream.failed \/ stream.tokens = <<>>
    THEN [stream EXCEPT !.failed = TRUE, !.values = Append(@, Zero(type))]
    ELSE LET read == Extract(Head(stream.tokens), type)
         IN  [tokens |-> Tail(stream.tokens), failed |-> read.failed,
              values |-> Append(stream.values, read.value)]

Stream(tokens) == [tokens |-> tokens, failed |-> FALSE, values |-> <<>>]

\* The stream when all parameters are read.
ReadAll(tokens, signature) ==
    LET after[n \in 0..Len(signature)] ==
            IF n = 0 THEN Stream(tokens) ELSE ReadInto(after[n - 1], signature[n])
    IN  after[Len(signature)]

\* Fault: the arguments are read from the last to the first.
ReadArgumentsBackwards(tokens, signature) ==
    Reverse(ReadAll(tokens, Reverse(signature)).values)

\* ((iss >> args), ...)
ReadArguments(tokens, signature) == ReadAll(tokens, signature).values

-----------------------------------------------------------------------------
Init ==
    /\ handlers = <<>>
    /\ stage = "building"
    /\ callId \in 0..(2 * Half - 1)
    /\ method \in Methods
    /\ params = JsonNull
    /\ passed = <<>>
    /\ key = NoKey
    /\ text = NoText
    /\ given = NotCalled
    /\ found = NoKey

\* add_handler throws if the name is taken.
Registered(name, signature) ==
    [n \in DOMAIN handlers \cup {name} |-> IF n \in DOMAIN handlers THEN handlers[n] ELSE signature]

AddHandler ==
    /\ \E name \in Methods, signature \in Signatures : handlers' = Registered(name, signature)
    /\ UNCHANGED <<stage, callId, method, params, passed, key, text, given, found>>

\* json_request <<: a plain argument is appended, a pair set under its name;
\* what has become an object throws on the first, an array on the second, and
\* the exception leaves async_call.
Pushed(value) ==
    CASE params.type = "null" -> JsonArray(<<value>>)
      [] params.type = "array" -> JsonArray(Append(params.says, value))
      [] params.type = "map" -> JsonOther

Named(name, value) ==
    CASE params.type = "null" -> JsonMap([n \in {name} |-> value])
      [] params.type = "map" ->
            JsonMap([n \in DOMAIN params.says \cup {name} |->
                        IF n = name THEN value ELSE params.says[n]])
      [] params.type = "array" -> JsonOther

\* Bound: a call passes at most MaxArguments values.
Pass(value, result) ==
    /\ stage = "building"
    /\ Len(passed) < MaxArguments
    /\ IF result = JsonOther
       THEN stage' = "dropped" /\ UNCHANGED <<params, passed>>
       ELSE stage' = stage /\ params' = result /\ passed' = Append(passed, value)
    /\ UNCHANGED <<handlers, callId, method, key, text, given, found>>

PassArgument ==
    \/ \E value \in Arguments : Pass(value, Pushed(value))
    \/ \E name \in Names, value \in Arguments : Pass(value, Named(name, value))

\* async_remote_call: the callback is stored under the id and the request
\* written.  The constructor of json_request and m_callback_map convert the id
\* to int, json_request::id() to uint32_t.
Send ==
    /\ stage = "building"
    /\ LET id == [NullId EXCEPT !.type = "integer", !.int = ToInt(callId)]
       IN  /\ key' = ToInt(ToUnsigned(id.int))
           /\ text' = Message(IdToJson(id), JsonString(method), params, Absent, Absent)
    /\ stage' = "sent"
    /\ UNCHANGED <<handlers, callId, method, params, passed, given, found>>

\* session::parse_json and server::exec.  Whatever is thrown is answered with
\* a text that is no JSON.  The result is left out.
Exec(request) ==
    IF request.method \in DOMAIN handlers
    THEN /\ given' = Call(ReadArguments(Serialization(request.params), handlers[request.method]))
         /\ text' = ResponseToJson(ResponseOf(request.id, JsonNull))
    ELSE /\ text' = ErrorText
         /\ UNCHANGED given

Serve ==
    /\ stage = "sent"
    /\ \E parsed \in MessageParse(text) :
          IF parsed.threw = None
          THEN Exec(parsed.object)
          ELSE text' = ErrorText /\ UNCHANGED given
    /\ stage' = "answered"
    /\ UNCHANGED <<handlers, callId, method, params, passed, key, found>>

\* client_imp::parse_response: the callback's key is the response's int_id.
Return ==
    /\ stage = "answered"
    /\ text # ErrorText
    /\ \E parsed \in MessageParse(text) : found' = parsed.object.id.int
    /\ stage' = "returned"
    /\ UNCHANGED <<handlers, callId, method, params, passed, key, text, given>>

Drop ==
    /\ stage = "answered"
    /\ text = ErrorText
    /\ stage' = "dropped"
    /\ UNCHANGED <<handlers, callId, method, params, passed, key, text, given, found>>

Next == AddHandler \/ PassArgument \/ Send \/ Serve \/ Return \/ Drop

Spec == Init /\ [][Next]_vars

-----------------------------------------------------------------------------
Called == given # NotCalled

\* What parse_json makes of the parameters of the request under way.
Parameters == IF params = JsonNull THEN NoParameter ELSE ParameterParse(NoParameter, params)

\* A handler of numbers is given the numbers passed to it by place, each in its
\* parameter; it is not given surplus ones, and 0 for missing ones
\* (rpc_server.hpp:37-49, rpc_server.cpp:116-120).
NumbersArrive ==
    LET signature == handlers[method]
        Fits(value) == value.type = "int" /\ value.number \in Ints
    IN  /\ Called /\ params.type = "array"
        /\ Range(signature) = {"int"} /\ \A value \in Range(passed) : Fits(value)
        => \A i \in 1..Len(signature) :
             given.arguments[i] = IF i > Len(passed) THEN Number(0) ELSE passed[i]

\* An argument that cannot be read spoils those that follow and none before:
\* each parameter up to it is read from the word at its own place.  And whatever
\* is added while the call is under way or after it, what the handler was given
\* are parameters of the function its name stands for (rpc_server.hpp:30-49).
FirstFailureStops ==
    LET signature == handlers[method]
        tokens == Serialization(Parameters)
        Reads(i) == i <= Len(tokens) /\ ~Extract(tokens[i], signature[i]).failed
    IN  Called =>
            /\ Len(given.arguments) = Len(signature)
            /\ \A i \in 1..Len(signature) :
                 IF \A j \in 1..i : Reads(j)
                 THEN given.arguments[i] = Extract(tokens[i], signature[i]).value
                 ELSE (\E j \in 1..(i - 1) : ~Reads(j)) => given.arguments[i] = Zero(signature[i])

\* Every uint32_t is a usable id: narrowed to int by json_request, by the
\* parsers of both sides and by the keys of m_callback_map, it selects the
\* callback it was given with, and that of no other id.
IdComesBack == stage = "returned" => found = key /\ ToUnsigned(found) = callId

\* rpc_client.hpp:29 has "argument list with std::tuple type", and the test's
\* hello (test/main.cpp:35,81) takes the string it is passed: strings passed by
\* place to a handler of as many arrive as they are.
StringsArrive ==
    LET signature == handlers[method]
    IN  /\ Called /\ params.type = "array" /\ Range(signature) = {"string"}
        /\ [i \in 1..Len(passed) |-> passed[i].type] = signature
        => given.arguments = passed

\* jsonrp.hpp:240 has "Currently no named parameters are supported, but only array
\* parameters", and test/main.cpp:63, commented out, passes named parameters in the
\* order the function has them: a handler of numbers that is called with as many
\* numbers under different names is given them in the order they were passed in.
NamedArrive ==
    LET signature == handlers[method]
        Fits(value) == value.type = "int" /\ value.number \in Ints
    IN  /\ Called /\ params.type = "map" /\ Cardinality(DOMAIN params.says) = Len(passed)
        /\ Range(signature) = {"int"} /\ Len(signature) = Len(passed)
        /\ \A value \in Range(passed) : Fits(value)
        => given.arguments = passed
=============================================================================
