# libjson-rpc in TLA+

A verification development for the JSON-RPC library in `src/` (library in
`src/src`, example in `src/test/main.cpp`). It models the client, the sessions
of the server and the connection between them, the acceptor and timer, the JSON-RPC
entities, the way of a call's arguments to its handler and the JSON library all of it
rests on, checks small instances with TLC and proves with TLAPS, for every instance,
the safety of the session, of the client, of both together, of the acceptor and timer and of
the entities, that every id is usable, what becomes of a call's arguments, that the text of a JSON
pointer reads back, and that an integer does in every binary format.

Line numbers below are those of the files under `src/src`.

## 1. Inventory of the system

All handlers of client and server run on the thread (or threads) that call
`io_service::run()` on the one `io_service` of `utils::g_io_service`. In
`test/main.cpp` client, server and sessions share it and one thread runs it
(line 90), after the calls have been made. A message is a JSON text followed by a
NUL byte, in both directions.

| component | state | operations | interacts with |
|---|---|---|---|
| **session** (`rpc_server.cpp:25-161`) | `m_socket`, `m_streambuf`, `m_msgs` | `start`, `read` and its handler, `parse_json`, `write_response`, `write` and its handler; lives by the `self` its handlers capture | reads and writes the connection; calls `Parser::parse` and `server::exec` |
| **client_imp** (`rpc_client.cpp`), `client::async_call` (`rpc_client.hpp:77-103`) | `m_callback_map`, `m_write_msgs`, `m_socket`, `m_streambuf` | `async_connect`, `async_remote_call`, `write` (posted), `do_write`, `read`, `parse_response`, closing | the application calls it; it calls the application's callbacks, which may call it again |
| **server_imp** (`rpc_server.cpp:162-248`) | `m_acceptor`, `m_socket`, `m_timer` | `run`, `accept`, `timer_event_getblocktemplate` | makes sessions |
| **server** (`rpc_server.hpp`) | `m_handlers` | `add_handler`, `exec` | called by sessions; runs the application's functions |
| **jsonrpcpp** (`jsonrp.cpp/.hpp`) | each entity's fields, `isNull` | `parse_json`, `to_json`, `Parser::do_parse_json` | used by session, client and `json_request` |
| **json_request** (`serialization.hpp`) | `m_request`, `m_params` | `<<`, `to_string` | used by `async_call` |
| **json.hpp** (nlohmann, version 3.1) | a value; the lexer's and parser's position, `keep` and `depth` | `parse`, `accept`, `dump`, the modifiers, comparisons, `json_pointer`, `flatten`, `patch`, `diff`, `merge_patch`, `to_`/`from_` CBOR, MessagePack, UBJSON | used by everything above that handles text |
| utils, stubs | - | - | see "not modelled" |

What is hard in them, and what makes each one correct:

* *session*: reads cut the stream anywhere; `async_write` is given the address of
  the queue's front; requests arrive while answers are being written; the peer
  may half-close right behind a request, stop in the middle of a text, not read,
  or reset. Correct: texts are served whole, once, in order; answers are
  written in order, one write at a time; no answer is stranded in the queue;
  after an error nothing more is written; the session ends with its connection.
* *client_imp*: calls are made before the connection stands, before the loop runs,
  and from callbacks; several addresses may be tried; the server may answer late,
  twice, with unknown ids or with something that is no response. Correct: calls
  reach the server whole and in order; a callback is invoked for a response with
  its id and with that result; every handler ends when the connection ends; a
  call that fails is reported.
* *both together*: between `async_call` and the callback nothing is lost, repeated
  or overtaken, and every call whose handler returns is answered unless the
  connection is lost.
* *jsonrpcpp*: a parse may throw at any of its steps and leaves what it has set by
  then; fields left over from an earlier parse (`isNull`, `int_id`, `string_id`);
  ids that do not fit in `int`; elements of a batch that fail. Correct: the contents that
  the getters return and the printed id are of the last message and of nothing older, an exception names the
  request it is about, a batch has an entity for each of its elements.
* *server, json_request*: arguments are decoded by an `istringstream`, which fails
  silently; named parameters have their own order; names may be added twice.
  Correct: the handler is given the arguments passed, a failure spoils only what
  follows it, the callback of every id is found again, a call is read for the function its
  name stood for first.
* *server_imp*: the accept loop is re-armed whatever the error, `run()` may be called
  twice, the timer's handler may run late, the server may be released under its
  handlers. Correct: no accept and no wait is lost, every connection gets a session once
  there are descriptors for it, and the timer keeps its schedule.
* *json.hpp*: bounds of number types, sizes and code points; a grammar that is written
  down twice; a callback that discards parts of what is being read; operations that
  throw half way; indices that move under a patch. Correct: `parse` and `accept` take
  JSON and nothing else, whatever is written is read back as an equal value in every
  format, a difference is a patch that makes it good, comparisons agree with each other.

`PROJECT.json` lists every component with its status and every hazard with the
line where it bites and the property that covers it, or why none does yet.

## 2. Modules

```
RpcMessages ──┬── Session ──── SessionPeer ──┬── MCSession
              │      │                       └── SessionProofs
              │      └── SessionLemmas ──────────┘
              ├── OrderedReplies   (abstract: what a session promises)
              ├── Client ───── ClientPeer ───┬── MCClient
              │      │                       └── ClientProofs
              │      └── ClientLemmas ───────────┘
              ├── RpcContract      (abstract: what client and server promise together)
              ├── Rpc (instances of Client and Session) ──┬── MCRpc
              │                                           └── RpcProofs (instances of the Lemmas)
              └── MessageLemmas    (extended by all Lemmas modules and RpcProofs)

Server ──┬── MCServer
         └── ServerProofs

Entities ──┬── EntityLife ──┬── MCEntityLife ──┐
           │                │                  ├── MCEntities
           └── Dispatch ────┼── MCDispatch ────┘
                            └── EntityProofs

JsonTypes ─┬─ JsonTokens ───┬── EntityProofs
           │                └── (extended by JsonPointer)
JsonWords ─┼─ JsonIntegers ─┬── EntityProofs
           │                └── (extended by JsonBinary)
           │
           └─ JsonNumbers ── JsonValue ──┬── JsonLexer ──┬── JsonParser ───────────────────────┐
                                         │               ├── JsonSerializer ──┬── JsonPointer ─┼── JsonLife ── MCJson
                                         │               │                    └── JsonBinary ──┤
                                         │               └── JsonGrammar (reference) ──────────┘
                                         └── JsonOrder    (extended by JsonPointer)
```

* **RpcMessages**: the texts and what a text is answered with. A stream is a
  sequence of symbols; a text is one symbol and its NUL another, so a read or a
  write can stop between the two, which is all the difference a cut makes to the
  code: `async_read_until` returns when a NUL has come and not before. A request
  keeps its id, method, whether its parameters are a list/object/absent or
  `null`, and what they say; everything else a session may be sent is `other` (it parses
  to an entity that is no request) or `malformed` (the parser throws). `Reply` is
  `session::parse_json` with `server::exec`: a response, the text of an
  exception (which is not JSON: lines 134-138) or the empty text (line 105).
* **Session**: one action per handler. `OnRead` is the whole read handler of
  lines 55-72: take a text, `parse_json`, `write_response` with the
  `async_write` it may start, read on. `OnReadError` reads no more. `OnWritten` and
  `OnWriteError` are the two branches of the write handler (86-100). `Receive` and
  `Transmit` are one `async_read_some`/`async_write_some` of the composed
  operation outstanding: the kernel takes or gives a part, between any two
  handlers. `writes` holds the outstanding `async_write`s; it is a sequence
  because nothing in asio prevents a second one. `Alive` says a handler still holds
  a reference. `served` and `answered` are histories.
* **SessionPeer**: any peer. It sends any texts, half-closes with or without
  an unfinished text, resets (losing what was not read or not), and reads at its
  own pace.
* **OrderedReplies**: take a text; give the answer of the first text not
  yet answered. `RepliesInOrder` says a session implements it
  (`taken <- served, given <- answered`).
* **Client**: `Call` is an `async_call` before the loop runs; `AsyncCall` is the same
  made by a callback; `OnPosted` the lambda `write` posts; `OnConnect`/`OnConnectError`
  the attempts of `async_connect` over the endpoints of a name; `OnRead` the read
  handler with `parse_response` and the callback it invokes; `Close` what
  `m_socket.close()` does to the operations outstanding. `Invoke` models what the stored
  lambda's reference to `async_call`'s parameter (`rpc_client.hpp:87`) may
  yield: the callback, or, if it has state, anything (`Garbage`).
  The calls in `Late` are made by another thread while the loop runs: `BeginCall`,
  `StoreCallback` and `PostCall` are the steps of `async_remote_call` that the loop's
  handlers may come between. `raced` says that `m_callback_map` was used by both at once,
  after which what a lookup finds is undefined.
* **ClientPeer**: any server: replies that are late, repeated or unsolicited,
  fragments, half-close, reset.
* **RpcContract**: issue, take in order, return in order with the result of the
  call's handler, at most once, and never before the call is taken. `Return` gives the
  result of the first call taken whose callback is still due (`Due`), and may issue the
  call that the callback makes.
* **Rpc**: instances of `Client` and `Session` over one connection. Each side sees
  the other's socket as open, at its end (`fin`) or reset; `Break` loses what is
  under way. `CallsKeepContract` says the pair implements `RpcContract`.
* **Server**: `server_imp` as a scheduler of handlers. `ready` holds the handlers that
  completed in the order in which the loop runs them; accepts and waits
  outstanding are counted, since `run()` twice starts two of each; the sessions share
  `Files` descriptors; time passes whether or not the loop gets to its handlers, so that
  they may be late; the application may release the server at any moment, after which a
  handler uses what is gone (`undefined`). When the accepted socket is assigned is the
  library's choice (`early`).
* **Entities**: no state, the classes of `jsonrp.cpp` as operators. A class is a
  record of its fields, `isNull` and the leftovers of `Id` included; its `parse_json`
  maps the object as it was and a JSON value to outcomes: the object as it is then,
  up to where it threw, and the exception. There may be several since
  `Id(const Json&)` sets `int_id` for integers only (line 174). `IdToJson`,
  `RequestToJson`, `ResponseToJson`, ... are `to_json`. JSON values are
  records; a member that is not there is `Absent`. An int is one of `-Half..Half-1` and
  `ToInt` is the conversion to it.
* **EntityLife**: one object of any class through any sequence of `Entity::parse`
  (lines 72-100), from any of its constructors. Its specification is `LifeSpec`, so that EntityProofs
  can extend it next to Dispatch, and MCEntities check both: a behaviour of its specification is one of the
  one or one of the other.
* **Dispatch**: one call: `PassArgument` is `json_request <<` with a plain
  argument or a pair, `Send` `async_remote_call`, `Serve` `parse_json` with `exec` and the
  decoding of the arguments in `add_handler`'s wrapper, `Return` the lookup
  of the callback. `AddHandler` may come at any moment. Strings are sequences of words, since
  `operator>>` cuts at blanks. It uses the operators of Entities for every text. `passed` is a history: what
  `PassArgument` was given, in order.

* **JsonTypes, JsonWords, JsonNumbers, JsonValue, JsonOrder**: a value is a tagged pair. An integer is its eight bytes, so
  that casts, wrap-around and widths are those of the code; a double is kept by a sign and up to
  `Precision` decimal digits with a power of ten, or is one of `inf` and `nan`. What
  throws gives `<<"throw", id>>` with the library's number of the exception. An object is
  the sequence of its pairs in the order of its `std::map`. `JsonOrder` is `operator==` and
  `operator<`.
* **JsonLexer, JsonParser**: the lexer (literals, the automaton of
  `scan_number`, UTF-8 and escapes in `scan_string`, which takes the characters that stand for
  themselves as one run), `parse_internal` with the parser's callback and
  the depth it is given, and `accept_internal`, which is a copy of the grammar. What goes on over a
  long text or container is `FoldInHalves` of JsonNumbers, a `FoldLeft` whose recursion is
  logarithmic, so that the texts of 256 bytes stay far from the limit of TLC's stack.
* **JsonSerializer**: `dump` with and without indentation and ASCII, the UTF-8
  decoder, and the layout of numbers.
* **JsonTokens**: the text of a `json_pointer`: `escape` and `unescape`, two passes of
  `replace_substring` each, `to_string` and `split`.
* **JsonPointer**: tokens as indices; `get_and_create`, `get_unchecked` and
  `get_checked`, which differ in what a null, a dash and a missing index do; `flatten` and
  `unflatten`, the six operations of `patch`, `diff`, `merge_patch`.
* **JsonIntegers**: integers in CBOR, MessagePack and UBJSON: the width a writer chooses, the
  first byte that tells it, and what each first byte makes the reader do (sign extension, `-1 - n`).
* **JsonBinary**: the rest of the three writers and readers, UBJSON with sizes and types,
  with all first bytes, indefinite lengths and half precision.
* **JsonGrammar**: what RFC 8259 and RFC 3629 say, as one automaton over bytes that
  shares nothing with the parser: the reference for `ParserAgrees`.
* **JsonLife**: a text arrives whole or in pieces, is read as text or as one of the
  binary formats, and the value is changed by any of the modifiers.
  An operation that throws leaves the value alone, but `update` of a null, which has
  become an object by then (line 14820). It reaches RECURSIVE operators, so there are no
  theorems about it; JsonTokens and JsonIntegers, which have none, have theirs in EntityProofs.

Definitions named after a *Fault* (`PushBack`'s `PutFirst`, `WriteOn`'s
`WriteOnNever`, ...) stand before the definition they would replace; no
specification uses them. They are the faults against which each property is
known to be sensitive (`mutants` in `PROJECT.json`).

## 3. Runs

| run | module, cfg | question | distinct states |
|---|---|---|---|
| `session` | MCSession | a session facing any peer | 242,948 |
| `client` | MCClient | a client facing any server | 716,246 |
| `rpc` | MCRpc, MCRpc.cfg | client and session: order, contract, completion | 101,335 |
| `failed_call` | MCRpc, MCRpcFailed.cfg | violated: `EveryCallReported` | |
| `stateful_callback` | MCRpc, MCRpcStateful.cfg | violated: `CallbackIntact` | |
| `fallback` | MCRpc, MCRpcFallback.cfg | violated: `GivesUpWhenRefused` | |
| `server` | MCServer | acceptor and timer, `run()` once or twice | 25,965 |
| `entities` | MCEntities | one call through every conversion, or one entity parsed again and again | 314,638 |
| `lost_error` | MCEntityLife, MCEntityLifeError.cfg | violated: `ErrorSurvives` | |
| `string_argument` | MCDispatch, MCDispatchStrings.cfg | violated: `StringsArrive` | |
| `named_arguments` | MCDispatch, MCDispatchNamed.cfg | violated: `NamedArrive` | |
| `json` | MCJson | a JSON value read, changed and written | 36,729 |

What the passing runs show:

* **session**: `WriteDiscipline` (at most one `async_write`, its message
  stays at the front of `m_msgs`), `NoStalledQueue` (an answer waiting means a write
  outstanding), `TextsIntact` (what is served is a prefix of what was sent),
  `ReplyStream` (every byte the peer gets is the right one), `RepliesInOrder`
  (refinement of OrderedReplies), `SilentAfterWriteError`, `EveryTextAnswered`
  and `SessionReleased` (liveness).
* **client**: `RequestStream`, `RepliesIntact`, `InvokedForResponse` (no more
  invocations of a callback than responses with its id and result),
  `ClientLetsGo` and `EveryTextHeard` (liveness).
* **rpc**: `RequestPipeline` and `ReplyPipeline` (at every moment the calls made are those
  served, then those on the way, then those queued, then those posted; the same of the
  answers), `CallsKeepContract`, `CallsComplete` (liveness).
* **server**: `ChainsKept` (as many accepts and waits, outstanding or about to be made again,
  as calls of `run()`), `NoneTurnedAway` (no accepted connection is overwritten in
  `m_socket`), `TimerOnSchedule`, `EveryConnectionServed` and `TimerHeard` (liveness).
* **entities**, of one entity: `ContentsCurrent` (id, method, parameters, result, code and message
  that the getters return are the last message's, wherever an earlier or this parse threw; it does not
  speak of `is_null()` and `operator bool`, which may be an earlier message's) and `NoOldAnswer` (nor does
  the text of a response show an earlier one), `ExceptionNamesRequest`, `BatchAccounts`. Of one call:
  `NumbersArrive` (numbers passed by place reach the parameters of their places),
  `FirstFailureStops` (what follows a failed extraction is zero or empty, by the signature of the function that its
  name stood for first, whatever is registered meanwhile), `IdComesBack` (every `uint32_t` finds its own
  callback again, through four conversions).
* **json**: `ParserAgrees` (a text is refused with 406 exactly if a number too large for a double stands in
  it, with an exponent or without, and all before that number is right, whatever follows; any other text
  is taken by `parse` and `accept` if the reference grammar takes it, and refused with 101 if not), `CallbackPrunes` (a callback that goes by event and type
  takes away what it names and nothing else), `DumpReadsBack`, `BinaryReadsBack` (five
  formats; no proper beginning of what is written is taken for a value), `OrderAgrees`
  (`<` and `==`), `PatchReaches` (`diff` then `patch`), `FlattenReadsBack`.

### Bounds, and why they are enough

* `MaxTexts = 3`, `MaxReplies = 2`: three texts are one being written, one
  waiting in the queue and one arriving: the least at which order, the queue's
  restart and the emptiness test can go wrong together. The proofs (section 4)
  have no such bound.
* `SndBuf` is 2 in `session` and 1 elsewhere: 1 makes every text stop half
  written, 2 lets a write complete while nothing is read.
* `Endpoints = 2`: a first address that refuses and a second one. 1 where the
  question is not about connecting.
* Calls: `MCRpc` has four, each at most once: two that are answered, one whose handler
  throws, and one made by a callback, whose own callback takes another type than the
  result has. `MCSession`'s texts cover the three kinds of answer; `MCClient`'s replies
  are responses to either id with or without fitting callback, texts that are no JSON
  and empty ones.
* `Half = 2`: ints are -2..1 and ids 0..3, so half of the ids do not fit, as with
  32 bits. An argument of 2 does not fit either.
* In `entities` every member of a message is missing, null, of each type its parser
  tells apart, and, where an old value could show, one of two that differ. A batch
  holds at most two elements and a batch in a batch no further one. An error's code is
  no boolean or fraction. A batch is parsed from arrays only.
* `MaxArguments = 2`, signatures of at most two parameters: one argument to fail and one
  to follow it, surplus and missing ones.
* `Late`: one call from another thread in `client`, none in `rpc`.
* In `server` two calls of `run()`, three connections for two descriptors, three intervals of
  time. An expiry that only moves away is held at a bound behind the clock's.
* In `json` texts of up to four of twelve pieces (every pair and triple of tokens meets), and
  some two hundred whole inputs: values on both sides of every bound of the number types and
  of the sizes that the binary formats tell apart (23/24, 31/32, 127/128, 255/256 bytes,
  15/16 and 24 elements), strings at the bounds of UTF-8 and of its escapes, and byte
  sequences only a reader meets. Numbers too large for a double have an exponent or 310 digits and stand alone, behind
  what is right or wrong, and before what is. Values of up to three nodes are changed up to twice.
  Sizes from 65,536 bytes on are not built.
* `Precision` bounds the digits of a double; the texts used have fewer, so that none is
  rounded but by an operation that rounds. That the shortest digits (Grisu2) identify a double is
  taken as what it is meant to be and not modelled.
* No symmetry is used.

`CHECK_DEADLOCK FALSE` is set everywhere since the system may really stop: a
connection has ended and nobody makes another, or all calls are done and the
server waits.

### Fairness

Weak fairness of the handlers (`Start`, `Read`, `Write`, `Connect`): a
thread in `io_service::run()` runs every handler that is ready, and the kernel
moves bytes and completes or refuses a connection. `MCRpc` states it for every part
of each side separately, since the io_service's queue is first-in first-out and starves
none. In SessionPeer `PeerRead` is fair as well: without it a peer that never reads
blocks the session for ever, and the code has no timeout. In Server the handlers, the
completion of an accept (`Accept`) and of a wait (`Expire`) are fair. Nothing is assumed of what the
application calls, of what the peers send, or of `Run`; properties of the
client begin with `running`.

### Findings

1. `failed_call`: a callback is never told of a failure, although the example in
   `rpc_client.hpp:34-37` tests its status (`rpc_client.cpp:92`, 67-74).
2. `stateful_callback`: the stored lambda refers to a parameter of a call that has
   returned (`rpc_client.hpp:87`).
3. `fallback`: a call made before the connection stands breaks the attempt on
   the next address (`rpc_client.cpp:162`).
4. `lost_error`: a response parsed from an error prints a null result and a null
   error, since `isNull` stays set (`jsonrp.cpp:675`).
5. `string_argument`: a string reaches its handler with its quotation marks
   (`rpc_server.hpp:47`; the run's strings are of one word, so that nothing is cut off at a blank).
6. `named_arguments`: `jsonrp.hpp:240` says that named parameters are not supported and arrays
   are. The server takes them all the same and hands them over by place in the order of their names
   (`rpc_server.cpp:123`), so that two numbers may change places.

`PROJECT.json` quotes the lines that say otherwise. Met while modelling, and left out of
the properties by a condition that names it: `json.hpp:16600` says that
`j == j.flatten().unflatten()` holds but for empty containers, and an object with a key
`"0"` may come back as an array (line 9089); `depth` stays one too high behind a container
whose start a callback refused (line 3279); an unsigned integer equals the signed
one of the same bits (line 15133). In the model, and in no property of its own: `Parameter::parse_json`
never resets `isNull` (`jsonrp.cpp:246`), as `Error::parse_json` does not (finding 4): a request parsed without parameters and then with an array has that array, but
`is_null()` says it has none (line 286) and `to_json` leaves it out (line 455).
In `FirstFailureStops` as what `operator>>` does: a string is cut at its first blank, and a truth value, written as a
word, reaches no `bool`.

## 4. Proofs

What a session's, a client's and a connection's theorems hold for: every set of ids, methods,
handlers, arguments and calls, every number of texts and of addresses, every send buffer, every
way the kernel cuts the streams and every moment at which an end closes or breaks the
connection. They use the named assumptions of the modules alone: handlers are methods,
buffers and numbers of addresses are positive, calls have ids and arguments, and `NoCall` and
`Garbage` (which stand for no callback, and for what a dead stack frame holds) are
not calls.

| theorem | says |
|---|---|
| **SessionProofs** | |
| `SessionInvariant` | `Spec => []SessionInv`, the inductive invariant |
| `SessionTypeCorrect` | `Spec => []PeerTypeOK` |
| `SessionTextsIntact` | `Spec => []TextsIntact` |
| `SessionWriteDiscipline` | `Spec => []WriteDiscipline` |
| `SessionNoStalledQueue` | `Spec => []NoStalledQueue` |
| `SessionReplyStream` | `Spec => []ReplyStream` |
| `SessionSilentAfterWriteError` | `Spec => SilentAfterWriteError` |
| `SessionRepliesInOrder` | `Spec => RepliesInOrder`: a session implements OrderedReplies |
| **ClientProofs** | |
| `ClientInvariant` | `Spec => []PeerInv`, the inductive invariant |
| `ClientTypeCorrect` | `Spec => []PeerTypeOK` |
| `ClientRequestStream` | `Spec => []RequestStream` |
| `ClientRepliesIntact` | `Spec => []RepliesIntact` |
| `ClientInvokedForResponse` | `Spec => []InvokedForResponse` |
| **RpcProofs** | |
| `RpcInvariant` | `Spec => []RpcInv`, the inductive invariant |
| `RpcRequestPipeline` | `Spec => []RequestPipeline` |
| `RpcReplyPipeline` | `Spec => []ReplyPipeline` |
| `RpcKeepsContract` | `Careful` implies `Spec => CallsKeepContract`: client and session implement RpcContract |
| **ServerProofs** | |
| `ServerInvariant` | `Spec => []ServerInv`, the inductive invariant |
| `ServerTypeCorrect` | `Spec => []TypeOK` |
| `ServerChainsKept` | `Spec => []ChainsKept` |
| `ServerNoneTurnedAway` | `Spec => []NoneTurnedAway` |
| `ServerTimerOnSchedule` | `Spec => []TimerOnSchedule` |
| **EntityProofs** | |
| `EntityContentsCurrent` | `LifeSpec => []ContentsCurrent`, for all values it is given, like the next three |
| `EntityNoOldAnswer` | `LifeSpec => []NoOldAnswer` |
| `EntityExceptionNamesRequest` | `LifeSpec => []ExceptionNamesRequest` |
| `EntityBatchAccounts` | `LifeSpec => []BatchAccounts` |
| `DispatchIdComesBack` | `Spec => []IdComesBack`, for every width of an int |
| `DispatchFirstFailureStops` | `Spec => []FirstFailureStops`, for arguments and parameters of any number and type |
| `DispatchNumbersArrive` | `Spec => []NumbersArrive`, for any number of numbers passed by place |
| `JsonPointersReadBack` | `Split(PointerText(tokens)) = <<"pointer", tokens>>`, for any tokens of any bytes |
| `JsonIntegersReadBack` | each of the 2^64 values of both integer types, in any surroundings, comes back in all three formats, or is refused by UBJSON from 2^63 on |

### One stream (MessageLemmas)

`PeerTypeOK` is not inductive: `OnRead` hands `parse_json` the first symbol of its buffer, and
nothing in the types says it is a text and not a NUL. What is needed is
`Carries(stream, texts, from)`: the symbols of the stream are, in turn, the texts that follow
the `from`-th and their terminators, with perhaps the last terminator missing. `CarriesPut`,
`CarriesSent` and `CarriesTake` say what becomes of it when the kernel takes the next symbol of a write, when a
peer sends a whole text or a first part, and when a read handler takes a text with its NUL; `CarriesMore` and
`CarriesLess` that texts made later and symbols lost at the end change nothing. Session, client and connection use the same lemmas.

### Session and client alone

`SessionLemmas` and `ClientLemmas` speak of the steps of one side whatever is at the other end:
types (`StepTypes`); which steps concern what is written (`WriteCases`); at most one
`async_write`, of the message in front (`WriterOK`), and one whenever a message waits and the socket is
open (`AtWork`); what waits are the last of what was asked for (`AnswersOK`, `QueueOK`); and
`RepliesCarried`, `RequestsCarried`: the stream written carries the answers, or the calls, and
ends where the write outstanding does (`SymbolsPut`). The last is why an answer, or a call, cannot be
written twice or skipped when its write ends and the next begins.

`SessionProofs` and `ClientProofs` add the peer. What comes from it continues what was served or heard:
the texts offered and perhaps the beginning of one more that was never finished (`TextsUnderWay`,
`RepliesUnderWay`, which name that text by an existential). `SessionRepliesInOrder` maps
`OnRead` to `Take`, `OnWritten` to `Give` and every other step to a stutter.

`InvokedForResponse` compares two cardinalities, which is not inductive. `ResponseOfItsOwn` is: there is an
injection from the invocations to the texts heard that gives each invocation a response with its id
and result; `MapOK` (an id selects a call made with that id) is what extends it when a response is
handled, and the cardinalities follow by `FS_Injection`. It is stated for executions
in which `m_callback_map` was not used by two threads at once (`~raced`) and not for what replaces a callback
that has captured something: those two are findings, not promises.

### Client and session together

`RpcProofs` takes the lemmas of the two sides as instances, each with the other side's socket as the end
of its stream, so that no step is analysed twice. `ClientSteps` and `SessionSteps` say that the
steps of the instances in `Rpc` are theirs. `RpcInv` is what the sides keep by themselves and, in place of a
peer, `RequestsUnderWay` (the texts served are the first of the calls made, the stream between
carries the next ones) and `RepliesUnderWay` (the same of the answers). The two depend on each
other: a session's texts have their types because they are calls, a client's because they are
answers. Each step of one side keeps both (`ClientStepInv`, `SessionStepInv`), and so does the loss of the connection
(`BreakInv`), after which only what `Carries` says is left.

The pipelines are equations of sequences, proved from `RpcInv` by counting: `Piped` collects
what is known of the lengths (`2 * done + stream = 2 * sent + put`), `Pipeline` concludes that the
texts done, those in the stream and those of the queue not begun are all there are.

`RpcKeepsContract` has a hypothesis, `Careful`, on the application: distinct ids, no
call from a second thread, callback objects without captured state. The interface requires none of these, but each is needed: an id used
twice replaces a callback (`rpc_client.cpp:40`), a second thread races with
`m_callback_map`, and captured state is lost (run `stateful_callback`). `MCRpc.cfg` satisfies it. `CallsOK`
strengthens the invariant: the map gives every call made its own callback, and the callbacks invoked
are those of the answerable calls among the answers heard. `Call` maps to `Issue`, the session's
`OnRead` to `Take`, the client's `OnRead` to `Return` if the answer is a response that its callback can
take and to a stutter if not (`AnswerHandled`, `DueNext`), and every other step to a stutter.

### Acceptor and timer

`ServerInv` conjoins the properties with `DescriptorsKept` (sessions and connections on their way to a handler
are no more than `Files`), `SocketInUse` (`m_socket` is occupied only between an accept and its
handler) and `NotRun`. `ChainsKept` counts handlers in a queue, so `CountAppend`, `CountTail` and
`CountSame` say what each step does to a count. `NoneTurnedAway` names the connections served, carried by a
handler and waiting as consecutive numbers, with the handlers in that order (`Ascending`), which makes it
inductive (`OrderStep`). `TimerOnSchedule` holds for one call of `run()`, when a single wait is outstanding: its handler
is queued only when it is due (`TimerDue`), so that the next expiry stays below the bound
`MaxExpiry` and is never cut off. The theorems hold for every number of calls and connections, every `Files`,
`Interval` and `MaxNow`.

### Entities

What an entity shows after a parse must not depend on what it held before. `IsEntity` gives the shape of an
object of every class with any values in its fields, and so more than the code can leave there;
`OneParse` says that one parse of any such object, whatever it is given and
wherever it throws, yields an object of that shape for which the properties hold. `EntityInv` is then inductive.
Each class has its lemma, from the parts of a message upwards: `IdRead` and `IdMade` (an `int_id` that nobody has set
may be any int), `ParamsMade`, `ErrorMade`, `MethodBody`, which requests and notifications share, `RequestRead`,
`AnswerRead` and `ResponseRead`. `KeptNames` follows a request of a batch that cannot be parsed to the
exception kept in its place, `BatchRead` the elements of an array to the places of the list.
The assumption they use is `BatchAssumption` of EntityLife: a batch is given arrays, for which alone the parser
makes one (`jsonrp.cpp:936`).

### Dispatch

`IdComesBack` speaks of the last step only; `IdsOK` adds what travels before: the key
in the map, the id in the request's text and the id in the response's text are
all the int the caller's id was converted to. `UnsignedComesBack` and `ToIntOfInt`
are the arithmetic, with `HalfAssumption` of Entities; `RequestKeepsId` and `ResponseKeepsId` follow an id through the
parsers of both sides, whatever else the text says.

What a handler is given is read from one stream over all arguments, by a recursive function
(`ReadAll`), and that it is a function at all has to be proved. Every induction here is
one over a set, `Induction`: a set of naturals that has 0 and with each number the next has all, since a least one
outside it (`WFMin`, `NatLessThanWellFounded`) would follow one inside. From it come `Recursion` (a
step function has a function that follows it from 0, which `Chains` builds up), `Flatten` and `FlattenSingles` for the
tokens of the arguments written one after the other, and `ReadSoFar` and `ReadAt`: as long as no extraction has
failed the n-th is of the n-th token and gives it back, and once one has failed every later parameter is the zero of its type.
Of named parameters only that their values are a list, one for each name, is needed (`InOrderLists`, `WrittenValues`).

The two properties compare what was passed with what a handler was given, two texts
and a parser later. `PlacesOK` says that what was passed by place is what the parameters say, and `CallOK` follows them to the handler: the parameters of the request made are those
written, the text carries them, and what the handler got is what `ReadAll` says of the values printed from
them. `RequestKeepsCall` is the step in the middle: the parser gives back the parameters of a text that a request wrote, neither
missing nor of another kind. The assumptions used are those of
`Dispatch`: signatures and arguments are sequences of values the types know
(`SignaturesAssumption`, `ArgumentsAssumption`), and names are numbered in their order (`NamesAssumption`).

### The text of a JSON pointer

json.hpp states of every pointer that `ptr == json_pointer(ptr.to_string())` (line 8985).
`~` and `/` are escaped in two passes over a token, each of which sees what the other has written, and
unescaped in two passes in the opposite order. `PairsBack` says what one pass needs:
a byte replaced by a pair of bytes comes back if that pair stood nowhere in the text before, or if
the byte is itself the first of the pair, in which case none is left without its second.
After the first pass every `~` is followed by `0` (`TildesFirst`), so that `~1` stands
nowhere when slashes become `~1`; that is `TokenBack`, and what goes wrong in the order of
`EscapeSlashFirst`, where `~1` is in the text already when `~` is escaped. What `split` checks, a digit behind every `~`, and what it relies on,
no slash within a token, is `TokenText`; `TextPieces` cuts a whole text where it was put together.
All of these go from a sequence to one with one more element, by `ByLength`, which follows from
`Induction` above; `FlattenAppend`, `EncodeMore`, `DecodeMore` and `PiecesMore` say what one more element does to each operator.

### Integers in the binary formats

Each writer has several widths and each reader a range of first bytes for every
width; a bound that is off by one, a sign that is not extended or a first byte with two
meanings shows at a few of 2^64 values only. `json` has the values at the bounds;
`JsonIntegersReadBack` has all of them, as `int64_t` and as `uint64_t`, and with any bytes before
and after. `CborReadsBack`, `MsgpackReadsBack` and `UbjsonReadsBack` say that the first byte is
one that the reader takes for an integer, that the number comes back (`GivesNumber`: the eight bytes are the same, and so is
the type, unless the number is not negative and is one in both) and that reading ends at its last byte. Where UBJSON
has no marker, from 2^63, the writer throws.

`WidenLow` is the arithmetic: a word that fits a width (`Below`, `FitsSigned`) is its low bytes filled up with zeros, or with
copies of the sign. `MiddleRead` is about places: what `get_string` finds after the first byte of a text that stands among others.
`NumberRead` joins them, for every width. Above it each format needs only its cases:
`CborHeadForms` (also for the sizes of strings, arrays and objects, by `CborHeadRead`), `MsgpackOneByte` and `MsgpackBytes` with
`NarrowestOfFour`, and `UbjsonMarkerForms`. `SmallWord` is why a first byte can hold a number up to 23: comparing from the most
significant byte on leaves nothing but the last, by `Induction`.

### Only model-checked

The liveness properties (`EveryTextAnswered`, `SessionReleased`,
`ClientLetsGo`, `EveryTextHeard`, `CallsComplete`, `EveryConnectionServed`, `TimerHeard`),
which need fairness and are out of the prover's reach, and the properties of `json`, since
values, parser and serializer are recursive operators. `JsonPointersReadBack` is the part of
`FlattenReadsBack` that is about text, and `JsonIntegersReadBack` the part of `BinaryReadsBack` that is about
integers; that values come back from their pointers, and whole values from bytes, is for TLC.

## 5. Not modelled, and why

* `utils.hpp/.cpp`: stateless conversions nothing calls, and the io_service
  singleton, which is the scheduler the fairness speaks of. `client::call`, `run`, `connect`, `register_notify`, `listen`, `stop`,
  `server::call` and `json_response` are stubs or used by nothing.
* Of `json.hpp`: conversions to and from C++ types (`get`, `to_json`, `from_json`),
  iterators and the modifiers that take a range of them, the shortest digits of a double,
  allocators, stream, wide-string and output adapters, `json_ref`, `std::hash`, literals:
  templates over the caller's types, or representation. Much of the file is comments.
* The callbacks of `jsonrpcpp::Parser` (`jsonrp.cpp:855-898`): nothing registers one.
* Log output and wording of exceptions. That an exception's text is not JSON is
  modelled, since the client must then drop it.
* The hazards of `PROJECT.json` without a property; each has a note.

## 6. Plan

Done: the session, the client with calls from another thread, both together, the
acceptor and timer, the entities, one call's conversions, the JSON library; the proofs about
the session, the client, the connection between them with its contract, the acceptor and timer, the entities,
ids, arguments, the text of JSON pointers and the integers of the binary formats.
