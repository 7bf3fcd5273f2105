---------------------------- MODULE RpcMessages ----------------------------
(***************************************************************************)
(* What crosses a connection of librpc: JSON texts, each ended by a NUL    *)
(* byte.  A text is one symbol of a byte stream here, its terminator       *)
(* another, so that a stream can be cut between them; what a text says is  *)
(* kept only as far as a session or a client tells texts apart.            *)
(***************************************************************************)
EXTENDS Naturals, Sequences, SequencesExt

CONSTANTS
    Ids,        \* values of a request's "id"
    Methods,    \* method names a caller may use
    Handlers,   \* the keys of server::m_handlers
    Throwing,   \* handlers that end in a std::exception
    Args        \* what a request's parameters say

ASSUME HandlersAssumption == Handlers \subseteq Methods /\ Throwing \subseteq Handlers

(***************************************************************************)
(* Texts a session may receive.  "list" stands for parameters that are an  *)
(* array, an object or absent, "null" for the "params": null that a        *)
(* json_request without arguments produces.  "other" is JSON that parses   *)
(* to something else than a request (a notification, a response, a batch,  *)
(* a value that is none of these), "malformed" a text the parser throws    *)
(* on.                                                                     *)
(***************************************************************************)
Requests == [kind : {"request"}, id : Ids, method : Methods,
             params : {"list", "null"}, arg : Args]

Frames == Requests \cup [kind : {"other", "malformed"}]

\* What a handler returns says which handler it was and what it was given.
Results == [method : Methods, arg : Args]

Responses == [kind : {"response"}, id : Ids, result : Results]

EmptyText == [kind |-> "empty"]     \* write_response(""): a terminator alone
ErrorText == [kind |-> "text"]      \* e.what(), which is not JSON

Replies == Responses \cup {EmptyText, ErrorText}

NUL == [kind |-> "nul"]             \* the byte '\0' that ends a text

Encode(text) == <<text, NUL>>

Symbols == Frames \cup Replies \cup {NUL}

-----------------------------------------------------------------------------
\* server::exec is reached and the handler of the request is run.
Executes(text) ==
    /\ text.kind = "request"
    /\ text.params # "null"
    /\ text.method \in Handlers

\* The text session::parse_json answers with.
Reply(text) ==
    IF Executes(text) /\ text.method \notin Throwing
    THEN [kind |-> "response", id |-> text.id,
          result |-> [method |-> text.method, arg |-> text.arg]]
    ELSE IF text.kind = "other" THEN EmptyText ELSE ErrorText

-----------------------------------------------------------------------------
\* async_read_until(..., '\0', ...): its condition and the length it reports.
HasText(stream) == \E i \in 1..Len(stream) : stream[i] = NUL

TextLength(stream) ==
    CHOOSE i \in 1..Len(stream) :
        /\ stream[i] = NUL
        /\ \A j \in 1..(i - 1) : stream[j] # NUL

\* What the read handlers take from their buffer: a text with its terminator.
NextText(stream) == Head(SubSeq(stream, 1, TextLength(stream)))

\* Fault: the terminator is left behind.
AfterTextKeepingNul(stream) == SubSeq(stream, TextLength(stream), Len(stream))

\* Fault: what was received behind the text is thrown away with it.
AfterTextClearing(stream) == <<>>

AfterText(stream) == SubSeq(stream, TextLength(stream) + 1, Len(stream))

\* An outstanding async_write and how many symbols of its buffer the kernel
\* has taken.
AsyncWrite(text) == [text |-> text, put |-> 0]
=============================================================================
