------------------------------- MODULE Client ------------------------------
(***************************************************************************)
(* class client_imp of rpc_client.cpp with client::async_call of           *)
(* rpc_client.hpp.  The application makes its calls before it hands a      *)
(* thread to io_service::run(), as test/main.cpp does, from callbacks,     *)
(* which run on that thread, or from another thread meanwhile.  Every      *)
(* action is one of those calls or a step of one, one handler run by the   *)
(* loop's thread, or one transfer made by the kernel.                      *)
(*                                                                         *)
(* The server is left open: `fromServer', `toServer' and `serverEnd' are   *)
(* what a module that composes a client with a server also changes.        *)
(***************************************************************************)
EXTENDS RpcMessages

CONSTANTS
    Calls,      \* calls the application may make, each at most once
    CallOf,     \* for each call its id, method, params and arg
    FollowUp,   \* the call a call's callback makes, or NoCall
    Late,       \* calls made from another thread while the loop runs
    Unfit,      \* calls whose callback takes a type the result does not convert to
    Stateful,   \* calls whose callback object has captured something
    NoCall,     \* no call
    Garbage,    \* whatever a dead stack frame holds
    Endpoints,  \* addresses the server's name resolves to
    SndBuf      \* symbols the kernel holds for a server that does not read

ASSUME CallsAssumption ==
    /\ CallOf \in [Calls -> [id : Ids, method : Methods, params : {"list", "null"}, arg : Args]]
    /\ FollowUp \in [Calls -> Calls \cup {NoCall}]
    /\ Late \subseteq Calls
    /\ Unfit \subseteq Calls
    /\ Stateful \subseteq Calls
    /\ NoCall \notin Calls
    /\ Garbage \notin Calls \cup {NoCall}
ASSUME ConnectionAssumption ==
    /\ Endpoints \in Nat \ {0}
    /\ SndBuf \in Nat \ {0}

VARIABLES
    running,        \* a thread is in io_service::run()
    calling,        \* the call another thread is in async_call with, or NoCall
    raced,          \* history: m_callback_map was used while it was being changed
    callbackMap,    \* m_callback_map: the call whose callback an id selects
    posted,         \* texts of the write lambdas posted and not yet run
    socket,         \* m_socket: "connecting", "open", "closed"
    untried,        \* endpoints async_connect has not tried yet
    listening,      \* "none", "reading" (an async_read_until is outstanding), "ended"
    readbuf,        \* m_streambuf
    writeMsgs,      \* m_write_msgs
    sending,        \* outstanding async_write operations on m_socket
    issued,         \* history: the calls made, in order
    heard,          \* history: the texts handed to parse_response
    invoked,        \* history: the callbacks invoked and what they were passed
    fromServer,     \* symbols received for m_socket, not yet read
    toServer,       \* symbols written to m_socket, not yet read by the server
    serverEnd       \* what the server did to the connection: "open", "fin", "reset"

threadVars == <<running, calling, raced>>
callVars == <<callbackMap, posted, issued, invoked>>
writeVars == <<writeMsgs, sending>>
readVars == <<listening, readbuf, heard>>
ownVars == <<threadVars, callVars, socket, untried, writeVars, readVars>>

RequestOf(c) ==
    [kind |-> "request", id |-> CallOf[c].id, method |-> CallOf[c].method,
     params |-> CallOf[c].params, arg |-> CallOf[c].arg]

TypeOK ==
    /\ running \in BOOLEAN
    /\ calling \in {NoCall} \cup [call : Late, stored : BOOLEAN]
    /\ raced \in BOOLEAN
    /\ callbackMap \in [Ids -> Calls \cup {NoCall}]
    /\ posted \in Seq(Requests)
    /\ socket \in {"connecting", "open", "closed"}
    /\ untried \in 0..Endpoints
    /\ listening \in {"none", "reading", "ended"}
    /\ readbuf \in Seq(Symbols)
    /\ writeMsgs \in Seq(Requests)
    /\ sending \in Seq([text : Requests, put : 0..2, aborted : BOOLEAN])
    /\ issued \in Seq(Calls)
    /\ heard \in Seq(Replies)
    /\ invoked \in Seq([call : Calls \cup {Garbage}, error : {0}, result : Results])
    /\ fromServer \in Seq(Symbols)
    /\ toServer \in Seq(Symbols)
    /\ serverEnd \in {"open", "fin", "reset"}

\* The constructor: the name is resolved and the first endpoint tried.
Init ==
    /\ running = FALSE
    /\ calling = NoCall
    /\ raced = FALSE
    /\ callbackMap = [id \in Ids |-> NoCall]
    /\ posted = <<>>
    /\ socket = "connecting"
    /\ untried = Endpoints - 1
    /\ listening = "none"
    /\ readbuf = <<>>
    /\ writeMsgs = <<>>
    /\ sending = <<>>
    /\ issued = <<>>
    /\ heard = <<>>
    /\ invoked = <<>>

Made(c) == \E i \in 1..Len(issued) : issued[i] = c

-----------------------------------------------------------------------------
\* m_callback_map is being changed by another thread.
Storing == calling # NoCall /\ ~calling.stored

Stored(c) == [callbackMap EXCEPT ![CallOf[c].id] = c]

Post(c) ==
    /\ posted' = Append(posted, RequestOf(c))
    /\ issued' = Append(issued, c)

\* async_call: the callback is stored under the id, over one stored there
\* before, and the text is posted to the io_service thread.  An entry stored
\* while another thread stores one may be lost.
AsyncCall(c) ==
    /\ ~Made(c)
    /\ callbackMap' \in {Stored(c)} \cup (IF Storing THEN {callbackMap} ELSE {})
    /\ Post(c)

\* A call from the application's thread, before it lets the loop run.
Call(c) ==
    /\ ~running
    /\ c \notin Late
    /\ \A d \in Calls : FollowUp[d] # c
    /\ AsyncCall(c)
    /\ UNCHANGED <<threadVars, invoked, socket, untried, writeVars, readVars, fromServer, toServer>>

\* A call from another thread begins to change m_callback_map, has changed it,
\* and posts its text.
BeginCall(c) ==
    /\ running
    /\ c \in Late
    /\ ~Made(c)
    /\ calling = NoCall
    /\ calling' = [call |-> c, stored |-> FALSE]
    /\ UNCHANGED <<running, raced, callVars, socket, untried, writeVars, readVars, fromServer, toServer>>

StoreCallback ==
    /\ Storing
    /\ calling' = [calling EXCEPT !.stored = TRUE]
    /\ callbackMap' = Stored(calling.call)
    /\ UNCHANGED <<running, raced, posted, issued, invoked, socket, untried, writeVars, readVars,
                   fromServer, toServer>>

PostCall ==
    /\ calling # NoCall /\ calling.stored
    /\ calling' = NoCall
    /\ Post(calling.call)
    /\ UNCHANGED <<running, raced, callbackMap, invoked, socket, untried, writeVars, readVars,
                   fromServer, toServer>>

Run ==
    /\ ~running
    /\ running' = TRUE
    /\ UNCHANGED <<calling, raced, callVars, socket, untried, writeVars, readVars, fromServer, toServer>>

-----------------------------------------------------------------------------
\* What closing the socket under them does to the operations outstanding.
Abort(ops) ==
    [i \in 1..Len(ops) |-> [ops[i] EXCEPT !.aborted = @ \/ ops[i].put < 2]]

\* Fault: the socket is left open.
CloseNothing(ops) == socket' = socket /\ sending' = ops

Close(ops) ==
    /\ socket' = "closed"
    /\ sending' = Abort(ops)

\* The handler of an operation aborted when the socket was closed is queued at
\* once, before the next attempt to connect can complete.
Connecting ==
    /\ running
    /\ socket = "connecting"
    /\ \A i \in 1..Len(sending) : ~sending[i].aborted

\* async_connect succeeds on an endpoint; the handler starts to read.
OnConnect ==
    /\ Connecting
    /\ socket' = "open"
    /\ listening' = "reading"
    /\ UNCHANGED <<threadVars, callVars, untried, writeVars, readbuf, heard, fromServer, toServer>>

\* It is refused: the socket is closed and reopened for the next endpoint, a
\* write that waited for the connection failing with it; after the last
\* endpoint the handler gets the error and closes the socket.
OnConnectError ==
    /\ Connecting
    /\ \/ /\ untried > 0
          /\ untried' = untried - 1
          /\ sending' = Abort(sending)
          /\ UNCHANGED socket
       \/ /\ untried = 0
          /\ Close(sending)
          /\ UNCHANGED untried
    /\ UNCHANGED <<threadVars, callVars, writeMsgs, readVars, fromServer, toServer>>

-----------------------------------------------------------------------------
DoWrite(text) == [text |-> text, put |-> 0, aborted |-> socket = "closed"]

\* Fault: the text is put before those that wait.
PutFirst(text) == <<text>> \o writeMsgs

PushBack(text) == Append(writeMsgs, text)

\* Fault: a write is started whether or not one is in progress.
StartWriteAlways(queue) == Append(sending, DoWrite(Head(queue)))

\* do_write(), unless a write is in progress.
StartWrite(queue) == IF writeMsgs = <<>> THEN Append(sending, DoWrite(Head(queue))) ELSE sending

\* The posted lambda: queue the text, start a write if none is in progress.
OnPosted ==
    /\ running
    /\ posted # <<>>
    /\ posted' = Tail(posted)
    /\ writeMsgs' = PushBack(Head(posted))
    /\ sending' = StartWrite(writeMsgs')
    /\ UNCHANGED <<threadVars, callbackMap, issued, invoked, socket, untried, readVars, fromServer, toServer>>

\* One async_write_some of an outstanding async_write.
Transmit(i) ==
    /\ socket = "open"
    /\ serverEnd # "reset"
    /\ ~sending[i].aborted
    /\ sending[i].put < 2
    /\ Len(toServer) < SndBuf
    /\ toServer' = Append(toServer, Encode(sending[i].text)[sending[i].put + 1])
    /\ sending' = [sending EXCEPT ![i].put = @ + 1]
    /\ UNCHANGED <<threadVars, callVars, socket, untried, writeMsgs, readVars, fromServer>>

\* Fault: the next message is not written.
WriteOnNever(ops, queue) == ops

\* do_write() again if a message is left.
WriteOn(ops, queue) == IF queue = <<>> THEN ops ELSE Append(ops, DoWrite(Head(queue)))

\* The write handler without error: drop the message sent, write the next.
OnWritten(i) ==
    /\ running
    /\ sending[i].put = 2
    /\ writeMsgs # <<>>
    /\ writeMsgs' = Tail(writeMsgs)
    /\ sending' = WriteOn(RemoveAt(sending, i), writeMsgs')
    /\ UNCHANGED <<threadVars, callVars, socket, untried, readVars, fromServer, toServer>>

\* The write handler with an error: the socket is closed, the queue kept.
OnWriteError(i) ==
    /\ running
    /\ sending[i].put < 2
    /\ sending[i].aborted \/ (socket = "open" /\ serverEnd = "reset")
    /\ Close(RemoveAt(sending, i))
    /\ UNCHANGED <<threadVars, callVars, untried, writeMsgs, readVars, fromServer, toServer>>

-----------------------------------------------------------------------------
\* One async_read_some of the outstanding async_read_until.
Receive(n) ==
    /\ listening = "reading"
    /\ socket = "open"
    /\ ~HasText(readbuf)
    /\ readbuf' = readbuf \o SubSeq(fromServer, 1, n)
    /\ fromServer' = SubSeq(fromServer, n + 1, Len(fromServer))
    /\ UNCHANGED <<threadVars, callVars, socket, untried, writeVars, listening, heard, toServer>>

\* The lambda async_call made: it refers to the callback in a stack frame that
\* is gone, which does no harm to a callback object without state.  The
\* callback may make another call.
Invoke(c, result) ==
    \E callback \in IF c \in Stateful THEN {c, Garbage} ELSE {c} :
        /\ invoked' = Append(invoked, [call |-> callback, error |-> 0, result |-> result])
        /\ IF callback = c /\ FollowUp[c] # NoCall /\ ~Made(FollowUp[c])
           THEN AsyncCall(FollowUp[c])
           ELSE UNCHANGED <<callbackMap, posted, issued>>

\* Fault: a response is taken for that of the call made first.
SelectedFirst(text) == IF issued # <<>> /\ text.kind = "response" THEN Head(issued) ELSE NoCall

\* The call whose callback m_callback_map.find(id) gives, or NoCall.
Selected(text) == IF text.kind = "response" THEN callbackMap[text.id] ELSE NoCall

\* A map read while it is changed may give the entry or not, the new one, or
\* whatever lies in its memory.
Found(text) ==
    IF text.kind = "response" /\ Storing
    THEN {Selected(text), calling.call, NoCall, Garbage}
    ELSE {Selected(text)}

\* parse_response: a text that is not a response, or whose id no call has, is
\* dropped, and so is a result of another type than the callback takes.
ParseResponse(text) ==
    /\ heard' = Append(heard, text)
    /\ raced' = (raced \/ (Storing /\ text.kind = "response"))
    /\ \E c \in Found(text) :
           \/ c \in Calls \ Unfit /\ Invoke(c, text.result)
           \/ /\ c = Garbage
              /\ invoked' = Append(invoked, [call |-> c, error |-> 0, result |-> text.result])
              /\ UNCHANGED <<callbackMap, posted, issued>>
           \/ c \in Unfit \cup {NoCall} /\ UNCHANGED callVars

\* The read handler without error: take one text, act on it, read on.
OnRead ==
    /\ running
    /\ listening = "reading"
    /\ HasText(readbuf)
    /\ ParseResponse(NextText(readbuf))
    /\ readbuf' = AfterText(readbuf)
    /\ UNCHANGED <<running, calling, socket, untried, writeVars, listening, fromServer, toServer>>

\* The read handler with an error: close the socket, do not read on.
OnReadError ==
    /\ running
    /\ listening = "reading"
    /\ ~HasText(readbuf)
    /\ \/ socket = "closed"
       \/ serverEnd = "fin" /\ fromServer = <<>>
       \/ serverEnd = "reset"
    /\ listening' = "ended"
    /\ Close(sending)
    /\ UNCHANGED <<threadVars, callVars, untried, writeMsgs, readbuf, heard, fromServer, toServer>>

-----------------------------------------------------------------------------
Application ==
    \/ Run \/ StoreCallback \/ PostCall
    \/ \E c \in Calls : Call(c) \/ BeginCall(c)

Connect == OnConnect \/ OnConnectError

Write == OnPosted \/ \E i \in 1..Len(sending) : Transmit(i) \/ OnWritten(i) \/ OnWriteError(i)

Read == OnRead \/ OnReadError \/ \E n \in 1..Len(fromServer) : Receive(n)

Step == Application \/ Connect \/ Write \/ Read
=============================================================================
