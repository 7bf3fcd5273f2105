------------------------------ MODULE Session ------------------------------
(***************************************************************************)
(* class session of rpc_server.cpp: one accepted connection.  It reads     *)
(* NUL-terminated texts, answers each one through server::exec and writes  *)
(* the answers one at a time from a queue.  Every action is one handler    *)
(* run by the io_service thread, or one transfer made by the kernel        *)
(* between two handlers.                                                   *)
(*                                                                         *)
(* The peer is left open: `inbound', `outbound' and `peerEnd' are what a   *)
(* module that composes a session with a peer also changes.                *)
(***************************************************************************)
EXTENDS RpcMessages

CONSTANT SndBuf     \* symbols the kernel holds for a peer that does not read

ASSUME SndBufAssumption == SndBuf \in Nat \ {0}

VARIABLES
    phase,      \* "new", "reading" (an async_read_until is outstanding), "ended"
    streambuf,  \* m_streambuf
    msgs,       \* m_msgs
    writes,     \* outstanding async_write operations on m_socket
    served,     \* history: the texts handed to parse_json
    answered,   \* history: the texts whose async_write has completed
    inbound,    \* symbols received for m_socket, not yet read
    outbound,   \* symbols written to m_socket, not yet read by the peer
    peerEnd     \* what the peer did to the connection: "open", "fin", "reset"

ownVars == <<phase, streambuf, msgs, writes, served, answered>>

TypeOK ==
    /\ phase \in {"new", "reading", "ended"}
    /\ streambuf \in Seq(Symbols)
    /\ msgs \in Seq(Replies)
    /\ writes \in Seq([text : Replies, put : 0..2])
    /\ served \in Seq(Frames)
    /\ answered \in Seq(Replies)
    /\ inbound \in Seq(Symbols)
    /\ outbound \in Seq(Symbols)
    /\ peerEnd \in {"open", "fin", "reset"}

Init ==
    /\ phase = "new"
    /\ streambuf = <<>>
    /\ msgs = <<>>
    /\ writes = <<>>
    /\ served = <<>>
    /\ answered = <<>>

\* The handlers hold the only references to the session: it is destroyed, and
\* its socket closed, when none is outstanding.
Alive == phase # "ended" \/ writes # <<>>

-----------------------------------------------------------------------------
\* The accept handler makes the session and calls start(): the first read().
Start ==
    /\ phase = "new"
    /\ phase' = "reading"
    /\ UNCHANGED <<streambuf, msgs, writes, served, answered, inbound, outbound>>

\* One async_read_some of the outstanding async_read_until.
Receive(n) ==
    /\ phase = "reading"
    /\ ~HasText(streambuf)
    /\ streambuf' = streambuf \o SubSeq(inbound, 1, n)
    /\ inbound' = SubSeq(inbound, n + 1, Len(inbound))
    /\ UNCHANGED <<phase, msgs, writes, served, answered, outbound>>

\* Fault: the answer is put before those that wait.
PutFirst(response) == <<response>> \o msgs

PushBack(response) == Append(msgs, response)

\* Fault: a write is started whether or not one is in progress.
StartWriteAlways(queue) == Append(writes, AsyncWrite(Head(queue)))

\* write(), unless a write is in progress.
StartWrite(queue) == IF msgs = <<>> THEN Append(writes, AsyncWrite(Head(queue))) ELSE writes

WriteResponse(response) ==
    /\ msgs' = PushBack(response)
    /\ writes' = StartWrite(msgs')

\* parse_json: the answer is a response, the text of an exception or "".
ParseJson(request) ==
    /\ served' = Append(served, request)
    /\ WriteResponse(Reply(request))

\* The read handler without error: take one text, answer it, read on.
OnRead ==
    /\ phase = "reading"
    /\ HasText(streambuf)
    /\ ParseJson(NextText(streambuf))
    /\ streambuf' = AfterText(streambuf)
    /\ UNCHANGED <<phase, answered, inbound, outbound>>

\* Fault: it reads on after an error.
OnReadErrorGoingOn ==
    /\ phase = "reading"
    /\ peerEnd # "open"
    /\ UNCHANGED <<phase, streambuf, msgs, writes, served, answered, inbound, outbound>>

\* The read handler with an error: it does not read on.
OnReadError ==
    /\ phase = "reading"
    /\ ~HasText(streambuf)
    /\ \/ peerEnd = "fin" /\ inbound = <<>>
       \/ peerEnd = "reset"
    /\ phase' = "ended"
    /\ UNCHANGED <<streambuf, msgs, writes, served, answered, inbound, outbound>>

\* One async_write_some of an outstanding async_write.
Transmit(i) ==
    /\ writes[i].put < 2
    /\ Len(outbound) < SndBuf
    /\ peerEnd # "reset"
    /\ outbound' = Append(outbound, Encode(writes[i].text)[writes[i].put + 1])
    /\ writes' = [writes EXCEPT ![i].put = @ + 1]
    /\ UNCHANGED <<phase, streambuf, msgs, served, answered, inbound>>

\* Fault: the next message is not written.
WriteOnNever(ops, queue) == ops

\* write() again if a message is left.
WriteOn(ops, queue) == IF queue = <<>> THEN ops ELSE Append(ops, AsyncWrite(Head(queue)))

\* The write handler without error: drop the message sent, write the next.
OnWritten(i) ==
    /\ writes[i].put = 2
    /\ msgs # <<>>
    /\ msgs' = Tail(msgs)
    /\ answered' = Append(answered, writes[i].text)
    /\ writes' = WriteOn(RemoveAt(writes, i), msgs')
    /\ UNCHANGED <<phase, streambuf, served, inbound, outbound>>

\* The write handler with an error: nothing is dropped and nothing is written.
OnWriteError(i) ==
    /\ writes[i].put < 2
    /\ peerEnd = "reset"
    /\ writes' = RemoveAt(writes, i)
    /\ UNCHANGED <<phase, streambuf, msgs, served, answered, inbound, outbound>>

Read == OnRead \/ OnReadError \/ \E n \in 1..Len(inbound) : Receive(n)

Write == \E i \in 1..Len(writes) : Transmit(i) \/ OnWritten(i) \/ OnWriteError(i)

Step == Start \/ Read \/ Write
=============================================================================
