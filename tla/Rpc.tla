-------------------------------- MODULE Rpc --------------------------------
(***************************************************************************)
(* A client and the session that serves its connection.  The kernel keeps  *)
(* the symbols under way in `c2s' and `s2c' and may break the connection,  *)
(* losing them.  A side that closes its socket is seen by the other as an  *)
(* end of file after the symbols it has sent.                              *)
(***************************************************************************)
EXTENDS RpcMessages

CONSTANTS Calls, CallOf, FollowUp, Late, Unfit, Stateful, NoCall, Garbage, Endpoints, SndBuf

ASSUME CallsAssumption ==
    /\ CallOf \in [Calls -> [id : Ids, method : Methods, params : {"list", "null"}, arg : Args]]
    /\ FollowUp \in [Calls -> Calls \cup {NoCall}]
    /\ Late \subseteq Calls /\ Unfit \subseteq Calls /\ Stateful \subseteq Calls
    /\ NoCall \notin Calls
    /\ Garbage \notin Calls \cup {NoCall}
ASSUME ConnectionAssumption == Endpoints \in Nat \ {0} /\ SndBuf \in Nat \ {0}

VARIABLES
    running, calling, raced, callbackMap, posted, socket, untried, listening, readbuf, writeMsgs, sending,
    issued, heard, invoked,                             \* the client
    phase, streambuf, msgs, writes, served, answered,   \* the session
    c2s, s2c,       \* symbols under way to the session and to the client
    reset           \* the connection is broken

clientVars == <<running, calling, raced, callbackMap, posted, socket, untried, listening, readbuf,
                writeMsgs, sending, issued, heard, invoked>>

sessionVars == <<phase, streambuf, msgs, writes, served, answered>>

vars == <<clientVars, sessionVars, c2s, s2c, reset>>

End(open) == IF reset THEN "reset" ELSE IF open THEN "open" ELSE "fin"

Session == INSTANCE Session WITH
    inbound <- c2s, outbound <- s2c, peerEnd <- End(socket # "closed")

Client == INSTANCE Client WITH
    fromServer <- s2c, toServer <- c2s, serverEnd <- End(Session!Alive)

Init ==
    /\ Client!Init
    /\ Session!Init
    /\ c2s = <<>>
    /\ s2c = <<>>
    /\ reset = FALSE

Connected == listening # "none"

ClientStep == Client!Step /\ UNCHANGED <<sessionVars, reset>>

\* The acceptor hands a session the connection that the client established.
SessionStep == Connected /\ Session!Step /\ UNCHANGED <<clientVars, reset>>

Break ==
    /\ Connected
    /\ ~reset
    /\ reset' = TRUE
    /\ c2s' \in {c2s, <<>>}
    /\ s2c' \in {s2c, <<>>}
    /\ UNCHANGED <<clientVars, sessionVars>>

Next == ClientStep \/ SessionStep \/ Break

Spec == Init /\ [][Next]_vars

\* A thread in io_service::run() runs every handler that is ready; the kernel
\* establishes the connection or refuses it, and moves the symbols.
Fairness ==
    /\ WF_vars(Client!Connect /\ UNCHANGED <<sessionVars, reset>>)
    /\ WF_vars(Client!Write /\ UNCHANGED <<sessionVars, reset>>)
    /\ WF_vars(Client!Read /\ UNCHANGED <<sessionVars, reset>>)
    /\ WF_vars(Connected /\ Session!Start /\ UNCHANGED <<clientVars, reset>>)
    /\ WF_vars(Connected /\ Session!Write /\ UNCHANGED <<clientVars, reset>>)
    /\ WF_vars(Connected /\ Session!Read /\ UNCHANGED <<clientVars, reset>>)

FairSpec == Spec /\ Fairness

-----------------------------------------------------------------------------
Requested == [i \in 1..Len(issued) |-> Client!RequestOf(issued[i])]

\* The texts of a stream, each of which its terminator follows or is to follow.
Bodies(stream) == [k \in 1..((Len(stream) + 1) \div 2) |-> stream[2 * k - 1]]

\* The texts of a queue whose first symbol has not been written.
Unwritten(queue, ops) ==
    IF ops # <<>> /\ ops[1].put > 0 THEN Tail(queue) ELSE queue

\* Between the application and server::exec no call is lost, repeated or
\* overtaken: those made are those served, those on the way and those queued.
RequestPipeline ==
    /\ IsPrefix(served, Requested)
    /\ socket # "closed" /\ ~reset =>
         Requested = served \o Bodies(streambuf \o c2s) \o Unwritten(writeMsgs, sending) \o posted

\* The same of the answers, between parse_json and parse_response.
ReplyPipeline ==
    LET replies == [i \in 1..Len(served) |-> Reply(served[i])]
    IN  /\ IsPrefix(heard, replies)
        /\ socket # "closed" /\ ~reset =>
             replies = heard \o Bodies(readbuf \o s2c) \o Unwritten(msgs, writes)

\* The client and the session together keep the promise of RpcContract.
Contract == INSTANCE RpcContract WITH taken <- Len(served), returned <- invoked

CallsKeepContract == Contract!Spec

Invoked(c) == \E i \in 1..Len(invoked) : invoked[i].call = c

\* The callback of a call whose handler returns is invoked, unless the
\* connection breaks or could not be made.
CallsComplete ==
    \A c \in Calls :
        running /\ Client!Made(c) /\ Contract!Answerable(c)
            ~> Invoked(c) \/ socket = "closed" \/ reset

-----------------------------------------------------------------------------
\* rpc_client.hpp:34-37 shows a callback that tests its status for an error:
\* every call made is reported to its callback, if only as failed.
EveryCallReported ==
    \A c \in Calls :
        running /\ Client!Made(c) ~> Invoked(c)

\* rpc_client.hpp:32,88 let the callback be any object of its type and move it
\* into the function invoked: what is invoked is the callback of a call.
CallbackIntact == \A i \in 1..Len(invoked) : invoked[i].call \in Calls

\* test/main.cpp:55 connects to a name, whose addresses async_connect tries one
\* after the other, and makes its calls at once: the client gives up for want
\* of a connection only when the last address has refused it.
GivesUpWhenRefused ==
    [][socket = "connecting" /\ socket' = "closed" => Client!OnConnectError]_vars
=============================================================================
