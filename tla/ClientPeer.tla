----------------------------- MODULE ClientPeer -----------------------------
(***************************************************************************)
(* A client and a server that need not be this repository's: it reads the  *)
(* calls at its own pace, sends any replies (late, repeated, never asked   *)
(* for), may stop in the middle of one, and shuts down or resets the       *)
(* connection at any moment.                                               *)
(***************************************************************************)
EXTENDS Client

CONSTANT MaxReplies     \* bound: texts the server sends

ASSUME MaxRepliesAssumption == MaxReplies \in Nat

VARIABLES
    offered,    \* the complete texts the server has sent
    received    \* the symbols the server has read

vars == <<ownVars, fromServer, toServer, serverEnd, offered, received>>

PeerTypeOK ==
    /\ TypeOK
    /\ offered \in Seq(Replies)
    /\ received \in Seq(Symbols)

PeerInit ==
    /\ Init
    /\ fromServer = <<>>
    /\ toServer = <<>>
    /\ serverEnd = "open"
    /\ offered = <<>>
    /\ received = <<>>

-----------------------------------------------------------------------------
Connected == listening # "none"

ServerSend(text) ==
    /\ Connected
    /\ serverEnd = "open"
    /\ Len(offered) < MaxReplies
    /\ fromServer' = fromServer \o Encode(text)
    /\ offered' = Append(offered, text)
    /\ UNCHANGED <<ownVars, toServer, serverEnd, received>>

\* The server shuts its side down, `fragment' being a text it did not finish.
ServerFin(fragment) ==
    /\ Connected
    /\ serverEnd = "open"
    /\ fromServer' = fromServer \o fragment
    /\ serverEnd' = "fin"
    /\ UNCHANGED <<ownVars, toServer, offered, received>>

\* The connection breaks: what was not read yet may be lost.
ServerReset ==
    /\ Connected
    /\ serverEnd # "reset"
    /\ serverEnd' = "reset"
    /\ fromServer' \in {fromServer, <<>>}
    /\ UNCHANGED <<ownVars, toServer, offered, received>>

ServerRead ==
    /\ toServer # <<>>
    /\ serverEnd # "reset"
    /\ received' = Append(received, Head(toServer))
    /\ toServer' = Tail(toServer)
    /\ UNCHANGED <<ownVars, fromServer, serverEnd, offered>>

Server ==
    \/ \E text \in Replies : ServerSend(text)
    \/ \E fragment \in {<<>>} \cup {<<text>> : text \in Replies} : ServerFin(fragment)
    \/ ServerReset
    \/ ServerRead

Next == (Step /\ UNCHANGED <<serverEnd, offered, received>>) \/ Server

Spec == PeerInit /\ [][Next]_vars

\* The thread in io_service::run() runs every handler that is ready, and the
\* kernel moves what it can.  Neither the application nor the server need act.
Fairness ==
    /\ WF_vars(Connect /\ UNCHANGED <<serverEnd, offered, received>>)
    /\ WF_vars(Read /\ UNCHANGED <<serverEnd, offered, received>>)
    /\ WF_vars(Write /\ UNCHANGED <<serverEnd, offered, received>>)

FairSpec == Spec /\ Fairness

-----------------------------------------------------------------------------
\* The bytes the server gets are the calls made, in the order they were made,
\* each whole before the next begins, whenever and from wherever async_call
\* was called (rpc_client.cpp:131-165).
RequestStream ==
    LET stream == received \o toServer
    IN  \A k \in 1..Len(stream) :
            /\ (k + 1) \div 2 <= Len(issued)
            /\ stream[k] = Encode(RequestOf(issued[(k + 1) \div 2]))[IF k % 2 = 1 THEN 1 ELSE 2]

\* However reads cut the stream, parse_response is given what the server
\* sent, whole, once and in order (rpc_client.cpp:107-122).
RepliesIntact == IsPrefix(heard, offered)

\* No callback is invoked but for a response with its id, once for each such
\* response at most, and with the result of that response; calls from another
\* thread do no harm but when a response is looked up while one of them is
\* changing m_callback_map (rpc_client.cpp:40,89).  Nothing is said of what is
\* invoked in place of a callback object that has captured something.
InvokedForResponse ==
    ~raced => \A i \in 1..Len(invoked) :
        LET Same(j) == invoked[j] = invoked[i]
            Answer(k) == /\ heard[k].kind = "response"
                         /\ heard[k].id = CallOf[invoked[i].call].id
                         /\ heard[k].result = invoked[i].result
        IN  \/ invoked[i].call = Garbage /\ Stateful # {}
            \/ Cardinality({j \in 1..Len(invoked) : Same(j)})
                 <= Cardinality({k \in 1..Len(heard) : Answer(k)})

\* A server that ends the connection is noticed, even by a client that has
\* nothing to send, and every handler comes to its end, so that none is left to
\* use the client: no write is outstanding or posted and the socket is closed.
ClientLetsGo ==
    running /\ serverEnd # "open" ~>
        socket = "closed" /\ sending = <<>> /\ posted = <<>> /\ listening # "reading"

\* Every text sent to a client that stays connected is handed to parse_response.
EveryTextHeard ==
    \A n \in 1..MaxReplies :
        running /\ Len(offered) >= n ~> Len(heard) >= n \/ socket = "closed" \/ serverEnd = "reset"
=============================================================================
