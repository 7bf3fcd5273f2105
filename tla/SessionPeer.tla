---------------------------- MODULE SessionPeer ----------------------------
(***************************************************************************)
(* A session and a peer that sends any texts, may stop in the middle of    *)
(* one, half-closes or resets the connection at any moment, and reads what *)
(* it is sent at its own pace.                                             *)
(***************************************************************************)
EXTENDS Session

CONSTANT MaxTexts   \* bound: texts the peer sends

ASSUME MaxTextsAssumption == MaxTexts \in Nat

VARIABLES
    offered,    \* the complete texts the peer has sent
    received    \* the symbols the peer has read

vars == <<ownVars, inbound, outbound, peerEnd, offered, received>>

PeerTypeOK ==
    /\ TypeOK
    /\ offered \in Seq(Frames)
    /\ received \in Seq(Symbols)

PeerInit ==
    /\ Init
    /\ inbound = <<>>
    /\ outbound = <<>>
    /\ peerEnd = "open"
    /\ offered = <<>>
    /\ received = <<>>

-----------------------------------------------------------------------------
PeerSend(text) ==
    /\ peerEnd = "open"
    /\ Len(offered) < MaxTexts
    /\ inbound' = inbound \o Encode(text)
    /\ offered' = Append(offered, text)
    /\ UNCHANGED <<ownVars, outbound, peerEnd, received>>

\* The peer shuts its side down, `fragment' being a text it did not finish.
PeerFin(fragment) ==
    /\ peerEnd = "open"
    /\ inbound' = inbound \o fragment
    /\ peerEnd' = "fin"
    /\ UNCHANGED <<ownVars, outbound, offered, received>>

\* The connection breaks: what was not read yet may be lost.
PeerReset ==
    /\ peerEnd # "reset"
    /\ peerEnd' = "reset"
    /\ inbound' \in {inbound, <<>>}
    /\ UNCHANGED <<ownVars, outbound, offered, received>>

PeerRead ==
    /\ outbound # <<>>
    /\ peerEnd # "reset"
    /\ received' = Append(received, Head(outbound))
    /\ outbound' = Tail(outbound)
    /\ UNCHANGED <<ownVars, inbound, peerEnd, offered>>

Peer ==
    \/ \E text \in Frames : PeerSend(text)
    \/ \E fragment \in {<<>>} \cup {<<text>> : text \in Frames} : PeerFin(fragment)
    \/ PeerReset
    \/ PeerRead

Next == (Step /\ UNCHANGED <<peerEnd, offered, received>>) \/ Peer

Spec == PeerInit /\ [][Next]_vars

\* The thread in io_service::run() runs every handler that is ready, and the
\* kernel moves what it can; the peer reads what it is sent.
Fairness ==
    /\ WF_vars(Start /\ UNCHANGED <<peerEnd, offered, received>>)
    /\ WF_vars(Read /\ UNCHANGED <<peerEnd, offered, received>>)
    /\ WF_vars(Write /\ UNCHANGED <<peerEnd, offered, received>>)
    /\ WF_vars(PeerRead)

FairSpec == Spec /\ Fairness

-----------------------------------------------------------------------------
\* write() hands m_msgs.front() to async_write by address: at most one write
\* is outstanding, and until it completes its message stays at the front of
\* the queue (the assert in the write handler, rpc_server.cpp:89).
WriteDiscipline ==
    /\ Len(writes) <= 1
    /\ \A i \in 1..Len(writes) : msgs # <<>> /\ writes[i].text = Head(msgs)

\* write_response starts no write when the queue is not empty: somebody must
\* then be writing, or the answers queued would wait for ever.
NoStalledQueue == msgs # <<>> /\ peerEnd # "reset" => writes # <<>>

\* However reads cut the stream, what parse_json is given is what the peer
\* sent, whole, once and in order (rpc_server.cpp:52-62).
TextsIntact == IsPrefix(served, offered)

\* The bytes that reach the peer are the answers of the texts served, each
\* with its terminator, never interleaved, repeated or out of order.
ReplyStream ==
    LET stream == received \o outbound
    IN  \A k \in 1..Len(stream) :
            /\ (k + 1) \div 2 <= Len(served)
            /\ stream[k] = Encode(Reply(served[(k + 1) \div 2]))[IF k % 2 = 1 THEN 1 ELSE 2]

\* A session implements the promise of OrderedReplies.
Promise == INSTANCE OrderedReplies WITH taken <- served, given <- answered

RepliesInOrder == Promise!Spec

\* After a failed write the session still reads and queues, but never writes
\* again: a reset connection sees no further byte.
SilentAfterWriteError ==
    [][phase = "reading" /\ msgs # <<>> /\ writes = <<>> => writes' = <<>> /\ outbound' = outbound]_vars

\* Every text served is answered on the wire unless the connection breaks.
EveryTextAnswered ==
    \A n \in 1..MaxTexts :
        Len(served) >= n ~> Len(received) >= 2 * n \/ peerEnd = "reset"

\* The references held by the handlers are dropped once the peer has gone:
\* no session outlives its connection.
SessionReleased == peerEnd # "open" ~> ~Alive
=============================================================================
