-------------------------- MODULE OrderedReplies ---------------------------
(***************************************************************************)
(* What a session promises its peer, whatever it does with buffers and     *)
(* queues: the answers are those of the texts taken, in the order they     *)
(* were taken, one each, and none before its text.                         *)
(***************************************************************************)
EXTENDS RpcMessages

VARIABLES
    taken,      \* the texts taken from the peer, in order
    given       \* the answers given to it, in order

Init == taken = <<>> /\ given = <<>>

Take == \E text \in Frames : taken' = Append(taken, text) /\ UNCHANGED given

Give ==
    /\ Len(given) < Len(taken)
    /\ given' = Append(given, Reply(taken[Len(given) + 1]))
    /\ UNCHANGED taken

Next == Take \/ Give

Spec == Init /\ [][Next]_<<taken, given>>
=============================================================================
