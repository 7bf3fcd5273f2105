---------------------------- MODULE RpcContract ----------------------------
(***************************************************************************)
(* What librpc promises an application that makes calls over one           *)
(* connection: the server takes each call at most once, in the order the   *)
(* calls were made; a call whose handler returns a fit result has its      *)
(* callback invoked once at most, with that result, in the same order; no  *)
(* callback is invoked before the server took its call.  A callback may    *)
(* make the next call.                                                     *)
(***************************************************************************)
EXTENDS RpcMessages

CONSTANTS Calls, CallOf, FollowUp, Unfit

VARIABLES
    issued,     \* the calls made, in order
    taken,      \* how many of them the server has taken
    returned    \* what the callbacks were invoked with, in order

Request(c) == [kind |-> "request", id |-> CallOf[c].id, method |-> CallOf[c].method,
               params |-> CallOf[c].params, arg |-> CallOf[c].arg]

\* The calls that are answered with a result their callback can take.
Answerable(c) == Reply(Request(c)).kind = "response" /\ c \notin Unfit

Outcome(c) == [call |-> c, error |-> 0, result |-> Reply(Request(c)).result]

Init == issued = <<>> /\ taken = 0 /\ returned = <<>>

Issue ==
    /\ \E c \in Calls \ Range(issued) : issued' = Append(issued, c)
    /\ UNCHANGED <<taken, returned>>

Take ==
    /\ taken < Len(issued)
    /\ taken' = taken + 1
    /\ UNCHANGED <<issued, returned>>

Returned(c) == \E k \in 1..Len(returned) : returned[k].call = c

\* The callbacks of the answerable calls before the i-th have been invoked, and
\* neither its own nor any of those after it.
Due(i) ==
    /\ Answerable(issued[i])
    /\ \A j \in 1..taken : Answerable(issued[j]) => (Returned(issued[j]) <=> j < i)

Return ==
    \E i \in 1..taken :
        /\ Due(i)
        /\ returned' = Append(returned, Outcome(issued[i]))
        /\ \/ issued' = issued
           \/ /\ FollowUp[issued[i]] \in Calls \ Range(issued)
              /\ issued' = Append(issued, FollowUp[issued[i]])
        /\ UNCHANGED taken

Next == Issue \/ Take \/ Return

Spec == Init /\ [][Next]_<<issued, taken, returned>>
=============================================================================
