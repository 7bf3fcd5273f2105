------------------------------ MODULE MCClient ------------------------------
(***************************************************************************)
(* Two calls, either of which may not be made, and a server that sends up  *)
(* to two texts: responses with the id of a call, made or not, whose       *)
(* result the callback of c1 takes and that of c2 does not, and texts that *)
(* are no response.                                                        *)
(***************************************************************************)
EXTENDS ClientPeer

MCIds == 1..2
MCMethods == {"add"}
MCHandlers == {"add"}
MCThrowing == {}
MCArgs == {"x"}

MCCallOf ==
    [c \in Calls |-> [id |-> IF c = "c1" THEN 1 ELSE 2, method |-> "add", params |-> "list", arg |-> "x"]]

MCFollowUp == [c \in Calls |-> NoCall]

MCUnfit == {"c2"}
=============================================================================
