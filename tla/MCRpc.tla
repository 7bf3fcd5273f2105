------------------------------- MODULE MCRpc -------------------------------
(***************************************************************************)
(* Calls for the model checker.  c1 and c3 are answered with a result;     *)
(* c1's callback makes c4, whose callback takes another type than the      *)
(* result has; the handler of c2 throws.                                          *)
(***************************************************************************)
EXTENDS Rpc

MCIds == 1..4
MCMethods == {"add", "div", "none"}
MCHandlers == {"add", "div"}
MCThrowing == {"div"}

MCRequest(id, method, params, arg) == [id |-> id, method |-> method, params |-> params, arg |-> arg]

MCCallOf ==
    [c \in Calls |->
        CASE c = "c1" -> MCRequest(1, "add", "list", "x")
          [] c = "c2" -> MCRequest(2, "div", "list", "x")
          [] c = "c3" -> MCRequest(3, "add", "list", "y")
          [] c = "c4" -> MCRequest(4, "add", "list", "x")
          [] c = "c5" -> MCRequest(2, "none", "list", "x")
          [] c = "c7" -> MCRequest(3, "add", "null", "y")]

MCArgs == {"x", "y"}

MCFollowUp == [c \in Calls |-> IF c = "c1" /\ "c4" \in Calls THEN "c4" ELSE NoCall]

MCUnfit == Calls \cap {"c4"}
=============================================================================
