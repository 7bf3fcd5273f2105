----------------------------- MODULE MCSession -----------------------------
(***************************************************************************)
(* A peer that sends up to three texts: requests that are answered with a  *)
(* response or with the text of an exception, and texts that are not       *)
(* requests.  The three kinds of answer tell the orders of replies apart.  *)
(***************************************************************************)
EXTENDS SessionPeer

MCIds == {1}
MCMethods == {"add"}
MCHandlers == {"add"}
MCThrowing == {}
MCArgs == {"x"}
=============================================================================
