----------------------------- MODULE MCEntities -----------------------------
(***************************************************************************)
(* What JSON-RPC entities do in use: a call on its way (Dispatch), or one  *)
(* entity parsed again and again (EntityLife).  The two share no state, and *)
(* a behaviour is one of the one or one of the other.                      *)
(***************************************************************************)
EXTENDS MCDispatch, MCEntityLife

\* Where the behaviour is one of the other.
NoCall ==
    /\ handlers = <<>> /\ stage = "none" /\ callId = 0 /\ method = "" /\ params = JsonNull
    /\ passed = <<>> /\ key = NoKey /\ text = NoText /\ given = NotCalled /\ found = NoKey

NoEntity == object = Nothing /\ json = Absent /\ threw = None

MCInit ==
    \/ Init /\ NoEntity
    \/ LifeInit /\ NoCall

CallStep == object = Nothing /\ Next /\ UNCHANGED lifeVars
EntityStep == stage = "none" /\ LifeNext /\ UNCHANGED vars

MCNext == CallStep \/ EntityStep

MCSpec == MCInit /\ [][MCNext]_<<vars, lifeVars>>
=============================================================================
