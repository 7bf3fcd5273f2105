------------------------------ MODULE MCServer ------------------------------
(***************************************************************************)
(* run() called up to twice, three connections and descriptors for two, so *)
(* that an accept fails while both sessions live, and time for the handler of *)
(* the timer to be due twice.                                        *)
(***************************************************************************)
EXTENDS Server
=============================================================================
