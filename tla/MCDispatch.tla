----------------------------- MODULE MCDispatch -----------------------------
(***************************************************************************)
(* Half = 2: ints are -2..1, so ids 2 and 3 and the argument 2 do not fit. *)
(* Arguments are numbers that differ, one that does not fit, a truth value *)
(* and strings of no, one and two words; for the runs about one kind of    *)
(* call, a string of one word, and numbers that fit.                       *)
(***************************************************************************)
EXTENDS Dispatch

MCSignatures == {<<"int">>, <<"int", "int">>, <<"string", "int">>, <<"bool", "string">>}

MCArguments ==
    {Number(-1), Number(1), Number(2), Truth(TRUE),
     Text(<<>>), Text(<<Plain("a")>>), Text(<<Plain("a"), Plain("b")>>)}

MCStringSignatures == {<<"string">>}
MCStringArguments == {Text(<<Plain("lib_json_rpc")>>)}

MCNumberSignatures == {<<"int", "int">>}
MCNumberArguments == {Number(-1), Number(1)}
=============================================================================
