----------------------------- MODULE MCTerminal -----------------------------
(***************************************************************************)
(* Instances of Terminal for TLC: of the two commands one is the beginning *)
(* of the other.                                                           *)
(***************************************************************************)
EXTENDS Terminal

TwoCommands == {<<"h">>, <<"h", "v">>}
=============================================================================
