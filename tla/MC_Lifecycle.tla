---------------------------- MODULE MC_Lifecycle ----------------------------
(* The instance of Lifecycle for TLC: see lifecycle.cfg and README.md. *)
EXTENDS Lifecycle

(* The longest name there can be, a short one, and two that are refused.   *)
MC_PartSize == [a |-> 50, b |-> 51, x |-> 200, y |-> 1, z |-> 201]
MC_FullNames == {<<"a", "x">>, <<"a", "y">>, <<"a", "z">>, <<"b", "x">>}
MC_Requests == {<<"a", "y">>}
(* A name that may be a command, one without a dot, one that is too long.  *)
MC_AliasCalls ==
    {<< <<"a", "x">>, <<"a", "y">> >>, << <<"a", "y">>, <<"a", "x">> >>,
     << <<"x">>, <<"a", "x">> >>, << <<"x">>, <<"a", "y">> >>, << <<"a", "z">>, <<"a", "x">> >>}
=============================================================================
