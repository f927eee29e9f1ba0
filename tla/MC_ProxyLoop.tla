---------------------------- MODULE MC_ProxyLoop ----------------------------
(* Instances of ProxyLoop for TLC: see the .cfg files and README.md. *)
EXTENDS ProxyLoop

CONSTANTS a, b
MC_Owner == [t \in TimerIDs |-> a]
=============================================================================
