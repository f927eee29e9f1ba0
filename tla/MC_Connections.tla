--------------------------- MODULE MC_Connections ---------------------------
(* Instances of Connections for TLC: see the .cfg files and README.md. *)
EXTENDS Connections

CONSTANTS s1, own, r1, self, nokey

(* r1: service node s1 at our listener; self: ourselves, by inproc. *)
MC_RouteListener == [r \in Routes |-> IF r = self THEN 1 ELSE 2]
MC_RouteKey == [r \in Routes |-> IF r = self THEN own ELSE s1]
MC_Binds == [d \in {0} |->
    [curve |-> TRUE, allow |-> [k \in Pubkeys, sn \in BOOLEAN |-> IF sn THEN basic ELSE none]]]
MC_Remotes == {[key |-> s1, level |-> none]}
Command(auth, remote_sn, local_sn, request) ==
    [found |-> TRUE, auth |-> auth, remote_sn |-> remote_sn, local_sn |-> local_sn,
     request |-> request]
MC_PartSize == [p \in {"any", "open", "status", "local", "old", "bogus"} |-> 6]
MC_Commands == [name \in {<<"any", "open">>, <<"any", "status">>, <<"any", "local">>} |->
    CASE name[2] = "open" -> Command(basic, FALSE, FALSE, FALSE)
      [] name[2] = "status" -> Command(none, TRUE, FALSE, TRUE)
      [] name[2] = "local" -> Command(none, FALSE, TRUE, FALSE)]
MC_Aliases == [name \in {<<"old">>} |-> <<"any", "status">>]
MC_Names == {<<"any", "open">>, <<"old">>, <<"any", "local">>, <<"any", "bogus">>}
=============================================================================
