---------------------------- MODULE MC_Requests ----------------------------
(* The instance of Requests for TLC: see net_requests.cfg and README.md. *)
EXTENDS Requests

CONSTANTS s1, r1, nokey, t1, t2

MC_RouteListener == [r \in Routes |-> 2]
MC_RouteKey == [r \in Routes |-> s1]
MC_Binds == [d \in {0} |->
    [curve |-> TRUE, allow |-> [k \in Pubkeys, sn \in BOOLEAN |-> none]]]
MC_Remotes == {[key |-> nokey, level |-> none]}
MC_PartSize == [p \in {"any", "open"} |-> 4]
MC_Names == {<<"any", "open">>}
MC_Commands == [name \in MC_Names |->
    [found |-> TRUE, auth |-> none, remote_sn |-> FALSE, local_sn |-> FALSE, request |-> FALSE]]
MC_Aliases == <<>>
MC_SendCallbacks == [t \in Tags |-> IF t = t1 THEN {"fail", "full"} ELSE {"full"}]
=============================================================================
