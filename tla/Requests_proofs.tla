-------------------------- MODULE Requests_proofs --------------------------
(***************************************************************************)
(* Proofs about Requests, and what it shares with Connections: the lists   *)
(* of service nodes, the answers to connect_remote() and to request(), for *)
(* any keys, connections and requests.  What peers holds is changed with   *)
(* SelectSeq, a recursive definition, and is left to TLC.                  *)
(***************************************************************************)
EXTENDS Requests, FiniteSetTheorems, TLAPS

(* The sizes of two sets without a common element add up. *)
LEMMA Disjoint ==
    ASSUME NEW S, NEW T, IsFiniteSet(S), IsFiniteSet(T), S \cap T = {}
    PROVE  Cardinality(S \cup T) = Cardinality(S) + Cardinality(T)
<1>1. Cardinality(S \cup T) = Cardinality(S) + Cardinality(T) - Cardinality(S \cap T)
  BY FS_Union
<1>2. Cardinality(S \cap T) = 0 /\ Cardinality(S) \in Nat /\ Cardinality(T) \in Nat
  BY FS_EmptySet, FS_CardinalityType
<1> QED BY <1>1, <1>2

(***************************************************************************)
(* The search of proxy_set_active_sns stops when, and only when, it has    *)
(* seen all the active nodes that are not in the new list.                 *)
(***************************************************************************)
LEMMA StopsWhenComplete ==
    ASSUME NEW active, active \subseteq Pubkeys, NEW keys, NEW seen, seen \subseteq active
    PROVE  AddsUp(active, keys, seen) <=> seen \ keys = active \ keys
<1> PICK new : new = NewKeys(active, keys)
  OBVIOUS
<1> PICK stay : stay = active \cap keys
  OBVIOUS
<1> PICK go : go = active \ keys
  OBVIOUS
<1> PICK gone : gone = seen \ keys
  OBVIOUS
<1>1. IsFiniteSet(new) /\ IsFiniteSet(stay) /\ IsFiniteSet(go) /\ IsFiniteSet(gone)
  BY KeysAssumption, FS_Subset DEF NewKeys
<1>2. /\ Cardinality(new) \in Nat /\ Cardinality(stay) \in Nat
      /\ Cardinality(go) \in Nat /\ Cardinality(gone) \in Nat
  BY <1>1, FS_CardinalityType
<1>3. Cardinality(active) = Cardinality(stay) + Cardinality(go)
  <2>1. active = stay \cup go /\ stay \cap go = {}
    OBVIOUS
  <2> QED BY <1>1, <2>1, Disjoint
<1>4. Cardinality(keys \cap Pubkeys) = Cardinality(new) + Cardinality(stay)
  <2>1. keys \cap Pubkeys = new \cup stay /\ new \cap stay = {}
    BY DEF NewKeys
  <2> QED BY <1>1, <2>1, Disjoint
<1>5. AddsUp(active, keys, seen) <=> Cardinality(gone) = Cardinality(go)
  BY <1>2, <1>3, <1>4 DEF AddsUp
<1>6. gone \in SUBSET go
  OBVIOUS
<1>7. Cardinality(gone) = Cardinality(go) => gone = go
  BY <1>1, <1>6, FS_Subset
<1> QED BY <1>5, <1>7

LEMMA SetIsExact ==
    ASSUME NEW active, active \subseteq Pubkeys, NEW keys
    PROVE  SetActive(active, keys) = {keys \cap Pubkeys}
<1>1. CASE Unchanged(active, keys)
  <2>1. keys \cap Pubkeys \in SUBSET active
    BY <1>1 DEF Unchanged, NewKeys
  <2>2. IsFiniteSet(active) /\ Cardinality(active) = Cardinality(keys \cap Pubkeys)
    BY <1>1, KeysAssumption, FS_Subset DEF Unchanged
  <2>3. active = keys \cap Pubkeys
    BY <2>1, <2>2, FS_Subset
  <2> QED BY <1>1, <2>3 DEF SetActive
<1>2. CASE ~Unchanged(active, keys)
  <2>1. \A seen \in Scans(active, keys) : seen \subseteq active /\ seen \ keys = active \ keys
    BY StopsWhenComplete DEF Scans
  <2>2. Scans(active, keys) # {}
    <3>1. CASE active = {}
      BY <3>1 DEF Scans
    <3>2. CASE active # {} /\ active \ keys = {}
      <4>1. PICK end \in active : TRUE
        BY <3>2
      <4>2. AddsUp(active, keys, {end})
        BY <3>2, <4>1, StopsWhenComplete
      <4>3. {end} \in Scans(active, keys)
        BY <4>1, <4>2 DEF Scans
      <4> QED BY <4>3
    <3>3. CASE active \ keys # {}
      <4>1. PICK end \in active : end \notin keys
        BY <3>3
      <4>2. ~AddsUp(active, keys, active \ {end})
        BY <4>1, StopsWhenComplete
      <4>3. active \in Scans(active, keys)
        BY <4>1, <4>2 DEF Scans
      <4> QED BY <4>3
    <3> QED BY <3>1, <3>2, <3>3
  <2>3. \A seen \in Scans(active, keys) :
           Clean(active, NewKeys(active, keys), seen \ keys) = keys \cap Pubkeys
    BY <2>1 DEF Clean, NewKeys
  <2>4. SetActive(active, keys) = {Clean(active, NewKeys(active, keys), seen \ keys) :
                                       seen \in Scans(active, keys)}
    BY <1>2 DEF SetActive
  <2> QED BY <2>2, <2>3, <2>4
<1> QED BY <1>1, <1>2

LEMMA UpdateIsExact ==
    ASSUME NEW active, active \subseteq Pubkeys, NEW added, NEW removed
    PROVE  UpdateActive(active, added, removed) = (active \ removed) \cup (added \cap Pubkeys)
BY DEF UpdateActive, Clean, FilterAdded, FilterRemoved

-----------------------------------------------------------------------------
(* The actions of Connections, one by one, for the lemmas below. *)

LEMMA ListStep ==
    ASSUME active_service_nodes \subseteq Pubkeys, [NextAll]_rvars
    PROVE  active_service_nodes' \subseteq Pubkeys
<1>1. ASSUME NEW added, added \subseteq Pubkeys, NEW removed, CleanPeers(added, removed)
      PROVE  active_service_nodes' \subseteq Pubkeys
  BY <1>1 DEF CleanPeers, Clean
<1>2. ASSUME NEW keys, proxy_set_active_sns(keys) PROVE active_service_nodes' \subseteq Pubkeys
  BY <1>1, <1>2 DEF proxy_set_active_sns, NewKeys
<1>3. ASSUME NEW added, NEW removed, proxy_update_active_sns(added, removed)
      PROVE  active_service_nodes' \subseteq Pubkeys
  BY <1>1, <1>3 DEF proxy_update_active_sns, FilterAdded
<1>4. ASSUME Clients PROVE active_service_nodes' \subseteq Pubkeys
  BY <1>2, <1>3, <1>4 DEF Clients, connect_remote, proxy_connect_sn, proxy_disconnect
<1>5. ASSUME Connects \/ Arrivals PROVE UNCHANGED active_service_nodes
  BY <1>5 DEF Connects, Arrivals, proxy_connect_remote, OnHello, OnBye, OnCommandOut, OnCommandIn,
              IncomingConnects, IncomingGoes
<1>6. ASSUME SendLoop PROVE UNCHANGED active_service_nodes
  BY <1>6 DEF SendLoop, RouteToSn, RouteToOther, Transmit, ScanErases, ScanStays, vars
<1>7. ASSUME NEW t, NEW to, NEW opts, request(t, to, opts) PROVE UNCHANGED active_service_nodes
  BY <1>7 DEF request, proxy_send
<1>8. ASSUME RequestReturns \/ Cleanup \/ TickAll PROVE UNCHANGED active_service_nodes
  BY <1>8 DEF RequestReturns, SendReturns, Cleanup, proxy_conn_cleanup, TickAll, Tick
<1>9. ASSUME NEW t, OnReply(t) \/ OnErrorResponse(t) PROVE UNCHANGED active_service_nodes
  BY <1>9 DEF OnReply, OnErrorResponse, Answered, vars
<1>10. ASSUME Terminated \/ UNCHANGED rvars PROVE UNCHANGED active_service_nodes
  BY <1>10 DEF Terminated, rvars, vars
<1> QED BY <1>4, <1>5, <1>6, <1>7, <1>8, <1>9, <1>10 DEF NextAll

(* set_active_sns() leaves exactly the well-formed keys it was given, and  *)
(* update_active_sns() removes and adds what it was given, with any list   *)
(* before, wherever proxy_set_active_sns stops its search.                 *)
THEOREM ListsAreExact == SpecAll => []ListExact
<1>1. InitAll => active_service_nodes \subseteq Pubkeys
  BY DEF InitAll, Init
<1>2. active_service_nodes \subseteq Pubkeys /\ [NextAll]_rvars
          => (active_service_nodes \subseteq Pubkeys)'
  BY ListStep
<1>3. active_service_nodes \subseteq Pubkeys => ListExact
  BY SetIsExact, UpdateIsExact DEF ListExact
<1> QED BY <1>1, <1>2, <1>3, PTL DEF SpecAll

-----------------------------------------------------------------------------
(***************************************************************************)
(* connect_remote(): an id is drawn, is on its way, is pending, and is     *)
(* answered; these are the steps it can take.                              *)
(***************************************************************************)
Draws ==
    /\ next_conn_id' = next_conn_id + 1 /\ next_conn_id \in ConnIds
    /\ DOMAIN issued' = DOMAIN issued \cup {next_conn_id}
    /\ UNCHANGED <<pending_connects, callbacks>>
Hears(id) ==
    /\ id \in DOMAIN issued /\ DOMAIN issued' = DOMAIN issued \ {id} /\ UNCHANGED next_conn_id
    /\ \/ DOMAIN pending_connects' = DOMAIN pending_connects \cup {id} /\ UNCHANGED callbacks
       \/ /\ callbacks' = [callbacks EXCEPT ![id] = Append(@, "failure")]
          /\ UNCHANGED pending_connects
Settles(ids, result) ==
    /\ ids \subseteq DOMAIN pending_connects
    /\ DOMAIN pending_connects' = DOMAIN pending_connects \ ids
    /\ callbacks' = [id \in DOMAIN callbacks |->
                        IF id \in ids THEN Append(callbacks[id], result) ELSE callbacks[id]]
    /\ UNCHANGED <<issued, next_conn_id>>
Carries ==
    /\ next_conn_id' \in {next_conn_id, next_conn_id + 1}
    /\ DOMAIN pending_connects' = DOMAIN pending_connects /\ UNCHANGED <<issued, callbacks>>

LEMMA LinksGrow ==
    \/ \E pk, opts, keep_alive, i : SnReuse(pk, opts, keep_alive, i)
    \/ \E pk, opts : SnGiveUp(pk, opts)
    \/ \E pk, opts, keep_alive : SnOpen(pk, opts, keep_alive)
    => next_conn_id' \in {next_conn_id, next_conn_id + 1}
BY DEF SnReuse, SnGiveUp, SnOpen, links

LEMMA ConnectEffects ==
    ASSUME next_conn_id \in Nat \ {0}, DOMAIN callbacks = ConnIds, [NextAll]_rvars
    PROVE  \/ Draws \/ Carries \/ (\E id \in ConnIds : Hears(id))
           \/ \E ids : \E result \in {"success", "failure"} : Settles(ids, result)
<1>1. ASSUME NEW remote, connect_remote(remote) PROVE Draws
  BY <1>1, ConnectionsAssumption DEF connect_remote, Draws, With, ConnIds
<1>2. ASSUME NEW id \in ConnIds, proxy_connect_remote(id) PROVE Hears(id)
  BY <1>2 DEF proxy_connect_remote, Hears, With, Restrict
<1>3. ASSUME NEW id \in ConnIds, OnHello(id) PROVE Settles({id}, "success")
  BY <1>3 DEF OnHello, Settles, Restrict, links
<1>4. ASSUME proxy_conn_cleanup PROVE Settles(TimedOut, "failure")
  BY <1>4 DEF proxy_conn_cleanup, Settles, TimedOut, Restrict
<1>5. ASSUME Tick PROVE Carries
  BY <1>5 DEF Tick, Carries
<1>6. ASSUME UNCHANGED connecting, UNCHANGED next_conn_id PROVE Carries
  BY <1>6 DEF Carries, connecting
<1>7. ASSUME NEW pk, proxy_connect_sn(pk) PROVE Carries
  BY <1>7, LinksGrow DEF proxy_connect_sn, Carries, connecting
<1>8. ASSUME RouteToSn PROVE Carries
  BY <1>8, LinksGrow DEF RouteToSn, Carries, connecting
<1>9. ASSUME NEW key, proxy_disconnect(key) PROVE Carries
  BY <1>9 DEF proxy_disconnect, StillPending, Carries
<1>10. ASSUME NEW keys, NEW removed,
              proxy_set_active_sns(keys) \/ proxy_update_active_sns(keys, removed)
       PROVE  Carries
  BY <1>6, <1>10 DEF proxy_set_active_sns, proxy_update_active_sns
<1>11. ASSUME NEW id, NEW name, NEW tagged, NEW waits,
              OnBye(id) \/ OnCommandOut(id, name, tagged, waits)
       PROVE  Carries
  BY <1>6, <1>11 DEF OnBye, OnCommandOut
<1>12. ASSUME NEW r, OnCommandIn(r) \/ IncomingConnects(r) \/ IncomingGoes(r) PROVE Carries
  BY <1>6, <1>12 DEF OnCommandIn, IncomingConnects, IncomingGoes, links
<1>13. ASSUME RouteToOther \/ Transmit \/ ScanErases \/ ScanStays PROVE Carries
  BY <1>6, <1>13 DEF RouteToOther, Transmit, ScanErases, ScanStays, links, vars
<1>14. ASSUME NEW t, NEW to, NEW opts, request(t, to, opts) PROVE Carries
  BY <1>6, <1>14 DEF request, proxy_send, links
<1>15. ASSUME SendReturns \/ Terminated PROVE Carries
  BY <1>6, <1>15 DEF SendReturns, Terminated, links, vars
<1>16. ASSUME NEW t, Answered(t, "reply") \/ Answered(t, "refused") PROVE Carries
  BY <1>6, <1>16 DEF Answered, links, vars
<1>17. CASE UNCHANGED rvars
  BY <1>6, <1>17 DEF rvars, links, vars
<1>18. CASE Clients \/ Connects
  BY <1>1, <1>2, <1>7, <1>9, <1>10, <1>18 DEF Clients, Connects
<1>19. CASE Arrivals
  BY <1>3, <1>11, <1>12, <1>19 DEF Arrivals
<1>20. CASE SendLoop \/ Terminated \/ RequestReturns
  BY <1>8, <1>13, <1>15, <1>20 DEF SendLoop, RequestReturns
<1>21. CASE Cleanup \/ TickAll
  BY <1>4, <1>5, <1>21 DEF Cleanup, TickAll
<1> QED BY <1>14, <1>16, <1>17, <1>18, <1>19, <1>20, <1>21 DEF NextAll, OnReply, OnErrorResponse

(* CallbackExact but for what it says of the socket and the peer *)
CallbackOnce ==
    \A id \in ConnIds :
        /\ Len(callbacks[id]) <= 1
        /\ id \in DOMAIN issued \cup DOMAIN pending_connects => callbacks[id] = <<>>
        /\ DOMAIN issued \cap DOMAIN pending_connects = {}
ConnectInv ==
    /\ next_conn_id \in Nat \ {0}
    /\ callbacks \in [ConnIds -> Seq({"success", "failure"})]
    /\ DOMAIN issued \cup DOMAIN pending_connects \subseteq ConnIds
    /\ \A id \in ConnIds : id >= next_conn_id =>
          id \notin DOMAIN issued \cup DOMAIN pending_connects /\ callbacks[id] = <<>>
    /\ DOMAIN issued \cap DOMAIN pending_connects = {}
    /\ \A id \in DOMAIN issued \cup DOMAIN pending_connects : callbacks[id] = <<>>
    /\ \A id \in ConnIds : Len(callbacks[id]) <= 1

LEMMA ConnectStep == ASSUME ConnectInv, [NextAll]_rvars PROVE ConnectInv'
<1>1. DOMAIN callbacks = ConnIds /\ next_conn_id \in Nat \ {0}
  BY DEF ConnectInv
<1>2. CASE Draws
  BY <1>2 DEF ConnectInv, Draws, ConnIds
<1>3. CASE Carries
  BY <1>3 DEF ConnectInv, Carries, ConnIds
<1>4. ASSUME NEW id \in ConnIds, Hears(id) PROVE ConnectInv'
  <2>1. id < next_conn_id /\ callbacks[id] = <<>> /\ id \notin DOMAIN pending_connects
    BY <1>4 DEF Hears, ConnectInv, ConnIds
  <2>2. CASE UNCHANGED callbacks
    BY <1>4, <2>1, <2>2 DEF Hears, ConnectInv, ConnIds
  <2>3. CASE /\ callbacks' = [callbacks EXCEPT ![id] = Append(@, "failure")]
             /\ UNCHANGED pending_connects
    <3>1. /\ callbacks' \in [ConnIds -> Seq({"success", "failure"})]
          /\ Len(callbacks'[id]) = 1
          /\ \A x \in ConnIds : x # id => callbacks'[x] = callbacks[x]
      BY <2>1, <2>3 DEF ConnectInv
    <3> QED BY <1>4, <2>1, <2>3, <3>1 DEF Hears, ConnectInv, ConnIds
  <2> QED BY <1>4, <2>2, <2>3 DEF Hears
<1>5. ASSUME NEW ids, NEW result \in {"success", "failure"}, Settles(ids, result) PROVE ConnectInv'
  <2>1. \A id \in ids : id \in ConnIds /\ id < next_conn_id /\ callbacks[id] = <<>>
    BY <1>5 DEF Settles, ConnectInv, ConnIds
  <2>2. /\ callbacks' \in [ConnIds -> Seq({"success", "failure"})]
        /\ \A id \in ids : Len(callbacks'[id]) = 1
        /\ \A x \in ConnIds : x \notin ids => callbacks'[x] = callbacks[x]
    BY <1>1, <1>5, <2>1 DEF Settles, ConnectInv
  <2> QED BY <1>5, <2>1, <2>2 DEF Settles, ConnectInv, ConnIds
<1> QED BY <1>1, <1>2, <1>3, <1>4, <1>5, ConnectEffects

(* Every id that connect_remote() has returned is on its way to the proxy, *)
(* pending, or answered by one callback, and never two of these.           *)
THEOREM ConnectAnsweredOnce == SpecAll => []CallbackOnce
<1>1. InitAll => ConnectInv
  BY ConnectionsAssumption DEF InitAll, Init, ConnectInv
<1>2. ConnectInv /\ [NextAll]_rvars => ConnectInv'
  BY ConnectStep
<1>3. ConnectInv => CallbackOnce
  BY DEF ConnectInv, CallbackOnce
<1> QED BY <1>1, <1>2, <1>3, PTL DEF SpecAll

-----------------------------------------------------------------------------
(***************************************************************************)
(* request(): a request is in the hands of proxy_send, pending, or         *)
(* answered, and never two of these; used are those that were made.        *)
(***************************************************************************)
Sending(t) == send # Idle /\ send.tag = t
SendInv ==
    send # Idle =>
        /\ {"stage", "tag"} \subseteq DOMAIN send /\ send.stage # "idle"
        /\ send.tag \in Tags
        /\ send.stage = "done" => send.result # "none"

(* What Connections does to the SEND message in hand *)
Keeps == (send = Idle /\ send' = Idle) \/ (send # Idle /\ send' # Idle /\ send'.tag = send.tag)

LEMMA IdleStage == Idle.stage = "idle"
BY DEF Idle

LEMMA KeepsSend ==
    ASSUME SendInv, SendLoop PROVE Keeps /\ SendInv'
<1>1. ASSUME NEW conn, NEW route, Found(conn, route), send # Idle PROVE Keeps /\ SendInv'
  <2>1. send'.stage = "transmit" /\ send'.tag = send.tag /\ DOMAIN send' = DOMAIN send
    BY <1>1 DEF Found, SendInv
  <2> QED BY <1>1, <2>1, IdleStage DEF Keeps, SendInv
<1>2. ASSUME NEW result, Finish(result), result # "none", send # Idle PROVE Keeps /\ SendInv'
  <2>1. send'.stage = "done" /\ send'.result = result /\ send'.tag = send.tag /\ {"stage", "tag"} \subseteq DOMAIN send'
    BY <1>2 DEF Finish
  <2> QED BY <1>2, <2>1, IdleStage DEF Keeps, SendInv
<1>3. ASSUME NEW x \in {"route", "scan"}, send' = [send EXCEPT !.stage = x], send # Idle
      PROVE  Keeps /\ SendInv'
  <2>1. send'.stage = x /\ send'.tag = send.tag /\ DOMAIN send' = DOMAIN send
    BY <1>3 DEF SendInv
  <2> QED BY <1>3, <2>1, IdleStage DEF Keeps, SendInv
<1>4. send # Idle
  BY IdleStage DEF SendLoop, RouteToSn, RouteToOther, Transmit, ScanErases, ScanStays
<1>5. CASE RouteToSn \/ RouteToOther
  BY <1>1, <1>2, <1>4, <1>5 DEF RouteToSn, RouteToOther
<1>6. CASE Transmit
  BY <1>2, <1>3, <1>4, <1>6 DEF Transmit
<1>7. CASE ScanErases
  BY <1>3, <1>4, <1>7 DEF ScanErases
<1>8. CASE ScanStays
  BY <1>4, <1>8 DEF ScanStays, vars, Keeps, SendInv
<1> QED BY <1>5, <1>6, <1>7, <1>8 DEF SendLoop

LEMMA OthersKeepSend ==
    ASSUME Clients \/ Connects \/ Arrivals \/ Terminated PROVE UNCHANGED send
<1>1. CASE Clients
  BY <1>1 DEF Clients, connect_remote, proxy_connect_sn, proxy_disconnect, proxy_set_active_sns,
              proxy_update_active_sns
<1>2. CASE Connects \/ Terminated
  BY <1>2 DEF Connects, proxy_connect_remote, Terminated, vars
<1>3. CASE Arrivals
  BY <1>3 DEF Arrivals, OnHello, OnBye, OnCommandOut, OnCommandIn, IncomingConnects, IncomingGoes
<1> QED BY <1>1, <1>2, <1>3

Results == {"reply", "refused", "timeout"}
RequestInv ==
    /\ SendInv
    /\ used \subseteq Tags /\ DOMAIN pending_requests \subseteq Tags
    /\ answers \in [Tags -> Seq(Results)]
    /\ \A t \in Tags :
          /\ Len(answers[t]) <= 1
          /\ t \in used <=> Sending(t) \/ t \in DOMAIN pending_requests \/ answers[t] # <<>>
          /\ ~(Sending(t) /\ t \in DOMAIN pending_requests)
          /\ ~(Sending(t) /\ answers[t] # <<>>)
          /\ ~(t \in DOMAIN pending_requests /\ answers[t] # <<>>)

LEMMA AskedIsUsed == RequestInv => Asked = used
BY DEF RequestInv, Asked, Sending

(* What a step may do to the requests *)
Told(t) == outcome' = [outcome EXCEPT ![t] = send.result] /\ reports' = Reports(t)
Asks(t) ==
    /\ send = Idle /\ send' # Idle /\ send'.tag = t
    /\ t \notin used /\ used' = used \cup {t}
    /\ UNCHANGED <<pending_requests, answers, outcome, reports>>
Awaits(t) ==
    /\ Sending(t) /\ send' = Idle /\ send.result = "sent"
    /\ DOMAIN pending_requests' = DOMAIN pending_requests \cup {t}
    /\ UNCHANGED <<used, answers>> /\ Told(t)
Fails(t) ==
    /\ Sending(t) /\ send' = Idle /\ send.result \notin {"none", "sent"}
    /\ answers' = [answers EXCEPT ![t] = Append(@, "timeout")]
    /\ UNCHANGED <<used, pending_requests>> /\ Told(t)
Resolves(ts, result) ==
    /\ send = Idle /\ send' = Idle
    /\ ts \subseteq DOMAIN pending_requests
    /\ DOMAIN pending_requests' = DOMAIN pending_requests \ ts
    /\ answers' = [t \in Tags |-> IF t \in ts THEN Append(answers[t], result) ELSE answers[t]]
    /\ UNCHANGED <<used, outcome, reports>>
Rests ==
    /\ Keeps
    /\ DOMAIN pending_requests' = DOMAIN pending_requests
    /\ UNCHANGED <<used, answers, outcome, reports>>

LEMMA RequestEffects ==
    ASSUME RequestInv, [NextAll]_rvars
    PROVE  /\ SendInv'
           /\ \/ Rests
              \/ \E t \in Tags : Asks(t) \/ Awaits(t) \/ Fails(t) \/ Resolves({t}, "reply")
                                  \/ Resolves({t}, "refused")
              \/ Resolves(Late, "timeout")
<1>0. SendInv /\ DOMAIN answers = Tags
  BY DEF RequestInv
<1>1. CASE UNCHANGED <<send, reqs>>
  <2>1. Rests
    BY <1>1 DEF Rests, reqs, Keeps
  <2> QED BY <1>0, <1>1, <2>1 DEF SendInv
<1>2. CASE SendLoop /\ UNCHANGED reqs
  BY <1>0, <1>2, KeepsSend DEF Rests, reqs
<1>3. ASSUME NEW t \in Tags, NEW to, NEW opts, request(t, to, opts) PROVE Asks(t) /\ SendInv'
  <2>1. send' = NewSend(to, opts, t) /\ send = Idle
    BY <1>3 DEF request, proxy_send, Ready
  <2>2. send'.stage = "route" /\ send'.tag = t /\ {"stage", "tag"} \subseteq DOMAIN send'
    BY <2>1 DEF NewSend
  <2> QED BY <1>3, <2>1, <2>2, IdleStage DEF request, Asks, SendInv
<1>4. CASE RequestReturns
  <2>1. send # Idle /\ send.tag \in Tags /\ send' = Idle /\ SendInv' /\ send.result # "none"
    BY <1>0, <1>4, IdleStage DEF RequestReturns, SendReturns, SendInv
  <2>2. CASE send.result = "sent"
    BY <1>4, <2>1, <2>2 DEF RequestReturns, Concluded, Awaits, Told, Sending, With
  <2>3. CASE send.result # "sent"
    BY <1>4, <2>1, <2>3 DEF RequestReturns, Concluded, Fails, Told, Sending
  <2> QED BY <2>1, <2>2, <2>3
<1>5. ASSUME NEW t \in Tags, NEW result, Answered(t, result) PROVE Resolves({t}, result) /\ SendInv'
  BY <1>0, <1>5 DEF Answered, Resolves, Ready, Restrict, vars, RequestInv, SendInv
<1>6. CASE Cleanup
  BY <1>0, <1>6 DEF Cleanup, proxy_conn_cleanup, Resolves, Ready, Restrict, Late, SendInv
<1>7. CASE TickAll
  BY <1>0, <1>7 DEF TickAll, Tick, Rests, Keeps, SendInv
<1>8. CASE (Clients \/ Connects \/ Arrivals \/ Terminated) /\ UNCHANGED reqs
  BY <1>1, <1>8, OthersKeepSend
<1>9. CASE UNCHANGED rvars
  BY <1>1, <1>9 DEF rvars, vars
<1> QED BY <1>2, <1>3, <1>4, <1>5, <1>6, <1>7, <1>8, <1>9 DEF NextAll, OnReply, OnErrorResponse

LEMMA RequestStep == ASSUME RequestInv, [NextAll]_rvars PROVE RequestInv'
<1>1. CASE Rests
  BY <1>1, RequestEffects DEF Rests, Keeps, RequestInv, Sending
<1>2. ASSUME NEW t \in Tags, Asks(t) PROVE RequestInv'
  BY <1>2, RequestEffects DEF Asks, RequestInv, Sending
<1>3. ASSUME NEW t \in Tags, Awaits(t) PROVE RequestInv'
  BY <1>3, RequestEffects DEF Awaits, RequestInv, Sending
<1>4. ASSUME NEW t \in Tags, Fails(t) PROVE RequestInv'
  <2>1. answers[t] = <<>> /\ t \notin DOMAIN pending_requests /\ t \in used
    BY <1>4 DEF Fails, RequestInv
  <2>2. /\ answers' \in [Tags -> Seq(Results)] /\ Len(answers'[t]) = 1 /\ answers'[t] # <<>>
        /\ \A x \in Tags : x # t => answers'[x] = answers[x]
    BY <1>4, <2>1 DEF Fails, RequestInv, Results
  <2> QED BY <1>4, <2>1, <2>2, RequestEffects DEF Fails, RequestInv, Sending
<1>5. ASSUME NEW ts, NEW result \in Results, Resolves(ts, result) PROVE RequestInv'
  <2>1. \A t \in ts : t \in Tags /\ answers[t] = <<>> /\ t \in used
    BY <1>5 DEF Resolves, RequestInv
  <2>2. /\ answers' \in [Tags -> Seq(Results)]
        /\ \A t \in ts : Len(answers'[t]) = 1 /\ answers'[t] # <<>>
        /\ \A x \in Tags : x \notin ts => answers'[x] = answers[x]
    BY <1>5, <2>1 DEF Resolves, RequestInv
  <2>3. SendInv' /\ (\A t \in Tags : ~Sending(t)')
    BY <1>5 DEF Resolves, SendInv, Sending
  <2>4. /\ used' = used /\ ts \subseteq DOMAIN pending_requests
        /\ DOMAIN pending_requests' = DOMAIN pending_requests \ ts /\ \A t \in Tags : ~Sending(t)
    BY <1>5 DEF Resolves, Sending
  <2>5. \A t \in ts : answers'[t] # <<>> /\ t \in used /\ t \notin DOMAIN pending_requests'
    BY <2>1, <2>2, <2>4, Zenon
  <2>6. \A t \in Tags \ ts :
           /\ Len(answers'[t]) <= 1
           /\ t \in used <=> t \in DOMAIN pending_requests' \/ answers'[t] # <<>>
           /\ ~(t \in DOMAIN pending_requests' /\ answers'[t] # <<>>)
    BY <2>2, <2>4 DEF RequestInv
  <2>7. ASSUME NEW t \in ts PROVE Len(answers'[t]) <= 1
    <3>1. Len(answers'[t]) = 1
      BY <2>2, Zenon
    <3> QED BY <3>1
  <2> QED BY <2>2, <2>3, <2>4, <2>5, <2>6, <2>7 DEF RequestInv
<1> QED BY <1>1, <1>2, <1>3, <1>4, <1>5, RequestEffects DEF Results

LEMMA RequestInit == InitAll => RequestInv
BY DEF InitAll, Init, RequestInv, SendInv, Sending

(* Every request is in one place: with proxy_send, pending or answered. *)
THEOREM RequestInvariant == SpecAll => []RequestInv
BY RequestInit, RequestStep, PTL DEF SpecAll

-----------------------------------------------------------------------------
(* The step simulation behind the theorem below *)
LEMMA ServiceStep ==
    ASSUME RequestInv, RequestInv', [NextAll]_rvars PROVE [Service!Next]_(Service!vars)
<1>1. Asked = used /\ Asked' = used'
  <2>1. Asked = used
    BY AskedIsUsed
  <2>2. Asked' = used'
    BY DEF RequestInv, Asked, Sending
  <2> QED BY <2>1, <2>2
<1>2. answers \in [Tags -> Seq(Results)]
  BY DEF RequestInv
<1>3. CASE Rests
  BY <1>1, <1>3 DEF Rests, Service!vars
<1>4. ASSUME NEW t \in Tags, Asks(t) PROVE Service!Ask(t)
  BY <1>1, <1>4 DEF Asks, Service!Ask
<1>5. ASSUME NEW t \in Tags, Awaits(t) PROVE UNCHANGED Service!vars
  BY <1>1, <1>5 DEF Awaits, Service!vars
<1>6. ASSUME NEW t \in Tags, Fails(t) PROVE Service!Answer(t)
  <2>1. answers[t] = <<>> /\ t \in used
    BY <1>6 DEF Fails, RequestInv
  <2>2. answers' = [answers EXCEPT ![t] = <<"timeout">>]
    BY <1>6, <2>1 DEF Fails
  <2> QED BY <1>1, <1>6, <2>1, <2>2 DEF Fails, Service!Answer
<1>7. ASSUME NEW t \in Tags, NEW result \in Results, Resolves({t}, result) PROVE Service!Answer(t)
  <2>1. answers[t] = <<>> /\ t \in used
    BY <1>7 DEF Resolves, RequestInv
  <2>2. answers' = [answers EXCEPT ![t] = <<result>>]
    <3>1. Append(answers[t], result) = <<result>>
      BY <2>1
    <3>2. \A x \in Tags : answers'[x] = IF x = t THEN <<result>> ELSE answers[x]
      BY <1>7, <3>1 DEF Resolves
    <3>3. DOMAIN answers' = Tags /\ answers' = [x \in Tags |-> answers'[x]]
      BY <1>7 DEF Resolves
    <3> QED BY <1>2, <3>2, <3>3
  <2> QED BY <1>1, <1>7, <2>1, <2>2 DEF Resolves, Service!Answer, Results
<1>8. CASE Resolves(Late, "timeout")
  <2>1. Late \in SUBSET Tags /\ \A t \in Late : t \in used /\ answers[t] = <<>>
    BY <1>8 DEF Resolves, RequestInv
  <2>2. answers' = [t \in Tags |-> IF t \in Late THEN <<"timeout">> ELSE answers[t]]
    <3>1. ASSUME NEW t \in Late PROVE Append(answers[t], "timeout") = <<"timeout">>
      <4>1. answers[t] = <<>>
        BY <2>1
      <4> QED BY <4>1
    <3>2. \A t \in Tags : answers'[t] = IF t \in Late THEN <<"timeout">> ELSE answers[t]
      BY <1>8, <3>1 DEF Resolves
    <3>3. answers' = [t \in Tags |-> answers'[t]]
      BY <1>8 DEF Resolves
    <3> QED BY <3>2, <3>3
  <2>3. CASE Late = {}
    <3>1. answers' = answers
      BY <1>2, <2>2, <2>3
    <3> QED BY <1>1, <1>8, <3>1 DEF Resolves, Service!vars
  <2>4. CASE Late # {}
    BY <1>1, <1>8, <2>1, <2>2, <2>4 DEF Resolves, Service!Expire, Service!Next
  <2> QED BY <2>3, <2>4
<1> QED BY <1>3, <1>4, <1>5, <1>6, <1>7, <1>8, RequestEffects DEF Results, Service!Next

(* The proxy implements the service but for its liveness: the callback of  *)
(* a request is called at most once, only for a request that was made, and *)
(* no step of proxy_send, of a reply, of an error or of the clean-up loses *)
(* one on the way.                                                         *)
THEOREM ImplementsService == SpecAll => Service!Safe
<1>1. InitAll => Service!Init
  BY RequestInit, AskedIsUsed DEF InitAll, Service!Init
<1>2. RequestInv /\ RequestInv' /\ [NextAll]_rvars => [Service!Next]_(Service!vars)
  BY ServiceStep
<1> QED BY <1>1, <1>2, RequestInvariant, PTL DEF SpecAll, Service!Safe

-----------------------------------------------------------------------------
(* The calls that proxy_send makes when the message was not sent: each of  *)
(* the callbacks the request has at most once.                             *)
LEMMA PairOf ==
    ASSUME NEW s, s \in Seq({"fail", "full"}), Len(s) = 2, s[1] = "fail", s[2] = "full"
    PROVE  s = <<"fail", "full">>
OBVIOUS

LEMMA BothCalled == <<"fail">> \o <<"full">> = <<"fail", "full">>
<1>1. <<"fail">> \o <<"full">> \in Seq({"fail", "full"})
  OBVIOUS
<1>2. /\ Len(<<"fail">> \o <<"full">>) = 2
      /\ (<<"fail">> \o <<"full">>)[1] = "fail" /\ (<<"fail">> \o <<"full">>)[2] = "full"
  OBVIOUS
<1> QED BY <1>1, <1>2, PairOf

LEMMA NoneAdded == ASSUME NEW S, NEW s \in Seq(S) PROVE s \o <<>> = s /\ <<>> \o s = s
OBVIOUS

LEMMA ReportsOnce ==
    ASSUME NEW t \in Tags, DOMAIN reports = Tags, reports[t] = <<>>, reports' = Reports(t)
    PROVE  /\ DOMAIN reports' = Tags /\ \A x \in Tags : x # t => reports'[x] = reports[x]
           /\ IsInjective(reports'[t]) /\ Range(reports'[t]) \subseteq SendCallbacks[t]
           /\ send.result = "sent" => reports'[t] = <<>>
           /\ send.result # "sent" /\ SendCallbacks[t] # {} => reports'[t] # <<>>
           /\ SendCallbacks[t] = {} => reports'[t] = <<>>
           /\ reports'[t] # <<>> /\ "fail" \in SendCallbacks[t] => Head(reports'[t]) = "fail"
<1> PICK fail : fail = IF "fail" \in SendCallbacks[t] THEN <<"fail">> ELSE <<>>
  OBVIOUS
<1> PICK full : full = IF "full" \in SendCallbacks[t] THEN <<"full">> ELSE <<>>
  OBVIOUS
<1> PICK calls : calls = CASE send.result = "sent" -> <<>>
                           [] send.result = "error" -> fail \o full
                           [] OTHER -> IF fail # <<>> THEN fail ELSE full
  OBVIOUS
<1>1. reports' = [reports EXCEPT ![t] = @ \o calls]
  BY DEF Reports
<1>2. calls \in {<<>>, fail, full, fail \o full} /\ (send.result = "sent" => calls = <<>>)
  OBVIOUS
<1>3. fail \in {<<>>, <<"fail">>} /\ full \in {<<>>, <<"full">>}
  OBVIOUS
<1>0. fail \in Seq({"fail", "full"}) /\ full \in Seq({"fail", "full"})
  <2>0. /\ <<>> \in Seq({"fail", "full"})
        /\ <<"fail">> \in Seq({"fail", "full"}) /\ <<"full">> \in Seq({"fail", "full"})
    OBVIOUS
  <2> QED BY <1>3, <2>0
<1>4. calls \in {<<>>, <<"fail">>, <<"full">>, <<"fail", "full">>}
  <2>2. fail \o full \in {<<>>, <<"fail">>, <<"full">>, <<"fail", "full">>}
    <3>1. CASE fail = <<>>
      BY <1>0, <1>3, <3>1, NoneAdded
    <3>2. CASE full = <<>>
      BY <1>0, <1>3, <3>2, NoneAdded
    <3>3. CASE fail = <<"fail">> /\ full = <<"full">>
      BY <3>3, BothCalled
    <3> QED BY <1>3, <3>1, <3>2, <3>3
  <2> QED BY <1>2, <1>3, <2>2
<1>5. Range(calls) \subseteq SendCallbacks[t]
  BY <1>2, <1>3 DEF Range
<1>6. reports'[t] = calls
  BY <1>1, <1>4
<1>7. IsInjective(calls)
  BY <1>4 DEF IsInjective
<1>8. send.result # "sent" /\ SendCallbacks[t] # {} => calls # <<>>
  <2>1. SendCallbacks[t] # {} => fail # <<>> \/ full # <<>>
    BY CallbacksAssumption
  <2>2. fail = <<>> => fail \o full = full
    BY <1>0, NoneAdded, Zenon
  <2>3. fail # <<>> => fail \o full # <<>>
    BY <1>3
  <2> QED BY <2>1, <2>2, <2>3
<1>9. calls # <<>> /\ "fail" \in SendCallbacks[t] => Head(calls) = "fail"
  <2>1. "fail" \in SendCallbacks[t] => fail = <<"fail">> /\ fail # <<>>
    OBVIOUS
  <2>2. fail = <<"fail">> => Head(fail) = "fail" /\ Head(fail \o full) = "fail"
    BY <1>3
  <2> QED BY <2>1, <2>2
<1>10. SendCallbacks[t] = {} => calls = <<>>
  <2>1. SendCallbacks[t] = {} => fail = <<>> /\ full = <<>>
    OBVIOUS
  <2>2. fail = <<>> => fail \o full = full
    BY <1>0, NoneAdded, Zenon
  <2> QED BY <1>2, <2>1, <2>2
<1> QED BY <1>1, <1>2, <1>5, <1>6, <1>7, <1>8, <1>9, <1>10

(* The history of a request that was not asked, or is not concluded, is    *)
(* empty; one that was sent waits or has its answer.                       *)
ReportInv ==
    /\ DOMAIN reports = Tags /\ DOMAIN outcome = Tags
    /\ \A t \in Tags : Sending(t) \/ t \notin used => outcome[t] = "none"
    /\ \A t \in DOMAIN pending_requests : outcome[t] = "sent"
    /\ UnsentReported

LEMMA ReportStep == ASSUME RequestInv, ReportInv, [NextAll]_rvars PROVE ReportInv'
<1>0. \A t \in Tags : outcome[t] = "none" => reports[t] = <<>> /\ ~Unsent(t)
  BY DEF ReportInv, UnsentReported, Unsent
<1>1. CASE Rests
  BY <1>1 DEF Rests, Keeps, Sending, ReportInv, UnsentReported, Unsent
<1>2. ASSUME NEW t \in Tags, Asks(t) PROVE ReportInv'
  BY <1>2 DEF Asks, Sending, ReportInv, UnsentReported, Unsent
<1>3. ASSUME NEW t \in Tags, Told(t), Sending(t), send' = Idle, UNCHANGED used
      PROVE  /\ DOMAIN reports' = Tags /\ DOMAIN outcome' = Tags /\ outcome'[t] = send.result
             /\ \A x \in Tags : x # t => outcome'[x] = outcome[x] /\ reports'[x] = reports[x]
             /\ \A x \in Tags : Sending(x)' \/ x \notin used' => outcome'[x] = "none"
  <2>1. outcome[t] = "none" /\ reports[t] = <<>> /\ t \in used
    BY <1>0, <1>3 DEF ReportInv, RequestInv
  <2> QED BY <1>3, <2>1, ReportsOnce DEF Told, Sending, ReportInv
<1>4. ASSUME NEW t \in Tags, Awaits(t) PROVE ReportInv'
  <2>1. outcome[t] = "none" /\ reports[t] = <<>>
    BY <1>0, <1>4 DEF Awaits, ReportInv
  <2>2. IsInjective(reports'[t]) /\ Range(reports'[t]) \subseteq SendCallbacks[t] /\ reports'[t] = <<>>
    BY <1>4, <2>1, ReportsOnce DEF Awaits, Told, ReportInv
  <2>3. /\ DOMAIN reports' = Tags /\ DOMAIN outcome' = Tags /\ outcome'[t] = "sent"
        /\ \A x \in Tags : x # t => outcome'[x] = outcome[x] /\ reports'[x] = reports[x]
        /\ \A x \in Tags : Sending(x)' \/ x \notin used' => outcome'[x] = "none"
        /\ DOMAIN pending_requests' = DOMAIN pending_requests \cup {t}
        /\ UNCHANGED answers
    BY <1>3, <1>4 DEF Awaits
  <2>4. \A x \in DOMAIN pending_requests' : outcome'[x] = "sent"
    BY <2>3 DEF ReportInv, RequestInv
  <2>5. UnsentReported'
    BY <2>2, <2>3 DEF ReportInv, UnsentReported, Unsent
  <2> QED BY <2>3, <2>4, <2>5 DEF ReportInv
<1>5. ASSUME NEW t \in Tags, Fails(t) PROVE ReportInv'
  <2>1. outcome[t] = "none" /\ reports[t] = <<>> /\ answers[t] = <<>> /\ t \notin DOMAIN pending_requests
    BY <1>0, <1>5 DEF Fails, ReportInv, RequestInv
  <2>2. answers'[t] = <<"timeout">> /\ \A x \in Tags : x # t => answers'[x] = answers[x]
    BY <1>5, <2>1 DEF Fails, RequestInv
  <2>3. /\ IsInjective(reports'[t]) /\ Range(reports'[t]) \subseteq SendCallbacks[t]
        /\ reports'[t] # <<>> <=> SendCallbacks[t] # {}
        /\ reports'[t] # <<>> /\ "fail" \in SendCallbacks[t] => Head(reports'[t]) = "fail"
    BY <1>5, <2>1, ReportsOnce DEF Fails, Told, ReportInv
  <2>4. /\ DOMAIN reports' = Tags /\ DOMAIN outcome' = Tags /\ outcome'[t] \notin {"none", "sent"}
        /\ \A x \in Tags : x # t => outcome'[x] = outcome[x] /\ reports'[x] = reports[x]
        /\ \A x \in Tags : Sending(x)' \/ x \notin used' => outcome'[x] = "none"
        /\ UNCHANGED pending_requests
    BY <1>3, <1>5 DEF Fails
  <2>5. \A x \in DOMAIN pending_requests' : outcome'[x] = "sent"
    BY <2>1, <2>4 DEF ReportInv, RequestInv
  <2>6. UnsentReported'
    BY <2>1, <2>2, <2>3, <2>4 DEF ReportInv, UnsentReported, Unsent
  <2> QED BY <2>4, <2>5, <2>6 DEF ReportInv
<1>6. ASSUME NEW ts, NEW result, Resolves(ts, result) PROVE ReportInv'
  <2>1. \A t \in ts : outcome[t] = "sent" /\ ~Unsent(t)
    BY <1>6 DEF Resolves, ReportInv, Unsent
  <2> QED BY <1>6, <2>1 DEF Resolves, Sending, ReportInv, UnsentReported, Unsent
<1> QED BY <1>1, <1>2, <1>4, <1>5, <1>6, RequestEffects

(* Of a message that was not sent the caller is told, by queue_failure if  *)
(* it gave that callback and else by queue_full, each once; of one that is *)
(* under way, or was sent, it is not.                                      *)
THEOREM ReportsAreTrue == SpecAll => []UnsentReported
<1>1. InitAll => ReportInv
  BY DEF InitAll, ReportInv, UnsentReported, Unsent, IsInjective, Range
<1>2. RequestInv /\ ReportInv /\ [NextAll]_rvars => ReportInv'
  BY ReportStep
<1>3. ReportInv => UnsentReported
  BY DEF ReportInv
<1> QED BY <1>1, <1>2, <1>3, RequestInvariant, PTL DEF SpecAll
=============================================================================
