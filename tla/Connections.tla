---------------------------- MODULE Connections ----------------------------
(***************************************************************************)
(* The connection tables of the proxy thread: the sockets it has open, the *)
(* peers it knows and how they change as clients connect, send and         *)
(* disconnect, as remotes come, talk and go, as the list of service nodes  *)
(* changes and as time passes.  (connections.cpp, auth.cpp, proxy_send and *)
(* proxy_handle_builtin of proxy.cpp, proxy_to_worker of worker.cpp)       *)
(*                                                                         *)
(* Only the proxy thread touches these tables, so every handler is one     *)
(* step; proxy_send, which loops, is several.  Remotes are an environment  *)
(* that may send any message at any time, or none: losing, repeating and   *)
(* reordering messages is part of that.                                    *)
(*                                                                         *)
(* An operator X_Mistake before X is X with a mistake in it; nothing uses  *)
(* it except the sensitivity runs described in README.md.                  *)
(***************************************************************************)
EXTENDS Access

CONSTANTS
    KeyLists,        \* bound: the sets of keys that clients pass as service nodes
    Contacts,        \* bound: the service nodes that clients connect and send to
    MaxConnId,       \* bound: connection ids handed out
    NumListeners,    \* listening sockets; they have the ids 1..NumListeners, 1 is inproc
    Routes,          \* routing ids that remotes have on our listening sockets
    RouteListener,   \* Routes -> 1..NumListeners
    RouteKey,        \* Routes -> Pubkeys \cup {NoKey}: the key behind a route
    NoRoute,         \* the empty routing prefix
    Binds,           \* what the listeners 2.. check: see Zap; listener l has number l - 2
    Remotes,         \* [key, level] that connect_remote is called with
    Commands,        \* the registered commands, and
    Aliases,         \* their aliases: see GetCommand
    Names,           \* command names that remotes send
    local_service_node,
    SendOptions,     \* sets of {"optional", "incoming", "outgoing"} that sends use
    SnMayBye,        \* whether a service node may say BYE
    ConnectTimeout,  \* in ticks
    DEFAULT_SEND_KEEP_ALIVE,
    DEFAULT_CONNECT_SN_KEEP_ALIVE,
    MaxIdle          \* bound: no connection is idle for this many ticks

ASSUME ConnectionsAssumption == NumListeners \in Nat /\ MaxConnId \in Nat

VARIABLES
    connections,       \* connection id -> "listener", "outgoing" or "null" (no socket)
    peers,             \* service node or connection id -> sequence of peer_info
    outgoing_sn_conns, \* connection id -> service node
    next_conn_id,
    issued,            \* ids whose CONNECT_REMOTE message is on its way -> remote
    pending_connects,  \* connection id -> ticks left
    callbacks,         \* connection id -> results its connect callbacks were given
    active_service_nodes,
    sessions,          \* Routes -> level ZAP gave the remote connected there, or denied
    send,              \* the SEND message that is being handled
    last               \* the sender of the command message that the last step handled

links == <<connections, peers, outgoing_sn_conns, next_conn_id>>
connecting == <<issued, pending_connects, callbacks>>
vars == <<links, connecting, active_service_nodes, sessions, send, last>>

ConnIds == 1..MaxConnId
Keys == Pubkeys \cup ConnIds
Forever == MaxIdle + 1
Idle == [stage |-> "idle"]
NoTag == "no tag"
NoCommand == [key |-> "no command"]

With(f, x, v) == [y \in DOMAIN f \cup {x} |-> IF y = x THEN v ELSE f[y]]

(* struct peer_info; an outgoing connection is one without a route. *)
Peer(conn, route, key, sn, level, expiry) ==
    [conn_id |-> conn, route |-> route, pubkey |-> key, service_node |-> sn,
     auth_level |-> level, idle_expiry |-> expiry, idle |-> 0]
Outgoing(e) == e.route = NoRoute

(* The proxy loop asks every socket of connections for its events, which   *)
(* throws, out of the thread, when there is none.                          *)
Alive == \A id \in DOMAIN connections : connections[id] # "null"
Ready == send = Idle /\ Alive

(* peers.emplace(): where a multimap puts an equal key is not specified. *)
Emplace(key, e) ==
    peers' \in {[peers EXCEPT ![key] = <<e>> \o @], [peers EXCEPT ![key] = Append(@, e)]}
Erase(ps, key, e) == [ps EXCEPT ![key] = SelectSeq(@, LAMBDA x : x # e)]

(* proxy_close_connection, of each of a set of connections *)
CloseConnections(ids) ==
    /\ connections' = Restrict(connections, DOMAIN connections \ ids)
    /\ outgoing_sn_conns' = Restrict(outgoing_sn_conns, DOMAIN outgoing_sn_conns \ ids)

-----------------------------------------------------------------------------
(* proxy_connect_sn: use a connection we have, give up, or open one. *)

Suits(e, opts) ==
    /\ "incoming" \in opts => ~Outgoing(e)
    /\ "outgoing" \in opts => Outgoing(e)
Suitable(pk, opts) == {i \in DOMAIN peers[pk] : Suits(peers[pk][i], opts)}

(* connections[id] makes an entry for an id that has none. *)
SnReuse(pk, opts, keep_alive, i) ==
    /\ i \in Suitable(pk, opts)
    /\ \A j \in Suitable(pk, opts) : i <= j
    /\ LET e == peers[pk][i] IN
       /\ peers' = IF Outgoing(e)
                   THEN [peers EXCEPT ![pk][i].idle = 0,
                            ![pk][i].idle_expiry = IF @ < keep_alive THEN keep_alive ELSE @]
                   ELSE peers
       /\ connections' = IF e.conn_id \in DOMAIN connections THEN connections
                         ELSE With(connections, e.conn_id, "null")
    /\ UNCHANGED <<outgoing_sn_conns, next_conn_id>>

(* Optional, incoming only, no address for the service node, or zmq refuses it. *)
SnGiveUp(pk, opts) ==
    /\ Suitable(pk, opts) = {}
    /\ UNCHANGED links

SnOpen(pk, opts, keep_alive) ==
    /\ Suitable(pk, opts) = {}
    /\ {"optional", "incoming"} \cap opts = {}
    /\ next_conn_id <= MaxConnId
    /\ Emplace(pk, Peer(next_conn_id, NoRoute, pk, TRUE, none, keep_alive))
    /\ outgoing_sn_conns' = With(outgoing_sn_conns, next_conn_id, pk)
    /\ connections' = With(connections, next_conn_id, "outgoing")
    /\ next_conn_id' = next_conn_id + 1

(* The CONNECT_SN message.  connect_sn() gives the keep-alive time as a    *)
(* number of microseconds; proxy_connect_sn() reads milliseconds.          *)
ConnectSnKeepAlive == 1000 * DEFAULT_CONNECT_SN_KEEP_ALIVE
proxy_connect_sn(pk) ==
    /\ Ready
    /\ \/ \E i \in DOMAIN peers[pk] : SnReuse(pk, {}, ConnectSnKeepAlive, i)
       \/ SnGiveUp(pk, {})
       \/ SnOpen(pk, {}, ConnectSnKeepAlive)
    /\ last' = NoCommand
    /\ UNCHANGED <<connecting, active_service_nodes, sessions, send>>

-----------------------------------------------------------------------------
(* Connections to other remotes: connect_remote(), connect_inproc(). *)

(* The caller draws the id and has it before the proxy hears of it. *)
connect_remote(remote) ==
    /\ next_conn_id <= MaxConnId
    /\ send = Idle
    /\ next_conn_id' = next_conn_id + 1
    /\ issued' = With(issued, next_conn_id, remote)
    /\ last' = NoCommand
    /\ UNCHANGED <<connections, peers, outgoing_sn_conns, pending_connects, callbacks,
                   active_service_nodes, sessions, send>>

proxy_connect_remote(id) ==
    /\ Ready
    /\ id \in DOMAIN issued
    /\ issued' = Restrict(issued, DOMAIN issued \ {id})
    /\ \/ /\ connections' = With(connections, id, "outgoing")
          /\ pending_connects' = With(pending_connects, id, ConnectTimeout)
          /\ Emplace(id, Peer(id, NoRoute, issued[id].key, FALSE, issued[id].level, Forever))
          /\ UNCHANGED callbacks
       \/ \* zmq refuses the address
          /\ callbacks' = [callbacks EXCEPT ![id] = Append(@, "failure")]
          /\ UNCHANGED <<connections, pending_connects, peers>>
    /\ last' = NoCommand
    /\ UNCHANGED <<outgoing_sn_conns, next_conn_id, active_service_nodes, sessions, send>>

(* disconnect(): the first outgoing connection of the range, if there is   *)
(* one.  A connection that is still pending stays so, until it times out.  *)
StillPending_Dropped(id) == Restrict(pending_connects, DOMAIN pending_connects \ {id})
StillPending(id) == pending_connects
proxy_disconnect(key) ==
    LET out == {i \in DOMAIN peers[key] : Outgoing(peers[key][i])} IN
    /\ Ready
    /\ \E i \in out :
          /\ \A j \in out : i <= j
          /\ CloseConnections({peers[key][i].conn_id})
          /\ peers' = Erase(peers, key, peers[key][i])
          /\ pending_connects' = StillPending(peers[key][i].conn_id)
    /\ last' = NoCommand
    /\ UNCHANGED <<next_conn_id, issued, callbacks, active_service_nodes, sessions, send>>

(* proxy_handle_builtin: HELLO on an outgoing connection.  One that does   *)
(* not belong to a pending connection, or to no peer, is ignored.          *)
OnHello_KeepPending(id) ==
    /\ Ready
    /\ id \in DOMAIN pending_connects \cap DOMAIN connections
    /\ peers[id] # <<>>
    /\ callbacks' = [callbacks EXCEPT ![id] = Append(@, "success")]
    /\ last' = NoCommand
    /\ UNCHANGED <<links, issued, pending_connects, active_service_nodes, sessions, send>>
OnHello(id) ==
    /\ Ready
    /\ id \in DOMAIN pending_connects \cap DOMAIN connections
    /\ peers[id] # <<>>
    /\ callbacks' = [callbacks EXCEPT ![id] = Append(@, "success")]
    /\ pending_connects' = Restrict(pending_connects, DOMAIN pending_connects \ {id})
    /\ last' = NoCommand
    /\ UNCHANGED <<links, issued, active_service_nodes, sessions, send>>

(* BYE on an outgoing connection: the socket goes, the peer stays. *)
OnBye(id) ==
    /\ Ready
    /\ id \in DOMAIN connections /\ connections[id] = "outgoing"
    /\ id \in DOMAIN outgoing_sn_conns => SnMayBye
    /\ CloseConnections({id})
    /\ last' = NoCommand
    /\ UNCHANGED <<peers, next_conn_id, connecting, active_service_nodes, sessions, send>>

(***************************************************************************)
(* proxy_conn_cleanup, from its timer: connections that were idle for too  *)
(* long and connection attempts that took too long are closed.             *)
(***************************************************************************)
Expired(e) == Outgoing(e) /\ e.idle > e.idle_expiry
IdleConns_KeptOpen == {}
IdleConns ==
    {e.conn_id : e \in {x \in UNION {Range(peers[k]) : k \in DOMAIN peers} : Expired(x)}}
TimedOut == {id \in DOMAIN pending_connects : pending_connects[id] = 0}

proxy_conn_cleanup ==
    /\ Ready
    /\ CloseConnections(TimedOut \cup IdleConns)
    /\ peers' = [k \in DOMAIN peers |->
                    IF k \in TimedOut THEN <<>>
                    ELSE SelectSeq(peers[k], LAMBDA e : ~Expired(e))]
    /\ pending_connects' = Restrict(pending_connects, DOMAIN pending_connects \ TimedOut)
    /\ callbacks' = [id \in DOMAIN callbacks |->
                        IF id \in TimedOut THEN Append(callbacks[id], "failure") ELSE callbacks[id]]
    /\ last' = NoCommand
    /\ UNCHANGED <<next_conn_id, issued, active_service_nodes, sessions, send>>

(* The clock: deadlines come nearer, idle times grow. *)
Aged(e) ==
    IF Outgoing(e) /\ e.idle_expiry < MaxIdle /\ e.idle <= e.idle_expiry
    THEN [e EXCEPT !.idle = @ + 1] ELSE e
Tick ==
    /\ send = Idle
    /\ pending_connects' = [id \in DOMAIN pending_connects |->
                               IF pending_connects[id] > 0 THEN pending_connects[id] - 1 ELSE 0]
    /\ peers' = [k \in DOMAIN peers |-> [i \in DOMAIN peers[k] |-> Aged(peers[k][i])]]
    /\ last' = NoCommand
    /\ UNCHANGED <<connections, outgoing_sn_conns, next_conn_id, issued, callbacks,
                   active_service_nodes, sessions, send>>

-----------------------------------------------------------------------------
(* Remotes that connect to us. *)

(***************************************************************************)
(* process_zap_requests: a remote asks to connect to listener 2 or up.  A  *)
(* second connection with the same routing id takes the place of the first *)
(* (router_handover).  The inproc listener asks nobody.                    *)
(***************************************************************************)
IncomingConnects(r) ==
    LET domain == RouteListener[r] - 2
        answer == Zap(Binds, [complete |-> TRUE, domain |-> domain, key |-> RouteKey[r],
                              mechanism |-> IF RouteKey[r] = NoKey THEN "NULL" ELSE "CURVE"],
                      active_service_nodes)
        level == IF RouteListener[r] = 1 THEN admin ELSE answer.level
    IN /\ Ready
       /\ level # denied
       /\ sessions' = [sessions EXCEPT ![r] = level]
       /\ last' = NoCommand
       /\ UNCHANGED <<links, connecting, active_service_nodes, send>>

(* libzmq notices that the remote is gone; the proxy does not. *)
IncomingGoes(r) ==
    /\ send = Idle
    /\ sessions[r] # denied
    /\ sessions' = [sessions EXCEPT ![r] = denied]
    /\ last' = NoCommand
    /\ UNCHANGED <<links, connecting, active_service_nodes, send>>

-----------------------------------------------------------------------------
(* proxy_to_worker: command messages.  Which thread runs the command, and  *)
(* when, is WorkerPool's business; this is how its sender is judged.       *)

Sender(e) == [key |-> e.pubkey, sn |-> e.service_node, level |-> e.auth_level]
Verdict(sender, name, tagged) ==
    CheckAuth(GetCommand(Commands, Aliases, name), sender.level, sender.sn,
              local_service_node, tagged)

(* A peer's service node status is looked up again for every message. *)
Refreshed_Cached(e) == e
Refreshed(e) ==
    [e EXCEPT !.service_node = IF e.pubkey = NoKey THEN @ ELSE e.pubkey \in active_service_nodes]

(* On an outgoing connection.  peers.find() of a key with several entries  *)
(* gives the first.  A command that has to wait for a worker is no         *)
(* activity, and neither is one that is refused.                           *)
OnCommandOut(id, name, tagged, waits) ==
    LET key == IF id \in DOMAIN outgoing_sn_conns THEN outgoing_sn_conns[id] ELSE id IN
    /\ Ready
    /\ id \in DOMAIN connections /\ connections[id] = "outgoing"
    /\ peers[key] # <<>>
    /\ LET now == Refreshed(peers[key][1])
           runs == Verdict(Sender(now), name, tagged) = "" /\ ~waits
       IN /\ last' = Sender(now)
          /\ peers' = [peers EXCEPT ![key][1] = [now EXCEPT !.idle = IF runs THEN 0 ELSE @]]
    /\ UNCHANGED <<connections, outgoing_sn_conns, next_conn_id, connecting,
                   active_service_nodes, sessions, send>>

(* On a listener.  The key and the level are those of the ZAP request; a   *)
(* service node has an entry for its route, or gets one.                   *)
extract_metadata(r) == <<RouteKey[r], sessions[r]>>
OnCommandIn(r) ==
    LET pk == extract_metadata(r)[1]
        sn == pk \in active_service_nodes
        e == Peer(RouteListener[r], r, pk, sn, extract_metadata(r)[2], Forever)
    IN /\ Ready
       /\ sessions[r] # denied
       /\ IF ~sn THEN UNCHANGED peers
          ELSE LET known == {i \in DOMAIN peers[pk] :
                                peers[pk][i].conn_id = e.conn_id /\ peers[pk][i].route = r}
               IN IF known = {} THEN Emplace(pk, e)
                  ELSE \E i \in known :
                          peers' = [peers EXCEPT ![pk][i].auth_level = e.auth_level,
                                                 ![pk][i].service_node = TRUE]
       /\ last' = Sender(e)
       /\ UNCHANGED <<connections, outgoing_sn_conns, next_conn_id, connecting,
                      active_service_nodes, sessions, send>>

-----------------------------------------------------------------------------
(* proxy_update_active_sns_clean: peers that lost their status are dropped,*)
(* connections to them closed.                                             *)
Dropped_FirstOnly(pk) == {peers[pk][i] : i \in DOMAIN peers[pk] \cap {1}}
Dropped(pk) == Range(peers[pk])
CleanPeers(added, removed) ==
    /\ active_service_nodes' = Clean(active_service_nodes, added, removed)
    /\ peers' = [k \in DOMAIN peers |->
                    IF k \in removed THEN SelectSeq(peers[k], LAMBDA e : e \notin Dropped(k))
                    ELSE peers[k]]
    /\ CloseConnections({e.conn_id : e \in {x \in UNION {Dropped(k) : k \in removed} :
                                              Outgoing(x)}})

(* The SET_SNS and UPDATE_SNS messages. *)
proxy_set_active_sns(keys) ==
    /\ Ready
    /\ ~Unchanged(active_service_nodes, keys)
    /\ \E seen \in Scans(active_service_nodes, keys) :
          CleanPeers(NewKeys(active_service_nodes, keys), seen \ keys)
    /\ last' = NoCommand
    /\ UNCHANGED <<next_conn_id, connecting, sessions, send>>

proxy_update_active_sns(added, removed) ==
    /\ Ready
    /\ CleanPeers(FilterAdded(active_service_nodes, added),
                  FilterRemoved(active_service_nodes, added, removed))
    /\ last' = NoCommand
    /\ UNCHANGED <<next_conn_id, connecting, sessions, send>>

-----------------------------------------------------------------------------
(***************************************************************************)
(* proxy_send.  send.stage says where in its loop it is: choosing a way to *)
(* the recipient ("route"), handing the message to the socket              *)
(* ("transmit"), looking for the peer whose route is gone ("scan"), or     *)
(* past the loop ("done").  A recipient is a service node, a connection id *)
(* from connect_remote, or the route of a remote that is no service node.  *)
(***************************************************************************)
NewSend(to, opts, tag) ==
    [stage |-> "route", to |-> to, opts |-> opts, tag |-> tag, conn |-> 0, route |-> NoRoute]
proxy_send(to, opts, tag) ==
    /\ Ready
    /\ send' = NewSend(to, opts, tag)
    /\ last' = NoCommand
    /\ UNCHANGED <<links, connecting, active_service_nodes, sessions>>

Found(conn, route) ==
    send' = [send EXCEPT !.stage = "transmit", !.conn = conn, !.route = route]
Finish(result) == send' = [stage |-> "done", tag |-> send.tag, result |-> result]

RouteToSn ==
    /\ send.stage = "route" /\ send.to \in Pubkeys
    /\ LET pk == send.to IN
       \/ \E i \in DOMAIN peers[pk] :
             /\ SnReuse(pk, send.opts, DEFAULT_SEND_KEEP_ALIVE, i)
             /\ Found(peers[pk][i].conn_id, peers[pk][i].route)
       \/ SnGiveUp(pk, send.opts) /\ Finish("nowhere")
       \/ /\ SnOpen(pk, send.opts, DEFAULT_SEND_KEEP_ALIVE)
          /\ Found(next_conn_id, NoRoute)
    /\ UNCHANGED <<connecting, active_service_nodes, sessions, last>>

RouteToOther ==
    /\ send.stage = "route" /\ send.to \notin Pubkeys
    /\ IF send.to \in Routes THEN Found(RouteListener[send.to], send.to)
       ELSE IF peers[send.to] = <<>> \/ peers[send.to][1].conn_id \notin DOMAIN connections
       THEN Finish("nowhere")
       ELSE Found(peers[send.to][1].conn_id, NoRoute)
    /\ UNCHANGED <<links, connecting, active_service_nodes, sessions, last>>

(* A ROUTER socket refuses a route it does not have (router_mandatory).    *)
(* Without room in its queue no socket takes the message.                  *)
Unreachable == send.route # NoRoute /\ sessions[send.route] = denied
Transmit ==
    /\ send.stage = "transmit"
    /\ \/ /\ connections[send.conn] # "null" /\ ~Unreachable
          /\ \E result \in {"sent", "full"} : Finish(result)
       \/ connections[send.conn] = "null" /\ Finish("error")
       \/ Unreachable /\ send.to \notin Pubkeys /\ Finish("error")
       \/ /\ Unreachable /\ send.to \in Pubkeys
          /\ send' = [send EXCEPT !.stage = "scan"]
    /\ UNCHANGED <<links, connecting, active_service_nodes, sessions, last>>

(* The search starts at the first peer of the range and only ends when it  *)
(* finds the route: its iterator is never advanced.                        *)
ScanErases ==
    /\ send.stage = "scan"
    /\ peers[send.to] # <<>> /\ peers[send.to][1].route = send.route
    /\ peers' = Erase(peers, send.to, peers[send.to][1])
    /\ send' = [send EXCEPT !.stage = "route"]
    /\ UNCHANGED <<connections, outgoing_sn_conns, next_conn_id, connecting,
                   active_service_nodes, sessions, last>>
ScanStays ==
    /\ send.stage = "scan"
    /\ peers[send.to] # <<>> /\ peers[send.to][1].route # send.route
    /\ UNCHANGED vars

SendLoop == RouteToSn \/ RouteToOther \/ Transmit \/ ScanErases \/ ScanStays

(* The rest of proxy_send, for a message that is no request. *)
SendReturns ==
    /\ send.stage = "done"
    /\ send' = Idle
    /\ UNCHANGED <<links, connecting, active_service_nodes, sessions, last>>

(* The thread has ended. *)
Terminated == send = Idle /\ ~Alive /\ UNCHANGED vars

-----------------------------------------------------------------------------
Init ==
    /\ connections = [id \in 1..NumListeners |-> "listener"]
    /\ peers = [k \in Keys |-> <<>>]
    /\ outgoing_sn_conns = <<>>
    /\ next_conn_id = NumListeners + 1
    /\ issued = <<>>
    /\ pending_connects = <<>>
    /\ callbacks = [id \in ConnIds |-> <<>>]
    /\ active_service_nodes = {}
    /\ sessions = [r \in Routes |-> denied]
    /\ send = Idle
    /\ last = NoCommand

Recipients == Contacts \cup {id \in ConnIds : id > NumListeners /\ id < next_conn_id} \cup Routes
OptionsFor(to) == IF to \in Pubkeys THEN SendOptions ELSE {{}}   \* others ignore them
Clients ==
    \/ \E remote \in Remotes : connect_remote(remote)
    \/ \E pk \in Contacts : proxy_connect_sn(pk)
    \/ \E key \in Keys : proxy_disconnect(key)
    \/ \E keys \in KeyLists : proxy_set_active_sns(keys)
    \/ \E added, removed \in KeyLists : proxy_update_active_sns(added, removed)
Arrivals ==
    \/ \E id \in ConnIds : OnHello(id) \/ OnBye(id)
    \/ \E id \in ConnIds, name \in Names, tagged, waits \in BOOLEAN :
          OnCommandOut(id, name, tagged, waits)
    \/ \E r \in Routes : OnCommandIn(r) \/ IncomingConnects(r) \/ IncomingGoes(r)
Connects == \E id \in ConnIds : proxy_connect_remote(id)

Next ==
    \/ Clients \/ Connects \/ Arrivals \/ proxy_conn_cleanup \/ Tick
    \/ \E to \in Recipients : \E opts \in OptionsFor(to) : proxy_send(to, opts, NoTag)
    \/ SendLoop \/ SendReturns \/ Terminated

(* The proxy goes on with what it has begun; its timer keeps running. *)
Fairness == WF_vars(SendLoop) /\ WF_vars(SendReturns)
Spec == Init /\ [][Next]_vars /\ Fairness

-----------------------------------------------------------------------------
TypeOK ==
    /\ DOMAIN connections \subseteq ConnIds
    /\ \A id \in DOMAIN connections : connections[id] \in {"listener", "outgoing", "null"}
    /\ DOMAIN peers = Keys
    /\ \A k \in Keys : \A e \in Range(peers[k]) :
          /\ e.conn_id \in ConnIds /\ e.route \in Routes \cup {NoRoute}
          /\ e.pubkey \in Pubkeys \cup {NoKey} /\ e.service_node \in BOOLEAN
          /\ e.auth_level \in Levels /\ e.idle \in 0..MaxIdle
    /\ DOMAIN outgoing_sn_conns \subseteq ConnIds /\ Range(outgoing_sn_conns) \subseteq Pubkeys
    /\ next_conn_id \in 1..(MaxConnId + 1)
    /\ DOMAIN issued \subseteq ConnIds /\ Range(issued) \subseteq Remotes
    /\ DOMAIN pending_connects \subseteq ConnIds
    /\ Range(pending_connects) \subseteq 0..ConnectTimeout
    /\ active_service_nodes \subseteq Pubkeys
    /\ sessions \in [Routes -> {denied} \cup Levels]

(***************************************************************************)
(* Every call of connect_remote() is answered by exactly one callback:     *)
(* an id is still on its way to the proxy, or pending, or answered once.   *)
(* (proxy_connect_remote, the HELLO branch of proxy_handle_builtin and the *)
(* time-out in proxy_conn_cleanup each take the id from one to the next.)  *)
(***************************************************************************)
CallbackExact ==
    \A id \in ConnIds :
        /\ Len(callbacks[id]) <= 1
        /\ id \in DOMAIN issued \cup DOMAIN pending_connects => callbacks[id] = <<>>
        /\ DOMAIN issued \cap DOMAIN pending_connects = {}
        /\ callbacks[id] = <<"failure">> => id \notin DOMAIN connections /\ peers[id] = <<>>

(***************************************************************************)
(* No socket is open that nobody can find, or find twice: an outgoing      *)
(* connection has exactly one entry in peers, under the service node that  *)
(* outgoing_sn_conns names for it or else under its own id.  Whatever      *)
(* closes connections or erases peers has to do both.                      *)
(***************************************************************************)
NoOrphanSocket ==
    \A id \in DOMAIN connections : connections[id] = "outgoing" =>
        LET key == IF id \in DOMAIN outgoing_sn_conns THEN outgoing_sn_conns[id] ELSE id
            refs == UNION {{<<k, i>> : i \in {j \in DOMAIN peers[k] :
                                                 /\ Outgoing(peers[k][j])
                                                 /\ peers[k][j].conn_id = id}} : k \in Keys}
        IN \E i \in DOMAIN peers[key] : refs = {<<key, i>>}

(***************************************************************************)
(* A command is judged by what its sender is now: a service node exactly   *)
(* when its key is in the current list, however the message came and       *)
(* whatever was cached about the peer before; and it runs exactly when     *)
(* that sender has what the command asks for.  (proxy_to_worker refreshes  *)
(* peer_info before proxy_check_auth reads it.)                            *)
(***************************************************************************)
Permitted(cmd, sender, tagged) ==
    /\ cmd.found /\ sender.level >= cmd.auth
    /\ cmd.local_sn => local_service_node
    /\ cmd.remote_sn => sender.key \in active_service_nodes
    /\ cmd.request => tagged
AccessSound ==
    last # NoCommand => \A name \in Names, tagged \in BOOLEAN :
        Verdict(last, name, tagged) = ""
            <=> Permitted(GetCommand(Commands, Aliases, name), last, tagged)

(***************************************************************************)
(* A service node that leaves the list leaves nothing behind: "All         *)
(* outgoing connections to service nodes that are no longer on the list    *)
(* will be closed", and its peer entries, in or out, are gone.             *)
(***************************************************************************)
RemovedSnGone ==
    [][\A pk \in active_service_nodes \ active_service_nodes' :
          /\ peers'[pk] = <<>>
          /\ pk \notin Range(outgoing_sn_conns')
          /\ \A e \in Range(peers[pk]) : Outgoing(e) => e.conn_id \notin DOMAIN connections']_vars

(***************************************************************************)
(* set_active_sns() leaves exactly the well-formed keys it was given,      *)
(* although its search for removed keys stops early; update_active_sns()   *)
(* never loses a key it was given to add.                                  *)
(***************************************************************************)
ListExact ==
    \A keys \in SUBSET (Pubkeys \cup BadKeys) :
        /\ SetActive(active_service_nodes, keys) = {keys \cap Pubkeys}
        /\ \A removed \in SUBSET (Pubkeys \cup BadKeys) :
              UpdateActive(active_service_nodes, keys, removed)
                = (active_service_nodes \ removed) \cup (keys \cap Pubkeys)

(***************************************************************************)
(* "Closes outgoing connections and removes all references" (comment of    *)
(* proxy_close_connection): an outgoing peer's connection is open.         *)
(***************************************************************************)
NoDanglingPeer ==
    \A k \in Keys : \A e \in Range(peers[k]) :
        Outgoing(e) => e.conn_id \in DOMAIN connections

(***************************************************************************)
(* "We can repeat this loop multiple times [...] so if one fails we can    *)
(* clean up that connection and try the next one": proxy_send comes to an  *)
(* end, as every other client and every remote waits for the proxy.        *)
(***************************************************************************)
SendEnds == send # Idle ~> send = Idle
=============================================================================
