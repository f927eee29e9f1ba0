----------------------------- MODULE ProxyLoop -----------------------------
(***************************************************************************)
(* The loop of the proxy thread: how it waits for its sockets, with        *)
(* zmq::poll or with epoll, in which order it serves them, and what keeps  *)
(* it from sleeping over a message.  (proxy_loop of proxy.cpp,             *)
(* rebuild_pollitems of connections.cpp)  What the messages do is in the   *)
(* other modules; here a message may use another socket, open a connection *)
(* or close one, or be about a timer.                                      *)
(*                                                                         *)
(* A zmq socket has messages to read (inbox) and a file descriptor that    *)
(* becomes readable when something happened to it that the socket has not  *)
(* looked at (signalled).  Any use of the socket looks.  epoll reports the *)
(* descriptor once each time it becomes readable (edge).                   *)
(***************************************************************************)
EXTENDS Timers

CONSTANTS
    UseEpoll,      \* the values that using_epoll may have
    Conns,         \* connection ids
    FirstConns,    \* those open at the start
    Threads,       \* client threads
    Owner,         \* TimerIDs -> Threads: who adds a timer
    MaxControls,   \* bound: control messages other than TIMER
    MaxArrivals    \* bound: messages from remotes and ZAP requests

ASSUME LoopAssumption ==
    /\ UseEpoll \subseteq BOOLEAN
    /\ IsFiniteSet(Conns) /\ FirstConns \subseteq Conns
    /\ Conns \cap {"command", "workers", "zap"} = {}
    /\ Owner \in [TimerIDs -> Threads]

VARIABLES
    using_epoll, connections, connections_updated,
    opened,      \* ids that were used; they are not used again
    skip,        \* proxy_skip_one_poll
    pc,          \* what the loop does next
    process,     \* the sockets it is going to serve: process_command, _worker, _zap
    process_all,
    queue,       \* pointers to connections, in the order they are served
    unchecked,   \* sockets not yet asked for events at the end of the round
    controls,    \* Threads -> control messages on their way to the command socket
    inbox,       \* Conns and "zap" -> messages to read
    signalled, edge,
    issued,      \* timers that were added
    sent         \* messages so far, for the bounds

lvars == <<using_epoll, connections, opened, connections_updated, skip, pc, process, process_all, queue,
           unchecked, controls, inbox, signalled, edge, issued, sent>>
vars == <<tvars, lvars>>

Fixed == {"command", "workers", "zap"}
Sockets == Fixed \cup Conns
Open == Fixed \cup connections

Orders(S) == Injection(1..Cardinality(S), S)
Readable(s) ==
    CASE s = "command" -> \E c \in Threads : controls[c] # <<>>
      [] s = "workers" -> \E t \in TimerIDs : ran[t] > 0
      [] OTHER -> inbox[s] > 0

(* Something arrives: the descriptor becomes readable unless it was. *)
Signal(s) ==
    /\ signalled' = signalled \cup {s}
    /\ edge' = IF s \in signalled THEN edge ELSE edge \cup {s}

(* The proxy uses the sockets: they look at what happened. *)
Look(ss) ==
    /\ signalled' = signalled \ ss
    /\ edge' = edge \ ss

-----------------------------------------------------------------------------
(* Clients, workers, remotes. *)

Send(c, m) ==
    /\ controls' = [controls EXCEPT ![c] = Append(@, m)]
    /\ Signal("command")
    /\ UNCHANGED <<using_epoll, connections, opened, connections_updated, skip, pc, process,
                   process_all, queue, unchecked, inbox>>

add_timer(t) ==
    /\ t \notin issued
    /\ issued' = issued \cup {t}
    /\ Send(Owner[t], [cmd |-> "TIMER", arg |-> t])
    /\ UNCHANGED <<tvars, sent>>

(* One kind for each effect on the loop: SEND also stands for CONNECT_SN,  *)
(* CONNECT_REMOTE and BIND, DISCONNECT for SET_SNS and UPDATE_SNS, BATCH   *)
(* for a CONNECT_REMOTE that fails and INJECT for QUIT.  The proxy sends   *)
(* itself a BATCH for a job() of its own, like any other thread.           *)
ControlMessages ==
    [cmd : {"TIMER_DEL"}, arg : issued] \cup [cmd : {"SEND", "DISCONNECT"}, arg : Conns]
        \cup [cmd : {"BATCH", "INJECT"}, arg : {"-"}]
Control(c, m) ==
    /\ sent.controls < MaxControls
    /\ sent' = [sent EXCEPT !.controls = @ + 1]
    /\ Send(c, m)
    /\ UNCHANGED <<tvars, issued>>

Arrives(s) ==
    /\ s \in connections \cup {"zap"}
    /\ sent.arrivals < MaxArrivals
    /\ sent' = [sent EXCEPT !.arrivals = @ + 1]
    /\ inbox' = [inbox EXCEPT ![s] = @ + 1]
    /\ Signal(s)
    /\ UNCHANGED <<tvars, using_epoll, connections, opened, connections_updated, skip, pc, process,
                   process_all, queue, unchecked, controls, issued>>

WorkerFinishes(t) ==
    /\ JobFinishes(t)
    /\ Signal("workers")
    /\ UNCHANGED <<using_epoll, connections, opened, connections_updated, skip, pc, process,
                   process_all, queue, unchecked, controls, inbox, issued, sent>>

Outside ==
    \/ \E t \in TimerIDs : add_timer(t) \/ WorkerFinishes(t)
    \/ \E t \in TimerIDs : pc # "timers" /\ Elapses(t) /\ UNCHANGED lvars
    \/ \E c \in Threads : \E m \in ControlMessages : Control(c, m)
    \/ \E s \in Conns \cup {"zap"} : Arrives(s)

-----------------------------------------------------------------------------
(* The start of a round: rebuild_pollitems registers every descriptor anew,*)
(* so one that is readable is reported, and then everything is checked.    *)
rebuild_pollitems ==
    /\ edge' = signalled \cap Open
    /\ connections_updated' = FALSE
Top ==
    /\ pc = "top"
    /\ IF connections_updated
       THEN /\ rebuild_pollitems
            /\ skip' = TRUE
            /\ UNCHANGED <<pc, process, process_all, signalled>>
       ELSE IF ~skip
       THEN /\ pc' = "wait"
            /\ UNCHANGED <<connections_updated, skip, process, process_all, signalled, edge>>
       ELSE /\ skip' = FALSE
            /\ pc' = "command"
            /\ process' = IF using_epoll THEN {s \in Fixed : Readable(s)} ELSE Fixed
            /\ process_all' = TRUE
            /\ IF using_epoll THEN Look(Fixed) ELSE UNCHANGED <<signalled, edge>>
            /\ UNCHANGED connections_updated
    /\ UNCHANGED <<tvars, using_epoll, connections, opened, queue, unchecked, controls, inbox, issued, sent>>

(* zmq::poll looks at every socket; epoll_wait only tells the edges.  The  *)
(* timer of proxy_conn_cleanup always ends the wait.                       *)
Wait ==
    /\ pc = "wait"
    /\ pc' = "command"
    /\ IF using_epoll
       THEN /\ process' = edge \cap Fixed
            /\ process_all' = FALSE
            /\ queue' \in Orders(edge \cap connections)
            /\ edge' = {}
            /\ UNCHANGED signalled
       ELSE /\ process' = Fixed
            /\ process_all' = TRUE
            /\ Look(Open)
            /\ UNCHANGED queue
    /\ UNCHANGED <<tvars, using_epoll, connections, opened, connections_updated, skip, unchecked,
                   controls, inbox, issued, sent>>

-----------------------------------------------------------------------------
(* What a message may make the proxy do to its connections. *)

Nothing == UNCHANGED <<connections, opened, connections_updated, signalled, edge, inbox>>
Uses(c) ==   \* send on another socket
    /\ c \in connections
    /\ Look({c})
    /\ UNCHANGED <<connections, opened, connections_updated, inbox>>
Opens(c) ==
    /\ c \notin opened
    /\ connections' = connections \cup {c}
    /\ opened' = opened \cup {c}
    /\ connections_updated' = TRUE
    /\ UNCHANGED <<signalled, edge, inbox>>
Closes(c) ==
    /\ c \in connections
    /\ connections' = connections \ {c}
    /\ connections_updated' = TRUE
    /\ inbox' = [inbox EXCEPT ![c] = 0]
    /\ signalled' = signalled \ {c}
    /\ edge' = edge \ {c}
    /\ UNCHANGED opened

(* proxy_run_worker: the sockets it uses when it starts the thread first,  *)
(* or has one that is told to RUN.  Nothing is to be run for {}, too.      *)
RunSockets == {{}, {"workers"}}
Injects ==
    /\ \E ss \in RunSockets : Look(ss)
    /\ UNCHANGED <<connections, opened, connections_updated, inbox>>

(* The end of a socket's messages: recv() finds none, having looked. *)
Drained(s, next) ==
    /\ pc' = next
    /\ IF s \in process THEN ~Readable(s) /\ Look({s}) ELSE UNCHANGED <<signalled, edge>>
    /\ UNCHANGED <<tvars, using_epoll, connections, opened, connections_updated, skip, process,
                   process_all, queue, unchecked, controls, inbox, issued, sent>>

(* Control messages, from any of the clients that have sent one *)
Skips(m) == skip \/ m.cmd = "BATCH"     \* proxy_batch, proxy_schedule_reply_job
Command ==
    /\ pc = "command"
    /\ "command" \in process
    /\ \E c \in Threads :
          /\ controls[c] # <<>>
          /\ controls' = [controls EXCEPT ![c] = Tail(@)]
          /\ LET m == Head(controls[c]) IN
             /\ skip' = Skips(m)
             /\ \/ m.cmd = "TIMER" /\ proxy_timer(m.arg) /\ Nothing
                \/ m.cmd = "TIMER_DEL" /\ proxy_timer_del(m.arg) /\ Nothing
                \/ /\ UNCHANGED tvars
                   /\ \/ m.cmd = "SEND" /\ (Uses(m.arg) \/ Opens(m.arg))
                      \/ m.cmd = "DISCONNECT" /\ Closes(m.arg)
                      \/ m.cmd \in {"SEND", "DISCONNECT"} /\ m.arg \notin connections /\ Nothing
                      \/ m.cmd = "BATCH" /\ Nothing
                      \/ m.cmd = "INJECT" /\ Injects
    /\ UNCHANGED <<using_epoll, pc, process, process_all, queue, unchecked, issued, sent>>

Workers ==
    /\ pc = "workers"
    /\ "workers" \in process
    /\ \E t \in TimerIDs : JobCompletes(t)
    /\ UNCHANGED lvars

(* zmq_timers_execute, one timer at a time; proxy_conn_cleanup is the      *)
(* callback of a timer of its own, and may close a connection.             *)
TimerFires ==
    /\ pc = "timers"
    /\ \/ (\E t \in TimerIDs : queue_timer_job(t)) /\ Nothing
       \/ (\E c \in Conns : Closes(c)) /\ UNCHANGED tvars
    /\ UNCHANGED <<using_epoll, skip, pc, process, process_all, queue, unchecked, controls, issued,
                   sent>>
TimersDone ==
    /\ pc = "timers" /\ due = {}
    /\ pc' = "zap"
    /\ UNCHANGED <<tvars, using_epoll, connections, opened, connections_updated, skip, process,
                   process_all, queue, unchecked, controls, inbox, signalled, edge, issued, sent>>

ZapRequest ==
    /\ pc = "zap"
    /\ "zap" \in process
    /\ inbox["zap"] > 0
    /\ inbox' = [inbox EXCEPT !["zap"] = @ - 1]
    /\ UNCHANGED <<tvars, using_epoll, connections, opened, connections_updated, skip, pc, process,
                   process_all, queue, unchecked, controls, signalled, edge, issued, sent>>

(* proxy_process_queue: every job that is queued gets a worker, those of   *)
(* the timers here one by one and then whatever else waits.  Then the list *)
(* of connections to serve.                                                *)
ProcessQueue ==
    /\ pc = "queue"
    /\ IF \E t \in TimerIDs : queued[t] > 0
       THEN /\ \E t \in TimerIDs : JobStarts(t)
            /\ \E ss \in RunSockets : Look(ss)
            /\ UNCHANGED <<pc, queue>>
       ELSE /\ pc' = "incoming"
            /\ \E ss \in RunSockets : Look(IF process_all THEN connections \cup ss ELSE ss)
            /\ IF process_all
               THEN queue' \in Orders({c \in connections : Readable(c)})
               ELSE UNCHANGED queue
            /\ UNCHANGED tvars
    /\ UNCHANGED <<using_epoll, connections, opened, connections_updated, skip, process, process_all,
                   unchecked, controls, inbox, issued, sent>>

-----------------------------------------------------------------------------
(* The incoming messages, one from each connection in turn. *)

(* A pointer to a connection that is gone may do anything. *)
Stale ==
    /\ pc = "incoming" /\ queue # <<>> /\ Head(queue) \notin connections
    /\ pc' = "undefined"
    /\ UNCHANGED <<tvars, using_epoll, connections, opened, connections_updated, skip, process,
                   process_all, queue, unchecked, controls, inbox, signalled, edge, issued, sent>>
ReceiveNone ==
    /\ pc = "incoming" /\ queue # <<>> /\ Head(queue) \in connections
    /\ ~Readable(Head(queue))
    /\ Look({Head(queue)})
    /\ queue' = Tail(queue)
    /\ UNCHANGED <<tvars, using_epoll, connections, opened, connections_updated, skip, pc, process,
                   process_all, unchecked, controls, inbox, issued, sent>>
Requeued_KeepsPos(q) == Append(q, Head(q))
Requeued(q) == Append(Tail(q), Head(q))
AfterMessage_Continues == "incoming"
AfterMessage == IF connections_updated' THEN "recheck" ELSE "incoming"
Receive ==
    /\ pc = "incoming" /\ queue # <<>> /\ Head(queue) \in connections
    /\ LET c == Head(queue) IN
       /\ Readable(c)
       /\ queue' = Requeued(queue)
       /\ \/ /\ inbox' = [inbox EXCEPT ![c] = @ - 1]
             /\ \/ /\ UNCHANGED skip                     \* a command: it runs, or waits, or is
                   /\ \E ss \in RunSockets \cup {{c}} : Look(ss)    \* refused by an answer to c
                \/ skip' = TRUE /\ Look({})              \* a reply: proxy_schedule_reply_job
             /\ UNCHANGED <<connections, opened, connections_updated>>
          \/ UNCHANGED skip /\ Closes(c)                 \* BYE
    /\ pc' = AfterMessage
    /\ UNCHANGED <<tvars, using_epoll, process, process_all, unchecked, controls, issued, sent>>
AllServed_Unchecked == {}
AllServed == IF using_epoll /\ ~connections_updated /\ ~skip THEN Open ELSE {}
NoneLeft ==
    /\ pc = "incoming" /\ queue = <<>>
    /\ pc' = "recheck"
    /\ unchecked' = AllServed
    /\ UNCHANGED <<tvars, using_epoll, connections, opened, connections_updated, skip, process,
                   process_all, queue, controls, inbox, signalled, edge, issued, sent>>

(* The check at the end of a round, with epoll: a socket that one of the   *)
(* steps above has looked at may have a message and no edge.               *)
Recheck ==
    /\ pc = "recheck"
    /\ IF unchecked = {}
       THEN /\ pc' = "top"
            /\ process' = {} /\ process_all' = FALSE /\ queue' = <<>>
            /\ UNCHANGED <<unchecked, skip, signalled, edge>>
       ELSE \E s \in unchecked :
               /\ Look({s})
               /\ skip' = Readable(s)
               /\ unchecked' = IF Readable(s) THEN {} ELSE unchecked \ {s}
               /\ UNCHANGED <<pc, process, process_all, queue>>
    /\ UNCHANGED <<tvars, using_epoll, connections, opened, connections_updated, controls, inbox,
                   issued, sent>>

Undefined == pc = "undefined" /\ UNCHANGED vars

Loop ==
    \/ Top \/ Wait \/ Command \/ Workers \/ TimerFires \/ TimersDone \/ ZapRequest
    \/ pc = "command" /\ Drained("command", "workers")
    \/ pc = "workers" /\ Drained("workers", "timers")
    \/ pc = "zap" /\ Drained("zap", "queue")
    \/ ProcessQueue \/ Stale \/ ReceiveNone \/ Receive \/ NoneLeft \/ Recheck

Init ==
    /\ InitTimers
    /\ using_epoll \in UseEpoll
    /\ connections = FirstConns /\ opened = FirstConns /\ connections_updated = TRUE
    /\ skip = FALSE /\ pc = "top" /\ process = {} /\ process_all = FALSE
    /\ queue = <<>> /\ unchecked = {}
    /\ controls = [c \in Threads |-> <<>>]
    /\ inbox = [s \in Conns \cup {"zap"} |-> 0]
    /\ signalled = {} /\ edge = {}
    /\ issued = {} /\ sent = [controls |-> 0, arrivals |-> 0]

Next == Outside \/ Loop \/ Undefined

(* The proxy thread keeps running; workers finish their jobs. *)
Spec ==
    /\ Init /\ [][Next]_vars
    /\ WF_vars(Loop)
    /\ \A t \in TimerIDs : WF_vars(WorkerFinishes(t))

-----------------------------------------------------------------------------
LoopTypeOK ==
    /\ using_epoll \in BOOLEAN /\ connections_updated \in BOOLEAN /\ skip \in BOOLEAN
    /\ connections \subseteq opened /\ opened \subseteq Conns
    /\ pc \in {"top", "wait", "command", "workers", "timers", "zap", "queue", "incoming",
               "recheck", "undefined"}
    /\ process \subseteq Fixed /\ process_all \in BOOLEAN
    /\ Range(queue) \subseteq Conns /\ Len(queue) <= Cardinality(Conns)
    /\ unchecked \subseteq Open
    /\ edge \subseteq signalled /\ signalled \subseteq Open
    /\ due \subseteq zmq_timers /\ timer_zmq_id \subseteq zmq_timers
    /\ zmq_timers \subseteq DOMAIN timer_jobs

(***************************************************************************)
(* The proxy does not go to sleep over a message: when it calls epoll_wait *)
(* every socket that has something to read is going to be reported.  "If   *)
(* we didn't, we could miss it and might end up deadlocked because of      *)
(* ZMQ's edge-triggered notifications."                                    *)
(***************************************************************************)
NoLostWakeup ==
    using_epoll /\ pc = "wait" => \A s \in Open : Readable(s) => s \in edge

(***************************************************************************)
(* Every message is served in the end, on whichever socket and whatever    *)
(* the proxy does in between; closing its connection is what may drop it.  *)
(***************************************************************************)
MessagesServed ==
    \A s \in Sockets :
        s \in Open /\ Readable(s) ~> s \notin Open \/ ~Readable(s) \/ pc = "undefined"

(***************************************************************************)
(* The pointers in queue point to connections that exist when the loop     *)
(* over the incoming messages uses them: "If connections got updated then  *)
(* our points are stale, so restart the proxy loop".  PollRefsLive says it *)
(* of zmq::poll, where the pointers are taken right before that loop.      *)
(***************************************************************************)
QueueRefsLive == pc = "incoming" /\ queue # <<>> => Head(queue) \in connections
PollRefsLive == ~using_epoll => QueueRefsLive

(***************************************************************************)
(* cancel_timer() by the thread that added the timer stops it for good: as *)
(* the proxy handles its TIMER_DEL it has had the TIMER before, libzmq's   *)
(* timer goes, and no timer that has gone comes back.                      *)
(***************************************************************************)
Cancels(t) ==
    /\ controls[Owner[t]] # <<>> /\ Head(controls[Owner[t]]) = [cmd |-> "TIMER_DEL", arg |-> t]
    /\ Len(controls'[Owner[t]]) < Len(controls[Owner[t]])
Gone(t) == t \in DOMAIN timer_jobs /\ t \notin zmq_timers
CancelledStays == \A t \in TimerIDs : Cancels(t) \/ Gone(t) => Gone(t)'
OwnerCancels == [][CancelledStays]_vars
=============================================================================
