----------------------------- MODULE Lifecycle -----------------------------
(***************************************************************************)
(* The life of an OxenMQ object: what its owner sets up before start(),    *)
(* the start of the proxy and of the tagged threads, listeners that are    *)
(* added later, and the destructor, in whatever state it finds the object. *)
(* (oxenmq.cpp; proxy_bind, proxy_loop_init and proxy_quit of proxy.cpp;   *)
(* add_tagged_thread of jobs.cpp; worker_thread of worker.cpp)             *)
(*                                                                         *)
(* A call that throws because of its arguments or because it comes too     *)
(* late changes nothing and is no step.  The pool of untagged workers is   *)
(* WorkerPool's matter.                                                    *)
(*                                                                         *)
(* An operator X_Mistake before X is X with a mistake in it; nothing uses  *)
(* it except the sensitivity runs described in README.md.                  *)
(***************************************************************************)
EXTENDS Access

CONSTANTS
    Categories,
    FullNames,      \* names of commands to add: <<category, command>>
    Requests,       \* those that are added by add_request_command
    AliasCalls,     \* bound: the <<from, to>> that add_command_alias is called with
    Binds,          \* listen_curve() and listen_plain() calls
    Tagged,         \* tagged threads
    MaxJobs         \* bound: jobs for tagged threads

ASSUME NamesAssumption ==
    /\ Categories \subseteq DOMAIN PartSize
    /\ FullNames \subseteq (DOMAIN PartSize) \X (DOMAIN PartSize)
    /\ AliasCalls \subseteq Seq(DOMAIN PartSize) \X FullNames

VARIABLES
    categories, commands, command_aliases,
    bind,             \* the listeners asked for: [req, conn_id]
    connections,      \* conn_id -> [req, domain]: sockets that listen
    next_conn_id,
    told,             \* Binds -> what on_bind was called with
    main,             \* what the owner's thread does
    proxy,            \* what the proxy thread does
    startup,          \* the promise: "pending", "value" or "exception"
    bound,            \* bind entries that proxy_loop_init has bound
    worker_sockets,   \* were they created?
    max_workers,      \* is it non-zero?
    controls,         \* thread -> control messages on their way to the proxy
    ready,            \* was READY sent?
    mutex,            \* who holds tagged_startup_mutex
    tagged_go,
    tagged,           \* Tagged -> what the thread does
    joinable,         \* tagged threads that were not joined
    connected,        \* tagged threads whose socket is connected
    waiting_on,       \* tagged threads the proxy expects a STARTING of
    from_tagged,      \* messages of tagged threads on their way to the proxy
    to_tagged,        \* Tagged -> messages on their way to the thread
    busy, jobs

registry == <<categories, commands, command_aliases>>
bindings == <<bind, connections, next_conn_id, told, bound>>
threads == <<mutex, tagged_go, tagged, joinable, connected>>
workers == <<waiting_on, from_tagged, to_tagged, busy, jobs>>
calls == <<main, startup, controls, ready, worker_sockets, max_workers>>
vars == <<registry, bindings, threads, workers, calls, proxy>>

(* proxy_thread.joinable(): start() joins the thread when it has failed *)
Joinable == main \notin {"setup", "failed"}

-----------------------------------------------------------------------------
(* Before start(). *)

add_category(c) ==
    /\ ~Joinable
    /\ PartSize[c] <= MAX_CATEGORY_LENGTH
    /\ c \notin categories
    /\ categories' = categories \cup {c}
    /\ UNCHANGED <<commands, command_aliases, bindings, threads, workers, calls, proxy>>

Free(name) == name \notin DOMAIN command_aliases /\ name \notin DOMAIN commands

(* add_command and add_request_command *)
add_command(name) ==
    /\ ~Joinable
    /\ PartSize[name[2]] <= MAX_COMMAND_LENGTH
    /\ name[1] \in categories
    /\ Free(name)
    /\ commands' = [x \in DOMAIN commands \cup {name} |->
                      IF x = name THEN [found |-> TRUE, name |-> name, request |-> name \in Requests]
                      ELSE commands[x]]
    /\ UNCHANGED <<categories, command_aliases, bindings, threads, workers, calls, proxy>>
(* The length of an alias is not limited here. *)
add_command_alias(from, to) ==
    /\ ~Joinable
    /\ from \notin DOMAIN commands /\ from \notin DOMAIN command_aliases
    /\ command_aliases' = [x \in DOMAIN command_aliases \cup {from} |->
                             IF x = from THEN to ELSE command_aliases[x]]
    /\ UNCHANGED <<categories, commands, bindings, threads, workers, calls, proxy>>

(* The thread starts at once, and waits to be told. *)
add_tagged_thread(t) ==
    /\ ~Joinable
    /\ tagged[t] = "none"
    /\ tagged' = [tagged EXCEPT ![t] = "lock"]
    /\ joinable' = joinable \cup {t}
    /\ UNCHANGED <<registry, bindings, mutex, tagged_go, connected, workers, calls, proxy>>

Asked == {bind[i].req : i \in DOMAIN bind}
             \cup (UNION {{controls[c][i].req : i \in DOMAIN controls[c]} : c \in DOMAIN controls})
             \cup {b \in Binds : told[b] # <<>>}
listen(b) ==
    /\ main \in {"setup", "failed", "running"}
    /\ b \notin Asked
    /\ IF Joinable
       THEN /\ controls' = [controls EXCEPT !["client"] = Append(@, [cmd |-> "BIND", req |-> b])]
            /\ UNCHANGED bind
       ELSE /\ bind' = Append(bind, [req |-> b, conn_id |-> 0])
            /\ UNCHANGED controls
    /\ UNCHANGED <<registry, connections, next_conn_id, told, bound, threads, workers, main, startup,
                   ready, worker_sockets, max_workers, proxy>>

-----------------------------------------------------------------------------
(* start(), in the owner's thread *)

start ==
    /\ ~Joinable
    /\ main' = "starting"
    /\ startup' = "pending"
    /\ max_workers' = TRUE
    /\ proxy' = "init"
    /\ UNCHANGED <<registry, bindings, threads, workers, controls, ready, worker_sockets>>
StartFails ==
    /\ main = "starting" /\ startup = "exception"
    /\ main' = "failed"       \* joins the proxy thread and rethrows
    /\ UNCHANGED <<registry, bindings, threads, workers, startup, controls, ready, worker_sockets,
                   max_workers, proxy>>
StartProceeds ==
    /\ main = "starting" /\ startup = "value"
    /\ main' = "awaiting"
    /\ controls' = [controls EXCEPT !["main"] = Append(@, [cmd |-> "START", req |-> "-"])]
    /\ UNCHANGED <<registry, bindings, threads, workers, startup, ready, worker_sockets, max_workers,
                   proxy>>
StartReturns ==
    /\ main = "awaiting" /\ ready
    /\ main' = "running"
    /\ UNCHANGED <<registry, bindings, threads, workers, startup, controls, ready, worker_sockets,
                   max_workers, proxy>>

-----------------------------------------------------------------------------
(* proxy_loop_init *)

(* A start() that failed has left worker_sockets behind: another one fails.*)
InitSockets ==
    /\ proxy = "init"
    /\ IF worker_sockets
       THEN /\ startup' = "exception" /\ proxy' = "ended"
            /\ UNCHANGED <<worker_sockets, next_conn_id>>
       ELSE /\ worker_sockets' = TRUE
            /\ next_conn_id' = next_conn_id + 1     \* inproc_listener_connid
            /\ proxy' = "binding"
            /\ UNCHANGED startup
    /\ UNCHANGED <<registry, bind, connections, told, bound, threads, workers, main, controls, ready,
                   max_workers>>

(* proxy_bind: whether the address can be bound is not ours to decide. *)
BindIndex_Next(n) == n + 1
BindIndex(n) == n
proxy_bind(b, bind_index, good) ==
    /\ told' = [told EXCEPT ![b] = Append(@, good)]
    /\ IF good
       THEN /\ next_conn_id' = next_conn_id + 1
            /\ connections' = [c \in DOMAIN connections \cup {next_conn_id} |->
                                 IF c = next_conn_id THEN [req |-> b, domain |-> bind_index]
                                 ELSE connections[c]]
       ELSE UNCHANGED <<next_conn_id, connections>>

InitBind(good) ==
    /\ proxy = "binding" /\ bound < Len(bind)
    /\ proxy_bind(bind[bound + 1].req, bound, good)
    /\ IF good
       THEN /\ bind' = [bind EXCEPT ![bound + 1].conn_id = next_conn_id]
            /\ bound' = bound + 1
            /\ UNCHANGED <<startup, proxy>>
       ELSE /\ startup' = "exception" /\ proxy' = "ended"
            /\ UNCHANGED <<bind, bound>>
    /\ UNCHANGED <<registry, threads, workers, main, controls, ready, worker_sockets, max_workers>>

MutexFree_Ignored == TRUE
MutexFree == mutex = "none"

(* One step under the lock, and notify_all in the next *)
InitGo ==
    /\ proxy = "binding" /\ bound = Len(bind)
    /\ IF joinable = {}
       THEN proxy' = "started" /\ UNCHANGED tagged_go
       ELSE MutexFree /\ tagged_go' = "GO" /\ proxy' = "notify"
    /\ UNCHANGED <<registry, bindings, mutex, tagged, joinable, connected, workers, calls>>
Awakened == [t \in Tagged |-> IF tagged[t] = "asleep" THEN "lock" ELSE tagged[t]]
InitNotify ==
    /\ proxy = "notify"
    /\ tagged' = Awakened
    /\ waiting_on' = joinable
    /\ proxy' = "waiting"
    /\ UNCHANGED <<registry, bindings, mutex, tagged_go, joinable, connected, from_tagged, to_tagged,
                   busy, jobs, calls>>
InitStarting(t) ==
    /\ proxy = "waiting"
    /\ [from |-> t, cmd |-> "STARTING"] \in from_tagged
    /\ from_tagged' = from_tagged \ {[from |-> t, cmd |-> "STARTING"]}
    /\ waiting_on' = waiting_on \ {t}
    /\ UNCHANGED <<registry, bindings, threads, to_tagged, busy, jobs, calls, proxy>>
AllStarting_First == waiting_on # joinable
AllStarting == waiting_on = {}
InitStart ==
    /\ proxy = "waiting" /\ AllStarting
    /\ to_tagged' = [t \in Tagged |-> IF t \in joinable THEN Append(to_tagged[t], "START")
                                      ELSE to_tagged[t]]
    /\ proxy' = "started"
    /\ UNCHANGED <<registry, bindings, threads, waiting_on, from_tagged, busy, jobs, calls>>
InitReturns ==
    /\ proxy = "started"
    /\ startup' = "value"
    /\ proxy' = "loop"
    /\ UNCHANGED <<registry, bindings, threads, workers, main, controls, ready, worker_sockets,
                   max_workers>>

-----------------------------------------------------------------------------
(* The proxy's loop: the control messages of this module, and jobs for the *)
(* tagged threads.                                                         *)

Receives(c, cmd) ==
    /\ proxy = "loop"
    /\ controls[c] # <<>> /\ Head(controls[c]).cmd = cmd
    /\ controls' = [controls EXCEPT ![c] = Tail(@)]

ControlStart ==
    /\ Receives("main", "START")
    /\ ready' = TRUE
    /\ UNCHANGED <<registry, bindings, threads, workers, main, startup, worker_sockets, max_workers,
                   proxy>>
ControlBind(good) ==
    /\ Receives("client", "BIND")
    /\ LET b == Head(controls["client"]).req IN
       /\ proxy_bind(b, BindIndex(Len(bind)), good)
       /\ bind' = IF good THEN Append(bind, [req |-> b, conn_id |-> next_conn_id]) ELSE bind
    /\ UNCHANGED <<registry, bound, threads, workers, main, startup, ready, worker_sockets,
                   max_workers, proxy>>
ControlQuit ==
    /\ Receives("main", "QUIT")
    /\ max_workers' = FALSE
    /\ to_tagged' = [t \in Tagged |-> IF t \in joinable \ busy THEN Append(to_tagged[t], "QUIT")
                                      ELSE to_tagged[t]]
    /\ UNCHANGED <<registry, bindings, threads, waiting_on, from_tagged, busy, jobs, main, startup,
                   ready, worker_sockets, proxy>>

(* proxy_process_queue, for a job that some client gave t *)
RunTagged(t) ==
    /\ proxy = "loop" /\ max_workers
    /\ t \in joinable \ busy /\ jobs < MaxJobs
    /\ jobs' = jobs + 1
    /\ busy' = busy \cup {t}
    /\ to_tagged' = [to_tagged EXCEPT ![t] = Append(@, "RUN")]
    /\ UNCHANGED <<registry, bindings, threads, waiting_on, from_tagged, calls, proxy>>
NotBusy_Forgotten(t) == busy
NotBusy(t) == busy \ {t}
WorkerRan(t) ==
    /\ proxy = "loop"
    /\ [from |-> t, cmd |-> "RAN"] \in from_tagged
    /\ from_tagged' = from_tagged \ {[from |-> t, cmd |-> "RAN"]}
    /\ busy' = NotBusy(t)
    /\ to_tagged' = IF max_workers THEN to_tagged
                    ELSE [to_tagged EXCEPT ![t] = Append(@, "QUIT")]
    /\ UNCHANGED <<registry, bindings, threads, waiting_on, jobs, calls, proxy>>
WorkerQuitting(t) ==
    /\ proxy = "loop"
    /\ [from |-> t, cmd |-> "QUITTING"] \in from_tagged
    /\ tagged[t] = "gone"
    /\ from_tagged' = from_tagged \ {[from |-> t, cmd |-> "QUITTING"]}
    /\ joinable' = joinable \ {t}
    /\ UNCHANGED <<registry, bindings, mutex, tagged_go, tagged, connected, waiting_on, to_tagged,
                   busy, jobs, calls, proxy>>
proxy_quit ==
    /\ proxy = "loop" /\ ~max_workers /\ joinable = {}
    /\ connections' = [c \in {} |-> <<>>]
    /\ proxy' = "ended"
    /\ UNCHANGED <<registry, bind, next_conn_id, told, bound, threads, workers, calls>>

-----------------------------------------------------------------------------
(* A tagged thread: worker_thread, from tagged_cv.wait to its end. *)

Goes(t, to) == tagged' = [tagged EXCEPT ![t] = to]

TaggedLock(t) ==
    /\ tagged[t] = "lock" /\ mutex = "none"
    /\ mutex' = t
    /\ Goes(t, "check")
    /\ UNCHANGED <<registry, bindings, tagged_go, joinable, connected, workers, calls, proxy>>
TaggedCheck(t) ==
    /\ tagged[t] = "check"
    /\ IF tagged_go = "WAIT"
       THEN Goes(t, "wait") /\ UNCHANGED mutex
       ELSE Goes(t, "told") /\ mutex' = "none"
    /\ UNCHANGED <<registry, bindings, tagged_go, joinable, connected, workers, calls, proxy>>
TaggedSleep(t) ==
    /\ tagged[t] = "wait"
    /\ Goes(t, "asleep") /\ mutex' = "none"
    /\ UNCHANGED <<registry, bindings, tagged_go, joinable, connected, workers, calls, proxy>>
(* A condition variable may wake a thread for no reason. *)
TaggedWakes(t) ==
    /\ tagged[t] = "asleep"
    /\ Goes(t, "lock")
    /\ UNCHANGED <<registry, bindings, mutex, tagged_go, joinable, connected, workers, calls, proxy>>
TaggedTold(t) ==
    /\ tagged[t] = "told"
    /\ IF tagged_go = "SHUTDOWN"
       THEN Goes(t, "gone") /\ UNCHANGED <<connected, from_tagged>>
       ELSE /\ Goes(t, "starting")
            /\ connected' = connected \cup {t}
            /\ from_tagged' = from_tagged \cup {[from |-> t, cmd |-> "STARTING"]}
    /\ UNCHANGED <<registry, bindings, mutex, tagged_go, joinable, waiting_on, to_tagged, busy, jobs,
                   calls, proxy>>

(* worker_wait_for: START first, and then RUN; QUIT at any time *)
TaggedReceive(t) ==
    /\ to_tagged[t] # <<>>
    /\ to_tagged' = [to_tagged EXCEPT ![t] = Tail(@)]
    /\ LET m == Head(to_tagged[t]) IN
       \/ /\ tagged[t] = "starting" /\ m = "START"
          /\ Goes(t, "callback") /\ UNCHANGED from_tagged
       \/ /\ tagged[t] = "idle" /\ m = "RUN"
          /\ Goes(t, "job") /\ UNCHANGED from_tagged
       \/ /\ tagged[t] \in {"starting", "idle"} /\ m = "QUIT"
          /\ Goes(t, "gone")
          /\ from_tagged' = from_tagged \cup {[from |-> t, cmd |-> "QUITTING"]}
    /\ UNCHANGED <<registry, bindings, mutex, tagged_go, joinable, connected, waiting_on, busy, jobs,
                   calls, proxy>>
TaggedStarted(t) ==
    /\ tagged[t] = "callback"
    /\ Goes(t, "idle")
    /\ UNCHANGED <<registry, bindings, mutex, tagged_go, joinable, connected, workers, calls, proxy>>
TaggedRan(t) ==
    /\ tagged[t] = "job"
    /\ Goes(t, "idle")
    /\ from_tagged' = from_tagged \cup {[from |-> t, cmd |-> "RAN"]}
    /\ UNCHANGED <<registry, bindings, mutex, tagged_go, joinable, connected, waiting_on, to_tagged,
                   busy, jobs, calls, proxy>>

-----------------------------------------------------------------------------
(* The destructor *)

DestroyRunning ==
    /\ main = "running"
    /\ main' = "quitting"
    /\ controls' = [controls EXCEPT !["main"] = Append(@, [cmd |-> "QUIT", req |-> "-"])]
    /\ UNCHANGED <<registry, bindings, threads, workers, startup, ready, worker_sockets, max_workers,
                   proxy>>
Destroyed ==
    /\ main = "quitting" /\ proxy = "ended"
    /\ main' = "gone"
    /\ UNCHANGED <<registry, bindings, threads, workers, startup, controls, ready, worker_sockets,
                   max_workers, proxy>>
DestroyUnstarted ==
    /\ ~Joinable
    /\ IF joinable = {}
       THEN main' = "gone" /\ UNCHANGED tagged_go
       ELSE MutexFree /\ tagged_go' = "SHUTDOWN" /\ main' = "notify"
    /\ UNCHANGED <<registry, bindings, mutex, tagged, joinable, connected, workers, startup, controls,
                   ready, worker_sockets, max_workers, proxy>>
DestroyNotify ==
    /\ main = "notify"
    /\ tagged' = Awakened
    /\ main' = "joining"
    /\ UNCHANGED <<registry, bindings, mutex, tagged_go, joinable, connected, workers, startup,
                   controls, ready, worker_sockets, max_workers, proxy>>
DestroyJoins ==
    /\ main = "joining"
    /\ \A t \in joinable : tagged[t] = "gone"
    /\ joinable' = {}
    /\ main' = "gone"
    /\ UNCHANGED <<registry, bindings, mutex, tagged_go, tagged, connected, workers, startup,
                   controls, ready, worker_sockets, max_workers, proxy>>
Terminated == main = "gone" /\ UNCHANGED vars

-----------------------------------------------------------------------------
Init ==
    /\ categories = {} /\ commands = [x \in {} |-> <<>>] /\ command_aliases = [x \in {} |-> <<>>]
    /\ bind = <<>> /\ connections = [c \in {} |-> <<>>] /\ next_conn_id = 1
    /\ told = [b \in Binds |-> <<>>] /\ bound = 0
    /\ main = "setup" /\ proxy = "none" /\ startup = "none"
    /\ worker_sockets = FALSE /\ max_workers = FALSE
    /\ controls = [c \in {"main", "client"} |-> <<>>] /\ ready = FALSE
    /\ mutex = "none" /\ tagged_go = "WAIT"
    /\ tagged = [t \in Tagged |-> "none"] /\ joinable = {} /\ connected = {}
    /\ waiting_on = {} /\ from_tagged = {} /\ to_tagged = [t \in Tagged |-> <<>>]
    /\ busy = {} /\ jobs = 0

Setup ==
    \/ \E c \in Categories : add_category(c)
    \/ \E name \in FullNames : add_command(name)
    \/ \E call \in AliasCalls : add_command_alias(call[1], call[2])
    \/ \E t \in Tagged : add_tagged_thread(t)
    \/ \E b \in Binds : listen(b)
    \/ start \/ DestroyRunning \/ DestroyUnstarted

Main == StartFails \/ StartProceeds \/ StartReturns \/ Destroyed \/ DestroyNotify \/ DestroyJoins

Proxy ==
    \/ InitSockets \/ InitGo \/ InitNotify \/ InitStart \/ InitReturns
    \/ \E good \in BOOLEAN : InitBind(good) \/ ControlBind(good)
    \/ \E t \in Tagged : InitStarting(t) \/ WorkerRan(t) \/ WorkerQuitting(t)
    \/ ControlStart \/ ControlQuit \/ proxy_quit

Thread(t) ==
    \/ TaggedLock(t) \/ TaggedCheck(t) \/ TaggedSleep(t) \/ TaggedTold(t)
    \/ TaggedReceive(t) \/ TaggedStarted(t) \/ TaggedRan(t)

Next ==
    \/ Setup \/ Main \/ Proxy
    \/ \E t \in Tagged : Thread(t) \/ TaggedWakes(t) \/ RunTagged(t)
    \/ Terminated

(* Threads run.  Nobody has to call anything.  A condition variable does   *)
(* not wake threads for no reason over and over again.                     *)
Spec ==
    /\ Init /\ [][Next]_vars
    /\ WF_vars(Main) /\ WF_vars(Proxy)
    /\ \A t \in Tagged : WF_vars(Thread(t)) /\ <>[][~TaggedWakes(t)]_vars

-----------------------------------------------------------------------------
LifeTypeOK ==
    /\ categories \subseteq Categories /\ {name[1] : name \in DOMAIN commands} \subseteq categories
    /\ DOMAIN commands \subseteq FullNames
    /\ \A from \in DOMAIN command_aliases : command_aliases[from] \in FullNames
    /\ DOMAIN connections \subseteq 1..(next_conn_id - 1) /\ bound \in 0..Len(bind)
    /\ main \in {"setup", "starting", "awaiting", "running", "failed", "quitting", "notify",
                 "joining", "gone"}
    /\ proxy \in {"none", "init", "binding", "notify", "waiting", "started", "loop", "ended"}
    /\ startup \in {"none", "pending", "value", "exception"}
    /\ mutex \in Tagged \cup {"none"} /\ tagged_go \in {"WAIT", "GO", "SHUTDOWN"}
    /\ \A t \in Tagged : tagged[t] \in {"check", "wait"} <=> mutex = t
    /\ joinable \subseteq Tagged /\ busy \subseteq joinable /\ waiting_on \subseteq joinable
    /\ from_tagged \subseteq [from : connected, cmd : {"STARTING", "RAN", "QUITTING"}]

(***************************************************************************)
(* start() and the destructor return, whichever binds fail, whether or not *)
(* the object was started, and wherever the tagged threads are: none of    *)
(* them sleeps through the notification.                                   *)
(***************************************************************************)
InCall == main \in {"starting", "awaiting", "quitting", "notify", "joining"}
CallsReturn == InCall ~> ~InCall

(***************************************************************************)
(* "We need this synchronization dance to guarantee that the workers are   *)
(* routable before we can proceed": what the proxy sends a tagged thread   *)
(* finds it connected, and in the state that waits for it: START comes     *)
(* first and once, so the start callback is over before the first job.     *)
(***************************************************************************)
TaggedProtocol ==
    \A t \in Tagged : to_tagged[t] # <<>> =>
        /\ t \in connected
        /\ tagged[t] = "starting" <=> Head(to_tagged[t]) = "START"
        /\ "START" \notin Range(Tail(to_tagged[t]))
        /\ tagged[t] # "gone"

(***************************************************************************)
(* A command that add_command accepted is found by its own name: the limit *)
(* of get_command leaves room for every category and command that the      *)
(* limits of add_category and add_command let in, and no alias hides it,   *)
(* in whichever order they are added.  An alias leads where it was made to *)
(* lead, without a second alias step, unless its own name is too long:     *)
(* add_command_alias accepts that one, and get_command never finds it.     *)
(***************************************************************************)
CommandsReachable ==
    /\ \A name \in DOMAIN commands : GetCommand(commands, command_aliases, name) = commands[name]
    /\ \A from \in DOMAIN command_aliases :
          LET to == command_aliases[from]
              cmd == GetCommand(commands, command_aliases, from)
          IN IF TooLong(from) \/ to \notin DOMAIN commands THEN ~cmd.found ELSE cmd = commands[to]

(***************************************************************************)
(* The ZAP domain of a listening socket is the index of its own entry in   *)
(* bind, whose allow function decides who may connect, whichever other     *)
(* listeners could not be bound; on_bind is called once, with the truth,   *)
(* and when start() has returned every listener asked for is there.        *)
(***************************************************************************)
BindsExact ==
    /\ \A c \in DOMAIN connections :
          LET l == connections[c] IN
          /\ l.domain + 1 \in DOMAIN bind
          /\ bind[l.domain + 1] = [req |-> l.req, conn_id |-> c]
          /\ told[l.req] = <<TRUE>>
    /\ \A b \in Binds : Len(told[b]) <= 1
    /\ main = "running" => \A i \in DOMAIN bind : bind[i].conn_id \in DOMAIN connections
=============================================================================
