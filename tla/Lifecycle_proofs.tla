-------------------------- MODULE Lifecycle_proofs --------------------------
(***************************************************************************)
(* Proofs about Lifecycle, for any commands, listeners and tagged threads: *)
(* commands and aliases, the owner and the proxy, listeners.               *)
(***************************************************************************)
EXTENDS Lifecycle, TLAPS

(* What the actions leave alone *)
LEMMA SetupKeeps ==
    /\ \A c : add_category(c) => UNCHANGED <<commands, command_aliases, bindings, threads, workers,
                                             calls, proxy>>
    /\ \A t : add_tagged_thread(t) => UNCHANGED <<registry, bindings, workers, calls, proxy>>
    /\ \A b : listen(b) => UNCHANGED <<registry, threads, workers, main, startup, ready, worker_sockets,
                                       max_workers, proxy>>
    /\ start \/ DestroyRunning \/ DestroyUnstarted => UNCHANGED <<registry, bindings, workers>>
BY DEF add_category, add_tagged_thread, listen, start, DestroyRunning, DestroyUnstarted

LEMMA MainKeeps == Main => UNCHANGED <<registry, bindings, workers, proxy>>
BY DEF Main, StartFails, StartProceeds, StartReturns, Destroyed, DestroyNotify, DestroyJoins

LEMMA ProxyKeeps == Proxy => UNCHANGED <<registry, main>>
<1>1. InitSockets \/ InitGo \/ InitNotify \/ InitStart \/ InitReturns => UNCHANGED <<registry, main>>
  BY DEF InitSockets, InitGo, InitNotify, InitStart, InitReturns, calls
<1>2. \A good : InitBind(good) \/ ControlBind(good) => UNCHANGED <<registry, main>>
  BY DEF InitBind, ControlBind
<1>3. \A t : InitStarting(t) \/ WorkerRan(t) \/ WorkerQuitting(t) => UNCHANGED <<registry, main>>
  BY DEF InitStarting, WorkerRan, WorkerQuitting, calls
<1>4. ControlStart \/ ControlQuit \/ proxy_quit => UNCHANGED <<registry, main>>
  BY DEF ControlStart, ControlQuit, proxy_quit, calls
<1> QED BY <1>1, <1>2, <1>3, <1>4 DEF Proxy

LEMMA ThreadKeeps ==
    \A t : Thread(t) \/ TaggedWakes(t) \/ RunTagged(t) => UNCHANGED <<registry, bindings, calls, proxy>>
BY DEF Thread, TaggedLock, TaggedCheck, TaggedSleep, TaggedTold, TaggedReceive, TaggedStarted,
       TaggedRan, TaggedWakes, RunTagged

-----------------------------------------------------------------------------
(***************************************************************************)
(* No name is both a command and an alias; what add_category and           *)
(* add_command let in has the length they allow.                           *)
(***************************************************************************)
RegistryInv ==
    /\ DOMAIN commands \cap DOMAIN command_aliases = {}
    /\ \A c \in categories : PartSize[c] <= MAX_CATEGORY_LENGTH
    /\ \A name \in DOMAIN commands :
          /\ name \in FullNames /\ name[1] \in categories
          /\ PartSize[name[2]] <= MAX_COMMAND_LENGTH
          /\ commands[name].found

LEMMA RegistryStep == ASSUME RegistryInv, [Next]_vars PROVE RegistryInv'
<1>1. CASE UNCHANGED registry
  BY <1>1 DEF RegistryInv, registry
<1>2. ASSUME NEW name \in FullNames, add_command(name) PROVE RegistryInv'
  BY <1>2 DEF add_command, Free, RegistryInv
<1>3. ASSUME NEW from, NEW to, add_command_alias(from, to) PROVE RegistryInv'
  BY <1>3 DEF add_command_alias, RegistryInv
<1>4. ASSUME NEW c, add_category(c) PROVE RegistryInv'
  BY <1>4 DEF add_category, RegistryInv
<1>5. CASE Setup
  BY <1>1, <1>2, <1>3, <1>4, <1>5, SetupKeeps DEF Setup
<1>6. CASE Terminated \/ UNCHANGED vars
  BY <1>1, <1>6 DEF Terminated, vars
<1> QED BY <1>1, <1>5, <1>6, MainKeeps, ProxyKeeps, ThreadKeeps DEF Next

(* A category and a command of the lengths that were allowed, and the dot, *)
(* are no longer than get_command allows.                                  *)
LEMMA LimitsAddUp ==
    ASSUME RegistryInv, NEW name \in DOMAIN commands PROVE ~TooLong(name)
<1>1. /\ name \in (DOMAIN PartSize) \X (DOMAIN PartSize)
      /\ PartSize[name[1]] <= MAX_CATEGORY_LENGTH /\ PartSize[name[2]] <= MAX_COMMAND_LENGTH
  BY NamesAssumption DEF RegistryInv
<1>2. Len(name) = 2 /\ PartSize[name[1]] \in Nat /\ PartSize[name[2]] \in Nat
  BY <1>1, SizeAssumption
<1>3. Size(name) = PartSize[name[1]] + 1 + PartSize[name[2]]
  BY <1>2 DEF Size
<1> QED BY <1>1, <1>2, <1>3 DEF TooLong, MAX_CATEGORY_LENGTH, MAX_COMMAND_LENGTH

(* get_command finds every command that add_command accepted by its own    *)
(* name, whatever the lengths of category and command, and by an alias of  *)
(* admissible length the one the alias was made for.                       *)
THEOREM EveryCommandIsFound == Spec => []CommandsReachable
<1>1. Init => RegistryInv
  BY DEF Init, RegistryInv
<1>2. RegistryInv /\ [Next]_vars => RegistryInv'
  BY RegistryStep
<1>3. RegistryInv => CommandsReachable
  <2> SUFFICES ASSUME RegistryInv PROVE CommandsReachable
    OBVIOUS
  <2>1. ASSUME NEW name \in DOMAIN commands
        PROVE  GetCommand(commands, command_aliases, name) = commands[name]
    BY LimitsAddUp DEF RegistryInv, GetCommand
  <2>2. ASSUME NEW from \in DOMAIN command_aliases
        PROVE  LET to == command_aliases[from]
                   cmd == GetCommand(commands, command_aliases, from)
               IN IF TooLong(from) \/ to \notin DOMAIN commands THEN ~cmd.found ELSE cmd = commands[to]
    BY DEF GetCommand
  <2> QED BY <2>1, <2>2 DEF CommandsReachable
<1> QED BY <1>1, <1>2, <1>3, PTL DEF Spec

-----------------------------------------------------------------------------
(***************************************************************************)
(* How far the owner and the proxy can be apart: the proxy is in its loop  *)
(* when start() has its value, and leaves it only for the destructor.      *)
(***************************************************************************)
Controls == [cmd : {"START", "QUIT", "BIND"}, req : Binds \cup {"-"}]
MainInv ==
    /\ controls \in [{"main", "client"} -> Seq(Controls)]
    /\ main \in {"setup", "starting", "awaiting", "running", "failed", "quitting", "notify",
                 "joining", "gone"}
    /\ main \in {"setup", "failed", "notify", "joining", "gone"} => proxy \in {"none", "ended"}
    /\ main = "starting" =>
          \/ startup = "pending" /\ proxy \in {"init", "binding", "notify", "waiting", "started"}
          \/ startup = "value" /\ proxy = "loop" /\ max_workers
          \/ startup = "exception" /\ proxy = "ended"
    /\ main = "starting" => max_workers
    /\ main \in {"awaiting", "running"} => proxy = "loop" /\ max_workers
    /\ main = "quitting" => proxy \in {"loop", "ended"}
    /\ \A i \in 1..Len(controls["main"]) :
          controls["main"][i].cmd = "QUIT" => main \in {"quitting", "gone"}

LEMMA MainInit == Init => MainInv
BY DEF Init, MainInv

LEMMA MainStays ==
    ASSUME MainInv, UNCHANGED <<main, proxy, startup, max_workers, controls>> PROVE MainInv'
BY DEF MainInv

LEMMA MainPost ==
    ASSUME MainInv, NEW c \in {"main", "client"}, NEW m \in Controls,
           controls' = [controls EXCEPT ![c] = Append(@, m)]
    PROVE  /\ controls' \in [{"main", "client"} -> Seq(Controls)]
           /\ \A i \in 1..Len(controls'["main"]) :
                 \/ controls'["main"][i] = m /\ c = "main"
                 \/ i \in 1..Len(controls["main"]) /\ controls'["main"][i] = controls["main"][i]
<1>1. controls' \in [{"main", "client"} -> Seq(Controls)]
  BY DEF MainInv
<1>2. CASE c = "client"
  BY <1>1, <1>2 DEF MainInv
<1>3. CASE c = "main"
  <2>1. controls["main"] \in Seq(Controls) /\ controls'["main"] = Append(controls["main"], m)
    BY <1>3 DEF MainInv
  <2> QED BY <1>1, <1>3, <2>1
<1> QED BY <1>2, <1>3

LEMMA MainTake ==
    ASSUME MainInv, NEW c \in {"main", "client"}, NEW cmd, Receives(c, cmd)
    PROVE  /\ proxy = "loop" /\ controls' \in [{"main", "client"} -> Seq(Controls)]
           /\ (cmd = "QUIT" /\ c = "main") => main \in {"quitting", "gone"}
           /\ \A i \in 1..Len(controls'["main"]) :
                 \E j \in 1..Len(controls["main"]) : controls'["main"][i] = controls["main"][j]
<1>1. /\ proxy = "loop" /\ controls[c] # <<>> /\ Head(controls[c]).cmd = cmd
      /\ controls' = [controls EXCEPT ![c] = Tail(@)]
  BY DEF Receives
<1>2. controls' \in [{"main", "client"} -> Seq(Controls)]
  BY <1>1 DEF MainInv
<1>3. CASE c = "client"
  BY <1>1, <1>2, <1>3 DEF MainInv
<1>4. CASE c = "main"
  <2> PICK q : q = controls["main"]
    OBVIOUS
  <2>1. /\ q \in Seq(Controls) /\ q # <<>> /\ controls'["main"] = Tail(q)
        /\ Head(q).cmd = cmd
    BY <1>1, <1>4 DEF MainInv
  <2>2. /\ Head(q) = q[1] /\ 1 \in 1..Len(q)
        /\ \A i \in 1..Len(Tail(q)) : i + 1 \in 1..Len(q) /\ Tail(q)[i] = q[i + 1]
    BY <2>1
  <2>3. cmd = "QUIT" => main \in {"quitting", "gone"}
    BY <2>1, <2>2 DEF MainInv
  <2> QED BY <1>1, <1>2, <2>1, <2>2, <2>3
<1> QED BY <1>3, <1>4

LEMMA MainStep == ASSUME MainInv, [Next]_vars PROVE MainInv'
<1>1. ASSUME NEW b \in Binds, listen(b) PROVE MainInv'
  <2>1. UNCHANGED <<main, proxy, startup, max_workers>>
    BY <1>1 DEF listen
  <2>2. CASE UNCHANGED controls
    BY <2>1, <2>2, MainStays
  <2>3. CASE controls' = [controls EXCEPT !["client"] = Append(@, [cmd |-> "BIND", req |-> b])]
    <3>1. [cmd |-> "BIND", req |-> b] \in Controls
      BY DEF Controls
    <3>2. /\ controls' \in [{"main", "client"} -> Seq(Controls)]
          /\ \A i \in 1..Len(controls'["main"]) :
                i \in 1..Len(controls["main"]) /\ controls'["main"][i] = controls["main"][i]
      BY <2>3, <3>1, MainPost
    <3> QED BY <2>1, <3>2 DEF MainInv
  <2> QED BY <1>1, <2>2, <2>3 DEF listen
<1>2. CASE start
  <2>1. /\ main' = "starting" /\ startup' = "pending" /\ max_workers' /\ proxy' = "init"
        /\ UNCHANGED controls /\ main \in {"setup", "failed"}
    BY <1>2 DEF start, Joinable
  <2> QED BY <2>1 DEF MainInv
<1>3. CASE DestroyRunning
  <2>1. [cmd |-> "QUIT", req |-> "-"] \in Controls
    BY DEF Controls
  <2>2. controls' \in [{"main", "client"} -> Seq(Controls)]
    BY <1>3, <2>1, MainPost DEF DestroyRunning
  <2> QED BY <1>3, <2>2 DEF DestroyRunning, MainInv
<1>4. CASE DestroyUnstarted \/ DestroyNotify \/ DestroyJoins \/ Destroyed
  BY <1>4 DEF DestroyUnstarted, DestroyNotify, DestroyJoins, Destroyed, Joinable, MainInv
<1>5. CASE StartFails \/ StartReturns
  BY <1>5 DEF StartFails, StartReturns, MainInv
<1>6. CASE StartProceeds
  <2> PICK m : m = [cmd |-> "START", req |-> "-"]
    OBVIOUS
  <2>1. m \in Controls /\ m.cmd # "QUIT"
    BY DEF Controls
  <2>2. /\ controls' \in [{"main", "client"} -> Seq(Controls)]
        /\ \A i \in 1..Len(controls'["main"]) :
              \/ controls'["main"][i] = m
              \/ i \in 1..Len(controls["main"]) /\ controls'["main"][i] = controls["main"][i]
    BY <1>6, <2>1, MainPost DEF StartProceeds
  <2> QED BY <1>6, <2>1, <2>2 DEF StartProceeds, MainInv
<1>7. CASE InitSockets \/ InitReturns
  BY <1>7 DEF InitSockets, InitReturns, MainInv
<1>8. CASE InitGo \/ InitNotify \/ InitStart
  BY <1>8 DEF InitGo, InitNotify, InitStart, MainInv, calls
<1>9. ASSUME NEW good, InitBind(good) PROVE MainInv'
  BY <1>9 DEF InitBind, MainInv
<1>10. ASSUME NEW c \in {"main", "client"}, NEW cmd, Receives(c, cmd), UNCHANGED <<main, startup, proxy>>,
              (cmd = "QUIT" /\ c = "main") \/ UNCHANGED max_workers
       PROVE  MainInv'
  BY <1>10, MainTake DEF MainInv
<1>11. CASE ControlStart \/ ControlQuit \/ \E good \in BOOLEAN : ControlBind(good)
  BY <1>10, <1>11 DEF ControlStart, ControlQuit, ControlBind
<1>12. CASE proxy_quit
  BY <1>12 DEF proxy_quit, MainInv, calls
<1>13. CASE UNCHANGED <<main, proxy, startup, max_workers, controls>>
  BY <1>13, MainStays
<1>14. ASSUME NEW t, InitStarting(t) \/ WorkerRan(t) \/ WorkerQuitting(t) \/ Thread(t) \/ TaggedWakes(t)
                     \/ RunTagged(t)
       PROVE  MainInv'
  <2>1. UNCHANGED <<calls, proxy>>
    BY <1>14, ThreadKeeps DEF InitStarting, WorkerRan, WorkerQuitting
  <2> QED BY <1>13, <2>1 DEF calls
<1>15. ASSUME NEW x, NEW y, add_category(x) \/ add_command(x) \/ add_command_alias(x, y)
                            \/ add_tagged_thread(x)
       PROVE  MainInv'
  <2>1. UNCHANGED <<calls, proxy>>
    BY <1>15 DEF add_category, add_command, add_command_alias, add_tagged_thread
  <2> QED BY <1>13, <2>1 DEF calls
<1>16. CASE Setup
  BY <1>1, <1>2, <1>3, <1>4, <1>15, <1>16 DEF Setup
<1>17. CASE Main
  BY <1>4, <1>5, <1>6, <1>17 DEF Main
<1>18. CASE Proxy
  BY <1>7, <1>8, <1>9, <1>11, <1>12, <1>14, <1>18 DEF Proxy
<1>19. CASE Terminated \/ UNCHANGED vars
  BY <1>13, <1>19 DEF Terminated, vars, calls
<1> QED BY <1>14, <1>16, <1>17, <1>18, <1>19 DEF Next

-----------------------------------------------------------------------------
(***************************************************************************)
(* Listeners.  A request is in bind or in the client's queue, in one place *)
(* of one of them, and nobody was told about it while it is queued.  The   *)
(* entries from bound on have no socket while proxy_loop_init binds them,  *)
(* and all have one from there to the end of the proxy.                    *)
(***************************************************************************)
Up == {"notify", "waiting", "started", "loop"}
Queue == controls["client"]
BindTypes ==
    /\ bind \in Seq([req : Binds, conn_id : Nat]) /\ told \in [Binds -> Seq(BOOLEAN)]
    /\ next_conn_id \in Nat /\ bound \in 0..Len(bind) /\ worker_sockets \in BOOLEAN
    /\ Queue \in Seq([cmd : {"BIND"}, req : Binds])
OnceInv ==
    /\ \A i, j \in 1..Len(bind) : bind[i].req = bind[j].req => i = j
    /\ \A i, j \in 1..Len(Queue) : Queue[i].req = Queue[j].req => i = j
    /\ \A i \in 1..Len(Queue) : told[Queue[i].req] = <<>>
    /\ \A i \in 1..Len(Queue), j \in 1..Len(bind) : Queue[i].req # bind[j].req
ToldInv ==
    /\ \A b \in Binds : Len(told[b]) <= 1
    /\ ~worker_sockets => bound = 0 /\ \A b \in Binds : told[b] = <<>>
    /\ proxy \in Up \cup {"binding"} => worker_sockets
    /\ proxy = "binding" => \A i \in 1..Len(bind) : i > bound => told[bind[i].req] = <<>>
SocketInv ==
    /\ \A c \in DOMAIN connections :
          LET l == connections[c] IN
          /\ c \in Nat /\ c < next_conn_id
          /\ l.domain \in Nat /\ l.domain + 1 \in 1..Len(bind)
          /\ bind[l.domain + 1] = [req |-> l.req, conn_id |-> c]
          /\ told[l.req] = <<TRUE>>
    /\ proxy = "binding" => \A i \in 1..Len(bind) :
                               i <= bound => bind[i].conn_id \in DOMAIN connections
    /\ proxy \in Up => \A i \in 1..Len(bind) : bind[i].conn_id \in DOMAIN connections
BindInv == BindTypes /\ OnceInv /\ ToldInv /\ SocketInv

LEMMA BindInit == Init => BindInv
<1> SUFFICES ASSUME Init PROVE BindInv
  OBVIOUS
<1>1. /\ bind = <<>> /\ Queue = <<>> /\ DOMAIN connections = {} /\ bound = 0 /\ next_conn_id = 1
      /\ \A b \in Binds : told[b] = <<>>
      /\ told = [b \in Binds |-> <<>>] /\ worker_sockets = FALSE /\ proxy = "none"
  BY DEF Init, Queue
<1>2. BindTypes
  <2>1. /\ <<>> \in Seq([req : Binds, conn_id : Nat]) /\ <<>> \in Seq([cmd : {"BIND"}, req : Binds])
        /\ <<>> \in Seq(BOOLEAN) /\ Len(<<>>) = 0
    OBVIOUS
  <2>2. told \in [Binds -> Seq(BOOLEAN)]
    BY <1>1, <2>1
  <2>3. bound \in 0..Len(bind) /\ next_conn_id \in Nat
    BY <1>1, <2>1
  <2> QED BY <1>1, <2>1, <2>2, <2>3 DEF BindTypes
<1> QED BY <1>1, <1>2 DEF BindInv, OnceInv, ToldInv, SocketInv, Up

LEMMA SeqFacts ==
    ASSUME NEW S, NEW s \in Seq(S)
    PROVE  Len(s) \in Nat /\ DOMAIN s = 1..Len(s) /\ \A i \in 1..Len(s) : s[i] \in S
OBVIOUS

LEMMA AppendFacts ==
    ASSUME NEW S, NEW s \in Seq(S), NEW x \in S
    PROVE  /\ Len(Append(s, x)) = Len(s) + 1 /\ Append(s, x) \in Seq(S)
           /\ \A i \in 1..Len(s) : Append(s, x)[i] = s[i]
           /\ Append(s, x)[Len(s) + 1] = x
OBVIOUS

LEMMA UpToNext ==
    ASSUME NEW n \in Nat
    PROVE  /\ \A i \in 1..n : i \in 1..(n + 1)
           /\ n + 1 \in 1..(n + 1) /\ \A i \in 1..(n + 1) : i \in 1..n \/ i = n + 1
OBVIOUS

LEMMA BindFacts ==
    ASSUME BindInv
    PROVE  /\ Len(bind) \in Nat /\ bound \in Nat /\ bound <= Len(bind) /\ next_conn_id \in Nat
           /\ \A i \in 1..Len(bind) : bind[i] \in [req : Binds, conn_id : Nat] /\ bind[i].req \in Binds
           /\ Len(Queue) \in Nat /\ \A i \in 1..Len(Queue) : Queue[i].req \in Binds
<1>1. Len(bind) \in Nat /\ \A i \in 1..Len(bind) : bind[i] \in [req : Binds, conn_id : Nat]
  BY SeqFacts DEF BindInv, BindTypes
<1>2. bound \in Nat /\ bound <= Len(bind) /\ next_conn_id \in Nat
  BY <1>1 DEF BindInv, BindTypes
<1>3. Len(Queue) \in Nat /\ \A i \in 1..Len(Queue) : Queue[i] \in [cmd : {"BIND"}, req : Binds]
  BY SeqFacts DEF BindInv, BindTypes
<1> QED BY <1>1, <1>2, <1>3

(* A step that leaves the listeners alone, wherever the proxy goes *)
LEMMA BindStays ==
    ASSUME BindInv, UNCHANGED <<bindings, worker_sockets, Queue>>,
           proxy' = "binding" => proxy = "binding",
           proxy' \in Up => proxy \in Up \/ (proxy = "binding" /\ bound = Len(bind))
    PROVE  BindInv'
<1>1. BindTypes' /\ OnceInv' /\ ToldInv'
  BY DEF BindInv, BindTypes, OnceInv, ToldInv, bindings, Queue
<1>2. proxy' \in Up => \A i \in 1..Len(bind) : bind[i].conn_id \in DOMAIN connections
  <2>1. CASE proxy \in Up
    BY <2>1 DEF BindInv, SocketInv
  <2>2. CASE proxy = "binding" /\ bound = Len(bind)
    <3>1. \A i \in 1..Len(bind) : i <= bound
      BY <2>2 DEF BindInv, BindTypes
    <3> QED BY <2>2, <3>1 DEF BindInv, SocketInv
  <2> QED BY <2>1, <2>2
<1>3. SocketInv'
  BY <1>2 DEF BindInv, SocketInv, bindings
<1> QED BY <1>1, <1>3 DEF BindInv

LEMMA NotAsked ==
    ASSUME BindInv, NEW b \in Binds, b \notin Asked, DOMAIN controls = {"main", "client"}
    PROVE  /\ \A i \in 1..Len(bind) : bind[i].req # b
           /\ \A i \in 1..Len(Queue) : Queue[i].req # b
           /\ told[b] = <<>>
<1>1. DOMAIN bind = 1..Len(bind) /\ DOMAIN Queue = 1..Len(Queue)
  BY DEF BindInv, BindTypes
<1>2. \A i \in DOMAIN bind : bind[i].req \in Asked
  BY DEF Asked
<1>3. \A i \in DOMAIN Queue : Queue[i].req \in Asked
  <2> PICK K : K = DOMAIN controls
    OBVIOUS
  <2>1. "client" \in K
    OBVIOUS
  <2>2. ASSUME NEW i \in DOMAIN controls["client"]
        PROVE  controls["client"][i].req \in {controls["client"][j].req : j \in DOMAIN controls["client"]}
    OBVIOUS
  <2>3. ASSUME NEW i \in DOMAIN controls["client"]
        PROVE  controls["client"][i].req
                   \in UNION {{controls[c][j].req : j \in DOMAIN controls[c]} : c \in DOMAIN controls}
    BY <2>1, <2>2
  <2> QED BY <2>3 DEF Queue, Asked
<1>4. told[b] # <<>> => b \in Asked
  BY DEF Asked
<1> QED BY <1>1, <1>2, <1>3, <1>4

(* listen() before start() *)
LEMMA ListenAppends ==
    ASSUME BindInv, NEW b \in Binds, b \notin Asked, proxy \in {"none", "ended"},
           DOMAIN controls = {"main", "client"},
           bind' = Append(bind, [req |-> b, conn_id |-> 0]),
           UNCHANGED <<connections, next_conn_id, told, bound, worker_sockets, controls, proxy>>
    PROVE  BindInv'
<1>1. /\ \A i \in 1..Len(bind) : bind[i].req # b
      /\ \A i \in 1..Len(Queue) : Queue[i].req # b
      /\ told[b] = <<>>
  BY NotAsked
<1>2. /\ Len(bind') = Len(bind) + 1 /\ Len(bind) \in Nat
      /\ \A i \in 1..Len(bind) : bind'[i] = bind[i]
      /\ bind'[Len(bind) + 1] = [req |-> b, conn_id |-> 0]
      /\ bind' \in Seq([req : Binds, conn_id : Nat])
  BY DEF BindInv, BindTypes
<1>3. BindTypes'
  BY <1>2 DEF BindInv, BindTypes, Queue
<1>4. OnceInv'
  BY <1>1, <1>2 DEF BindInv, OnceInv, Queue
<1>5. ToldInv'
  BY DEF BindInv, ToldInv
<1>6. SocketInv'
  <2>1. \A i \in 1..Len(bind) : i \in 1..Len(bind')
    BY <1>2
  <2>2. proxy' # "binding" /\ proxy' \notin Up
    BY DEF Up
  <2> QED BY <1>2, <2>1, <2>2 DEF BindInv, SocketInv
<1> QED BY <1>3, <1>4, <1>5, <1>6 DEF BindInv

(* listen() afterwards *)
LEMMA ListenPosts ==
    ASSUME BindInv, NEW b \in Binds, b \notin Asked,
           DOMAIN controls = {"main", "client"},
           controls' = [controls EXCEPT !["client"] = Append(@, [cmd |-> "BIND", req |-> b])],
           UNCHANGED <<bindings, worker_sockets, proxy>>
    PROVE  BindInv'
<1>1. /\ \A i \in 1..Len(bind) : bind[i].req # b
      /\ \A i \in 1..Len(Queue) : Queue[i].req # b
      /\ told[b] = <<>>
  BY NotAsked
<1> PICK m : m = [cmd |-> "BIND", req |-> b]
  OBVIOUS
<1>2. Queue' = Append(Queue, m) /\ m \in [cmd : {"BIND"}, req : Binds] /\ m.req = b
  BY DEF Queue
<1>3. /\ Len(Queue') = Len(Queue) + 1 /\ Len(Queue) \in Nat
      /\ \A i \in 1..Len(Queue) : Queue'[i] = Queue[i]
      /\ Queue'[Len(Queue) + 1] = m
      /\ Queue' \in Seq([cmd : {"BIND"}, req : Binds])
  BY <1>2 DEF BindInv, BindTypes
<1>4. BindTypes' /\ ToldInv' /\ SocketInv'
  BY <1>3 DEF BindInv, BindTypes, ToldInv, SocketInv, bindings
<1>5. OnceInv'
  <2>1. \A i \in 1..Len(Queue') :
          \/ i \in 1..Len(Queue) /\ Queue'[i] = Queue[i]
          \/ i = Len(Queue) + 1 /\ Queue'[i].req = b
    BY <1>2, <1>3
  <2>2. \A i, j \in 1..Len(Queue') : Queue'[i].req = Queue'[j].req => i = j
    BY <1>1, <2>1 DEF BindInv, OnceInv
  <2> QED BY <1>1, <2>1, <2>2 DEF BindInv, OnceInv, bindings
<1> QED BY <1>4, <1>5 DEF BindInv

LEMMA SocketsMade == ASSUME BindInv, UNCHANGED Queue, InitSockets PROVE BindInv'
<1>1. CASE worker_sockets
  <2>1. UNCHANGED <<bindings, worker_sockets, Queue>> /\ proxy' = "ended"
    BY <1>1 DEF InitSockets, bindings
  <2> QED BY <2>1, BindStays DEF Up
<1>2. CASE ~worker_sockets
  <2>1. /\ worker_sockets' = TRUE /\ next_conn_id' = next_conn_id + 1 /\ proxy' = "binding"
        /\ UNCHANGED <<bind, connections, told, bound>>
        /\ bound = 0 /\ \A b \in Binds : told[b] = <<>>
    BY <1>2 DEF InitSockets, BindInv, ToldInv
  <2>2. BindTypes' /\ OnceInv'
    BY <2>1 DEF BindInv, BindTypes, OnceInv
  <2>3. ToldInv'
    <3>1. \A i \in 1..Len(bind) : bind[i].req \in Binds
      BY BindFacts
    <3> QED BY <2>1, <3>1 DEF BindInv, ToldInv
  <2>4. SocketInv'
    <3>1. next_conn_id \in Nat /\ \A c \in Nat : c < next_conn_id => c < next_conn_id + 1
      BY DEF BindInv, BindTypes
    <3>2. Len(bind) \in Nat /\ \A i \in 1..Len(bind) : ~(i <= bound)
      BY <2>1 DEF BindInv, BindTypes
    <3>3. proxy' \notin Up
      BY <2>1 DEF Up
    <3> QED BY <2>1, <3>1, <3>2, <3>3 DEF BindInv, SocketInv
  <2> QED BY <2>2, <2>3, <2>4 DEF BindInv
<1> QED BY <1>1, <1>2

(* What proxy_bind does for a request that nobody was told about *)
Tells(b, n, good) ==
    /\ told' \in [Binds -> Seq(BOOLEAN)] /\ told'[b] = <<good>>
    /\ \A x \in Binds : x # b => told'[x] = told[x]
    /\ \A x \in Binds : Len(told'[x]) <= 1
    /\ \A c \in DOMAIN connections : connections[c].req # b
    /\ good =>
          /\ next_conn_id' = next_conn_id + 1
          /\ DOMAIN connections' = DOMAIN connections \cup {next_conn_id}
          /\ next_conn_id \notin DOMAIN connections
          /\ connections'[next_conn_id] = [req |-> b, domain |-> n]
          /\ \A c \in DOMAIN connections : connections'[c] = connections[c]
    /\ ~good => UNCHANGED <<next_conn_id, connections>>

LEMMA BindTells ==
    ASSUME BindInv, NEW b \in Binds, told[b] = <<>>, NEW n \in Nat, NEW good \in BOOLEAN,
           proxy_bind(b, n, good)
    PROVE  Tells(b, n, good)
<1>1. Append(<<>>, good) = <<good>> /\ Len(<<good>>) = 1 /\ <<good>> \in Seq(BOOLEAN) /\ <<TRUE>> # <<>>
  OBVIOUS
<1>2. /\ told \in [Binds -> Seq(BOOLEAN)]
      /\ told' = [told EXCEPT ![b] = Append(@, good)]
  BY DEF BindInv, BindTypes, proxy_bind
<1>3. /\ told' \in [Binds -> Seq(BOOLEAN)] /\ told'[b] = <<good>>
      /\ \A x \in Binds : x # b => told'[x] = told[x]
  BY <1>1, <1>2
<1>4. \A x \in Binds : Len(told'[x]) <= 1
  <2>1. \A x \in Binds : Len(told[x]) <= 1
    BY DEF BindInv, ToldInv
  <2>2. Len(told'[b]) <= 1
    BY <1>1, <1>3
  <2> TAKE x \in Binds
  <2>3. CASE x = b
    BY <2>2, <2>3
  <2>4. CASE x # b
    BY <1>3, <2>1, <2>4
  <2> QED BY <2>3, <2>4
<1>5. \A c \in DOMAIN connections : connections[c].req # b
  <2>1. \A c \in DOMAIN connections : told[connections[c].req] = <<TRUE>>
    BY DEF BindInv, SocketInv
  <2> QED BY <1>1, <2>1
<1>6. next_conn_id \notin DOMAIN connections
  <2>1. \A c \in DOMAIN connections : c \in Nat /\ c < next_conn_id
    BY DEF BindInv, SocketInv
  <2> QED BY <2>1, BindFacts
<1>7. good =>
          /\ next_conn_id' = next_conn_id + 1
          /\ DOMAIN connections' = DOMAIN connections \cup {next_conn_id}
          /\ connections'[next_conn_id] = [req |-> b, domain |-> n]
          /\ \A c \in DOMAIN connections : connections'[c] = connections[c]
  BY <1>6 DEF proxy_bind
<1>8. ~good => UNCHANGED <<next_conn_id, connections>>
  BY DEF proxy_bind
<1> QED BY <1>3, <1>4, <1>5, <1>6, <1>7, <1>8 DEF Tells

LEMMA InitBinds ==
    ASSUME BindInv, NEW good \in BOOLEAN, InitBind(good) PROVE BindInv'
<1> PICK n : n = bound + 1
  OBVIOUS
<1> PICK b : b = bind[n].req
  OBVIOUS
<1>1. /\ proxy = "binding" /\ bound \in Nat /\ n \in 1..Len(bind) /\ n > bound /\ Len(bind) \in Nat
      /\ bind[n] \in [req : Binds, conn_id : Nat] /\ b \in Binds /\ told[b] = <<>>
      /\ proxy_bind(b, bound, good) /\ UNCHANGED <<controls, worker_sockets>>
      /\ worker_sockets
  <2>1. /\ proxy = "binding" /\ bound \in Nat /\ n \in 1..Len(bind) /\ n > bound /\ Len(bind) \in Nat
        /\ bind[n] \in [req : Binds, conn_id : Nat]
    BY BindFacts DEF InitBind
  <2>2. proxy_bind(b, bound, good) /\ UNCHANGED <<controls, worker_sockets>>
    BY DEF InitBind
  <2>3. b \in Binds
    BY <2>1
  <2> QED BY <2>1, <2>2, <2>3 DEF BindInv, ToldInv
<1>2. /\ told' \in [Binds -> Seq(BOOLEAN)] /\ told'[b] = <<good>>
      /\ \A x \in Binds : x # b => told'[x] = told[x]
      /\ \A x \in Binds : Len(told'[x]) <= 1
      /\ \A c \in DOMAIN connections : connections[c].req # b
      /\ good =>
            /\ next_conn_id' = next_conn_id + 1
            /\ DOMAIN connections' = DOMAIN connections \cup {next_conn_id}
            /\ next_conn_id \notin DOMAIN connections
            /\ connections'[next_conn_id] = [req |-> b, domain |-> bound]
            /\ \A c \in DOMAIN connections : connections'[c] = connections[c]
      /\ ~good => UNCHANGED <<next_conn_id, connections>>
  <2>1. Tells(b, bound, good)
    BY <1>1, BindTells
  <2> QED BY <2>1 DEF Tells
<1>3. \A c \in DOMAIN connections : connections[c].req \in Binds /\ told'[connections[c].req] = <<TRUE>>
  <2>1. \A i \in 1..Len(bind) : bind[i].req \in Binds
    BY BindFacts
  <2> TAKE c \in DOMAIN connections
  <2> PICK l : l = connections[c]
    OBVIOUS
  <2>2. /\ l.domain + 1 \in 1..Len(bind) /\ bind[l.domain + 1] = [req |-> l.req, conn_id |-> c]
        /\ told[l.req] = <<TRUE>> /\ l.req # b
    BY <1>2 DEF BindInv, SocketInv
  <2>3. l.req \in Binds
    BY <2>1, <2>2
  <2> QED BY <1>2, <2>2, <2>3
<1>4. UNCHANGED Queue /\ \A i \in 1..Len(Queue) : Queue[i].req \in Binds /\ Queue[i].req # b
  <2>1. \A i \in 1..Len(Queue) : Queue[i].req # b
    BY <1>1 DEF BindInv, OnceInv
  <2> QED BY <1>1, <2>1, BindFacts DEF Queue
<1>5. CASE ~good
  <2>1. UNCHANGED <<bind, bound, next_conn_id, connections>> /\ proxy' = "ended"
    BY <1>2, <1>5 DEF InitBind
  <2>2. proxy' # "binding" /\ proxy' \notin Up
    BY <2>1 DEF Up
  <2>3. BindTypes'
    BY <1>1, <1>2, <1>4, <2>1 DEF BindInv, BindTypes
  <2>4. OnceInv'
    BY <1>2, <1>4, <2>1 DEF BindInv, OnceInv
  <2>5. ToldInv'
    BY <1>1, <1>2, <2>1, <2>2 DEF ToldInv
  <2>6. SocketInv'
    BY <1>3, <2>1, <2>2 DEF BindInv, SocketInv
  <2> QED BY <2>3, <2>4, <2>5, <2>6 DEF BindInv
<1>6. CASE good
  <2>1. bind' = [bind EXCEPT ![n].conn_id = next_conn_id] /\ bound' = n /\ proxy' = "binding"
    BY <1>1, <1>6 DEF InitBind
  <2>2. /\ Len(bind') = Len(bind) /\ bind' \in Seq([req : Binds, conn_id : Nat])
        /\ \A i \in 1..Len(bind) : i # n => bind'[i] = bind[i]
        /\ bind'[n] = [req |-> b, conn_id |-> next_conn_id]
    <3>1. bind \in Seq([req : Binds, conn_id : Nat]) /\ next_conn_id \in Nat
      BY DEF BindInv, BindTypes
    <3>2. /\ [bind[n] EXCEPT !.conn_id = next_conn_id] = [req |-> b, conn_id |-> next_conn_id]
          /\ [req |-> b, conn_id |-> next_conn_id] \in [req : Binds, conn_id : Nat]
      BY <1>1, <3>1
    <3>3. bind' = [bind EXCEPT ![n] = [req |-> b, conn_id |-> next_conn_id]]
      BY <2>1, <3>2
    <3> QED BY <1>1, <3>1, <3>2, <3>3
  <2>3. \A i \in 1..Len(bind) : bind'[i].req = bind[i].req
    <3>1. bind'[n].req = b
      BY <2>2
    <3> QED BY <2>2, <3>1, Zenon
  <2>4. BindTypes'
    <3>1. bound' \in 0..Len(bind') /\ next_conn_id' \in Nat
      BY <1>1, <1>2, <1>6, <2>1, <2>2, BindFacts
    <3> QED BY <1>1, <1>2, <1>4, <2>2, <3>1 DEF BindInv, BindTypes
  <2>5. OnceInv'
    <3>1. \A i \in 1..Len(Queue) : told'[Queue[i].req] = <<>>
      BY <1>2, <1>4 DEF BindInv, OnceInv
    <3> QED BY <1>4, <2>2, <2>3, <3>1 DEF BindInv, OnceInv
  <2>6. ToldInv'
    <3>1. \A i \in 1..Len(bind) : i > n => i > bound /\ bind[i].req # b /\ bind[i].req \in Binds
      <4>1. \A i \in 1..Len(bind) : i > n => i > bound /\ i # n
        BY <1>1
      <4> QED BY <1>1, <4>1, BindFacts DEF BindInv, OnceInv
    <3>2. \A i \in 1..Len(bind) : i > n => told'[bind[i].req] = <<>>
      BY <1>1, <1>2, <3>1 DEF BindInv, ToldInv
    <3> QED BY <1>1, <1>2, <2>1, <2>2, <2>3, <3>2 DEF ToldInv
  <2>7. SocketInv'
    <3>1. ASSUME NEW c \in DOMAIN connections
          PROVE  /\ c \in Nat /\ c < next_conn_id' /\ connections'[c] = connections[c]
                 /\ connections[c].domain \in Nat /\ connections[c].domain + 1 \in 1..Len(bind')
                 /\ bind'[connections[c].domain + 1] = [req |-> connections[c].req, conn_id |-> c]
      <4>1. /\ c \in Nat /\ c < next_conn_id
            /\ connections[c].domain \in Nat /\ connections[c].domain + 1 \in 1..Len(bind)
            /\ bind[connections[c].domain + 1] = [req |-> connections[c].req, conn_id |-> c]
        BY DEF BindInv, SocketInv
      <4>2. connections[c].domain + 1 # n
        BY <1>2, <4>1
      <4>3. c < next_conn_id'
        BY <1>2, <1>6, <4>1 DEF BindInv, BindTypes
      <4> QED BY <1>2, <1>6, <2>2, <4>1, <4>2, <4>3
    <3>2. next_conn_id \in Nat /\ next_conn_id < next_conn_id' /\ bound + 1 = n
      BY <1>2, <1>6 DEF BindInv, BindTypes
    <3>3. \A i \in 1..Len(bind) : i <= n => i <= bound \/ i = n
      BY <1>1
    <3>4. \A i \in 1..Len(bind') : i <= bound' => bind'[i].conn_id \in DOMAIN connections'
      BY <1>1, <1>2, <1>6, <2>1, <2>2, <3>3 DEF BindInv, SocketInv
    <3>5. proxy' \notin Up
      BY <2>1 DEF Up
    <3>6. ASSUME NEW c \in DOMAIN connections'
          PROVE  /\ c \in Nat /\ c < next_conn_id'
                 /\ connections'[c].domain \in Nat /\ connections'[c].domain + 1 \in 1..Len(bind')
                 /\ bind'[connections'[c].domain + 1] = [req |-> connections'[c].req, conn_id |-> c]
                 /\ told'[connections'[c].req] = <<TRUE>>
      <4>1. CASE c \in DOMAIN connections
        BY <1>3, <3>1, <4>1
      <4>2. CASE c = next_conn_id
        <5> PICK l : l = connections'[c]
          OBVIOUS
        <5>1. l = [req |-> b, domain |-> bound]
          BY <1>2, <1>6, <4>2, Zenon
        <5>2. l.req = b /\ l.domain = bound
          BY <5>1
        <5> QED BY <1>1, <1>2, <1>6, <2>2, <3>2, <4>2, <5>2
      <4> QED BY <1>2, <1>6, <4>1, <4>2
    <3> QED BY <3>4, <3>5, <3>6 DEF SocketInv
  <2> QED BY <2>4, <2>5, <2>6, <2>7 DEF BindInv
<1> QED BY <1>5, <1>6

LEMMA ControlBinds ==
    ASSUME BindInv, DOMAIN controls = {"main", "client"}, NEW good \in BOOLEAN, ControlBind(good)
    PROVE  BindInv'
<1> PICK n : n = Len(bind)
  OBVIOUS
<1> PICK b : b = Queue[1].req
  OBVIOUS
<1>1. /\ Queue # <<>> /\ Queue' = Tail(Queue) /\ proxy = "loop" /\ n \in Nat
      /\ UNCHANGED <<bound, worker_sockets, proxy>>
  BY BindFacts DEF ControlBind, Receives, Queue
<1>2. /\ 1 \in 1..Len(Queue) /\ Head(Queue) = Queue[1] /\ Len(Queue') \in Nat
      /\ \A i \in 1..Len(Queue') :
            i + 1 \in 1..Len(Queue) /\ i + 1 # 1 /\ Queue'[i] = Queue[i + 1]
      /\ Queue' \in Seq([cmd : {"BIND"}, req : Binds])
  <2> PICK M : M = [cmd : {"BIND"}, req : Binds]
    OBVIOUS
  <2>1. Queue \in Seq(M)
    BY DEF BindInv, BindTypes
  <2>2. ASSUME NEW S, NEW q \in Seq(S), q # <<>>
        PROVE  /\ 1 \in 1..Len(q) /\ Head(q) = q[1] /\ Len(Tail(q)) \in Nat
               /\ \A i \in 1..Len(Tail(q)) : i + 1 \in 1..Len(q) /\ i + 1 # 1 /\ Tail(q)[i] = q[i + 1]
               /\ Tail(q) \in Seq(S)
    BY <2>2
  <2> QED BY <1>1, <2>1, <2>2
<1>3. /\ b \in Binds /\ told[b] = <<>> /\ \A j \in 1..n : bind[j].req # b
      /\ proxy_bind(b, n, good)
      /\ bind' = IF good THEN Append(bind, [req |-> b, conn_id |-> next_conn_id]) ELSE bind
  <2>1. b \in Binds
    BY <1>2, BindFacts
  <2>2. told[b] = <<>> /\ \A j \in 1..n : bind[j].req # b
    BY <1>2 DEF BindInv, OnceInv
  <2>3. Head(controls["client"]).req = b
    BY <1>2 DEF Queue
  <2>4. proxy_bind(b, BindIndex(n), good)
    BY <2>3 DEF ControlBind
  <2> QED BY <2>1, <2>2, <2>3, <2>4 DEF ControlBind, BindIndex
<1>4. /\ told' \in [Binds -> Seq(BOOLEAN)] /\ told'[b] = <<good>>
      /\ \A x \in Binds : x # b => told'[x] = told[x]
      /\ \A x \in Binds : Len(told'[x]) <= 1
      /\ \A c \in DOMAIN connections : connections[c].req # b
      /\ good =>
            /\ next_conn_id' = next_conn_id + 1
            /\ DOMAIN connections' = DOMAIN connections \cup {next_conn_id}
            /\ next_conn_id \notin DOMAIN connections
            /\ connections'[next_conn_id] = [req |-> b, domain |-> n]
            /\ \A c \in DOMAIN connections : connections'[c] = connections[c]
      /\ ~good => UNCHANGED <<next_conn_id, connections>>
  <2>1. Tells(b, n, good)
    BY <1>1, <1>3, BindTells
  <2> QED BY <2>1 DEF Tells
<1>5. \A c \in DOMAIN connections : connections[c].req \in Binds /\ told'[connections[c].req] = <<TRUE>>
  <2>1. \A i \in 1..Len(bind) : bind[i].req \in Binds
    BY BindFacts
  <2> TAKE c \in DOMAIN connections
  <2> PICK l : l = connections[c]
    OBVIOUS
  <2>2. /\ l.domain + 1 \in 1..Len(bind) /\ bind[l.domain + 1] = [req |-> l.req, conn_id |-> c]
        /\ told[l.req] = <<TRUE>> /\ l.req # b
    BY <1>4 DEF BindInv, SocketInv
  <2>3. l.req \in Binds
    BY <2>1, <2>2
  <2> QED BY <1>4, <2>2, <2>3
<1>6. /\ \A i, j \in 1..Len(Queue') : Queue'[i].req = Queue'[j].req => i = j
      /\ \A i \in 1..Len(Queue') :
            /\ Queue'[i].req \in Binds /\ Queue'[i].req # b /\ told'[Queue'[i].req] = <<>>
            /\ \A j \in 1..n : Queue'[i].req # bind[j].req
  <2>1. ASSUME NEW i \in 1..Len(Queue'), NEW j \in 1..Len(Queue'), Queue'[i].req = Queue'[j].req
        PROVE  i = j
    <3>1. i + 1 = j + 1
      BY <1>2, <2>1 DEF BindInv, OnceInv
    <3> QED BY <3>1
  <2>2. ASSUME NEW i \in 1..Len(Queue') PROVE Queue'[i].req \in Binds /\ Queue'[i].req # b
    BY <1>2, BindFacts DEF BindInv, OnceInv
  <2>3. ASSUME NEW i \in 1..Len(Queue')
        PROVE  told'[Queue'[i].req] = <<>> /\ \A j \in 1..n : Queue'[i].req # bind[j].req
    <3>1. /\ told[Queue[i + 1].req] = <<>> /\ Queue'[i] = Queue[i + 1]
          /\ \A j \in 1..n : Queue[i + 1].req # bind[j].req
      BY <1>2 DEF BindInv, OnceInv
    <3> QED BY <1>4, <2>2, <3>1
  <2> QED BY <2>1, <2>2, <2>3
<1>7. proxy' \in Up /\ proxy' # "binding" /\ worker_sockets
  BY <1>1 DEF Up, BindInv, ToldInv
<1>8. ToldInv'
  BY <1>1, <1>4, <1>7 DEF ToldInv
<1>9. CASE ~good
  <2>1. UNCHANGED <<bind, bound, next_conn_id, connections>>
    BY <1>1, <1>3, <1>4, <1>9
  <2>2. BindTypes'
    BY <1>1, <1>2, <1>4, <2>1 DEF BindInv, BindTypes
  <2>3. OnceInv'
    BY <1>6, <2>1 DEF BindInv, OnceInv
  <2>4. SocketInv'
    BY <1>1, <1>5, <2>1 DEF BindInv, SocketInv
  <2> QED BY <1>8, <2>2, <2>3, <2>4 DEF BindInv
<1>10. CASE good
  <2> PICK e : e = [req |-> b, conn_id |-> next_conn_id]
    OBVIOUS
  <2>0. /\ next_conn_id' = next_conn_id + 1 /\ bind' = Append(bind, e)
        /\ DOMAIN connections' = DOMAIN connections \cup {next_conn_id}
        /\ connections'[next_conn_id] = [req |-> b, domain |-> n]
        /\ \A c \in DOMAIN connections : connections'[c] = connections[c]
    BY <1>3, <1>4, <1>10, Zenon
  <2>1. /\ Len(bind') = n + 1 /\ bind' \in Seq([req : Binds, conn_id : Nat])
        /\ \A i \in 1..n : i \in 1..Len(bind') /\ bind'[i] = bind[i]
        /\ n + 1 \in 1..Len(bind') /\ bind'[n + 1] = e
        /\ \A i \in 1..Len(bind') : i \in 1..n \/ i = n + 1
    <3>1. bind \in Seq([req : Binds, conn_id : Nat]) /\ e \in [req : Binds, conn_id : Nat]
      BY <1>3 DEF BindInv, BindTypes
    <3> PICK S : S = [req : Binds, conn_id : Nat]
      OBVIOUS
    <3>2. /\ Len(Append(bind, e)) = Len(bind) + 1 /\ Append(bind, e) \in Seq(S)
          /\ \A i \in 1..Len(bind) : Append(bind, e)[i] = bind[i]
          /\ Append(bind, e)[Len(bind) + 1] = e
      <4>1. bind \in Seq(S) /\ e \in S
        BY <3>1
      <4> QED BY <4>1, AppendFacts
    <3>3. /\ Len(bind') = n + 1 /\ bind' \in Seq([req : Binds, conn_id : Nat])
          /\ \A i \in 1..n : bind'[i] = bind[i]
          /\ bind'[n + 1] = e
      BY <2>0, <3>2, Zenon
    <3>4. /\ \A i \in 1..n : i \in 1..(n + 1)
          /\ n + 1 \in 1..(n + 1) /\ \A i \in 1..(n + 1) : i \in 1..n \/ i = n + 1
      BY <1>1, UpToNext
    <3> QED BY <3>3, <3>4, Zenon
  <2>2. e.req = b /\ e.conn_id = next_conn_id
    OBVIOUS
  <2>3. BindTypes'
    <3>1. bound' \in 0..Len(bind') /\ next_conn_id' \in Nat
      BY <1>1, <1>4, <1>10, <2>1, BindFacts
    <3> QED BY <1>1, <1>2, <1>4, <2>1, <3>1 DEF BindInv, BindTypes
  <2>4. OnceInv'
    <3>1. ASSUME NEW i \in 1..Len(bind'), NEW j \in 1..Len(bind'), bind'[i].req = bind'[j].req
          PROVE  i = j
      <4>1. \A k \in 1..n : bind'[k].req # b /\ bind'[k] = bind[k]
        BY <1>3, <2>1, Zenon
      <4>2. bind'[n + 1].req = b
        BY <2>1, <2>2, Zenon
      <4>3. i \in 1..n <=> j \in 1..n
        BY <2>1, <3>1, <4>1, <4>2, Zenon
      <4>4. CASE i \in 1..n /\ j \in 1..n
        BY <3>1, <4>1, <4>4, Zenon DEF BindInv, OnceInv
      <4> QED BY <2>1, <4>3, <4>4, Zenon
    <3>2. ASSUME NEW i \in 1..Len(Queue'), NEW j \in 1..Len(bind') PROVE Queue'[i].req # bind'[j].req
      <4>1. CASE j \in 1..n
        BY <1>6, <2>1, <4>1
      <4>2. CASE j = n + 1
        BY <1>6, <2>1, <2>2, <4>2
      <4> QED BY <2>1, <4>1, <4>2
    <3> QED BY <1>6, <3>1, <3>2 DEF OnceInv
  <2>5. ASSUME NEW c \in DOMAIN connections
        PROVE  /\ c \in Nat /\ c < next_conn_id' /\ connections'[c] = connections[c]
               /\ connections[c].domain \in Nat /\ connections[c].domain + 1 \in 1..Len(bind')
               /\ bind'[connections[c].domain + 1] = [req |-> connections[c].req, conn_id |-> c]
    <3>1. /\ c \in Nat /\ c < next_conn_id
          /\ connections[c].domain \in Nat /\ connections[c].domain + 1 \in 1..n
          /\ bind[connections[c].domain + 1] = [req |-> connections[c].req, conn_id |-> c]
      BY DEF BindInv, SocketInv
    <3>2. c < next_conn_id'
      BY <2>0, <3>1, BindFacts
    <3> QED BY <2>0, <2>1, <3>1, <3>2
  <2>6. ASSUME NEW c \in DOMAIN connections'
        PROVE  /\ c \in Nat /\ c < next_conn_id'
               /\ connections'[c].domain \in Nat /\ connections'[c].domain + 1 \in 1..Len(bind')
               /\ bind'[connections'[c].domain + 1] = [req |-> connections'[c].req, conn_id |-> c]
               /\ told'[connections'[c].req] = <<TRUE>>
    <3>1. CASE c \in DOMAIN connections
      BY <1>5, <2>5, <3>1
    <3>2. CASE c = next_conn_id
      <4> PICK l : l = connections'[c]
        OBVIOUS
      <4>1. l.req = b /\ l.domain = n
        BY <2>0, <3>2
      <4>2. c \in Nat /\ c < next_conn_id'
        BY <2>0, <3>2, BindFacts
      <4> QED BY <1>1, <1>4, <1>10, <2>1, <3>2, <4>1, <4>2
    <3>3. c \in DOMAIN connections \/ c = next_conn_id
      BY <2>0
    <3> QED BY <3>1, <3>2, <3>3
  <2>7. \A i \in 1..Len(bind') : bind'[i].conn_id \in DOMAIN connections'
    <3>1. \A i \in 1..n : bind[i].conn_id \in DOMAIN connections
      BY <1>1 DEF BindInv, SocketInv, Up
    <3> QED BY <2>0, <2>1, <2>2, <3>1
  <2>8. SocketInv'
    BY <1>7, <2>6, <2>7 DEF SocketInv
  <2> QED BY <1>8, <2>3, <2>4, <2>8 DEF BindInv
<1> QED BY <1>9, <1>10

LEMMA BindStep == ASSUME MainInv, BindInv, [Next]_vars PROVE BindInv'
<1>1. DOMAIN controls = {"main", "client"}
  BY DEF MainInv
<1>2. ASSUME NEW b \in Binds, listen(b) PROVE BindInv'
  <2>1. CASE Joinable
    BY <1>1, <1>2, <2>1, ListenPosts DEF listen, bindings
  <2>2. CASE ~Joinable
    <3>1. proxy \in {"none", "ended"}
      BY <2>2 DEF Joinable, MainInv
    <3> QED BY <1>1, <1>2, <2>2, <3>1, ListenAppends DEF listen
  <2> QED BY <2>1, <2>2
<1>3. ASSUME UNCHANGED <<bindings, worker_sockets, Queue>>, proxy' \in {proxy, "init", "ended"}
      PROVE  BindInv'
  <2>1. (proxy' = "binding" => proxy = "binding") /\ (proxy' \in Up => proxy \in Up)
    BY <1>3 DEF Up
  <2> QED BY <1>3, <2>1, BindStays
<1>4. ASSUME UNCHANGED <<bindings, worker_sockets, Queue>>, proxy \in Up, proxy' \in Up PROVE BindInv'
  <2>1. proxy' # "binding"
    BY <1>4 DEF Up
  <2> QED BY <1>4, <2>1, BindStays
<1>5. ASSUME UNCHANGED <<bindings, worker_sockets, controls>>, proxy' \in {proxy, "init", "ended"}
      PROVE  BindInv'
  BY <1>3, <1>5 DEF Queue
<1>6. ASSUME NEW c, NEW cmd, c = "main", Receives(c, cmd), UNCHANGED <<bindings, worker_sockets, proxy>>
      PROVE  BindInv'
  <2>1. UNCHANGED Queue
    BY <1>1, <1>6 DEF Receives, Queue
  <2> QED BY <1>3, <1>6, <2>1
<1>7. CASE StartProceeds \/ DestroyRunning
  <2>1. UNCHANGED Queue
    BY <1>1, <1>7 DEF StartProceeds, DestroyRunning, Queue
  <2>2. UNCHANGED <<bindings, worker_sockets, proxy>>
    BY <1>7 DEF StartProceeds, DestroyRunning
  <2> QED BY <1>3, <2>1, <2>2
<1>8. CASE start
  BY <1>5, <1>8 DEF start
<1>9. CASE \/ DestroyUnstarted \/ StartFails \/ StartReturns \/ Destroyed \/ DestroyNotify
           \/ DestroyJoins \/ Terminated \/ UNCHANGED vars
  <2>1. UNCHANGED <<bindings, worker_sockets, controls, proxy>>
    BY <1>9 DEF DestroyUnstarted, StartFails, StartReturns, Destroyed, DestroyNotify, DestroyJoins,
                Terminated, vars, calls
  <2> QED BY <1>5, <2>1
<1>10. ASSUME NEW x, NEW y, add_category(x) \/ add_command(x) \/ add_command_alias(x, y)
                            \/ add_tagged_thread(x)
       PROVE  BindInv'
  <2>1. UNCHANGED <<bindings, worker_sockets, controls, proxy>>
    BY <1>10 DEF add_category, add_command, add_command_alias, add_tagged_thread, calls
  <2> QED BY <1>5, <2>1
<1>11. ASSUME NEW t, InitStarting(t) \/ WorkerRan(t) \/ WorkerQuitting(t) \/ Thread(t) \/ TaggedWakes(t)
                     \/ RunTagged(t)
       PROVE  BindInv'
  <2>1. UNCHANGED <<bindings, worker_sockets, controls, proxy>>
    BY <1>11, ThreadKeeps DEF InitStarting, WorkerRan, WorkerQuitting, calls
  <2> QED BY <1>5, <2>1
<1>12. CASE InitSockets
  BY <1>12, SocketsMade DEF InitSockets, Queue
<1>13. CASE InitGo
  <2>1. /\ UNCHANGED <<bindings, worker_sockets, Queue>> /\ proxy' \in {"notify", "started"}
        /\ proxy = "binding" /\ bound = Len(bind)
    BY <1>13 DEF InitGo, calls, Queue
  <2> QED BY <2>1, BindStays
<1>14. CASE InitNotify \/ InitStart \/ InitReturns
  <2>1. UNCHANGED <<bindings, worker_sockets, Queue>> /\ proxy \in Up /\ proxy' \in Up
    BY <1>14 DEF InitNotify, InitStart, InitReturns, calls, Queue, Up
  <2> QED BY <1>4, <2>1
<1>15. CASE ControlStart \/ ControlQuit
  BY <1>6, <1>15 DEF ControlStart, ControlQuit
<1>16. ASSUME NEW good \in BOOLEAN, InitBind(good) \/ ControlBind(good) PROVE BindInv'
  BY <1>1, <1>16, InitBinds, ControlBinds
<1>17. CASE proxy_quit
  <2>1. /\ DOMAIN connections' = {} /\ proxy' = "ended"
        /\ UNCHANGED <<bind, next_conn_id, told, bound, controls, worker_sockets>>
    BY <1>17 DEF proxy_quit, calls
  <2>2. proxy' # "binding" /\ proxy' \notin Up
    BY <2>1 DEF Up
  <2>3. BindTypes' /\ OnceInv'
    BY <2>1 DEF BindInv, BindTypes, OnceInv, Queue
  <2>4. ToldInv' /\ SocketInv'
    BY <2>1, <2>2 DEF BindInv, ToldInv, SocketInv
  <2> QED BY <2>3, <2>4 DEF BindInv
<1>18. CASE Setup
  BY <1>2, <1>7, <1>8, <1>9, <1>10, <1>18 DEF Setup
<1>19. CASE Main
  BY <1>7, <1>9, <1>19 DEF Main
<1>20. CASE Proxy
  BY <1>11, <1>12, <1>13, <1>14, <1>15, <1>16, <1>17, <1>20 DEF Proxy
<1> QED BY <1>9, <1>11, <1>18, <1>19, <1>20 DEF Next

(***************************************************************************)
(* For any number of listeners, and however binding them goes, the ZAP     *)
(* domain of a socket is the index of its own entry, on_bind is called     *)
(* once and with the truth, and a start() that returned has bound them     *)
(* all.  (proxy_bind, proxy_loop_init, listen_curve, listen_plain)         *)
(***************************************************************************)
THEOREM ListenersAreExact == Spec => []BindsExact
<1>1. Init => MainInv /\ BindInv
  BY MainInit, BindInit
<1>2. MainInv /\ BindInv /\ [Next]_vars => MainInv' /\ BindInv'
  BY MainStep, BindStep
<1>3. MainInv /\ BindInv => BindsExact
  <2> SUFFICES ASSUME MainInv, BindInv PROVE BindsExact
    OBVIOUS
  <2>1. DOMAIN bind = 1..Len(bind)
    BY SeqFacts DEF BindInv, BindTypes
  <2>2. main = "running" => proxy \in Up
    BY DEF MainInv, Up
  <2>3. main = "running" => \A i \in 1..Len(bind) : bind[i].conn_id \in DOMAIN connections
    BY <2>2 DEF BindInv, SocketInv
  <2>4. \A b \in Binds : Len(told[b]) <= 1
    BY DEF BindInv, ToldInv
  <2> QED BY <2>1, <2>3, <2>4 DEF BindInv, SocketInv, BindsExact
<1> QED BY <1>1, <1>2, <1>3, PTL DEF Spec
=============================================================================
