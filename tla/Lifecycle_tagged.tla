-------------------------- MODULE Lifecycle_tagged --------------------------
(***************************************************************************)
(* Proofs about Lifecycle: the tagged threads, any number of them and of   *)
(* jobs for them; the bound MaxJobs plays no part.                         *)
(***************************************************************************)
EXTENDS Lifecycle_proofs

(***************************************************************************)
(* QUIT is sent once, and until it is handled max_workers is not zero.     *)
(***************************************************************************)
FromMain == controls["main"]
QuitInv ==
    /\ \A i \in 1..Len(FromMain) : FromMain[i].cmd = "QUIT" => max_workers
    /\ \A i, j \in 1..Len(FromMain) : FromMain[i].cmd = "QUIT" /\ FromMain[j].cmd = "QUIT" => i = j

LEMMA QuitInit == Init => QuitInv
<1> SUFFICES ASSUME Init PROVE QuitInv
  OBVIOUS
<1>1. FromMain = <<>>
  BY DEF Init, FromMain
<1> QED BY <1>1 DEF QuitInv

LEMMA QuitPost ==
    ASSUME MainInv, QuitInv, NEW m \in Controls, FromMain' = Append(FromMain, m), UNCHANGED max_workers,
           m.cmd = "QUIT" => max_workers /\ \A i \in 1..Len(FromMain) : FromMain[i].cmd # "QUIT"
    PROVE  QuitInv'
<1>1. FromMain \in Seq(Controls)
  BY DEF MainInv, FromMain
<1>2. \A i \in 1..Len(FromMain') :
          \/ i \in 1..Len(FromMain) /\ FromMain'[i] = FromMain[i]
          \/ i = Len(FromMain) + 1 /\ FromMain'[i] = m
  BY <1>1
<1>3. \A i \in 1..Len(FromMain') : FromMain'[i].cmd = "QUIT" => max_workers'
  BY <1>2 DEF QuitInv
<1>4. \A i, j \in 1..Len(FromMain') : FromMain'[i].cmd = "QUIT" /\ FromMain'[j].cmd = "QUIT" => i = j
  BY <1>2 DEF QuitInv
<1> QED BY <1>3, <1>4 DEF QuitInv

LEMMA QuitTake ==
    ASSUME MainInv, QuitInv, NEW cmd, Receives("main", cmd),
           cmd # "QUIT" => UNCHANGED max_workers
    PROVE  QuitInv' /\ (cmd = "QUIT" => max_workers)
<1>1. /\ FromMain \in Seq(Controls) /\ FromMain # <<>> /\ FromMain' = Tail(FromMain) /\ Head(FromMain).cmd = cmd
  BY DEF MainInv, FromMain, Receives
<1>2. /\ 1 \in 1..Len(FromMain) /\ FromMain[1].cmd = cmd
      /\ \A i \in 1..Len(FromMain') :
            /\ i \in Nat /\ i + 1 \in 1..Len(FromMain) /\ i + 1 # 1
            /\ FromMain'[i] = FromMain[i + 1]
  BY <1>1
<1>3. CASE cmd = "QUIT"
  <2>1. \A i \in 1..Len(FromMain') : FromMain'[i].cmd # "QUIT"
    BY <1>2, <1>3 DEF QuitInv
  <2> QED BY <1>2, <1>3, <2>1 DEF QuitInv
<1>4. CASE cmd # "QUIT"
  <2>1. \A i \in 1..Len(FromMain') : FromMain'[i].cmd = "QUIT" => max_workers'
    BY <1>2, <1>4 DEF QuitInv
  <2>2. ASSUME NEW i \in 1..Len(FromMain'), NEW j \in 1..Len(FromMain'),
               FromMain'[i].cmd = "QUIT", FromMain'[j].cmd = "QUIT"
        PROVE  i = j
    <3>1. i + 1 = j + 1
      BY <1>2, <2>2 DEF QuitInv
    <3> QED BY <1>2, <3>1
  <2> QED BY <1>4, <2>1, <2>2 DEF QuitInv
<1> QED BY <1>3, <1>4

LEMMA QuitStep == ASSUME MainInv, QuitInv, [Next]_vars PROVE QuitInv'
<1>1. DOMAIN controls = {"main", "client"}
  BY DEF MainInv
<1>2. ASSUME UNCHANGED FromMain, max_workers => max_workers' PROVE QuitInv'
  BY <1>2 DEF QuitInv
<1>3. ASSUME NEW b \in Binds, listen(b) PROVE QuitInv'
  <2>1. UNCHANGED <<FromMain, max_workers>>
    BY <1>1, <1>3 DEF listen, FromMain
  <2> QED BY <1>2, <2>1
<1>4. CASE start
  BY <1>2, <1>4 DEF start, FromMain
<1>5. CASE StartProceeds
  <2>1. [cmd |-> "START", req |-> "-"] \in Controls
    BY DEF Controls
  <2>2. FromMain' = Append(FromMain, [cmd |-> "START", req |-> "-"]) /\ UNCHANGED max_workers
    BY <1>1, <1>5 DEF StartProceeds, FromMain
  <2> QED BY <2>1, <2>2, QuitPost
<1>6. CASE DestroyRunning
  <2>1. [cmd |-> "QUIT", req |-> "-"] \in Controls
    BY DEF Controls
  <2>2. FromMain' = Append(FromMain, [cmd |-> "QUIT", req |-> "-"]) /\ UNCHANGED max_workers
    BY <1>1, <1>6 DEF DestroyRunning, FromMain
  <2>3. max_workers /\ \A i \in 1..Len(FromMain) : FromMain[i].cmd # "QUIT"
    BY <1>6 DEF DestroyRunning, MainInv, FromMain
  <2> QED BY <2>1, <2>2, <2>3, QuitPost
<1>7. CASE ControlStart \/ ControlQuit
  BY <1>7, QuitTake DEF ControlStart, ControlQuit
<1>8. ASSUME NEW good, ControlBind(good) PROVE QuitInv'
  <2>1. UNCHANGED <<FromMain, max_workers>>
    BY <1>1, <1>8 DEF ControlBind, Receives, FromMain
  <2> QED BY <1>2, <2>1
<1>9. ASSUME UNCHANGED <<controls, max_workers>> PROVE QuitInv'
  BY <1>2, <1>9 DEF FromMain
<1>10. CASE \/ DestroyUnstarted \/ StartFails \/ StartReturns \/ Destroyed \/ DestroyNotify
            \/ DestroyJoins \/ Terminated \/ UNCHANGED vars
  <2>1. UNCHANGED <<controls, max_workers>>
    BY <1>10 DEF DestroyUnstarted, StartFails, StartReturns, Destroyed, DestroyNotify, DestroyJoins,
                 Terminated, vars, calls
  <2> QED BY <1>9, <2>1
<1>11. CASE \/ InitSockets \/ InitGo \/ InitNotify \/ InitStart \/ InitReturns \/ proxy_quit
            \/ \E good \in BOOLEAN : InitBind(good)
  <2>1. UNCHANGED <<controls, max_workers>>
    BY <1>11 DEF InitSockets, InitGo, InitNotify, InitStart, InitReturns, proxy_quit, InitBind, calls
  <2> QED BY <1>9, <2>1
<1>12. ASSUME NEW x, NEW y, \/ add_category(x) \/ add_command(x) \/ add_command_alias(x, y)
                            \/ add_tagged_thread(x) \/ InitStarting(x) \/ WorkerRan(x)
                            \/ WorkerQuitting(x) \/ Thread(x) \/ TaggedWakes(x) \/ RunTagged(x)
       PROVE  QuitInv'
  <2>1. UNCHANGED calls
    BY <1>12, ThreadKeeps DEF add_category, add_command, add_command_alias, add_tagged_thread,
                              InitStarting, WorkerRan, WorkerQuitting
  <2> QED BY <1>9, <2>1 DEF calls
<1>13. CASE Setup
  BY <1>3, <1>4, <1>6, <1>10, <1>12, <1>13 DEF Setup
<1>14. CASE Main
  BY <1>5, <1>10, <1>14 DEF Main
<1>15. CASE Proxy
  BY <1>7, <1>8, <1>11, <1>12, <1>15 DEF Proxy
<1> QED BY <1>10, <1>12, <1>13, <1>14, <1>15 DEF Next

-----------------------------------------------------------------------------
(***************************************************************************)
(* A tagged thread and the proxy.  Before START is sent nothing is on its  *)
(* way to any of them.  Afterwards what is on its way to a thread, what    *)
(* the thread does and whether the proxy counts it as busy go together;    *)
(* QUIT is sent only once max_workers is zero, and it comes last.          *)
(***************************************************************************)
Early == {"none", "lock", "check", "wait", "asleep", "told"}
Ran(t) == [from |-> t, cmd |-> "RAN"] \in from_tagged
Starting(t) == [from |-> t, cmd |-> "STARTING"] \in from_tagged
Leaving == {"notify", "joining", "gone"}

Before(t) ==
    /\ to_tagged[t] = <<>> /\ t \notin busy /\ ~Ran(t)
    /\ tagged[t] \in Early \cup {"starting", "gone"}
    /\ tagged[t] = "gone" => main \in Leaving
    /\ tagged[t] = "starting" => t \in connected
    /\ tagged[t] = "none" => t \notin joinable
    /\ tagged[t] \notin {"none", "gone"} => t \in joinable
    /\ Starting(t) => tagged[t] = "starting"
After(t) ==
    \/ /\ tagged[t] = "starting" /\ t \in connected /\ ~Ran(t)
       /\ \/ to_tagged[t] = <<"START">> /\ t \notin busy
          \/ to_tagged[t] = <<"START", "RUN">> /\ t \in busy
          \/ to_tagged[t] = <<"START", "QUIT">> /\ t \notin busy /\ ~max_workers
    \/ /\ tagged[t] \in {"callback", "idle"} /\ t \in connected
       /\ \/ to_tagged[t] = <<>> /\ (t \in busy <=> Ran(t))
          \/ to_tagged[t] = <<"RUN">> /\ t \in busy /\ ~Ran(t)
          \/ to_tagged[t] = <<"QUIT">> /\ t \notin busy /\ ~Ran(t) /\ ~max_workers
    \/ tagged[t] = "job" /\ to_tagged[t] = <<>> /\ t \in busy /\ ~Ran(t) /\ t \in connected
    \/ tagged[t] = "gone" /\ to_tagged[t] = <<>> /\ t \notin busy /\ ~Ran(t) /\ ~max_workers
    \/ /\ tagged[t] = "none" /\ to_tagged[t] = <<>> /\ t \notin busy /\ ~Ran(t)
       /\ t \notin joinable

BeforePhase == \/ proxy \in {"none", "init", "binding", "notify", "waiting"}
               \/ proxy = "ended" /\ main # "quitting"
AfterPhase == \/ proxy \in {"started", "loop"}
              \/ proxy = "ended" /\ main \in {"quitting", "gone"}

TagTypes == DOMAIN tagged = Tagged /\ DOMAIN to_tagged = Tagged
WaitInv == proxy = "waiting" =>
               \A t \in Tagged : t \in joinable => t \in waiting_on \/ tagged[t] = "starting"
GoInv == tagged_go = "SHUTDOWN" => main \in Leaving
TagInv ==
    /\ TagTypes /\ WaitInv /\ GoInv
    /\ \/ BeforePhase /\ \A t \in Tagged : Before(t)
       \/ AfterPhase /\ \A t \in Tagged : After(t)

(* t is not concerned *)
Same(t) ==
    /\ tagged'[t] = tagged[t] /\ to_tagged'[t] = to_tagged[t]
    /\ t \in busy' <=> t \in busy
    /\ t \in joinable' <=> t \in joinable
    /\ t \in connected => t \in connected'
    /\ Ran(t)' <=> Ran(t)
    /\ Starting(t)' => Starting(t)

LEMMA BeforeSame ==
    ASSUME NEW t, Before(t), Same(t), main \in Leaving => main' \in Leaving PROVE Before(t)'
BY DEF Before, Same

LEMMA AfterSame ==
    ASSUME NEW t, After(t), Same(t), max_workers' => max_workers PROVE After(t)'
BY DEF After, Same

LEMMA TagInit == Init => TagInv
<1> SUFFICES ASSUME Init PROVE TagInv
  OBVIOUS
<1>1. \A t \in Tagged : Before(t)
  BY DEF Init, Before, Ran, Starting, Early
<1>2. TagTypes
  BY DEF Init, TagTypes
<1> QED BY <1>1, <1>2 DEF Init, TagInv, WaitInv, GoInv, BeforePhase

LEMMA PairOf ==
    ASSUME NEW s, NEW S, NEW x \in S, NEW y \in S, s \in Seq(S), Len(s) = 2, s[1] = x, s[2] = y
    PROVE  s = <<x, y>>
OBVIOUS

LEMMA AppendPair == ASSUME NEW S, NEW x \in S, NEW y \in S PROVE Append(<<x>>, y) = <<x, y>>
<1>1. <<x>> \in Seq(S) /\ Len(<<x>>) = 1 /\ <<x>>[1] = x
  OBVIOUS
<1>2. /\ Append(<<x>>, y) \in Seq(S) /\ Len(Append(<<x>>, y)) = 2
      /\ Append(<<x>>, y)[1] = x /\ Append(<<x>>, y)[2] = y
  BY <1>1
<1> QED BY <1>2, PairOf, Zenon

(* The queues there can be *)
LEMMA Queues ==
    /\ Append(<<>>, "START") = <<"START">> /\ Append(<<>>, "RUN") = <<"RUN">>
    /\ Append(<<>>, "QUIT") = <<"QUIT">> /\ Append(<<"START">>, "RUN") = <<"START", "RUN">>
    /\ Append(<<"START">>, "QUIT") = <<"START", "QUIT">>
    /\ Tail(<<"START">>) = <<>> /\ Tail(<<"RUN">>) = <<>> /\ Tail(<<"QUIT">>) = <<>>
    /\ Tail(<<"START", "RUN">>) = <<"RUN">> /\ Tail(<<"START", "QUIT">>) = <<"QUIT">>
    /\ Head(<<"START">>) = "START" /\ Head(<<"RUN">>) = "RUN" /\ Head(<<"QUIT">>) = "QUIT"
    /\ Head(<<"START", "RUN">>) = "START" /\ Head(<<"START", "QUIT">>) = "START"
    /\ <<"START">> # <<>> /\ <<"RUN">> # <<>> /\ <<"QUIT">> # <<>>
    /\ <<"START", "RUN">> # <<>> /\ <<"START", "QUIT">> # <<>>
<1>1. /\ Append(<<>>, "START") = <<"START">> /\ Append(<<>>, "RUN") = <<"RUN">>
      /\ Append(<<>>, "QUIT") = <<"QUIT">>
  OBVIOUS
<1>2. \A m \in {"START", "RUN", "QUIT"} : Append(<<"START">>, m) = <<"START", m>>
  BY AppendPair
<1>3. \A m \in {"START", "RUN", "QUIT"} : Tail(<<m>>) = <<>> /\ Head(<<m>>) = m /\ <<m>> # <<>>
  OBVIOUS
<1>4. \A m \in {"RUN", "QUIT"} :
          Tail(<<"START", m>>) = <<m>> /\ Head(<<"START", m>>) = "START" /\ <<"START", m>> # <<>>
  OBVIOUS
<1> QED BY <1>1, <1>2, <1>3, <1>4

(* What the states of a thread say of its queue *)
LEMMA AfterShape ==
    ASSUME NEW t, After(t), to_tagged[t] # <<>>
    PROVE  /\ t \in connected /\ tagged[t] # "gone"
           /\ tagged[t] = "starting" <=> Head(to_tagged[t]) = "START"
           /\ Tail(to_tagged[t]) \in {<<>>, <<"RUN">>, <<"QUIT">>}
BY Queues DEF After

LEMMA TagImplies == TagInv => TaggedProtocol
<1> SUFFICES ASSUME TagInv, NEW t \in Tagged, to_tagged[t] # <<>>
             PROVE  /\ t \in connected
                    /\ tagged[t] = "starting" <=> Head(to_tagged[t]) = "START"
                    /\ "START" \notin Range(Tail(to_tagged[t]))
                    /\ tagged[t] # "gone"
  BY DEF TaggedProtocol
<1>1. After(t)
  BY DEF TagInv, Before
<1>2. /\ t \in connected /\ tagged[t] # "gone"
      /\ tagged[t] = "starting" <=> Head(to_tagged[t]) = "START"
      /\ Tail(to_tagged[t]) \in {<<>>, <<"RUN">>, <<"QUIT">>}
  BY <1>1, AfterShape
<1>3. "START" \notin Range(<<>>) /\ "START" \notin Range(<<"RUN">>) /\ "START" \notin Range(<<"QUIT">>)
  BY DEF Range
<1> QED BY <1>2, <1>3

(* Steps of the proxy and of the owner that leave the threads alone *)
Aside == UNCHANGED <<tagged, joinable, connected, from_tagged, to_tagged, busy>>

LEMMA AsideSame == ASSUME Aside, NEW t PROVE Same(t)
BY DEF Aside, Same, Ran, Starting

LEMMA TagAside ==
    ASSUME TagInv, Aside, BeforePhase => BeforePhase', AfterPhase => AfterPhase', GoInv',
           main \in Leaving => main' \in Leaving, max_workers' => max_workers \/ ~AfterPhase,
           proxy' = "waiting" => proxy = "waiting" /\ UNCHANGED waiting_on
    PROVE  TagInv'
<1>1. TagTypes' /\ WaitInv'
  BY DEF TagInv, TagTypes, WaitInv, Aside
<1>2. CASE BeforePhase /\ \A t \in Tagged : Before(t)
  <2>1. \A t \in Tagged : Before(t)'
    BY <1>2, AsideSame, BeforeSame
  <2> QED BY <1>1, <1>2, <2>1 DEF TagInv
<1>3. CASE AfterPhase /\ \A t \in Tagged : After(t)
  <2>1. \A t \in Tagged : After(t)'
    BY <1>3, AsideSame, AfterSame
  <2> QED BY <1>1, <1>3, <2>1 DEF TagInv
<1> QED BY <1>2, <1>3 DEF TagInv

(* A step of the thread t, or of the proxy with it *)
LEMMA TagOne ==
    ASSUME TagInv, NEW t \in Tagged, UNCHANGED <<main, proxy, max_workers, tagged_go>>,
           \A u \in Tagged : u # t => Same(u),
           BeforePhase /\ Before(t) => Before(t)', AfterPhase /\ After(t) => After(t)',
           TagTypes', WaitInv'
    PROVE  TagInv'
<1>1. GoInv' /\ (BeforePhase => BeforePhase') /\ (AfterPhase => AfterPhase')
  BY DEF TagInv, GoInv, BeforePhase, AfterPhase
<1>2. CASE BeforePhase /\ \A u \in Tagged : Before(u)
  <2>1. \A u \in Tagged : Before(u)'
    BY <1>2, BeforeSame
  <2> QED BY <1>1, <1>2, <2>1 DEF TagInv
<1>3. CASE AfterPhase /\ \A u \in Tagged : After(u)
  <2>1. \A u \in Tagged : After(u)'
    BY <1>3, AfterSame
  <2> QED BY <1>1, <1>3, <2>1 DEF TagInv
<1> QED BY <1>2, <1>3 DEF TagInv

LEMMA WaitKept ==
    ASSUME WaitInv, NEW t \in Tagged, UNCHANGED <<proxy, joinable, waiting_on>>,
           \A u \in Tagged : u # t => tagged'[u] = tagged[u],
           tagged[t] # "starting" \/ proxy # "waiting"
    PROVE  WaitInv'
BY DEF WaitInv

(* Only what t does changes, and perhaps its messages *)
LEMMA TagMoves ==
    ASSUME TagInv, NEW t \in Tagged, NEW to, Goes(t, to),
           UNCHANGED <<main, proxy, max_workers, tagged_go, joinable, busy, waiting_on>>,
           DOMAIN to_tagged' = Tagged, \A u \in Tagged : u # t => to_tagged'[u] = to_tagged[u],
           connected \subseteq connected',
           \A u \in Tagged : u # t => (Ran(u)' <=> Ran(u)) /\ (Starting(u)' => Starting(u)),
           tagged[t] # "starting" \/ proxy # "waiting",
           BeforePhase /\ Before(t) => Before(t)', AfterPhase /\ After(t) => After(t)'
    PROVE  TagInv'
<1>1. /\ DOMAIN tagged' = Tagged /\ \A u \in Tagged : u # t => tagged'[u] = tagged[u]
  BY DEF Goes, TagInv, TagTypes
<1>2. TagTypes' /\ WaitInv'
  BY <1>1, WaitKept DEF TagInv, TagTypes
<1>3. \A u \in Tagged : u # t => Same(u)
  BY <1>1 DEF Same
<1> QED BY <1>2, <1>3, TagOne

LEMMA EarlyMoves ==
    ASSUME TagInv, NEW t \in Tagged, NEW to \in {"lock", "check", "wait", "asleep", "told"}, Goes(t, to),
           tagged[t] \in {"lock", "check", "wait", "asleep"},
           UNCHANGED <<tagged_go, joinable, connected, workers, calls, proxy>>
    PROVE  TagInv'
<1>1. tagged'[t] = to
  BY DEF Goes, TagInv, TagTypes
<1>2. UNCHANGED <<waiting_on, from_tagged, to_tagged, busy, main, max_workers>>
  BY DEF workers, calls
<1>3. Before(t) => Before(t)'
  BY <1>1, <1>2 DEF Before, Early, Ran, Starting
<1>4. ~After(t)
  BY DEF After
<1>5. DOMAIN to_tagged' = Tagged
  BY <1>2 DEF TagInv, TagTypes
<1> QED BY <1>2, <1>3, <1>4, <1>5, TagMoves DEF Ran, Starting

LEMMA ThreadTold == ASSUME TagInv, NEW t \in Tagged, TaggedTold(t) PROVE TagInv'
<1>1. /\ tagged[t] = "told"
      /\ UNCHANGED <<tagged_go, joinable, waiting_on, to_tagged, busy, main, max_workers, proxy>>
  BY DEF TaggedTold, calls
<1>2. ~After(t)
  BY <1>1 DEF After
<1>3. DOMAIN to_tagged' = Tagged
  BY <1>1 DEF TagInv, TagTypes
<1>4. CASE tagged_go = "SHUTDOWN"
  <2>1. Goes(t, "gone") /\ UNCHANGED <<connected, from_tagged>>
    BY <1>4 DEF TaggedTold
  <2>2. tagged'[t] = "gone"
    BY <2>1 DEF Goes, TagInv, TagTypes
  <2>3. Before(t) => Before(t)'
    BY <1>1, <1>4, <2>1, <2>2 DEF Before, Ran, Starting, TagInv, GoInv
  <2> QED BY <1>1, <1>2, <1>3, <2>1, <2>3, TagMoves DEF Ran, Starting
<1>5. CASE tagged_go # "SHUTDOWN"
  <2>1. /\ Goes(t, "starting") /\ connected' = connected \cup {t}
        /\ from_tagged' = from_tagged \cup {[from |-> t, cmd |-> "STARTING"]}
    BY <1>5 DEF TaggedTold
  <2>2. tagged'[t] = "starting" /\ t \in connected'
    BY <2>1 DEF Goes, TagInv, TagTypes
  <2>3. Ran(t)' <=> Ran(t)
    BY <2>1 DEF Ran
  <2>4. Before(t) => Before(t)'
    BY <1>1, <2>2, <2>3 DEF Before
  <2>5. \A u \in Tagged : u # t => (Ran(u)' <=> Ran(u)) /\ (Starting(u)' => Starting(u))
    BY <2>1 DEF Ran, Starting
  <2> QED BY <1>1, <1>2, <1>3, <2>1, <2>4, <2>5, TagMoves
<1> QED BY <1>4, <1>5

LEMMA ThreadReceives == ASSUME TagInv, NEW t \in Tagged, TaggedReceive(t) PROVE TagInv'
<1> PICK m : m = Head(to_tagged[t])
  OBVIOUS
<1>1. /\ to_tagged[t] # <<>> /\ to_tagged' = [to_tagged EXCEPT ![t] = Tail(@)]
      /\ UNCHANGED <<tagged_go, joinable, connected, waiting_on, busy, main, max_workers, proxy>>
  BY DEF TaggedReceive, calls
<1>2. ~Before(t)
  BY <1>1 DEF Before
<1>3. AfterPhase /\ After(t)
  BY <1>2 DEF TagInv
<1>4. proxy # "waiting"
  BY <1>3 DEF AfterPhase
<1>5. /\ DOMAIN to_tagged' = Tagged /\ \A u \in Tagged : u # t => to_tagged'[u] = to_tagged[u]
      /\ to_tagged'[t] = Tail(to_tagged[t])
  BY <1>1 DEF TagInv, TagTypes
<1>6. \/ tagged[t] = "starting" /\ m = "START" /\ Goes(t, "callback") /\ UNCHANGED from_tagged
      \/ tagged[t] = "idle" /\ m = "RUN" /\ Goes(t, "job") /\ UNCHANGED from_tagged
      \/ /\ tagged[t] \in {"starting", "idle"} /\ m = "QUIT" /\ Goes(t, "gone")
         /\ from_tagged' = from_tagged \cup {[from |-> t, cmd |-> "QUITTING"]}
  BY DEF TaggedReceive
<1>7. \A u \in Tagged : (Ran(u)' <=> Ran(u)) /\ (Starting(u)' => Starting(u))
  BY <1>6 DEF Ran, Starting
<1>8. CASE tagged[t] = "starting" /\ m = "START" /\ Goes(t, "callback")
  <2>1. tagged'[t] = "callback"
    BY <1>8 DEF Goes, TagInv, TagTypes
  <2>2. After(t)'
    BY <1>1, <1>3, <1>5, <1>7, <1>8, <2>1, Queues DEF After
  <2> QED BY <1>1, <1>2, <1>4, <1>5, <1>7, <1>8, <2>2, TagMoves
<1>9. CASE tagged[t] = "idle" /\ m = "RUN" /\ Goes(t, "job")
  <2>1. tagged'[t] = "job"
    BY <1>9 DEF Goes, TagInv, TagTypes
  <2>2. After(t)'
    BY <1>1, <1>3, <1>5, <1>7, <1>9, <2>1, Queues DEF After
  <2> QED BY <1>1, <1>2, <1>4, <1>5, <1>7, <1>9, <2>2, TagMoves
<1>10. CASE tagged[t] \in {"starting", "idle"} /\ m = "QUIT" /\ Goes(t, "gone")
  <2>1. tagged'[t] = "gone"
    BY <1>10 DEF Goes, TagInv, TagTypes
  <2>2. After(t)'
    BY <1>1, <1>3, <1>5, <1>7, <1>10, <2>1, Queues DEF After
  <2> QED BY <1>1, <1>2, <1>4, <1>5, <1>7, <1>10, <2>2, TagMoves
<1> QED BY <1>6, <1>8, <1>9, <1>10

LEMMA ThreadDone == ASSUME TagInv, NEW t \in Tagged, TaggedStarted(t) \/ TaggedRan(t) PROVE TagInv'
<1>1. /\ tagged[t] \in {"callback", "job"} /\ Goes(t, "idle")
      /\ UNCHANGED <<tagged_go, joinable, connected, waiting_on, to_tagged, busy, main, max_workers, proxy>>
  BY DEF TaggedStarted, TaggedRan, workers, calls
<1>2. ~Before(t)
  BY <1>1 DEF Before, Early
<1>3. AfterPhase /\ After(t)
  BY <1>2 DEF TagInv
<1>4. tagged'[t] = "idle" /\ DOMAIN to_tagged' = Tagged
  BY <1>1 DEF Goes, TagInv, TagTypes
<1>5. CASE TaggedStarted(t)
  <2>1. tagged[t] = "callback" /\ UNCHANGED from_tagged
    BY <1>5 DEF TaggedStarted, workers
  <2>2. After(t)'
    BY <1>1, <1>3, <1>4, <2>1 DEF After, Ran
  <2> QED BY <1>1, <1>2, <1>4, <2>1, <2>2, TagMoves DEF Ran, Starting
<1>6. CASE TaggedRan(t)
  <2>1. tagged[t] = "job" /\ from_tagged' = from_tagged \cup {[from |-> t, cmd |-> "RAN"]}
    BY <1>6 DEF TaggedRan
  <2>2. Ran(t)' /\ \A u \in Tagged : u # t => (Ran(u)' <=> Ran(u)) /\ (Starting(u)' => Starting(u))
    BY <2>1 DEF Ran, Starting
  <2>3. After(t)'
    BY <1>1, <1>3, <1>4, <2>1, <2>2 DEF After
  <2> QED BY <1>1, <1>2, <1>4, <2>1, <2>2, <2>3, TagMoves
<1> QED BY <1>5, <1>6

LEMMA Phases ==
    ASSUME MainInv, TagInv
    PROVE  /\ main \in {"setup", "failed", "notify", "joining"} =>
                 ~AfterPhase /\ BeforePhase /\ \A t \in Tagged : Before(t)
           /\ proxy \in {"init", "binding", "notify", "waiting"} =>
                 main = "starting" /\ ~AfterPhase /\ BeforePhase /\ \A t \in Tagged : Before(t)
           /\ proxy \in {"started", "loop"} => AfterPhase /\ ~BeforePhase /\ \A t \in Tagged : After(t)
           /\ proxy = "started" => main = "starting"
<1>1. main \in {"setup", "failed", "notify", "joining"} => ~AfterPhase
  BY DEF MainInv, AfterPhase
<1>2. proxy \in {"init", "binding", "notify", "waiting"} => main = "starting" /\ ~AfterPhase
  BY DEF MainInv, AfterPhase
<1>3. proxy \in {"started", "loop"} => ~BeforePhase
  BY DEF BeforePhase
<1>4. proxy = "started" => main = "starting"
  BY DEF MainInv
<1> QED BY <1>1, <1>2, <1>3, <1>4 DEF TagInv

LEMMA JobGiven ==
    ASSUME MainInv, TagInv, NEW t \in Tagged, RunTagged(t) PROVE TagInv'
<1>1. /\ proxy = "loop" /\ max_workers /\ t \in joinable /\ t \notin busy /\ busy' = busy \cup {t}
      /\ to_tagged' = [to_tagged EXCEPT ![t] = Append(@, "RUN")]
      /\ UNCHANGED <<tagged, joinable, connected, tagged_go, waiting_on, from_tagged, main, max_workers,
                     proxy>>
  BY DEF RunTagged, threads, calls
<1>2. AfterPhase /\ ~BeforePhase /\ After(t)
  BY <1>1, Phases
<1>3. /\ DOMAIN to_tagged' = Tagged /\ \A u \in Tagged : u # t => to_tagged'[u] = to_tagged[u]
      /\ to_tagged'[t] = Append(to_tagged[t], "RUN")
  BY <1>1 DEF TagInv, TagTypes
<1>4. After(t)'
  BY <1>1, <1>2, <1>3, Queues DEF After, Ran
<1>5. \A u \in Tagged : u # t => Same(u)
  BY <1>1, <1>3 DEF Same, Ran, Starting
<1>6. TagTypes' /\ WaitInv'
  BY <1>1, <1>3 DEF TagInv, TagTypes, WaitInv
<1> QED BY <1>1, <1>2, <1>4, <1>5, <1>6, TagOne

LEMMA JobDone ==
    ASSUME MainInv, TagInv, NEW t \in Tagged, WorkerRan(t) PROVE TagInv'
<1>1. /\ proxy = "loop" /\ Ran(t) /\ busy' = busy \ {t}
      /\ from_tagged' = from_tagged \ {[from |-> t, cmd |-> "RAN"]}
      /\ to_tagged' = IF max_workers THEN to_tagged ELSE [to_tagged EXCEPT ![t] = Append(@, "QUIT")]
      /\ UNCHANGED <<tagged, joinable, connected, tagged_go, waiting_on, main, max_workers, proxy>>
  BY DEF WorkerRan, NotBusy, Ran, threads, calls
<1>2. AfterPhase /\ ~BeforePhase /\ After(t)
  BY <1>1, Phases
<1>3. /\ tagged[t] \in {"callback", "idle"} /\ to_tagged[t] = <<>> /\ t \in connected
  BY <1>1, <1>2 DEF After
<1>4. /\ DOMAIN to_tagged' = Tagged /\ \A u \in Tagged : u # t => to_tagged'[u] = to_tagged[u]
      /\ to_tagged'[t] = IF max_workers THEN <<>> ELSE <<"QUIT">>
  BY <1>1, <1>3, Queues DEF TagInv, TagTypes
<1>5. ~Ran(t)' /\ \A u \in Tagged : u # t => (Ran(u)' <=> Ran(u)) /\ (Starting(u)' => Starting(u))
  BY <1>1 DEF Ran, Starting
<1>6. After(t)'
  BY <1>1, <1>3, <1>4, <1>5 DEF After
<1>7. \A u \in Tagged : u # t => Same(u)
  BY <1>1, <1>4, <1>5 DEF Same
<1>8. TagTypes' /\ WaitInv'
  BY <1>1, <1>4 DEF TagInv, TagTypes, WaitInv
<1> QED BY <1>1, <1>2, <1>6, <1>7, <1>8, TagOne

LEMMA ThreadJoined ==
    ASSUME MainInv, TagInv, NEW t \in Tagged, WorkerQuitting(t) PROVE TagInv'
<1>1. /\ proxy = "loop" /\ tagged[t] = "gone" /\ joinable' = joinable \ {t}
      /\ from_tagged' = from_tagged \ {[from |-> t, cmd |-> "QUITTING"]}
      /\ UNCHANGED <<tagged, connected, tagged_go, waiting_on, to_tagged, busy, main, max_workers, proxy>>
  BY DEF WorkerQuitting, calls
<1>2. AfterPhase /\ ~BeforePhase /\ After(t)
  BY <1>1, Phases
<1>3. \A u \in Tagged : (Ran(u)' <=> Ran(u)) /\ (Starting(u)' => Starting(u))
  BY <1>1 DEF Ran, Starting
<1>4. After(t)'
  BY <1>1, <1>2, <1>3 DEF After
<1>5. \A u \in Tagged : u # t => Same(u)
  BY <1>1, <1>3 DEF Same
<1>6. TagTypes' /\ WaitInv'
  BY <1>1 DEF TagInv, TagTypes, WaitInv
<1> QED BY <1>1, <1>2, <1>4, <1>5, <1>6, TagOne

LEMMA StartingSeen ==
    ASSUME MainInv, TagInv, NEW t \in Tagged, InitStarting(t) PROVE TagInv'
<1>1. /\ proxy = "waiting" /\ Starting(t) /\ waiting_on' = waiting_on \ {t}
      /\ from_tagged' = from_tagged \ {[from |-> t, cmd |-> "STARTING"]}
      /\ UNCHANGED <<tagged, joinable, connected, tagged_go, to_tagged, busy, main, max_workers, proxy>>
  BY DEF InitStarting, Starting, threads, calls
<1>2. ~AfterPhase /\ Before(t)
  BY <1>1, Phases
<1>3. tagged[t] = "starting"
  BY <1>1, <1>2 DEF Before
<1>4. \A u \in Tagged : Same(u)
  BY <1>1 DEF Same, Ran, Starting
<1>5. Before(t)'
  BY <1>1, <1>2, <1>4, BeforeSame
<1>6. TagTypes' /\ WaitInv'
  BY <1>1, <1>3 DEF TagInv, TagTypes, WaitInv
<1> QED BY <1>1, <1>2, <1>4, <1>5, <1>6, TagOne

LEMMA Woken ==
    ASSUME TagInv, tagged' = Awakened, ~AfterPhase, BeforePhase', GoInv',
           UNCHANGED <<joinable, connected, from_tagged, to_tagged, busy>>,
           main \in Leaving => main' \in Leaving,
           proxy' = "waiting" => waiting_on' = joinable
    PROVE  TagInv'
<1>1. /\ DOMAIN tagged' = Tagged
      /\ \A t \in Tagged : tagged'[t] = IF tagged[t] = "asleep" THEN "lock" ELSE tagged[t]
  BY DEF Awakened
<1>2. ASSUME NEW t \in Tagged PROVE Before(t)'
  <2>1. Before(t)
    BY DEF TagInv
  <2>2. CASE tagged[t] # "asleep"
    <3>1. Same(t)
      BY <1>1, <2>2 DEF Same, Ran, Starting
    <3> QED BY <2>1, <3>1, BeforeSame
  <2>3. CASE tagged[t] = "asleep"
    <3>1. tagged'[t] = "lock"
      BY <1>1, <2>3
    <3> QED BY <2>1, <2>3, <3>1 DEF Before, Early, Ran, Starting
  <2> QED BY <2>2, <2>3
<1>3. TagTypes' /\ WaitInv'
  BY <1>1 DEF TagInv, TagTypes, WaitInv
<1> QED BY <1>2, <1>3 DEF TagInv

LEMMA AllStarted == ASSUME MainInv, TagInv, InitStart PROVE TagInv'
<1>1. /\ proxy = "waiting" /\ waiting_on = {} /\ proxy' = "started"
      /\ UNCHANGED <<tagged, joinable, connected, tagged_go, from_tagged, busy, main, max_workers>>
  BY DEF InitStart, AllStarting, threads, calls
<1>2. /\ DOMAIN to_tagged' = Tagged
      /\ \A t \in Tagged : to_tagged'[t] = IF t \in joinable THEN Append(to_tagged[t], "START")
                                           ELSE to_tagged[t]
  BY DEF InitStart
<1>3. main = "starting" /\ \A t \in Tagged : Before(t)
  BY <1>1, Phases
<1>4. ASSUME NEW t \in Tagged PROVE After(t)'
  <2>1. Before(t) /\ (Ran(t)' <=> Ran(t))
    BY <1>1, <1>3 DEF Ran
  <2>2. CASE t \in joinable
    <3>1. tagged[t] = "starting"
      BY <1>1, <2>2 DEF TagInv, WaitInv
    <3>2. to_tagged'[t] = <<"START">>
      BY <1>2, <2>1, <2>2, Queues DEF Before
    <3> QED BY <1>1, <2>1, <3>1, <3>2 DEF Before, After
  <2>3. CASE t \notin joinable
    <3>1. tagged[t] = "none"
      BY <1>3, <2>1, <2>3 DEF Before, Leaving
    <3>2. to_tagged'[t] = <<>>
      BY <1>2, <2>1, <2>3 DEF Before
    <3> QED BY <1>1, <2>1, <2>3, <3>1, <3>2 DEF Before, After
  <2> QED BY <2>2, <2>3
<1>5. TagTypes' /\ WaitInv' /\ GoInv' /\ AfterPhase'
  BY <1>1, <1>2 DEF TagInv, TagTypes, WaitInv, GoInv, AfterPhase
<1> QED BY <1>4, <1>5 DEF TagInv

LEMMA GoSent == ASSUME MainInv, TagInv, InitGo PROVE TagInv'
<1>1. /\ proxy = "binding" /\ proxy' \in {"started", "notify"} /\ Aside
      /\ UNCHANGED <<main, max_workers, waiting_on>>
  BY DEF InitGo, Aside, workers, calls
<1>2. main = "starting" /\ \A t \in Tagged : Before(t)
  BY <1>1, Phases
<1>3. TagTypes' /\ WaitInv' /\ GoInv'
  <2>1. tagged_go' # "SHUTDOWN"
    BY <1>2 DEF InitGo, TagInv, GoInv, Leaving
  <2> QED BY <1>1, <2>1 DEF TagInv, TagTypes, WaitInv, GoInv, Aside
<1>4. \A t \in Tagged : Before(t)'
  BY <1>1, <1>2, AsideSame, BeforeSame
<1>5. CASE proxy' = "notify"
  BY <1>3, <1>4, <1>5 DEF TagInv, BeforePhase
<1>6. CASE proxy' = "started"
  <2>1. joinable = {}
    BY <1>6 DEF InitGo
  <2>2. ASSUME NEW t \in Tagged PROVE After(t)'
    <3>1. tagged'[t] = "none" /\ t \notin joinable'
      BY <1>1, <1>2, <2>1 DEF Before, Leaving, Aside
    <3> QED BY <1>4, <3>1 DEF Before, After
  <2> QED BY <1>3, <1>6, <2>2 DEF TagInv, AfterPhase
<1> QED BY <1>1, <1>5, <1>6

LEMMA QuitSent == ASSUME MainInv, QuitInv, TagInv, ControlQuit PROVE TagInv'
<1>1. /\ proxy = "loop" /\ max_workers /\ ~max_workers'
      /\ UNCHANGED <<tagged, joinable, connected, tagged_go, from_tagged, busy, main, proxy>>
  BY QuitTake DEF ControlQuit, Receives, threads
<1>2. /\ DOMAIN to_tagged' = Tagged
      /\ \A t \in Tagged : to_tagged'[t] = IF t \in joinable \ busy THEN Append(to_tagged[t], "QUIT")
                                           ELSE to_tagged[t]
  BY DEF ControlQuit
<1>3. \A t \in Tagged : After(t)
  BY <1>1, Phases
<1>4. ASSUME NEW t \in Tagged PROVE After(t)'
  <2>1. After(t) /\ (Ran(t)' <=> Ran(t))
    BY <1>1, <1>3 DEF Ran
  <2>2. CASE t \in joinable \ busy
    <3>1. \/ tagged[t] = "starting" /\ to_tagged[t] = <<"START">>
          \/ tagged[t] \in {"callback", "idle"} /\ to_tagged[t] = <<>>
      BY <1>1, <2>1, <2>2 DEF After
    <3>2. ~Ran(t) /\ t \in connected
      BY <1>1, <2>1, <2>2, <3>1 DEF After
    <3> QED BY <1>1, <1>2, <2>1, <2>2, <3>1, <3>2, Queues DEF After
  <2>3. CASE t \notin joinable \ busy
    <3>1. Same(t)
      BY <1>1, <1>2, <2>3 DEF Same, Ran, Starting
    <3> QED BY <1>1, <2>1, <3>1, AfterSame
  <2> QED BY <2>2, <2>3
<1>5. TagTypes' /\ WaitInv' /\ GoInv' /\ AfterPhase'
  BY <1>1, <1>2 DEF TagInv, TagTypes, WaitInv, GoInv, AfterPhase
<1> QED BY <1>4, <1>5 DEF TagInv

LEMMA ThreadAdded ==
    ASSUME MainInv, TagInv, NEW t \in Tagged, add_tagged_thread(t) PROVE TagInv'
<1>1. /\ main \in {"setup", "failed"} /\ tagged' = [tagged EXCEPT ![t] = "lock"]
      /\ joinable' = joinable \cup {t} /\ tagged[t] = "none"
      /\ UNCHANGED <<connected, tagged_go, waiting_on, from_tagged, to_tagged, busy, main, max_workers,
                     proxy>>
  BY DEF add_tagged_thread, Joinable, workers, calls
<1>2. ~AfterPhase /\ BeforePhase /\ Before(t) /\ proxy # "waiting"
  BY <1>1, Phases DEF MainInv
<1>3. /\ DOMAIN tagged' = Tagged /\ tagged'[t] = "lock"
      /\ \A u \in Tagged : u # t => tagged'[u] = tagged[u]
  BY <1>1 DEF TagInv, TagTypes
<1>4. Before(t)'
  BY <1>1, <1>2, <1>3 DEF Before, Early, Ran, Starting
<1>5. \A u \in Tagged : u # t => Same(u)
  BY <1>1, <1>3 DEF Same, Ran, Starting
<1>6. TagTypes' /\ WaitInv'
  BY <1>1, <1>2, <1>3 DEF TagInv, TagTypes, WaitInv
<1> QED BY <1>1, <1>2, <1>4, <1>5, <1>6, TagOne

LEMMA AllJoined == ASSUME MainInv, TagInv, DestroyJoins PROVE TagInv'
<1>1. /\ main = "joining" /\ main' = "gone" /\ joinable' = {} /\ \A t \in joinable : tagged[t] = "gone"
      /\ UNCHANGED <<tagged, connected, tagged_go, from_tagged, to_tagged, busy, proxy>>
  BY DEF DestroyJoins, workers
<1>2. \A t \in Tagged : Before(t)
  BY <1>1, Phases
<1>3. ASSUME NEW t \in Tagged PROVE Before(t)'
  BY <1>1, <1>2 DEF Before, Leaving, Ran, Starting
<1>4. TagTypes' /\ WaitInv' /\ GoInv' /\ BeforePhase'
  <2>1. proxy \in {"none", "ended"}
    BY <1>1 DEF MainInv
  <2> QED BY <1>1, <2>1 DEF TagInv, TagTypes, WaitInv, GoInv, BeforePhase, Leaving
<1> QED BY <1>3, <1>4 DEF TagInv

(* The owner's other steps, and the proxy's *)
LEMMA TagOwner ==
    ASSUME MainInv, TagInv, Aside, UNCHANGED <<waiting_on, proxy, tagged_go, max_workers>>,
           \/ UNCHANGED main
           \/ main = "starting" /\ main' \in {"failed", "awaiting"}
           \/ main = "awaiting" /\ main' = "running"
           \/ main = "running" /\ main' = "quitting"
           \/ main = "quitting" /\ main' = "gone"
    PROVE  TagInv'
<1>1. (BeforePhase => BeforePhase') /\ (AfterPhase => AfterPhase')
  BY DEF BeforePhase, AfterPhase, MainInv
<1>2. GoInv' /\ (main \in Leaving => main' \in Leaving)
  BY DEF TagInv, GoInv, Leaving
<1> QED BY <1>1, <1>2, TagAside

LEMMA TagProxy ==
    ASSUME MainInv, TagInv, Aside, UNCHANGED <<waiting_on, main, tagged_go, max_workers>>,
           \/ proxy \in {"init", "binding"} /\ proxy' \in {"binding", "ended"}
           \/ proxy = "started" /\ proxy' = "loop"
           \/ proxy = "loop" /\ ~max_workers /\ proxy' = "ended"
    PROVE  TagInv'
<1>1. (BeforePhase => BeforePhase') /\ (AfterPhase => AfterPhase')
  BY DEF BeforePhase, AfterPhase, MainInv
<1>2. GoInv' /\ proxy' # "waiting"
  BY DEF TagInv, GoInv
<1> QED BY <1>1, <1>2, TagAside

LEMMA TagStart == ASSUME MainInv, TagInv, start PROVE TagInv'
<1>1. /\ main \in {"setup", "failed"} /\ main' = "starting" /\ proxy' = "init" /\ Aside
      /\ UNCHANGED <<waiting_on, tagged_go>>
  BY DEF start, Joinable, Aside, threads, workers
<1>2. ~AfterPhase /\ BeforePhase'
  BY <1>1, Phases DEF BeforePhase
<1>3. GoInv' /\ main \notin Leaving
  BY <1>1 DEF TagInv, GoInv, Leaving
<1> QED BY <1>1, <1>2, <1>3, TagAside

LEMMA TagUnstarted == ASSUME MainInv, TagInv, DestroyUnstarted PROVE TagInv'
<1>1. /\ main \in {"setup", "failed"} /\ main' \in {"gone", "notify"} /\ Aside
      /\ UNCHANGED <<waiting_on, proxy>>
  BY DEF DestroyUnstarted, Joinable, Aside, workers
<1>2. ~AfterPhase /\ BeforePhase'
  <2>1. proxy \in {"none", "ended"}
    BY <1>1 DEF MainInv
  <2> QED BY <1>1, <2>1, Phases DEF BeforePhase
<1>3. GoInv' /\ main' \in Leaving
  BY <1>1 DEF GoInv, Leaving
<1> QED BY <1>1, <1>2, <1>3, TagAside

LEMMA TagStep == ASSUME MainInv, QuitInv, TagInv, [Next]_vars PROVE TagInv'
<1>1. ASSUME UNCHANGED <<threads, workers, main, proxy, max_workers>> PROVE TagInv'
  BY <1>1, TagOwner DEF threads, workers, Aside
<1>2. ASSUME NEW x, NEW y, add_category(x) \/ add_command(x) \/ add_command_alias(x, y) \/ listen(x)
      PROVE  TagInv'
  BY <1>1, <1>2 DEF add_category, add_command, add_command_alias, listen, calls
<1>3. CASE \/ ControlStart \/ Terminated \/ UNCHANGED vars
           \/ \E good \in BOOLEAN : ControlBind(good)
  BY <1>1, <1>3 DEF ControlStart, ControlBind, Terminated, vars, calls
<1>4. CASE StartFails \/ StartProceeds \/ StartReturns \/ DestroyRunning \/ Destroyed
  <2>1. UNCHANGED <<threads, workers, proxy, max_workers>>
    BY <1>4 DEF StartFails, StartProceeds, StartReturns, DestroyRunning, Destroyed
  <2>2. Aside /\ UNCHANGED <<waiting_on, tagged_go>>
    BY <2>1 DEF Aside, threads, workers
  <2>3. \/ main = "starting" /\ main' \in {"failed", "awaiting"}
        \/ main = "awaiting" /\ main' = "running"
        \/ main = "running" /\ main' = "quitting"
        \/ main = "quitting" /\ main' = "gone"
    BY <1>4 DEF StartFails, StartProceeds, StartReturns, DestroyRunning, Destroyed
  <2> QED BY <2>1, <2>2, <2>3, TagOwner
<1>5. CASE InitSockets \/ InitReturns \/ proxy_quit
  <2>1. UNCHANGED <<threads, workers, main, max_workers>>
    BY <1>5 DEF InitSockets, InitReturns, proxy_quit, calls
  <2>2. Aside /\ UNCHANGED <<waiting_on, tagged_go>>
    BY <2>1 DEF Aside, threads, workers
  <2>3. \/ proxy \in {"init", "binding"} /\ proxy' \in {"binding", "ended"}
        \/ proxy = "started" /\ proxy' = "loop"
        \/ proxy = "loop" /\ ~max_workers /\ proxy' = "ended"
    BY <1>5 DEF InitSockets, InitReturns, proxy_quit
  <2> QED BY <2>1, <2>2, <2>3, TagProxy
<1>6. ASSUME NEW good \in BOOLEAN, InitBind(good) PROVE TagInv'
  <2>1. UNCHANGED <<threads, workers, main, max_workers>>
    BY <1>6 DEF InitBind
  <2>2. Aside /\ UNCHANGED <<waiting_on, tagged_go>>
    BY <2>1 DEF Aside, threads, workers
  <2>3. proxy = "binding" /\ proxy' \in {"binding", "ended"}
    BY <1>6 DEF InitBind
  <2> QED BY <2>1, <2>2, <2>3, TagProxy
<1>7. CASE InitNotify
  <2>1. /\ tagged' = Awakened /\ waiting_on' = joinable /\ proxy = "notify" /\ proxy' = "waiting"
        /\ UNCHANGED <<joinable, connected, from_tagged, to_tagged, busy, main, tagged_go>>
    BY <1>7 DEF InitNotify, calls
  <2>2. ~AfterPhase /\ BeforePhase' /\ GoInv'
    BY <2>1, Phases DEF BeforePhase, TagInv, GoInv
  <2> QED BY <2>1, <2>2, Woken
<1>8. CASE DestroyNotify
  <2>1. /\ tagged' = Awakened /\ main = "notify" /\ main' = "joining"
        /\ UNCHANGED <<joinable, connected, from_tagged, to_tagged, busy, proxy, tagged_go>>
    BY <1>8 DEF DestroyNotify, workers
  <2>2. proxy \in {"none", "ended"}
    BY <2>1 DEF MainInv
  <2>3. ~AfterPhase /\ BeforePhase' /\ GoInv' /\ main' \in Leaving
    BY <2>1, <2>2, Phases DEF BeforePhase, TagInv, GoInv, Leaving
  <2> QED BY <2>1, <2>2, <2>3, Woken
<1>9. ASSUME NEW t \in Tagged, TaggedLock(t) \/ TaggedCheck(t) \/ TaggedSleep(t) \/ TaggedWakes(t)
      PROVE  TagInv'
  <2>1. UNCHANGED <<tagged_go, joinable, connected, workers, calls, proxy>>
    BY <1>9 DEF TaggedLock, TaggedCheck, TaggedSleep, TaggedWakes
  <2>2. tagged[t] \in {"lock", "check", "wait", "asleep"}
    BY <1>9 DEF TaggedLock, TaggedCheck, TaggedSleep, TaggedWakes
  <2>3. \E to \in {"lock", "check", "wait", "asleep", "told"} : Goes(t, to)
    BY <1>9 DEF TaggedLock, TaggedCheck, TaggedSleep, TaggedWakes
  <2> QED BY <2>1, <2>2, <2>3, EarlyMoves
<1>10. ASSUME NEW t \in Tagged, Thread(t) \/ TaggedWakes(t) \/ RunTagged(t) PROVE TagInv'
  BY <1>9, <1>10, ThreadTold, ThreadReceives, ThreadDone, JobGiven DEF Thread
<1>11. CASE Setup
  BY <1>2, <1>4, <1>11, ThreadAdded, TagStart, TagUnstarted DEF Setup
<1>12. CASE Main
  BY <1>4, <1>8, <1>12, AllJoined DEF Main
<1>13. CASE Proxy
  BY <1>3, <1>5, <1>6, <1>7, <1>13, GoSent, AllStarted, StartingSeen, JobDone, ThreadJoined, QuitSent
     DEF Proxy
<1> QED BY <1>3, <1>10, <1>11, <1>12, <1>13 DEF Next

(***************************************************************************)
(* For any number of tagged threads and of jobs, and wherever start() and  *)
(* the destructor find them: what the proxy sends a tagged thread finds it *)
(* connected and in the state that waits for it.  (proxy_loop_init,        *)
(* worker_thread, proxy_run_worker, proxy_worker_message)                  *)
(***************************************************************************)
THEOREM ThreadsFollowTheProtocol == Spec => []TaggedProtocol
<1>1. Init => MainInv /\ QuitInv /\ TagInv
  BY MainInit, QuitInit, TagInit
<1>2. MainInv /\ QuitInv /\ TagInv /\ [Next]_vars => MainInv' /\ QuitInv' /\ TagInv'
  BY MainStep, QuitStep, TagStep
<1> QED BY <1>1, <1>2, TagImplies, PTL DEF Spec
=============================================================================
