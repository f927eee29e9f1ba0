-------------------------- MODULE ProxyLoop_proofs --------------------------
(***************************************************************************)
(* Proofs about ProxyLoop and Timers, for any connections, client threads  *)
(* and timers, with zmq::poll and with epoll; the bounds MaxJobs,          *)
(* MaxControls and MaxArrivals play no part.                               *)
(***************************************************************************)
EXTENDS ProxyLoop, FiniteSetTheorems, TLAPS

(***************************************************************************)
(* What is known of the timers: a job is only there for a timer the proxy  *)
(* has heard of, so that its completion finds the entry of timer_jobs.     *)
(***************************************************************************)
TimerInv ==
    /\ queued \in [TimerIDs -> Nat] /\ working \in [TimerIDs -> Nat] /\ ran \in [TimerIDs -> Nat]
    /\ timer_jobs \in [DOMAIN timer_jobs -> BOOLEAN]
    /\ due \subseteq zmq_timers /\ timer_zmq_id = zmq_timers
    /\ zmq_timers \subseteq DOMAIN timer_jobs /\ DOMAIN timer_jobs \subseteq TimerIDs
    /\ \A t \in TimerIDs \ DOMAIN timer_jobs : queued[t] = 0 /\ working[t] = 0 /\ ran[t] = 0
    /\ SquelchExact

LEMMA TimerInit == InitTimers => TimerInv
BY TimersAssumption DEF InitTimers, TimerInv, SquelchExact, Jobs, Running

(* One lemma for each thing that may happen to timers and their jobs. *)
LEMMA AddStep ==
    ASSUME TimerInv, NEW t \in TimerIDs, t \notin DOMAIN timer_jobs, proxy_timer(t)
    PROVE  TimerInv'
<1> USE TimersAssumption
<1>1. DOMAIN timer_jobs' = DOMAIN timer_jobs \cup {t} /\ ~timer_jobs'[t]
  BY DEF proxy_timer
<1>2. \A x \in DOMAIN timer_jobs : timer_jobs'[x] = timer_jobs[x]
  BY DEF proxy_timer, TimerInv
<1>3. timer_jobs' \in [DOMAIN timer_jobs' -> BOOLEAN]
  BY DEF proxy_timer, TimerInv
<1>4. SquelchExact'
  BY <1>1, <1>2 DEF proxy_timer, TimerInv, SquelchExact, Jobs, Running
<1> QED BY <1>1, <1>3, <1>4 DEF proxy_timer, TimerInv

LEMMA DelStep ==
    ASSUME TimerInv, NEW t, proxy_timer_del(t) PROVE TimerInv'
BY DEF TimerInv, proxy_timer_del, SquelchExact, Jobs, Running

LEMMA FireStep ==
    ASSUME TimerInv, NEW t \in TimerIDs, queue_timer_job(t) PROVE TimerInv'
<1>1. t \in DOMAIN timer_jobs
  BY DEF TimerInv, queue_timer_job
<1>2. CASE Held(t) \/ t \in InProxy
  BY <1>2 DEF TimerInv, queue_timer_job, SquelchExact, Jobs, Running
<1>3. CASE ~(Held(t) \/ t \in InProxy)
  <2>1. /\ queued' = [queued EXCEPT ![t] = @ + 1]
        /\ timer_jobs' = [timer_jobs EXCEPT ![t] = t \in Squelch]
        /\ UNCHANGED <<working, ran>>
    BY <1>3 DEF queue_timer_job
  <2>2. SquelchExact'
    <3> SUFFICES ASSUME NEW x \in Squelch PROVE Jobs(x)' = IF Running(x)' THEN 1 ELSE 0
      BY DEF SquelchExact
    <3>1. Jobs(x) = IF Running(x) THEN 1 ELSE 0
      BY DEF TimerInv, SquelchExact
    <3>2. CASE x = t
      <4>1. ~Running(x) /\ Running(x)'
        BY <1>1, <1>3, <2>1, <3>2 DEF Held, Running, TimerInv
      <4> QED BY <2>1, <3>1, <3>2, <4>1 DEF Jobs, TimerInv
    <3>3. CASE x # t
      <4>1. Running(x)' <=> Running(x)
        BY <2>1, <3>3 DEF Running, TimerInv
      <4> QED BY <2>1, <3>1, <3>3, <4>1, TimersAssumption DEF Jobs, TimerInv
    <3> QED BY <3>2, <3>3
  <2> QED BY <1>1, <2>1, <2>2 DEF TimerInv, queue_timer_job
<1> QED BY <1>2, <1>3

LEMMA StartStep ==
    ASSUME TimerInv, NEW t \in TimerIDs, JobStarts(t) PROVE TimerInv'
<1>1. \A x \in TimerIDs : Jobs(x)' = Jobs(x)
  BY DEF TimerInv, JobStarts, Jobs
<1>2. SquelchExact'
  BY <1>1, TimersAssumption DEF TimerInv, JobStarts, SquelchExact, Running
<1> QED BY <1>2 DEF TimerInv, JobStarts

LEMMA FinishStep ==
    ASSUME TimerInv, NEW t \in TimerIDs, JobFinishes(t) PROVE TimerInv'
<1>1. \A x \in TimerIDs : Jobs(x)' = Jobs(x)
  BY DEF TimerInv, JobFinishes, Jobs
<1>2. SquelchExact'
  BY <1>1, TimersAssumption DEF TimerInv, JobFinishes, SquelchExact, Running
<1> QED BY <1>2 DEF TimerInv, JobFinishes

LEMMA CompleteStep ==
    ASSUME TimerInv, NEW t \in TimerIDs, JobCompletes(t) PROVE TimerInv'
<1>1. t \in DOMAIN timer_jobs
  BY DEF TimerInv, JobCompletes
<1>2. SquelchExact'
  <2> SUFFICES ASSUME NEW x \in Squelch PROVE Jobs(x)' = IF Running(x)' THEN 1 ELSE 0
    BY DEF SquelchExact
  <2>1. Jobs(x) = IF Running(x) THEN 1 ELSE 0
    BY DEF TimerInv, SquelchExact
  <2>2. CASE x = t
    <3>1. ~Running(x)'
      BY <1>1, <2>2 DEF JobCompletes, StillRunning, Running, TimerInv
    <3> QED BY <2>1, <2>2, <3>1 DEF JobCompletes, Jobs, TimerInv
  <2>3. CASE x # t
    <3>1. Running(x)' <=> Running(x)
      BY <2>3 DEF JobCompletes, Running, TimerInv
    <3> QED BY <2>1, <2>3, <3>1, TimersAssumption DEF JobCompletes, Jobs, TimerInv
  <2> QED BY <2>2, <2>3
<1> QED BY <1>1, <1>2 DEF TimerInv, JobCompletes, StillRunning

LEMMA ElapseStep == ASSUME TimerInv, NEW t \in TimerIDs, Elapses(t) PROVE TimerInv'
BY DEF TimerInv, Elapses, SquelchExact, Jobs, Running

LEMMA TimersStay == ASSUME TimerInv, UNCHANGED tvars PROVE TimerInv'
BY DEF TimerInv, tvars, SquelchExact, Jobs, Running

-----------------------------------------------------------------------------
LEMMA HeadFact == ASSUME NEW S, NEW q \in Seq(S), q # <<>> PROVE Head(q) \in S
OBVIOUS

(***************************************************************************)
(* The control messages on their way: a TIMER message comes from the owner *)
(* of the timer, there is one of each, and the proxy has not had it yet.   *)
(***************************************************************************)
Messages ==
    [cmd : {"TIMER", "TIMER_DEL"}, arg : TimerIDs] \cup [cmd : {"SEND", "DISCONNECT"}, arg : Conns]
        \cup [cmd : {"BATCH", "INJECT"}, arg : {"-"}]
ControlInv ==
    /\ issued \subseteq TimerIDs /\ DOMAIN timer_jobs \subseteq issued
    /\ controls \in [Threads -> Seq(Messages)]
    /\ \A c \in Threads : \A i \in 1..Len(controls[c]) : controls[c][i].cmd = "TIMER" =>
          /\ controls[c][i].arg \in issued \ DOMAIN timer_jobs
          /\ Owner[controls[c][i].arg] = c
          /\ \A j \in 1..Len(controls[c]) : controls[c][j] = controls[c][i] => j = i

LEMMA SendStep ==
    ASSUME ControlInv, NEW c \in Threads, NEW m \in Messages,
           controls' = [controls EXCEPT ![c] = Append(@, m)],
           UNCHANGED timer_jobs, issued \subseteq issued', issued' \subseteq TimerIDs,
           m.cmd = "TIMER" => m.arg \in issued' \ issued /\ Owner[m.arg] = c
    PROVE  ControlInv'
<1>1. controls' \in [Threads -> Seq(Messages)]
  BY DEF ControlInv
<1> SUFFICES ASSUME NEW d \in Threads, NEW i \in 1..Len(controls'[d]),
                    controls'[d][i].cmd = "TIMER"
             PROVE  /\ controls'[d][i].arg \in issued' \ DOMAIN timer_jobs
                    /\ Owner[controls'[d][i].arg] = d
                    /\ \A j \in 1..Len(controls'[d]) : controls'[d][j] = controls'[d][i] => j = i
  BY <1>1 DEF ControlInv
<1>2. CASE d # c
  BY <1>2 DEF ControlInv
<1>3. CASE d = c
  <2>1. /\ controls[c] \in Seq(Messages) /\ Len(controls'[c]) = Len(controls[c]) + 1
        /\ controls'[c][Len(controls[c]) + 1] = m
        /\ \A j \in 1..Len(controls[c]) : controls'[c][j] = controls[c][j]
    BY DEF ControlInv
  <2>2. CASE i \in 1..Len(controls[c])
    <3>1. controls[c][i].cmd = "TIMER" /\ controls[c][i].arg \in issued
      BY <1>3, <2>1, <2>2 DEF ControlInv
    <3>2. m # controls[c][i]
      BY <3>1
    <3> QED BY <1>3, <2>1, <2>2, <3>1, <3>2 DEF ControlInv
  <2>3. CASE i = Len(controls[c]) + 1
    <3>1. m.cmd = "TIMER" /\ m.arg \notin issued
      BY <1>3, <2>1, <2>3
    <3>2. \A j \in 1..Len(controls[c]) : controls[c][j] # m
      BY <3>1 DEF ControlInv
    <3> QED BY <1>3, <2>1, <2>3, <3>1, <3>2 DEF ControlInv
  <2> QED BY <1>3, <2>1, <2>2, <2>3
<1> QED BY <1>2, <1>3

(* The proxy takes a message from c; only TIMER makes an entry in timer_jobs. *)
LEMMA TakeStep ==
    ASSUME ControlInv, NEW c \in Threads, controls[c] # <<>>,
           controls' = [controls EXCEPT ![c] = Tail(@)], UNCHANGED issued,
           \/ DOMAIN timer_jobs' = DOMAIN timer_jobs
           \/ /\ Head(controls[c]).cmd = "TIMER"
              /\ DOMAIN timer_jobs' = DOMAIN timer_jobs \cup {Head(controls[c]).arg}
    PROVE  ControlInv'
<1>1. controls' \in [Threads -> Seq(Messages)]
  BY DEF ControlInv
<1>2. /\ controls[c] \in Seq(Messages) /\ Len(controls[c]) > 0
      /\ Head(controls[c]) = controls[c][1]
      /\ Len(controls'[c]) = Len(controls[c]) - 1
      /\ \A j \in 1..Len(controls'[c]) : controls'[c][j] = controls[c][j + 1]
  BY DEF ControlInv
<1>3. Head(controls[c]).cmd = "TIMER" =>
        Head(controls[c]).arg \in issued /\ Owner[Head(controls[c]).arg] = c
  BY <1>2 DEF ControlInv
<1>0. DOMAIN timer_jobs' \subseteq issued'
  BY <1>3 DEF ControlInv
<1> SUFFICES ASSUME NEW d \in Threads, NEW i \in 1..Len(controls'[d]),
                    controls'[d][i].cmd = "TIMER"
             PROVE  /\ controls'[d][i].arg \in issued' \ DOMAIN timer_jobs'
                    /\ Owner[controls'[d][i].arg] = d
                    /\ \A j \in 1..Len(controls'[d]) : controls'[d][j] = controls'[d][i] => j = i
  BY <1>0, <1>1 DEF ControlInv
<1>4. CASE d # c
  <2>1. controls'[d] = controls[d]
    BY <1>4 DEF ControlInv
  <2> QED BY <1>3, <1>4, <2>1 DEF ControlInv
<1>5. CASE d = c
  <2>1. i + 1 \in 1..Len(controls[c]) /\ 1 \in 1..Len(controls[c])
    BY <1>2, <1>5
  <2>2. controls[c][i + 1].cmd = "TIMER"
    BY <1>2, <1>5
  <2>3. controls[c][1] # controls[c][i + 1]
    BY <2>1, <2>2 DEF ControlInv
  <2>4. Head(controls[c]).cmd = "TIMER" => Head(controls[c]).arg # controls[c][i + 1].arg
    <3>1. controls[c][1] \in Messages /\ controls[c][i + 1] \in Messages
      BY <1>2, <2>1
    <3>2. ASSUME NEW m \in Messages, m.cmd = "TIMER" PROVE m = [cmd |-> "TIMER", arg |-> m.arg]
      BY <3>2 DEF Messages
    <3> QED BY <1>2, <2>2, <2>3, <3>1, <3>2
  <2>5. controls[c][i + 1].arg \in issued' \ DOMAIN timer_jobs'
    BY <1>2, <2>1, <2>2, <2>4 DEF ControlInv
  <2>6. Owner[controls[c][i + 1].arg] = c
    BY <2>1, <2>2 DEF ControlInv
  <2>7. ASSUME NEW j \in 1..Len(controls'[c]), controls'[c][j] = controls'[c][i] PROVE j = i
    <3>1. j + 1 \in 1..Len(controls[c]) /\ controls[c][j + 1] = controls[c][i + 1]
      BY <1>2, <1>5, <2>7
    <3>2. j + 1 = i + 1
      BY <2>1, <2>2, <3>1 DEF ControlInv
    <3> QED BY <3>2
  <2> QED BY <1>2, <1>5, <2>5, <2>6, <2>7
<1> QED BY <1>4, <1>5

LEMMA ControlsStay ==
    ASSUME ControlInv, UNCHANGED <<controls, issued>>, DOMAIN timer_jobs' = DOMAIN timer_jobs
    PROVE  ControlInv'
BY DEF ControlInv

LEMMA TimerControlStep ==
    TimerInv /\ ControlInv /\ [Next]_vars => TimerInv' /\ ControlInv'
<1> SUFFICES ASSUME TimerInv, ControlInv, [Next]_vars PROVE TimerInv' /\ ControlInv'
  OBVIOUS
<1>1. ASSUME NEW t \in TimerIDs, add_timer(t) PROVE TimerInv' /\ ControlInv'
  <2> PICK m : m = [cmd |-> "TIMER", arg |-> t]
    OBVIOUS
  <2>1. m \in Messages /\ m.arg = t /\ Owner[t] \in Threads
    BY LoopAssumption DEF Messages
  <2>2. /\ controls' = [controls EXCEPT ![Owner[t]] = Append(@, m)]
        /\ issued' = issued \cup {t} /\ t \notin issued /\ UNCHANGED tvars
    BY <1>1 DEF add_timer, Send
  <2>a. /\ UNCHANGED timer_jobs /\ issued \subseteq issued' /\ issued' \subseteq TimerIDs
        /\ m.arg \in issued' \ issued /\ Owner[m.arg] = Owner[t]
    BY <2>1, <2>2 DEF tvars, ControlInv
  <2>3. ControlInv'
    BY <2>1, <2>2, <2>a, SendStep
  <2> QED BY <2>2, <2>3, TimersStay
<1>2. ASSUME NEW c \in Threads, NEW m \in ControlMessages, Control(c, m)
      PROVE  TimerInv' /\ ControlInv'
  <2>1. m \in Messages /\ m.cmd # "TIMER"
    BY DEF ControlMessages, Messages, ControlInv
  <2>2. /\ controls' = [controls EXCEPT ![c] = Append(@, m)] /\ UNCHANGED <<issued, tvars>>
    BY <1>2 DEF Control, Send
  <2>3. ControlInv'
    BY <2>1, <2>2, SendStep DEF tvars, ControlInv
  <2> QED BY <2>2, <2>3, TimersStay
<1>3. ASSUME NEW t \in TimerIDs, WorkerFinishes(t) PROVE TimerInv' /\ ControlInv'
  BY <1>3, FinishStep, ControlsStay DEF WorkerFinishes, JobFinishes
<1>4. ASSUME NEW t \in TimerIDs, Elapses(t), UNCHANGED lvars PROVE TimerInv' /\ ControlInv'
  BY <1>4, ElapseStep, ControlsStay DEF Elapses, lvars
<1>5. CASE Command
  <2>1. PICK c \in Threads :
            /\ controls[c] # <<>> /\ controls' = [controls EXCEPT ![c] = Tail(@)]
            /\ \/ Head(controls[c]).cmd = "TIMER" /\ proxy_timer(Head(controls[c]).arg)
               \/ proxy_timer_del(Head(controls[c]).arg)
               \/ UNCHANGED tvars
    BY <1>5 DEF Command
  <2>2. UNCHANGED issued
    BY <1>5 DEF Command
  <2>3. Head(controls[c]) = controls[c][1] /\ 1 \in 1..Len(controls[c])
    BY <2>1 DEF ControlInv
  <2>4. CASE Head(controls[c]).cmd = "TIMER" /\ proxy_timer(Head(controls[c]).arg)
    <3>1. Head(controls[c]).arg \in TimerIDs \ DOMAIN timer_jobs
      BY <2>3, <2>4 DEF ControlInv
    <3>2. DOMAIN timer_jobs' = DOMAIN timer_jobs \cup {Head(controls[c]).arg}
      BY <2>4 DEF proxy_timer
    <3> QED BY <2>1, <2>2, <2>4, <3>1, <3>2, AddStep, TakeStep
  <2>5. CASE proxy_timer_del(Head(controls[c]).arg)
    BY <2>1, <2>2, <2>5, DelStep, TakeStep DEF proxy_timer_del
  <2>6. CASE UNCHANGED tvars
    BY <2>1, <2>2, <2>6, TimersStay, TakeStep DEF tvars
  <2> QED BY <2>1, <2>4, <2>5, <2>6
<1>6. CASE Workers
  BY <1>6, CompleteStep, ControlsStay DEF Workers, JobCompletes, lvars, TimerInv
<1>7. CASE TimerFires
  <2>1. UNCHANGED <<controls, issued>>
    BY <1>7 DEF TimerFires
  <2>2. CASE UNCHANGED tvars
    BY <2>1, <2>2, TimersStay, ControlsStay DEF tvars
  <2>3. ASSUME NEW t \in TimerIDs, queue_timer_job(t) PROVE TimerInv' /\ ControlInv'
    BY <2>1, <2>3, FireStep, ControlsStay DEF queue_timer_job, TimerInv
  <2> QED BY <1>7, <2>2, <2>3 DEF TimerFires
<1>8. CASE ProcessQueue
  <2>1. UNCHANGED <<controls, issued>>
    BY <1>8 DEF ProcessQueue
  <2>2. CASE UNCHANGED tvars
    BY <2>1, <2>2, TimersStay, ControlsStay DEF tvars
  <2>3. ASSUME NEW t \in TimerIDs, JobStarts(t) PROVE TimerInv' /\ ControlInv'
    BY <2>1, <2>3, StartStep, ControlsStay DEF JobStarts
  <2> QED BY <1>8, <2>2, <2>3 DEF ProcessQueue
<1>9. CASE UNCHANGED <<tvars, controls, issued>>
  BY <1>9, TimersStay, ControlsStay DEF tvars
<1>10. CASE Loop
  <2>1. Top \/ Wait \/ TimersDone \/ ZapRequest => UNCHANGED <<tvars, controls, issued>>
    BY DEF Top, Wait, TimersDone, ZapRequest
  <2>2. Stale \/ ReceiveNone \/ Receive \/ NoneLeft \/ Recheck
            => UNCHANGED <<tvars, controls, issued>>
    BY DEF Stale, ReceiveNone, Receive, NoneLeft, Recheck
  <2>3. \A x, next : Drained(x, next) => UNCHANGED <<tvars, controls, issued>>
    BY DEF Drained
  <2> QED BY <1>5, <1>6, <1>7, <1>8, <1>9, <1>10, <2>1, <2>2, <2>3 DEF Loop
<1>11. CASE Outside
  <2>1. ASSUME NEW x, Arrives(x) PROVE UNCHANGED <<tvars, controls, issued>>
    BY <2>1 DEF Arrives
  <2> QED BY <1>1, <1>2, <1>3, <1>4, <1>9, <1>11, <2>1 DEF Outside
<1>12. CASE Undefined \/ UNCHANGED vars
  BY <1>9, <1>12 DEF Undefined, vars, lvars
<1> QED BY <1>10, <1>11, <1>12 DEF Next

-----------------------------------------------------------------------------
(* The queue of connections: each once, whatever is done to it. *)

Once(q) == \A i, j \in 1..Len(q) : q[i] = q[j] => i = j

LEMMA OrdersFacts ==
    ASSUME NEW S, S \subseteq Conns, NEW q \in Orders(S)
    PROVE  q \in Seq(S) /\ q \in Seq(Conns) /\ Once(q)
<1>1. IsFiniteSet(S) /\ Cardinality(S) \in Nat
  BY LoopAssumption, FS_Subset, FS_CardinalityType
<1>2. q \in [1..Cardinality(S) -> S] /\ IsInjective(q)
  BY DEF Orders, Injection
<1>3. q \in Seq(S) /\ Len(q) = Cardinality(S)
  BY <1>1, <1>2
<1> QED BY <1>2, <1>3 DEF Once, IsInjective

LEMMA TailFacts ==
    ASSUME NEW S, NEW q \in Seq(S), q # <<>>, Once(q)
    PROVE  Tail(q) \in Seq(S) /\ Once(Tail(q))
BY DEF Once

LEMMA RequeuedFacts ==
    ASSUME NEW S, NEW q \in Seq(S), q # <<>>, Once(q)
    PROVE  Requeued(q) \in Seq(S) /\ Once(Requeued(q))
<1>1. Len(q) \in Nat \ {0} /\ Head(q) \in S /\ Tail(q) \in Seq(S)
  OBVIOUS
<1>2. Requeued(q) \in Seq(S) /\ Len(Requeued(q)) = Len(q)
  BY <1>1 DEF Requeued
<1>3. \A i \in 1..Len(q) : Requeued(q)[i] = q[IF i = Len(q) THEN 1 ELSE i + 1]
  BY <1>1 DEF Requeued
<1> QED BY <1>1, <1>2, <1>3 DEF Once

LEMMA OnceBound ==
    ASSUME NEW q \in Seq(Conns), Once(q)
    PROVE  Len(q) <= Cardinality(Conns)
<1>1. Len(q) \in Nat /\ q \in [1..Len(q) -> Conns]
  OBVIOUS
<1>2. q \in Injection(1..Len(q), Conns)
  BY <1>1 DEF Injection, IsInjective, Once
<1>3. Cardinality(1..Len(q)) = Len(q)
  BY <1>1, FS_Interval
<1> QED BY <1>2, <1>3, FS_Injection, LoopAssumption

-----------------------------------------------------------------------------
(* The sockets: what the proxy and the outside may do to them. *)

LEMMA ReadableOf ==
    /\ Readable("command") = (\E c \in Threads : controls[c] # <<>>)
    /\ Readable("workers") = (\E t \in TimerIDs : ran[t] > 0)
    /\ \A s \in Conns \cup {"zap"} : Readable(s) = (inbox[s] > 0)
<1>1. Readable("command") = (\E c \in Threads : controls[c] # <<>>)
  BY DEF Readable
<1>2. Readable("workers") = (\E t \in TimerIDs : ran[t] > 0)
  BY DEF Readable
<1>3. \A s \in Conns \cup {"zap"} : Readable(s) = (inbox[s] > 0)
  BY LoopAssumption DEF Readable
<1> QED BY <1>1, <1>2, <1>3

SocketInv ==
    /\ connections_updated \in BOOLEAN
    /\ connections \subseteq opened /\ opened \subseteq Conns
    /\ edge \subseteq signalled /\ signalled \subseteq Open
    /\ inbox \in [Conns \cup {"zap"} -> Int]

LEMMA SocketStep ==
    ASSUME SocketInv, NEW c \in Conns, Nothing \/ Uses(c) \/ Opens(c) \/ Closes(c)
    PROVE  SocketInv'
<1>1. CASE Nothing
  BY <1>1 DEF Nothing, SocketInv, Open
<1>2. CASE Uses(c)
  BY <1>2 DEF Uses, Look, SocketInv, Open
<1>3. CASE Opens(c)
  BY <1>3 DEF Opens, SocketInv, Open
<1>4. CASE Closes(c)
  <2>1. connections' \subseteq opened' /\ opened' \subseteq Conns /\ connections_updated' = TRUE
    BY <1>4 DEF Closes, SocketInv
  <2>2. edge' \subseteq signalled' /\ signalled' \subseteq Open'
    BY <1>4, LoopAssumption DEF Closes, SocketInv, Open, Fixed
  <2>3. inbox' \in [Conns \cup {"zap"} -> Int]
    <3>1. inbox' = [inbox EXCEPT ![c] = 0]
      BY <1>4 DEF Closes
    <3> QED BY <3>1 DEF SocketInv
  <2> QED BY <2>1, <2>2, <2>3 DEF SocketInv
<1> QED BY <1>1, <1>2, <1>3, <1>4

LEMMA SignalStep ==
    ASSUME SocketInv, NEW s \in Open, Signal(s),
           UNCHANGED <<connections, opened, connections_updated>>,
           inbox' \in [Conns \cup {"zap"} -> Int]
    PROVE  SocketInv'
BY DEF Signal, SocketInv, Open

LEMMA LookStep ==
    ASSUME SocketInv, edge' \subseteq signalled', signalled' \subseteq signalled,
           UNCHANGED <<connections, opened>>, connections_updated' \in BOOLEAN,
           inbox' \in [Conns \cup {"zap"} -> Int]
    PROVE  SocketInv'
BY DEF SocketInv, Open

(* LoopTypeOK without the timers and with the queue's pointers each once. *)
BaseInv ==
    /\ SocketInv
    /\ using_epoll \in BOOLEAN /\ skip \in BOOLEAN /\ process_all \in BOOLEAN
    /\ pc \in {"top", "wait", "command", "workers", "timers", "zap", "queue", "incoming",
               "recheck", "undefined"}
    /\ process \subseteq Fixed
    /\ queue \in Seq(Conns) /\ Once(queue)
    /\ unchecked \subseteq Open /\ (pc # "recheck" => unchecked = {})

LEMMA BaseInit == Init => BaseInv
<1> SUFFICES ASSUME Init PROVE BaseInv
  OBVIOUS
<1>1. SocketInv
  BY LoopAssumption DEF Init, SocketInv, Open
<1>2. queue \in Seq(Conns) /\ Once(queue)
  BY DEF Init, Once
<1> QED BY <1>1, <1>2, LoopAssumption DEF Init, BaseInv

LEMMA BaseOutside == BaseInv /\ Outside => BaseInv'
<1> SUFFICES ASSUME BaseInv, Outside PROVE BaseInv'
  OBVIOUS
<1> DEFINE Rest == <<using_epoll, skip, process_all, pc, process, queue, unchecked, connections>>
<1>1. ASSUME NEW c, NEW m, Send(c, m) PROVE SocketInv' /\ UNCHANGED Rest
  BY <1>1, SignalStep DEF Send, BaseInv, SocketInv, Open, Fixed
<1>2. ASSUME NEW s, Arrives(s) PROVE SocketInv' /\ UNCHANGED Rest
  <2>1. s \in Open /\ inbox' \in [Conns \cup {"zap"} -> Int]
    BY <1>2 DEF Arrives, BaseInv, SocketInv, Open, Fixed
  <2> QED BY <1>2, <2>1, SignalStep DEF Arrives, BaseInv
<1>3. ASSUME NEW t, WorkerFinishes(t) PROVE SocketInv' /\ UNCHANGED Rest
  BY <1>3, SignalStep DEF WorkerFinishes, BaseInv, SocketInv, Open, Fixed
<1>4. ASSUME UNCHANGED lvars PROVE SocketInv' /\ UNCHANGED Rest
  BY <1>4 DEF lvars, BaseInv, SocketInv, Open
<1>5. SocketInv' /\ UNCHANGED Rest
  BY <1>1, <1>2, <1>3, <1>4 DEF Outside, add_timer, Control
<1> QED BY <1>5 DEF BaseInv, Open, Once

LEMMA BaseLoop == BaseInv /\ TimerInv /\ ControlInv /\ Loop => BaseInv'
<1> SUFFICES ASSUME BaseInv, TimerInv, ControlInv, Loop PROVE BaseInv'
  OBVIOUS
<1>1. CASE Top
  <2>1. SocketInv'
    BY <1>1, LookStep DEF Top, rebuild_pollitems, Look, BaseInv, SocketInv
  <2> QED BY <1>1, <2>1 DEF Top, BaseInv, Open, Once
<1>2. CASE Wait
  <2>1. SocketInv'
    BY <1>2, LookStep DEF Wait, Look, BaseInv, SocketInv
  <2>2. queue' \in Seq(Conns) /\ Once(queue')
    BY <1>2, OrdersFacts DEF Wait, BaseInv, SocketInv
  <2> QED BY <1>2, <2>1, <2>2 DEF Wait, BaseInv, Open, Once
<1>3. CASE Command
  <2>1. PICK c \in Threads : controls[c] # <<>> /\
            \/ Nothing \/ Injects
            \/ /\ Head(controls[c]).cmd \in {"SEND", "DISCONNECT"}
               /\ LET x == Head(controls[c]).arg IN Uses(x) \/ Opens(x) \/ Closes(x)
    BY <1>3 DEF Command
  <2>2. Head(controls[c]) \in Messages
    <3>1. controls[c] \in Seq(Messages)
      BY <2>1 DEF ControlInv
    <3> QED BY <2>1, <3>1, HeadFact, Zenon
  <2>3. Head(controls[c]).cmd \in {"SEND", "DISCONNECT"} => Head(controls[c]).arg \in Conns
    BY <2>2 DEF Messages
  <2>4. SocketInv'
    <3>1. CASE Nothing
      BY <3>1 DEF Nothing, BaseInv, SocketInv, Open
    <3>2. CASE Injects
      BY <3>2, LookStep DEF Injects, Look, BaseInv, SocketInv
    <3> QED BY <2>1, <2>3, <3>1, <3>2, SocketStep DEF BaseInv
  <2>5. skip' \in BOOLEAN
    BY <1>3, Zenon DEF Command, Skips, BaseInv
  <2>6. UNCHANGED <<using_epoll, process_all, pc, process, queue, unchecked>>
    BY <1>3 DEF Command
  <2> QED BY <1>3, <2>4, <2>5, <2>6 DEF Command, BaseInv, Open, Once
<1>4. CASE TimerFires
  <2>1. SocketInv'
    <3>1. CASE Nothing
      BY <3>1 DEF Nothing, BaseInv, SocketInv, Open
    <3> QED BY <1>4, <3>1, SocketStep DEF TimerFires, BaseInv
  <2> QED BY <1>4, <2>1 DEF TimerFires, BaseInv, Open, Once
<1>5. CASE Workers \/ TimersDone \/ Stale
  BY <1>5 DEF Workers, TimersDone, Stale, lvars, BaseInv, SocketInv, Open, Once
<1>6. CASE ZapRequest
  <2>1. inbox' \in [Conns \cup {"zap"} -> Int]
    BY <1>6 DEF ZapRequest, BaseInv, SocketInv
  <2> QED BY <1>6, <2>1 DEF ZapRequest, BaseInv, SocketInv, Open, Once
<1>7. ASSUME NEW s, NEW next \in {"workers", "timers", "queue"}, pc # "recheck", Drained(s, next)
      PROVE  BaseInv'
  <2>1. SocketInv'
    BY <1>7, LookStep DEF Drained, Look, BaseInv, SocketInv
  <2> QED BY <1>7, <2>1 DEF Drained, BaseInv, Open, Once
<1>8. CASE ProcessQueue
  <2>1. SocketInv'
    BY <1>8, LookStep DEF ProcessQueue, Look, BaseInv, SocketInv
  <2>2. queue' \in Seq(Conns) /\ Once(queue')
    <3>1. {c \in connections : Readable(c)} \subseteq Conns
      BY DEF BaseInv, SocketInv
    <3>2. queue' \in Orders({c \in connections : Readable(c)}) \/ queue' = queue
      BY <1>8 DEF ProcessQueue
    <3> QED BY <3>1, <3>2, OrdersFacts DEF BaseInv
  <2> QED BY <1>8, <2>1, <2>2 DEF ProcessQueue, BaseInv, Open, Once
<1>9. CASE ReceiveNone
  <2>1. SocketInv'
    BY <1>9, LookStep DEF ReceiveNone, Look, BaseInv, SocketInv
  <2>2. queue' \in Seq(Conns) /\ Once(queue')
    BY <1>9, TailFacts DEF ReceiveNone, BaseInv
  <2> QED BY <1>9, <2>1, <2>2 DEF ReceiveNone, BaseInv, Open, Once
<1>10. CASE Receive
  <2>1. queue' \in Seq(Conns) /\ Once(queue') /\ Head(queue) \in Conns
    BY <1>10, RequeuedFacts DEF Receive, BaseInv
  <2>2. SocketInv'
    <3>1. CASE Closes(Head(queue))
      BY <2>1, <3>1, SocketStep DEF BaseInv
    <3>2. CASE /\ inbox' = [inbox EXCEPT ![Head(queue)] = @ - 1]
               /\ UNCHANGED <<connections, opened, connections_updated>> /\ \E ss : Look(ss)
      <4>1. inbox' \in [Conns \cup {"zap"} -> Int]
        BY <2>1, <3>2 DEF BaseInv, SocketInv
      <4>2. edge' \subseteq signalled' /\ signalled' \subseteq signalled
        BY <3>2 DEF Look, BaseInv, SocketInv
      <4>3. connections_updated' \in BOOLEAN
        BY <3>2 DEF BaseInv, SocketInv
      <4> QED BY <3>2, <4>1, <4>2, <4>3, LookStep DEF BaseInv
    <3> QED BY <1>10, <3>1, <3>2 DEF Receive
  <2>3. pc' \in {"recheck", "incoming"} /\ skip' \in BOOLEAN /\ unchecked' = {}
    BY <1>10 DEF Receive, AfterMessage, BaseInv
  <2> QED BY <1>10, <2>1, <2>2, <2>3 DEF Receive, BaseInv
<1>11. CASE NoneLeft
  BY <1>11 DEF NoneLeft, AllServed, BaseInv, SocketInv, Open, Once
<1>12. CASE Recheck
  <2>1. SocketInv'
    BY <1>12, LookStep DEF Recheck, Look, BaseInv, SocketInv
  <2>a. \A s \in Open : Readable(s) \in BOOLEAN
    <3>1. Readable("command") \in BOOLEAN /\ Readable("workers") \in BOOLEAN
      BY ReadableOf, Zenon
    <3>2. \A s \in Conns \cup {"zap"} : Readable(s) \in BOOLEAN
      <4>1. \A s \in Conns \cup {"zap"} : (inbox[s] > 0) \in BOOLEAN
        BY DEF BaseInv, SocketInv
      <4> QED BY <4>1, ReadableOf, Zenon
    <3> QED BY <3>1, <3>2 DEF Open, Fixed, BaseInv, SocketInv
  <2>2. skip' \in BOOLEAN
    BY <1>12, <2>a DEF Recheck, BaseInv
  <2>3. queue' \in Seq(Conns) /\ Once(queue')
    <3>1. queue' = <<>> \/ queue' = queue
      BY <1>12 DEF Recheck
    <3>2. CASE queue' = <<>>
      BY <3>2 DEF Once
    <3>3. CASE queue' = queue
      BY <3>3 DEF BaseInv, Once
    <3> QED BY <3>1, <3>2, <3>3
  <2> QED BY <1>12, <2>1, <2>2, <2>3 DEF Recheck, BaseInv, Open
<1> QED BY <1>1, <1>2, <1>3, <1>4, <1>5, <1>6, <1>7, <1>8, <1>9, <1>10, <1>11, <1>12 DEF Loop

LEMMA BaseStep == BaseInv /\ TimerInv /\ ControlInv /\ [Next]_vars => BaseInv'
<1>1. BaseInv /\ UNCHANGED vars => BaseInv'
  BY DEF vars, lvars, BaseInv, SocketInv, Open, Once
<1> QED BY <1>1, BaseOutside, BaseLoop DEF Next, Undefined

-----------------------------------------------------------------------------
(***************************************************************************)
(* Why no wake-up is lost.  A socket that the loop has used may be left    *)
(* with a message and no edge, and with any number of rounds' sockets this *)
(* goes on until the end of the round.  From there until epoll_wait either *)
(* the loop is going to look at everything (connections_updated or         *)
(* proxy_skip_one_poll), or every socket it has checked will be reported   *)
(* if it has, or gets, something to read.                                  *)
(***************************************************************************)
Heard == \A s \in Open \ unchecked : Readable(s) \/ s \in signalled => s \in edge
WakeInv ==
    using_epoll =>
        /\ pc = "wait" \/ unchecked # {} => ~connections_updated /\ ~skip
        /\ pc \in {"top", "wait", "recheck"} => connections_updated \/ skip \/ Heard

LEMMA ReadableNext ==
    /\ Readable("command")' = (\E c \in Threads : controls'[c] # <<>>)
    /\ Readable("workers")' = (\E t \in TimerIDs : ran'[t] > 0)
    /\ \A s \in Conns \cup {"zap"} : Readable(s)' = (inbox'[s] > 0)
<1>1. Readable("command")' = (\E c \in Threads : controls'[c] # <<>>)
  BY DEF Readable
<1>2. Readable("workers")' = (\E t \in TimerIDs : ran'[t] > 0)
  BY DEF Readable
<1>3. \A s \in Conns \cup {"zap"} : Readable(s)' = (inbox'[s] > 0)
  BY LoopAssumption DEF Readable
<1> QED BY <1>1, <1>2, <1>3

LEMMA HeardSignal ==
    ASSUME NEW x, Heard, Signal(x), UNCHANGED <<connections, unchecked>>,
           \A s \in Open \ {x} : Readable(s)' => Readable(s)
    PROVE  Heard'
BY DEF Heard, Signal, Open

LEMMA WakeOutside ==
    ASSUME BaseInv, WakeInv, Outside PROVE WakeInv'
<1> DEFINE Same == UNCHANGED <<using_epoll, pc, unchecked, connections, connections_updated, skip>>
<1>1. ASSUME NEW c, NEW m, Send(c, m), UNCHANGED tvars PROVE Same /\ (Heard => Heard')
  <2>1. Same /\ Signal("command") /\ UNCHANGED <<inbox, ran>>
    BY <1>1 DEF Send, tvars
  <2>2. \A s \in Open \ {"command"} : Readable(s)' = Readable(s)
    BY <2>1, ReadableOf, ReadableNext DEF Open, Fixed, BaseInv, SocketInv
  <2> QED BY <2>1, <2>2, HeardSignal
<1>2. ASSUME NEW x, Arrives(x) PROVE Same /\ (Heard => Heard')
  <2>1. /\ Same /\ Signal(x) /\ UNCHANGED <<controls, ran>>
        /\ \A s \in Conns \cup {"zap"} : s # x => inbox'[s] = inbox[s]
    BY <1>2 DEF Arrives, tvars, BaseInv, SocketInv
  <2>2. \A s \in Open \ {x} : Readable(s)' = Readable(s)
    BY <2>1, ReadableOf, ReadableNext DEF Open, Fixed, BaseInv, SocketInv
  <2> QED BY <2>1, <2>2, HeardSignal
<1>3. ASSUME NEW t, WorkerFinishes(t) PROVE Same /\ (Heard => Heard')
  <2>1. Same /\ Signal("workers") /\ UNCHANGED <<inbox, controls>>
    BY <1>3 DEF WorkerFinishes
  <2>2. \A s \in Open \ {"workers"} : Readable(s)' = Readable(s)
    BY <2>1, ReadableOf, ReadableNext DEF Open, Fixed, BaseInv, SocketInv
  <2> QED BY <2>1, <2>2, HeardSignal
<1>4. ASSUME NEW t, Elapses(t), UNCHANGED lvars PROVE Same /\ (Heard => Heard')
  BY <1>4 DEF Elapses, lvars, Heard, Open, Readable
<1>5. Same /\ (Heard => Heard')
  BY <1>1, <1>2, <1>3, <1>4 DEF Outside, add_timer, Control
<1> QED BY <1>5 DEF WakeInv

LEMMA WakeLoop ==
    ASSUME BaseInv, WakeInv, Loop PROVE WakeInv'
<1> SUFFICES ASSUME using_epoll, using_epoll' = using_epoll PROVE WakeInv'
  <2>1. using_epoll' = using_epoll
    <3>1. Top \/ Wait \/ Command \/ Workers \/ TimerFires \/ TimersDone \/ ZapRequest
              => using_epoll' = using_epoll
      BY DEF Top, Wait, Command, Workers, TimerFires, TimersDone, ZapRequest, lvars
    <3>2. ProcessQueue \/ Stale \/ ReceiveNone \/ Receive \/ NoneLeft \/ Recheck
              => using_epoll' = using_epoll
      BY DEF ProcessQueue, Stale, ReceiveNone, Receive, NoneLeft, Recheck
    <3>3. \A x, next : Drained(x, next) => using_epoll' = using_epoll
      BY DEF Drained
    <3> QED BY <3>1, <3>2, <3>3 DEF Loop
  <2> QED BY <2>1 DEF WakeInv
<1>1. CASE Top
  <2>1. unchecked = {} /\ unchecked' = {}
    BY <1>1 DEF Top, BaseInv
  <2>2. CASE connections_updated
    BY <1>1, <2>1, <2>2 DEF Top, WakeInv
  <2>3. CASE ~connections_updated /\ skip
    BY <1>1, <2>1, <2>3 DEF Top, WakeInv
  <2>4. CASE ~connections_updated /\ ~skip
    <3>1. Heard /\ UNCHANGED <<connections_updated, skip, signalled, edge, connections, unchecked,
                               controls, inbox, ran>>
      BY <1>1, <2>4 DEF Top, tvars, WakeInv
    <3>2. Heard'
      BY <3>1 DEF Heard, Open, Readable
    <3> QED BY <2>1, <2>4, <3>1, <3>2 DEF WakeInv
  <2> QED BY <2>2, <2>3, <2>4
<1>2. CASE pc' \notin {"top", "wait", "recheck"} /\ unchecked' = {}
  BY <1>2 DEF WakeInv
<1>3. CASE Receive
  <2>1. unchecked' = {} /\ pc' \in {"recheck", "incoming"}
    BY <1>3 DEF Receive, AfterMessage, BaseInv
  <2>2. pc' = "recheck" => connections_updated'
    BY <1>3 DEF Receive, AfterMessage
  <2> QED BY <2>1, <2>2 DEF WakeInv
<1>4. CASE NoneLeft
  BY <1>4 DEF NoneLeft, AllServed, WakeInv, Heard, Open, BaseInv
<1>5. CASE Recheck
  <2>1. CASE unchecked = {}
    <3>1. UNCHANGED <<connections_updated, skip, signalled, edge, connections, unchecked,
                      controls, inbox, ran>> /\ pc' = "top"
      BY <1>5, <2>1 DEF Recheck, tvars
    <3>2. Heard => Heard'
      BY <3>1 DEF Heard, Open, Readable
    <3> QED BY <1>5, <2>1, <3>1, <3>2 DEF Recheck, WakeInv
  <2>2. ASSUME NEW s \in unchecked, Look({s}), skip' = Readable(s),
               unchecked' = IF Readable(s) THEN {} ELSE unchecked \ {s},
               UNCHANGED <<pc, connections_updated, connections, controls, inbox, ran>>
        PROVE  WakeInv'
    <3>1. ~connections_updated /\ ~skip /\ Heard
      BY <1>5, <2>2 DEF WakeInv, Recheck
    <3>2. CASE Readable(s)
      BY <1>5, <2>2, <3>2 DEF WakeInv, Recheck
    <3>3. CASE ~Readable(s)
      <4>1. \A x \in Open' : Readable(x)' = Readable(x)
        BY <2>2 DEF Readable
      <4>2. Heard'
        BY <2>2, <3>1, <3>3, <4>1 DEF Heard, Look, Open
      <4>3. ~connections_updated' /\ pc' = "recheck" /\ ~skip'
        BY <1>5, <2>2, <3>1, <3>3 DEF Recheck
      <4> QED BY <4>2, <4>3 DEF WakeInv
    <3> QED BY <3>2, <3>3
  <2> QED BY <1>5, <2>1, <2>2 DEF Recheck, tvars
<1>6. Wait \/ Command \/ Workers \/ TimerFires \/ TimersDone
          => pc' \notin {"top", "wait", "recheck"} /\ unchecked' = {}
  BY DEF Wait, Command, Workers, TimerFires, TimersDone, lvars, BaseInv
<1>7. ZapRequest \/ ProcessQueue \/ Stale \/ ReceiveNone
          => pc' \notin {"top", "wait", "recheck"} /\ unchecked' = {}
  BY DEF ZapRequest, ProcessQueue, Stale, ReceiveNone, BaseInv
<1>8. ASSUME NEW x, NEW next \in {"workers", "timers", "queue"}, pc # "recheck", Drained(x, next)
      PROVE  pc' \notin {"top", "wait", "recheck"} /\ unchecked' = {}
  BY <1>8 DEF Drained, BaseInv
<1> QED BY <1>1, <1>2, <1>3, <1>4, <1>5, <1>6, <1>7, <1>8 DEF Loop

-----------------------------------------------------------------------------
(* With zmq::poll the pointers are there only while the messages are read. *)
PollInv ==
    ~using_epoll =>
        /\ pc \notin {"incoming", "recheck"} => queue = <<>>
        /\ pc = "incoming" => queue \in Seq(connections)

LEMMA PollStep ==
    ASSUME BaseInv, PollInv, Next PROVE PollInv'
<1>1. CASE Outside
  <2>1. UNCHANGED <<using_epoll, pc, queue, connections>>
    BY <1>1 DEF Outside, add_timer, Control, Send, Arrives, WorkerFinishes, lvars
  <2> QED BY <2>1 DEF PollInv
<1>2. CASE Top \/ Wait \/ Command \/ Workers \/ TimerFires
  <2>1. using_epoll' = using_epoll
    BY <1>2 DEF Top, Wait, Command, Workers, TimerFires, lvars
  <2>2. pc \notin {"incoming", "recheck"} /\ pc' \notin {"incoming", "recheck"}
    BY <1>2 DEF Top, Wait, Command, Workers, TimerFires, lvars
  <2>3. ~using_epoll => queue' = queue
    BY <1>2 DEF Top, Wait, Command, Workers, TimerFires, lvars
  <2> QED BY <2>1, <2>2, <2>3 DEF PollInv
<1>3. CASE TimersDone \/ ZapRequest
  BY <1>3 DEF TimersDone, ZapRequest, PollInv
<1>4. ASSUME NEW x, NEW next \in {"workers", "timers", "queue"}, Drained(x, next),
             pc \notin {"incoming", "recheck"}
      PROVE  PollInv'
  BY <1>4 DEF Drained, PollInv
<1>5. CASE ProcessQueue
  <2>1. /\ UNCHANGED <<using_epoll, connections>>
        /\ \/ pc' = pc /\ queue' = queue
           \/ pc' = "incoming" /\ queue' = queue
           \/ pc' = "incoming" /\ queue' \in Orders({c \in connections : Readable(c)})
    BY <1>5 DEF ProcessQueue
  <2>2. \A q \in Orders({c \in connections : Readable(c)}) : q \in Seq(connections)
    <3> PICK S : S = {c \in connections : Readable(c)}
      OBVIOUS
    <3>1. S \subseteq connections /\ S \subseteq Conns
      BY DEF BaseInv, SocketInv
    <3>2. \A q \in Orders(S) : q \in Seq(S)
      BY <3>1, OrdersFacts
    <3>3. \A q \in Seq(S) : q \in Seq(connections)
      BY <3>1
    <3> QED BY <3>2, <3>3
  <2>3. pc = "queue" /\ (~using_epoll => queue = <<>>)
    BY <1>5 DEF ProcessQueue, PollInv
  <2>4. <<>> \in Seq(connections)
    OBVIOUS
  <2>5. CASE pc' = pc /\ queue' = queue
    BY <2>1, <2>3, <2>5 DEF PollInv
  <2>6. CASE pc' = "incoming"
    BY <2>1, <2>2, <2>3, <2>4, <2>6 DEF PollInv
  <2> QED BY <2>1, <2>5, <2>6
<1>6. CASE Stale
  BY <1>6 DEF Stale, PollInv
<1>7. CASE ReceiveNone
  BY <1>7 DEF ReceiveNone, PollInv
<1>8. CASE Receive
  <2>1. pc' \in {"recheck", "incoming"} /\ using_epoll' = using_epoll
    BY <1>8 DEF Receive, AfterMessage
  <2>2. ASSUME ~using_epoll, pc' = "incoming" PROVE queue' \in Seq(connections')
    <3>0. ~connections_updated'
      BY <1>8, <2>2 DEF Receive, AfterMessage
    <3>1. connections' = connections
      BY <1>8, <3>0 DEF Receive, Closes
    <3>2. queue \in Seq(connections) /\ queue # <<>> /\ queue' = Requeued(queue)
      BY <1>8, <2>2 DEF Receive, PollInv
    <3> QED BY <3>1, <3>2, RequeuedFacts DEF BaseInv
  <2> QED BY <2>1, <2>2 DEF PollInv
<1>9. CASE NoneLeft \/ Recheck
  <2>1. /\ using_epoll' = using_epoll
        /\ pc' = "recheck" \/ (pc' = "top" /\ queue' = <<>>)
    BY <1>9 DEF NoneLeft, Recheck
  <2> QED BY <2>1 DEF PollInv
<1>10. CASE Undefined
  BY <1>10 DEF Undefined, vars, lvars, PollInv
<1> QED BY <1>1, <1>2, <1>3, <1>4, <1>5, <1>6, <1>7, <1>8, <1>9, <1>10 DEF Next, Loop

-----------------------------------------------------------------------------
LoopInv == TimerInv /\ ControlInv /\ BaseInv /\ WakeInv /\ PollInv

LEMMA LoopInit == Init => LoopInv
<1> SUFFICES ASSUME Init PROVE LoopInv
  OBVIOUS
<1>1. TimerInv
  BY TimerInit DEF Init
<1>2. ControlInv
  BY DEF Init, InitTimers, ControlInv
<1>3. BaseInv
  BY BaseInit
<1>4. WakeInv /\ PollInv
  BY DEF Init, WakeInv, PollInv
<1> QED BY <1>1, <1>2, <1>3, <1>4 DEF LoopInv

LEMMA LoopStep == LoopInv /\ [Next]_vars => LoopInv'
<1> SUFFICES ASSUME LoopInv, [Next]_vars PROVE LoopInv'
  OBVIOUS
<1>1. TimerInv' /\ ControlInv' /\ BaseInv'
  BY TimerControlStep, BaseStep DEF LoopInv
<1>2. CASE UNCHANGED vars
  <2>1. WakeInv' /\ PollInv'
    BY <1>2 DEF LoopInv, WakeInv, PollInv, Heard, Open, Readable, vars, lvars, tvars
  <2> QED BY <1>1, <2>1 DEF LoopInv
<1>3. CASE Next
  <2>1. CASE UNCHANGED vars
    BY <1>2, <2>1
  <2>2. CASE ~UNCHANGED vars
    BY <1>1, <1>3, <2>2, WakeOutside, WakeLoop, PollStep DEF Next, Undefined, LoopInv
  <2> QED BY <2>1, <2>2
<1> QED BY <1>2, <1>3

(* The invariant of the loop, in every reachable state *)
THEOREM LoopInvariant == Spec => []LoopInv
BY LoopInit, LoopStep, PTL DEF Spec

(* The loop's variables keep their types: at any time each connection is   *)
(* in the queue of pointers at most once, however often it is put back.    *)
THEOREM LoopTypes == Spec => []LoopTypeOK
<1>1. LoopInv => LoopTypeOK
  <2> SUFFICES ASSUME LoopInv PROVE LoopTypeOK
    OBVIOUS
  <2>1. Range(queue) \subseteq Conns
    BY DEF LoopInv, BaseInv, Range
  <2>2. Len(queue) <= Cardinality(Conns)
    BY OnceBound DEF LoopInv, BaseInv
  <2> QED BY <2>1, <2>2 DEF LoopTypeOK, LoopInv, BaseInv, SocketInv, TimerInv
<1> QED BY <1>1, LoopInvariant, PTL

(* proxy_loop never calls epoll_wait while a socket has something to read  *)
(* that will not be reported.                                              *)
THEOREM NoWakeupIsLost == Spec => []NoLostWakeup
<1>1. LoopInv => NoLostWakeup
  BY DEF LoopInv, BaseInv, WakeInv, Heard, NoLostWakeup
<1> QED BY <1>1, LoopInvariant, PTL

(* With zmq::poll the pointer proxy_loop uses is to a live connection. *)
THEOREM PollPointersLive == Spec => []PollRefsLive
<1>1. LoopInv => PollRefsLive
  BY DEF LoopInv, BaseInv, PollInv, PollRefsLive, QueueRefsLive
<1> QED BY <1>1, LoopInvariant, PTL

(* A squelched timer has one job when _queue_timer_job believes it has one *)
(* and none otherwise.                                                     *)
THEOREM SquelchIsExact == Spec => []SquelchExact
<1>1. LoopInv => SquelchExact
  BY DEF LoopInv, TimerInv
<1> QED BY <1>1, LoopInvariant, PTL

-----------------------------------------------------------------------------
(***************************************************************************)
(* Why an owner's cancel_timer() is never too early: a timer that was      *)
(* added and that the proxy has not heard of has its TIMER message in its  *)
(* owner's queue, before any TIMER_DEL of it there.                        *)
(***************************************************************************)
Add(t) == [cmd |-> "TIMER", arg |-> t]
Del(t) == [cmd |-> "TIMER_DEL", arg |-> t]
Ordered(q, t) ==
    \E j \in 1..Len(q) : q[j] = Add(t) /\ \A i \in 1..Len(q) : q[i] = Del(t) => j < i
OrderInv ==
    /\ \A c \in Threads : \A i \in 1..Len(controls[c]) :
          \A t : controls[c][i] = Del(t) => t \in issued
    /\ \A t \in issued \ DOMAIN timer_jobs : Ordered(controls[Owner[t]], t)

(* Facts about sequences and functions, of whatever elements *)
LEMMA AppendFacts ==
    ASSUME NEW S, NEW q \in Seq(S), NEW m \in S
    PROVE  /\ Len(Append(q, m)) = Len(q) + 1 /\ Append(q, m)[Len(q) + 1] = m
           /\ \A i \in 1..Len(q) : Append(q, m)[i] = q[i]
           /\ Len(q) \in Nat
<1>1. Len(q) \in Nat
  OBVIOUS
<1>2. Len(Append(q, m)) = Len(q) + 1
  OBVIOUS
<1>3. Append(q, m)[Len(q) + 1] = m
  OBVIOUS
<1>4. \A i \in 1..Len(q) : Append(q, m)[i] = q[i]
  OBVIOUS
<1> QED BY <1>1, <1>2, <1>3, <1>4, Zenon

LEMMA LastIndex == \A n \in Nat : \A i \in 1..(n + 1) : i \in 1..n \/ i = n + 1
OBVIOUS

LEMMA UpdateFacts ==
    ASSUME NEW S, NEW T, NEW f \in [S -> T], NEW x \in S, NEW v, NEW g, g = [f EXCEPT ![x] = v]
    PROVE  f[x] \in T /\ g[x] = v /\ \A y \in S : y # x => g[y] = f[y]
OBVIOUS

(* A queue stays in order when a message is appended, *)
LEMMA AppendOrdered ==
    ASSUME NEW q \in Seq(Messages), NEW m \in Messages, NEW t, Ordered(q, t)
    PROVE  Ordered(Append(q, m), t)
<1>1. /\ Len(Append(q, m)) = Len(q) + 1 /\ Append(q, m)[Len(q) + 1] = m
      /\ \A i \in 1..Len(q) : Append(q, m)[i] = q[i]
      /\ Len(q) \in Nat
  BY AppendFacts
<1>2. PICK j \in 1..Len(q) : q[j] = Add(t) /\ \A i \in 1..Len(q) : q[i] = Del(t) => j < i
  BY DEF Ordered
<1>3. j \in 1..(Len(q) + 1) /\ Append(q, m)[j] = Add(t)
  BY <1>1, <1>2
<1>4. \A i \in 1..(Len(q) + 1) : Append(q, m)[i] = Del(t) => j < i
  BY <1>1, <1>2
<1> QED BY <1>1, <1>3, <1>4, Zenon DEF Ordered

(* and when the first, which is not the TIMER in question, is taken; *)
LEMMA TailOrdered ==
    ASSUME NEW q \in Seq(Messages), q # <<>>, NEW t, Head(q) # Add(t), Ordered(q, t)
    PROVE  Ordered(Tail(q), t)
<1>1. PICK j \in 1..Len(q) : q[j] = Add(t) /\ \A i \in 1..Len(q) : q[i] = Del(t) => j < i
  BY DEF Ordered
<1>2. /\ Len(Tail(q)) = Len(q) - 1 /\ \A i \in 1..(Len(q) - 1) : Tail(q)[i] = q[i + 1]
      /\ Len(q) \in Nat \ {0} /\ Head(q) = q[1]
  OBVIOUS
<1>3. j - 1 \in 1..Len(Tail(q)) /\ Tail(q)[j - 1] = Add(t)
  BY <1>1, <1>2
<1>4. \A i \in 1..Len(Tail(q)) : Tail(q)[i] = Del(t) => j - 1 < i
  BY <1>1, <1>2
<1> QED BY <1>3, <1>4 DEF Ordered

(* and the first message of a queue in order is not the TIMER_DEL. *)
LEMMA HeadOrdered ==
    ASSUME NEW q \in Seq(Messages), q # <<>>, NEW t, Ordered(q, t)
    PROVE  Head(q) # Del(t)
<1>1. PICK j \in 1..Len(q) : q[j] = Add(t) /\ \A i \in 1..Len(q) : q[i] = Del(t) => j < i
  BY DEF Ordered
<1>2. Head(q) = q[1] /\ 1 \in 1..Len(q)
  OBVIOUS
<1> QED BY <1>1, <1>2

(* What a step may do to the timers and to the messages about them. *)
TimersSame == UNCHANGED zmq_timers /\ DOMAIN timer_jobs' = DOMAIN timer_jobs
Adds(t) ==
    /\ t \notin issued /\ issued' = issued \cup {t} /\ TimersSame
    /\ controls' = [controls EXCEPT ![Owner[t]] = Append(@, Add(t))]
Posts(c, m) ==
    /\ UNCHANGED issued /\ TimersSame
    /\ controls' = [controls EXCEPT ![c] = Append(@, m)]
Takes(c) ==
    /\ UNCHANGED issued
    /\ controls[c] # <<>> /\ controls' = [controls EXCEPT ![c] = Tail(@)]
    /\ \/ \E t \in TimerIDs \ DOMAIN timer_jobs :
             /\ Head(controls[c]) = Add(t)
             /\ zmq_timers' = zmq_timers \cup {t} /\ DOMAIN timer_jobs' = DOMAIN timer_jobs \cup {t}
       \/ \E t \in TimerIDs :
             /\ Head(controls[c]) = Del(t)
             /\ zmq_timers' = zmq_timers \ {t} /\ DOMAIN timer_jobs' = DOMAIN timer_jobs
       \/ Head(controls[c]).cmd \notin {"TIMER", "TIMER_DEL"} /\ TimersSame

LEMMA Effects ==
    ASSUME TimerInv, ControlInv, [Next]_vars
    PROVE  \/ \E t \in TimerIDs : Adds(t)
           \/ \E c \in Threads : \E m \in ControlMessages : Posts(c, m)
           \/ \E c \in Threads : Takes(c)
           \/ UNCHANGED <<controls, issued>> /\ TimersSame
<1> DEFINE Quiet == UNCHANGED <<controls, issued>> /\ TimersSame
<1>1. ASSUME NEW t \in TimerIDs, add_timer(t) PROVE Adds(t)
  BY <1>1 DEF add_timer, Send, Adds, TimersSame, tvars, Add
<1>2. ASSUME NEW c \in Threads, NEW m \in ControlMessages, Control(c, m) PROVE Posts(c, m)
  BY <1>2 DEF Control, Send, Posts, TimersSame, tvars
<1>3. ASSUME NEW c \in Threads, controls[c] # <<>>, controls' = [controls EXCEPT ![c] = Tail(@)],
             UNCHANGED issued, NEW m, m = Head(controls[c]),
             \/ m.cmd = "TIMER" /\ proxy_timer(m.arg)
             \/ m.cmd = "TIMER_DEL" /\ proxy_timer_del(m.arg)
             \/ m.cmd \notin {"TIMER", "TIMER_DEL"} /\ UNCHANGED tvars
      PROVE  Takes(c)
  <2>1. m \in Messages /\ m = controls[c][1] /\ 1 \in 1..Len(controls[c])
    BY <1>3 DEF ControlInv
  <2>2. m.cmd = "TIMER" => m = Add(m.arg) /\ m.arg \in TimerIDs \ DOMAIN timer_jobs
    <3>1. m.cmd = "TIMER" => m = Add(m.arg)
      BY <2>1 DEF Messages, Add
    <3>2. m.cmd = "TIMER" => m.arg \in TimerIDs \ DOMAIN timer_jobs
      BY <2>1 DEF ControlInv
    <3> QED BY <3>1, <3>2
  <2>3. m.cmd = "TIMER_DEL" => m = Del(m.arg) /\ m.arg \in TimerIDs
    BY <2>1 DEF Messages, Del
  <2>4. CASE m.cmd = "TIMER" /\ proxy_timer(m.arg)
    BY <1>3, <2>2, <2>4 DEF Takes, proxy_timer
  <2>5. CASE m.cmd = "TIMER_DEL" /\ proxy_timer_del(m.arg)
    <3>1. zmq_timers' = zmq_timers \ {m.arg} /\ DOMAIN timer_jobs' = DOMAIN timer_jobs
      BY <2>5 DEF proxy_timer_del, TimerInv
    <3> QED BY <1>3, <2>3, <2>5, <3>1 DEF Takes
  <2>6. CASE m.cmd \notin {"TIMER", "TIMER_DEL"} /\ UNCHANGED tvars
    BY <1>3, <2>6 DEF Takes, TimersSame, tvars
  <2> QED BY <1>3, <2>4, <2>5, <2>6
<1>4. CASE Command
  <2>1. PICK c \in Threads :
            /\ controls[c] # <<>> /\ controls' = [controls EXCEPT ![c] = Tail(@)]
            /\ LET m == Head(controls[c]) IN
               \/ m.cmd = "TIMER" /\ proxy_timer(m.arg)
               \/ m.cmd = "TIMER_DEL" /\ proxy_timer_del(m.arg)
               \/ m.cmd \notin {"TIMER", "TIMER_DEL"} /\ UNCHANGED tvars
    BY <1>4 DEF Command
  <2>2. UNCHANGED issued
    BY <1>4 DEF Command
  <2> QED BY <1>3, <2>1, <2>2
<1>5. ASSUME UNCHANGED <<controls, issued, zmq_timers>>, DOMAIN timer_jobs' = DOMAIN timer_jobs
      PROVE  Quiet
  BY <1>5 DEF TimersSame
<1>6. ASSUME NEW t \in TimerIDs, WorkerFinishes(t) \/ (Elapses(t) /\ UNCHANGED lvars) PROVE Quiet
  BY <1>5, <1>6 DEF WorkerFinishes, JobFinishes, Elapses, lvars
<1>7. ASSUME Workers \/ TimerFires \/ ProcessQueue PROVE Quiet
  <2>1. UNCHANGED <<controls, issued>>
    BY <1>7 DEF Workers, TimerFires, ProcessQueue, lvars
  <2>2. \/ UNCHANGED tvars
        \/ \E t \in TimerIDs : JobCompletes(t) \/ queue_timer_job(t) \/ JobStarts(t)
    BY <1>7 DEF Workers, TimerFires, ProcessQueue
  <2>3. UNCHANGED zmq_timers /\ DOMAIN timer_jobs' = DOMAIN timer_jobs
    BY <2>2 DEF JobCompletes, queue_timer_job, JobStarts, TimerInv, tvars
  <2> QED BY <1>5, <2>1, <2>3
<1>8. ASSUME UNCHANGED <<tvars, controls, issued>> PROVE Quiet
  BY <1>5, <1>8 DEF tvars
<1>9. ASSUME Top \/ Wait \/ TimersDone \/ ZapRequest \/ Stale PROVE Quiet
  BY <1>8, <1>9 DEF Top, Wait, TimersDone, ZapRequest, Stale
<1>10. ASSUME ReceiveNone \/ Receive \/ NoneLeft \/ Recheck PROVE Quiet
  BY <1>8, <1>10 DEF ReceiveNone, Receive, NoneLeft, Recheck
<1>11. ASSUME NEW x, NEW next, Arrives(x) \/ Drained(x, next) PROVE Quiet
  BY <1>8, <1>11 DEF Arrives, Drained
<1>12. ASSUME Undefined \/ UNCHANGED vars PROVE Quiet
  BY <1>8, <1>12 DEF Undefined, vars, lvars
<1>13. CASE Outside
  BY <1>1, <1>2, <1>6, <1>11, <1>13 DEF Outside
<1>14. CASE Loop
  BY <1>4, <1>7, <1>9, <1>10, <1>11, <1>14 DEF Loop
<1> QED BY <1>12, <1>13, <1>14 DEF Next

LEMMA DifferentMessages ==
    \A t, x : Add(t) # Del(x) /\ (Add(t) = Add(x) => t = x) /\ (Del(t) = Del(x) => t = x)
<1>1. \A t, x : Add(t).cmd = "TIMER" /\ Del(x).cmd = "TIMER_DEL" /\ Add(t).arg = t /\ Del(t).arg = t
  BY DEF Add, Del
<1> QED BY <1>1

LEMMA OrderStep ==
    ASSUME TimerInv, ControlInv, OrderInv, [Next]_vars PROVE OrderInv'
<1> USE LoopAssumption
<1>1. ASSUME NEW t \in TimerIDs, Adds(t) PROVE OrderInv'
  <2>1. /\ Owner[t] \in Threads /\ controls[Owner[t]] \in Seq(Messages) /\ Add(t) \in Messages
        /\ controls'[Owner[t]] = Append(controls[Owner[t]], Add(t))
        /\ \A c \in Threads : c # Owner[t] => controls'[c] = controls[c]
    BY <1>1 DEF Adds, ControlInv, Messages, Add
  <2> PICK q : q = controls[Owner[t]]
    OBVIOUS
  <2>2. /\ Len(Append(q, Add(t))) = Len(q) + 1 /\ Append(q, Add(t))[Len(q) + 1] = Add(t)
        /\ \A i \in 1..Len(q) : Append(q, Add(t))[i] = q[i]
        /\ Len(q) \in Nat
    <3>1. q \in Seq(Messages)
      BY <2>1
    <3>2. Add(t) \in Messages
      BY <2>1
    <3> QED BY <3>1, <3>2, AppendFacts
  <2>3. \A c \in Threads : \A i \in 1..Len(controls'[c]) :
           \A x : controls'[c][i] = Del(x) => x \in issued'
    <3> SUFFICES ASSUME NEW c \in Threads, NEW i \in 1..Len(controls'[c]), NEW x,
                        controls'[c][i] = Del(x)
                 PROVE  x \in issued
      BY <1>1 DEF Adds
    <3>1. CASE c # Owner[t]
      BY <2>1, <3>1 DEF OrderInv
    <3>2. CASE c = Owner[t]
      <4>1. i \in 1..(Len(q) + 1) /\ Append(q, Add(t))[i] = Del(x)
        BY <2>1, <2>2, <3>2
      <4>2. i # Len(q) + 1
        BY <2>2, <4>1, DifferentMessages
      <4>3. i \in 1..Len(q) /\ q[i] = Del(x)
        BY <2>2, <4>1, <4>2
      <4> QED BY <2>1, <4>3 DEF OrderInv
    <3> QED BY <3>1, <3>2
  <2>4. Ordered(controls'[Owner[t]], t)
    <3>1. \A i \in 1..Len(q) : q[i] # Del(t)
      BY <1>1, <2>1 DEF Adds, OrderInv
    <3>2. \A i \in 1..(Len(q) + 1) : Append(q, Add(t))[i] # Del(t)
      <4>1. Add(t) # Del(t)
        BY DifferentMessages, Zenon
      <4>2. \A i \in 1..(Len(q) + 1) : i \in 1..Len(q) \/ i = Len(q) + 1
        BY <2>2, LastIndex, Zenon
      <4> QED BY <2>2, <3>1, <4>1, <4>2, Zenon
    <3>3. Len(q) + 1 \in 1..(Len(q) + 1)
      BY <2>2
    <3>4. Ordered(Append(q, Add(t)), t)
      BY <2>2, <3>2, <3>3, Zenon DEF Ordered
    <3> QED BY <2>1, <3>4
  <2>5. ASSUME NEW x \in issued \ DOMAIN timer_jobs PROVE Ordered(controls'[Owner[x]], x)
    <3>1. Ordered(controls[Owner[x]], x) /\ Owner[x] \in Threads
      BY DEF OrderInv, ControlInv
    <3>2. CASE Owner[x] = Owner[t]
      BY <2>1, <3>1, <3>2, AppendOrdered
    <3>3. CASE Owner[x] # Owner[t]
      BY <2>1, <3>1, <3>3
    <3> QED BY <3>2, <3>3
  <2> QED BY <1>1, <2>3, <2>4, <2>5 DEF Adds, OrderInv, TimersSame
<1>2. ASSUME NEW c \in Threads, NEW m \in ControlMessages, Posts(c, m) PROVE OrderInv'
  <2>1. /\ controls[c] \in Seq(Messages) /\ m \in Messages
        /\ controls'[c] = Append(controls[c], m)
        /\ \A d \in Threads : d # c => controls'[d] = controls[d]
    <3>1. controls \in [Threads -> Seq(Messages)] /\ controls' = [controls EXCEPT ![c] = Append(@, m)]
      BY <1>2 DEF Posts, ControlInv
    <3>2. m \in Messages
      BY DEF ControlInv, ControlMessages, Messages
    <3> QED BY <3>1, <3>2, UpdateFacts, Zenon
  <2>2. \A x : m = Del(x) => x \in issued
    <3>1. \A x : Del(x).cmd = "TIMER_DEL" /\ Del(x).arg = x
      BY DEF Del
    <3>2. m.cmd = "TIMER_DEL" => m.arg \in issued
      BY DEF ControlMessages
    <3> QED BY <3>1, <3>2
  <2> PICK q : q = controls[c]
    OBVIOUS
  <2>3. /\ Len(Append(q, m)) = Len(q) + 1 /\ Append(q, m)[Len(q) + 1] = m
        /\ \A i \in 1..Len(q) : Append(q, m)[i] = q[i]
        /\ Len(q) \in Nat
    <3>1. q \in Seq(Messages)
      BY <2>1
    <3> QED BY <2>1, <3>1, AppendFacts
  <2>4. ASSUME NEW d \in Threads, NEW i \in 1..Len(controls'[d]), NEW x, controls'[d][i] = Del(x)
        PROVE  x \in issued
    <3>1. CASE d # c
      BY <2>1, <2>4, <3>1 DEF OrderInv
    <3>2. CASE d = c
      <4>1. CASE i \in 1..Len(controls[c])
        <5>1. controls[c][i] = Del(x)
          BY <2>1, <2>3, <2>4, <3>2, <4>1
        <5> QED BY <4>1, <5>1 DEF OrderInv
      <4>2. CASE i = Len(q) + 1
        BY <2>1, <2>2, <2>3, <2>4, <3>2, <4>2
      <4> QED BY <2>1, <2>3, <3>2, <4>1, <4>2
    <3> QED BY <3>1, <3>2
  <2>5. ASSUME NEW x \in issued \ DOMAIN timer_jobs PROVE Ordered(controls'[Owner[x]], x)
    <3>1. Ordered(controls[Owner[x]], x) /\ Owner[x] \in Threads
      BY DEF OrderInv, ControlInv
    <3>2. CASE Owner[x] = c
      BY <2>1, <3>1, <3>2, AppendOrdered
    <3>3. CASE Owner[x] # c
      BY <2>1, <3>1, <3>3
    <3> QED BY <3>2, <3>3
  <2> QED BY <1>2, <2>4, <2>5 DEF Posts, OrderInv, TimersSame
<1>3. ASSUME NEW c \in Threads, Takes(c) PROVE OrderInv'
  <2>1. /\ controls[c] \in Seq(Messages) /\ controls[c] # <<>> /\ UNCHANGED issued
        /\ controls'[c] = Tail(controls[c])
        /\ \A d \in Threads : d # c => controls'[d] = controls[d]
    <3>1. /\ controls \in [Threads -> Seq(Messages)] /\ controls' = [controls EXCEPT ![c] = Tail(@)]
          /\ controls[c] # <<>> /\ UNCHANGED issued
      BY <1>3 DEF Takes, ControlInv
    <3> QED BY <3>1, UpdateFacts, Zenon
  <2>2. DOMAIN timer_jobs \subseteq DOMAIN timer_jobs'
    BY <1>3 DEF Takes, TimersSame
  <2>3. \A x : Head(controls[c]) = Add(x) => x \in DOMAIN timer_jobs'
    <3>1. \A x : Add(x).cmd = "TIMER"
      BY DEF Add
    <3> QED BY <1>3, <3>1, DifferentMessages DEF Takes
  <2> PICK q : q = controls[c]
    OBVIOUS
  <2>4. /\ Len(q) \in Nat \ {0} /\ Len(Tail(q)) = Len(q) - 1
        /\ \A i \in 1..Len(Tail(q)) : Tail(q)[i] = q[i + 1] /\ i + 1 \in 1..Len(q)
    BY <2>1
  <2>5. ASSUME NEW d \in Threads, NEW i \in 1..Len(controls'[d]), NEW x, controls'[d][i] = Del(x)
        PROVE  x \in issued
    <3>1. CASE d # c
      BY <2>1, <2>5, <3>1 DEF OrderInv
    <3>2. CASE d = c
      <4>1. i + 1 \in 1..Len(controls[c]) /\ controls[c][i + 1] = Del(x)
        BY <2>1, <2>4, <2>5, <3>2
      <4> QED BY <4>1 DEF OrderInv
    <3> QED BY <3>1, <3>2
  <2>6. ASSUME NEW x \in issued \ DOMAIN timer_jobs' PROVE Ordered(controls'[Owner[x]], x)
    <3>1. Ordered(controls[Owner[x]], x) /\ Owner[x] \in Threads /\ Head(controls[c]) # Add(x)
      BY <2>2, <2>3 DEF OrderInv, ControlInv
    <3>2. CASE Owner[x] = c
      BY <2>1, <3>1, <3>2, TailOrdered
    <3>3. CASE Owner[x] # c
      BY <2>1, <3>1, <3>3
    <3> QED BY <3>2, <3>3
  <2> QED BY <2>1, <2>5, <2>6 DEF OrderInv
<1>4. CASE UNCHANGED <<controls, issued>> /\ TimersSame
  BY <1>4 DEF OrderInv, TimersSame
<1> QED BY <1>1, <1>2, <1>3, <1>4, Effects

LEMMA CancelStep ==
    ASSUME TimerInv, ControlInv, OrderInv, [Next]_vars PROVE CancelledStays
<1> SUFFICES ASSUME NEW t \in TimerIDs, Cancels(t) \/ Gone(t) PROVE Gone(t)'
  BY DEF CancelledStays
<1>0. Owner[t] \in Threads /\ controls \in [Threads -> Seq(Messages)]
  BY LoopAssumption DEF ControlInv
<1>1. ASSUME NEW c \in Threads, NEW m \in Messages, TimersSame,
             controls' = [controls EXCEPT ![c] = Append(@, m)]
      PROVE  Gone(t)'
  <2>1. Len(controls'[Owner[t]]) >= Len(controls[Owner[t]])
    BY <1>0, <1>1
  <2>2. ~Cancels(t)
    BY <1>0, <2>1, <1>1 DEF Cancels
  <2> QED BY <1>1, <2>2 DEF Gone, TimersSame
<1>2. ASSUME NEW c \in Threads, Takes(c) PROVE Gone(t)'
  <2>1. CASE Gone(t)
    BY <1>2, <2>1 DEF Gone, Takes, TimersSame
  <2>2. CASE Cancels(t)
    <3>1. c = Owner[t]
      <4>1. controls' = [controls EXCEPT ![c] = Tail(@)]
        BY <1>2 DEF Takes
      <4>2. c # Owner[t] => controls'[Owner[t]] = controls[Owner[t]]
        BY <1>0, <4>1, UpdateFacts, Zenon
      <4>3. ~(Len(controls[Owner[t]]) < Len(controls[Owner[t]]))
        BY <1>0
      <4> QED BY <2>2, <4>2, <4>3, Zenon DEF Cancels
    <3>2. Head(controls[c]) = Del(t) /\ controls[c] # <<>> /\ controls[c] \in Seq(Messages)
      BY <1>0, <2>2, <3>1 DEF Cancels, Del
    <3>3. t \in issued
      <4>1. 1 \in 1..Len(controls[c]) /\ controls[c][1] = Del(t)
        BY <3>2
      <4> QED BY <4>1 DEF OrderInv
    <3>4. t \in DOMAIN timer_jobs
      BY <3>1, <3>2, <3>3, HeadOrdered DEF OrderInv
    <3>5. zmq_timers' = zmq_timers \ {t} /\ DOMAIN timer_jobs' = DOMAIN timer_jobs
      <4>1. \A x : Del(x).cmd = "TIMER_DEL"
        BY DEF Del
      <4> QED BY <1>2, <3>2, <4>1, DifferentMessages DEF Takes
    <3> QED BY <3>4, <3>5 DEF Gone
  <2> QED BY <2>1, <2>2
<1>3. CASE UNCHANGED <<controls, issued>> /\ TimersSame
  <2>1. ~(Len(controls[Owner[t]]) < Len(controls[Owner[t]]))
    BY <1>0
  <2>2. ~Cancels(t)
    BY <1>3, <2>1, Zenon DEF Cancels
  <2> QED BY <1>3, <2>2 DEF Gone, TimersSame
<1>4. ASSUME NEW x \in TimerIDs, Adds(x) PROVE Gone(t)'
  BY <1>1, <1>4, LoopAssumption DEF Adds, Messages, Add
<1>5. ASSUME NEW c \in Threads, NEW m \in ControlMessages, Posts(c, m) PROVE Gone(t)'
  BY <1>1, <1>5 DEF Posts, Messages, ControlMessages, ControlInv
<1> QED BY <1>2, <1>3, <1>4, <1>5, Effects

(* When the proxy handles the TIMER_DEL that the thread which added the    *)
(* timer has sent, the timer goes and does not come back.                  *)
THEOREM OwnerCancelsForGood == Spec => OwnerCancels
<1>1. Init => OrderInv
  BY DEF Init, InitTimers, OrderInv
<1>2. LoopInv /\ OrderInv /\ [Next]_vars => OrderInv'
  BY OrderStep DEF LoopInv
<1>3. LoopInv /\ OrderInv /\ [Next]_vars => [CancelledStays]_vars
  BY CancelStep DEF LoopInv
<1> QED BY <1>1, <1>2, <1>3, LoopInvariant, PTL DEF Spec, OwnerCancels
=============================================================================
