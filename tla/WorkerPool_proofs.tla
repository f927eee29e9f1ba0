------------------------- MODULE WorkerPool_proofs --------------------------
(***************************************************************************)
(* Theorems about WorkerPool, for every set of categories, tagged threads, *)
(* commands and batches, and for every number of reserved threads.         *)
(***************************************************************************)
EXTENDS WorkerPool_dispatch

-----------------------------------------------------------------------------
(* QUIT, the tagged threads and RAN preserve the invariant. *)

LEMMA ControlQuitStep ==
    ASSUME IInv, ControlQuit
    PROVE  IInv'
<1>0. /\ "QUIT" \in todo /\ todo' = todo \ {"QUIT"}
      /\ max_workers' = 0 /\ idle_workers' = <<>>
      /\ inbox' = [w \in DOMAIN inbox |->
                      IF QuitNow(w) THEN Append(inbox[w], "QUIT") ELSE inbox[w]]
      /\ UNCHANGED <<pc, proxy_skip_one_poll, it, nworkers, active, run, queued,
                     pending_commands, thread, jobs, busy, batch, outstanding,
                     worker_msgs, dropped, finished>>
  BY DEF ControlQuit, queueVars, batchVars
<1> USE <1>0
<1>1. RestType /\ PoolType BY TypeSplit DEF IInv
<1>2. Ids' = Ids /\ PoolIds' = PoolIds BY DEF Ids, PoolIds
<1>3. ASSUME NEW w \in Ids
      PROVE  /\ QuitNow(w) => Idle(w)
             /\ ~QuitNow(w) => SameChannel(w)
             /\ QuitNow(w) => Leaving(w)'
  <2>1. QuitNow(w) => Idle(w)
    <3>1. w \in Range(idle_workers) => Idle(w) BY DEF IInv, PoolInv, IdleInv, Range
    <3>2. w \in Tagged /\ ~busy[w] => Idle(w)
      BY DEF IInv, PoolInv, BusyInv, ChannelInv, IdleInv
    <3> QED BY <3>1, <3>2 DEF QuitNow
  <2>2. ~QuitNow(w) => SameChannel(w) BY <1>1 DEF PoolType, SameChannel
  <2>3. QuitNow(w) => Leaving(w)'
    BY <1>1, <2>1, Messages DEF PoolType, Idle, At, Leaving, ToldToQuit
  <2> QED BY <2>1, <2>2, <2>3
<1>4. \A w \in Ids :
          /\ AtWork(w)' <=> AtWork(w)
          /\ InFlight(w)' <=> InFlight(w)
          /\ AtWork(w)' \/ Leaving(w)' \/ Idle(w)'
  <2> SUFFICES ASSUME NEW w \in Ids
               PROVE  /\ AtWork(w)' <=> AtWork(w)
                      /\ InFlight(w)' <=> InFlight(w)
                      /\ AtWork(w)' \/ Leaving(w)' \/ Idle(w)'
    OBVIOUS
  <2>1. CASE QuitNow(w)
    BY <1>3, <2>1, SituationsExclusive, SituationsExclusiveNext DEF Exclusive
  <2>2. CASE ~QuitNow(w)
    BY <1>3, <2>2, SameSituation DEF IInv, PoolInv, ChannelInv
  <2> QED BY <2>1, <2>2
<1>5. inbox' \in [Ids -> Seq({"RUN", "QUIT"})] BY <1>1 DEF PoolType
<1>6. PoolType' BY <1>1, <1>2, <1>5 DEF PoolType
<1>7. ChannelInv' BY <1>2, <1>4 DEF ChannelInv
<1>8. LoadInv' /\ BusyInv' BY <1>2, <1>4 DEF IInv, PoolInv, LoadInv, BusyInv, Ids
<1>9. IdleInv' BY DEF IdleInv
<1>10. \A k : BusyWith(k)' = BusyWith(k) BY <1>2, <1>4 DEF BusyWith, Ids
<1>11. CountInv' /\ SeatInv' /\ PoolWithinCapacity'
  BY <1>10 DEF IInv, PoolInv, CountInv, SeatInv, PoolWithinCapacity
<1>12. PoolInv' BY <1>6, <1>7, <1>8, <1>9, <1>11 DEF PoolInv
<1>13. RestType' BY <1>1 DEF RestType
<1> QED BY <1>6, <1>12, <1>13, TypeSplitNext DEF IInv

LEMMA ProcessTaggedStep ==
    ASSUME IInv, ProcessTagged
    PROVE  IInv'
<1> DEFINE ready == {t \in Tagged : TaggedReady(t)}
<1>0. /\ max_workers # 0 /\ pc' = "batch"
      /\ UNCHANGED <<proxy_skip_one_poll, max_workers, it, nworkers, idle_workers,
                     active, queued, pending_commands, thread, batch, outstanding,
                     worker_msgs, todo, dropped, finished>>
  BY DEF ProcessTagged, queueVars, envVars
<1> USE <1>0
<1>1. RestType /\ PoolType BY TypeSplit DEF IInv
<1>2. Ids' = Ids /\ PoolIds' = PoolIds BY DEF Ids, PoolIds
<1>3. \A t \in ready : Head(jobs[t]) \in JobRefs /\ Tail(jobs[t]) \in Seq(JobRefs)
  <2> SUFFICES ASSUME NEW t \in ready
               PROVE  Head(jobs[t]) \in JobRefs /\ Tail(jobs[t]) \in Seq(JobRefs)
    OBVIOUS
  <2>1. jobs[t] \in Seq(JobRefs) /\ jobs[t] # <<>> BY <1>1 DEF RestType, Queues, TaggedReady
  <2> QED BY <2>1, HeadTailProperties
<1>4. \A t \in ready : Idle(t) /\ t \in Ids
  BY DEF TaggedReady, IInv, PoolInv, BusyInv, ChannelInv, Ids
<1>5. /\ DOMAIN run = Ids /\ DOMAIN inbox = Ids
      /\ run' = [w \in Ids |-> IF w \in ready
                               THEN [class |-> "tagged", what |-> Head(jobs[w])] ELSE run[w]]
      /\ inbox' = [w \in Ids |-> IF w \in ready THEN Append(inbox[w], "RUN") ELSE inbox[w]]
      /\ busy' = [t \in Tagged |-> busy[t] \/ t \in ready]
      /\ jobs' = [q \in Queues |-> IF q \in ready THEN Tail(jobs[q]) ELSE jobs[q]]
  BY <1>1 DEF ProcessTagged, PoolType
<1>6. ready \subseteq Tagged OBVIOUS
<1> HIDE DEF ready
<1>7. \A w \in ready : AtWork(w)'
  BY <1>4, <1>5, Messages, Zenon DEF Idle, At, AtWork, Told
<1>8. \A w \in Ids \ ready : SameChannel(w) /\ run'[w] = run[w] BY <1>5 DEF SameChannel
<1>9. \A w \in Ids \ ready :
          /\ Idle(w)' <=> Idle(w)
          /\ AtWork(w)' <=> AtWork(w)
          /\ Leaving(w)' <=> Leaving(w)
          /\ InFlight(w)' <=> InFlight(w)
  BY <1>8, SameSituation
<1>10. \A w \in PoolIds : w \in Ids \ ready
  <2>1. \A w \in PoolIds : w \in Nat BY <1>1 DEF PoolType, PoolIds
  <2>2. Tagged \cap Nat = {} BY SetsAssumption
  <2> QED BY <1>6, <2>1, <2>2 DEF Ids
<1>11. PoolType'
  <2>1. run' \in [Ids -> RunInfo] BY <1>1, <1>3, <1>5 DEF RunInfo, PoolType
  <2>2. inbox' \in [Ids -> Seq({"RUN", "QUIT"})] BY <1>1, <1>5 DEF PoolType
  <2>3. busy' \in [Tagged -> BOOLEAN] BY <1>1, <1>5 DEF PoolType
  <2> QED BY <1>1, <1>2, <2>1, <2>2, <2>3 DEF PoolType
<1>12. ChannelInv'
  BY <1>2, <1>7, <1>9, SituationsExclusiveNext DEF IInv, PoolInv, ChannelInv, Exclusive
<1>13. LoadInv'
  <2>1. \A w \in PoolIds : run'[w].class \in Classes
    BY <1>8, <1>10 DEF IInv, PoolInv, LoadInv
  <2>2. \A t \in Tagged : run'[t].class = "tagged"
    BY <1>5, <1>8 DEF IInv, PoolInv, LoadInv, Ids
  <2>3. \A w \in ready : run'[w].class \notin Categories /\ run'[w].what \in JobRefs
    BY <1>3, <1>4, <1>5, SetsAssumption
  <2>4. \A w \in Ids \ ready : AtWork(w)' =>
            IF run'[w].class \in Categories THEN run'[w].what \in Tasks
                                            ELSE run'[w].what \in JobRefs
    BY <1>8, <1>9 DEF IInv, PoolInv, LoadInv
  <2> QED BY <1>2, <2>1, <2>2, <2>3, <2>4 DEF LoadInv
<1>14. BusyInv'
  <2>1. \A t \in Tagged \ ready : busy'[t] <=> AtWork(t)'
    BY <1>5, <1>9, Zenon DEF IInv, PoolInv, BusyInv, Ids
  <2>2. \A t \in ready : busy'[t] <=> AtWork(t)' BY <1>5, <1>6, <1>7, Zenon
  <2> QED BY <2>1, <2>2 DEF BusyInv
<1>15. IdleInv' BY <1>2, <1>9, <1>10 DEF IInv, PoolInv, IdleInv, PoolType
<1>16. \A w \in PoolIds : (InFlight(w)' <=> InFlight(w)) /\ run'[w] = run[w]
  BY <1>8, <1>9, <1>10
<1>17. Flight' = Flight /\ \A k : BusyWith(k)' = BusyWith(k)
  BY <1>2, <1>16 DEF Flight, BusyWith
<1>18. CountInv' /\ PoolWithinCapacity'
  BY <1>17 DEF IInv, PoolInv, CountInv, PoolWithinCapacity, ActiveWorkers
<1>19. SeatInv'
  <2>1. Flight \in SUBSET Flight /\ \A v \in Flight : run'[v].class = run[v].class
    BY <1>16 DEF Flight
  <2>2. max_workers # 0 => Seated(Flight, run) BY DEF IInv, PoolInv, SeatInv
  <2>3. ASSUME NEW F, F = Flight, Seated(F, run) PROVE Seated(F, run')
    <3>1. F \in SUBSET F /\ \A v \in F : run'[v].class = run[v].class BY <2>1, <2>3
    <3>2. PICK r, r2 : r = run /\ r2 = run' OBVIOUS
    <3>3. Seated(F, r) /\ \A v \in F : r2[v].class = r[v].class BY <2>3, <3>1, <3>2
    <3>4. Seated(F, r2) BY <3>1, <3>3, SeatKeep
    <3> QED BY <3>2, <3>4
  <2> QED BY <1>17, <2>2, <2>3 DEF SeatInv
<1>20. PoolInv' BY <1>11, <1>12, <1>13, <1>14, <1>15, <1>18, <1>19 DEF PoolInv
<1>21. jobs' \in [Queues -> Seq(JobRefs)]
  <2>1. \A q \in Queues : jobs[q] \in Seq(JobRefs) BY <1>1 DEF RestType
  <2>2. ASSUME NEW q \in Queues PROVE jobs'[q] \in Seq(JobRefs)
    <3>1. CASE q \in ready BY <1>3, <1>5, <3>1
    <3>2. CASE q \notin ready BY <1>5, <2>1, <3>2
    <3> QED BY <3>1, <3>2
  <2> QED BY <1>5, <2>2
<1>22. RestType' BY <1>1, <1>21 DEF RestType
<1> QED BY <1>11, <1>20, <1>22, TypeSplitNext DEF IInv

(* What a RAN does to the batch and the queues. *)
LEMMA WorkerRanRest ==
    ASSUME IInv, NEW w \in Ids, WorkerRan(w), AtWork(w)
    PROVE  RestType'
<1>0. /\ UNCHANGED <<pc, proxy_skip_one_poll, it, queued, pending_commands, todo, dropped>>
      /\ CommandRan(w) \/ BatchRan(w)
  BY DEF WorkerRan, proxyVars, queueVars
<1>1. RestType BY TypeSplit DEF IInv
<1>2. CASE CommandRan(w)
  BY <1>0, <1>1, <1>2 DEF CommandRan, batchVars, RestType
<1>3. CASE BatchRan(w)
  <2>1. PICK b, n : run[w].what = <<b, n>> /\ b \in Batches /\ n \in Nat \cup {CompletionNo}
    <3>1. run[w].class \notin Categories BY <1>3, Zenon DEF BatchRan
    <3>2. run[w].what \in JobRefs BY <3>1, Zenon DEF IInv, PoolInv, LoadInv
    <3> QED BY <3>2 DEF JobRefs
  <2>2. batch' \in [Batches -> {"new", "live", "deleted"}]
    <3>1. batch \in [Batches -> {"new", "live", "deleted"}] BY <1>1 DEF RestType
    <3>2. batch' = batch \/ batch' = [batch EXCEPT ![b] = "deleted"]
      BY <1>3, <2>1 DEF BatchRan, JobRan, Delete
    <3> QED BY <3>1, <3>2
  <2>3. outstanding' \in [Batches -> Int]
    <3>1. outstanding \in [Batches -> Int] BY <1>1 DEF RestType
    <3>2. \/ outstanding' = outstanding
          \/ outstanding' = [outstanding EXCEPT ![b] = outstanding[b] - 1]
      BY <1>3, <2>1 DEF BatchRan, JobRan
    <3> QED BY <2>1, <3>1, <3>2
  <2>4. <<b, CompletionNo>> \in JobRefs BY <2>1 DEF JobRefs
  <2>5. finished' \subseteq Tasks \cup JobRefs
    <3>1. finished \subseteq Tasks \cup JobRefs BY <1>1 DEF RestType
    <3>2. finished' = finished \/ finished' = finished \cup {<<b, CompletionNo>>}
      BY <1>3, <2>1 DEF BatchRan, JobRan
    <3> QED BY <2>4, <3>1, <3>2
  <2>6. CompletionQueue(w, b) \in Queues BY DEF CompletionQueue, Queues
  <2>7. jobs' \in [Queues -> Seq(JobRefs)]
    <3>1. \/ jobs' = jobs
          \/ jobs' = [jobs EXCEPT ![CompletionQueue(w, b)] =
                         Append(jobs[CompletionQueue(w, b)], <<b, CompletionNo>>)]
      BY <1>3, <2>1 DEF BatchRan, JobRan
    <3>2. jobs \in [Queues -> Seq(JobRefs)] BY <1>1 DEF RestType
    <3>3. Append(jobs[CompletionQueue(w, b)], <<b, CompletionNo>>) \in Seq(JobRefs)
      BY <2>4, <2>6, <3>2
    <3> QED BY <3>1, <3>2, <3>3, Zenon
  <2> QED BY <1>0, <1>1, <2>2, <2>3, <2>5, <2>7 DEF RestType
<1> QED BY <1>0, <1>2, <1>3

(* What a RAN does to the pool: w leaves Flight and is free or told to quit. *)
LEMMA WorkerRanStep ==
    ASSUME IInv, NEW w \in Ids, WorkerRan(w)
    PROVE  IInv'
<1>0. /\ <<w, "RAN">> \in worker_msgs
      /\ worker_msgs' = worker_msgs \ {<<w, "RAN">>}
      /\ CommandRan(w) \/ BatchRan(w)
      /\ Release(w)
      /\ UNCHANGED <<max_workers, nworkers, run, thread, todo>>
  BY DEF WorkerRan, proxyVars
<1> USE <1>0
<1>1. PoolType BY TypeSplit DEF IInv
<1>2. Ids' = Ids /\ PoolIds' = PoolIds BY DEF Ids, PoolIds
<1>3. Ran(w) /\ AtWork(w)
  BY DEF IInv, PoolInv, ChannelInv, Idle, AtWork, Leaving, Told, Running, Ran,
     ToldToQuit, Gone, Joined, At
<1>4. (w \in Tagged <=> w \notin PoolIds) /\ (w \in PoolIds => run[w].class \in Classes)
      /\ (w \in Tagged => run[w].class \notin Categories)
  <2>1. PoolIds \subseteq Nat BY <1>1 DEF PoolIds, PoolType
  <2>2. Tagged \cap Nat = {} /\ "tagged" \notin Categories BY SetsAssumption
  <2> QED BY <2>1, <2>2, Zenon DEF Ids, IInv, PoolInv, LoadInv
<1>5. \/ /\ w \in Tagged /\ active' = active
         /\ busy' = [busy EXCEPT ![w] = FALSE]
      \/ /\ w \in PoolIds /\ busy' = busy
         /\ active' = [active EXCEPT ![run[w].class] = active[run[w].class] - 1]
  BY <1>4 DEF CommandRan, BatchRan, BatchSlotFreed, batchVars
<1>6. \A v \in Ids \ {w} : SameChannel(v) BY <1>1 DEF SameChannel, Release, PoolType
<1>7. IF max_workers = 0 THEN Leaving(w)' ELSE Idle(w)'
  BY <1>1, <1>3, Messages DEF Release, Ran, At, Leaving, ToldToQuit, Idle, PoolType
<1>8. \A v \in Ids \ {w} :
          /\ Idle(v)' <=> Idle(v)
          /\ AtWork(v)' <=> AtWork(v)
          /\ Leaving(v)' <=> Leaving(v)
          /\ InFlight(v)' <=> InFlight(v)
  BY <1>6, SameSituation
<1>9. InFlight(w) /\ ~InFlight(w)' /\ ~AtWork(w)'
  BY <1>3, <1>7, SituationsExclusive, SituationsExclusiveNext DEF Exclusive
<1>10. PoolType'
  <2>1. inbox' \in [Ids -> Seq({"RUN", "QUIT"})]
    <3>1. inbox[w] \in Seq({"RUN", "QUIT"}) BY <1>1 DEF PoolType
    <3>2. Append(inbox[w], "QUIT") \in Seq({"RUN", "QUIT"}) BY <3>1
    <3> QED BY <1>1, <3>2, Zenon DEF Release, PoolType
  <2>2. idle_workers' \in Seq(PoolIds)
    <3>1. idle_workers \in Seq(PoolIds) BY <1>1 DEF PoolType
    <3>2. w \in PoolIds => Append(idle_workers, w) \in Seq(PoolIds) BY <3>1
    <3>3. \/ idle_workers' = idle_workers
          \/ w \in PoolIds /\ idle_workers' = Append(idle_workers, w)
      <4>1. CASE w \in Tagged BY <4>1 DEF Release
      <4>2. CASE w \in PoolIds BY <1>4, <4>2 DEF Release
      <4> QED BY <4>1, <4>2 DEF Ids
    <3> QED BY <3>1, <3>2, <3>3
  <2>3. active' \in [Classes -> Int] BY <1>1, <1>4, <1>5 DEF PoolType
  <2>4. busy' \in [Tagged -> BOOLEAN] BY <1>1, <1>5, Zenon DEF PoolType
  <2>5. worker_msgs' \subseteq Ids \X {"RAN", "QUITTING"} BY <1>1 DEF PoolType
  <2> QED BY <1>1, <1>2, <2>1, <2>2, <2>3, <2>4, <2>5 DEF PoolType
<1>11. ChannelInv'
  BY <1>2, <1>7, <1>8, SituationsExclusiveNext DEF IInv, PoolInv, ChannelInv, Exclusive
<1>12. LoadInv' BY <1>2, <1>8, <1>9, Zenon DEF IInv, PoolInv, LoadInv
<1>13. BusyInv'
  <2>1. \A t \in Tagged \ {w} : busy'[t] = busy[t] BY <1>1, <1>5 DEF PoolType
  <2>2. w \in Tagged => ~busy'[w] BY <1>1, <1>4, <1>5 DEF PoolType
  <2> QED BY <1>8, <1>9, <2>1, <2>2, Zenon DEF IInv, PoolInv, BusyInv, Ids
<1>14. Flight' = Flight \ {w} BY <1>2, <1>8, <1>9 DEF Flight, Ids
<1>15. \A k : BusyWith(k)' = IF k = run[w].class THEN BusyWith(k) \ {w} ELSE BusyWith(k)
  BY <1>2, <1>8, <1>9 DEF BusyWith, Ids
<1>16. IdleInv' /\ (max_workers # 0 => Cardinality(Flight') = ActiveWorkers')
  <2>1. CASE max_workers = 0 \/ w \in Tagged
    <3>1. idle_workers' = idle_workers BY <2>1 DEF Release
    <3>2. max_workers # 0 => Flight' = Flight BY <1>4, <1>14, <2>1 DEF Flight
    <3>3. max_workers # 0 => Cardinality(Flight') = ActiveWorkers'
      BY <3>1, <3>2 DEF IInv, PoolInv, CountInv, ActiveWorkers
    <3>4. max_workers = 0 => idle_workers = <<>> BY DEF IInv, PoolInv, IdleInv
    <3>5. \A v \in PoolIds : max_workers # 0 => (Idle(v)' <=> Idle(v))
      BY <1>4, <1>8, <2>1 DEF Ids
    <3>6. \A i \in DOMAIN idle_workers : Idle(idle_workers[i])'
      <4> SUFFICES ASSUME NEW i \in DOMAIN idle_workers, NEW v, v = idle_workers[i]
                   PROVE  Idle(v)'
        BY <3>1 DEF Idle, At
      <4>1. v \in PoolIds /\ Idle(v) /\ max_workers # 0
        BY <1>1, <3>4 DEF IInv, PoolInv, IdleInv, PoolType
      <4> QED BY <3>5, <4>1
    <3>7. IdleInv'
      BY <1>2, <3>1, <3>4, <3>5, <3>6 DEF IInv, PoolInv, IdleInv
    <3> QED BY <3>3, <3>7
  <2>2. CASE max_workers # 0 /\ w \in PoolIds
    <3>1. PICK n \in Nat :
            /\ n = Len(idle_workers) /\ Len(idle_workers') = n + 1
            /\ DOMAIN idle_workers = 1..n /\ DOMAIN idle_workers' = 1..(n + 1)
            /\ \A i \in 1..n : idle_workers'[i] = idle_workers[i] /\ idle_workers[i] \in PoolIds
            /\ idle_workers'[n + 1] = w
      <4>1. idle_workers' = Append(idle_workers, w) BY <1>4, <2>2 DEF Release
      <4>2. idle_workers \in Seq(PoolIds) BY <1>1 DEF PoolType
      <4>3. PICK s \in Seq(PoolIds) : s = idle_workers BY <4>2
      <4>4. PICK n \in Nat : n = Len(s) /\ DOMAIN s = 1..n BY <4>3
      <4>5. /\ Len(Append(s, w)) = n + 1 /\ DOMAIN Append(s, w) = 1..(n + 1)
            /\ \A i \in 1..n : Append(s, w)[i] = s[i] /\ s[i] \in PoolIds
            /\ Append(s, w)[n + 1] = w
        BY <2>2, <4>4
      <4> QED BY <4>1, <4>3, <4>4, <4>5, Zenon
    <3>2. w \in Flight BY <1>9, <2>2 DEF Flight
    <3>3. Cardinality(Flight') = Cardinality(Flight) - 1
      BY <1>1, <1>14, <3>2, FlightFinite, FS_RemoveElement, Zenon
    <3>4. Cardinality(Flight') = ActiveWorkers'
      <4>1. Cardinality(Flight) = nworkers - Len(idle_workers) /\ nworkers \in Nat
        BY <1>1, <2>2 DEF IInv, PoolInv, CountInv, ActiveWorkers, PoolType
      <4> QED BY <3>1, <3>3, <4>1 DEF ActiveWorkers
    <3>5. \A i \in 1..n : Idle(idle_workers[i]) /\ idle_workers[i] # w
      BY <1>3, <3>1, SituationsExclusive DEF IInv, PoolInv, IdleInv, Exclusive
    <3>6. \A i \in 1..(n + 1) : Idle(idle_workers[i])'
      <4> SUFFICES ASSUME NEW i \in 1..(n + 1), NEW v, v = idle_workers'[i]
                   PROVE  Idle(v)'
        BY DEF Idle, At
      <4>1. CASE i = n + 1 BY <1>7, <2>2, <3>1, <4>1
      <4>2. CASE i \in 1..n
        <5>1. v \in Ids \ {w} /\ Idle(v) BY <3>1, <3>5, <4>2 DEF Ids
        <5> QED BY <1>8, <5>1
      <4> QED BY <4>1, <4>2
    <3>7. \A i, j \in 1..(n + 1) : idle_workers'[i] = idle_workers'[j] => i = j
      <4>1. \A i, j \in 1..n : idle_workers[i] = idle_workers[j] => i = j
        BY <3>1 DEF IInv, PoolInv, IdleInv
      <4> QED BY <3>1, <3>5, <4>1
    <3>8. \A v \in PoolIds : Idle(v)' => \E i \in 1..(n + 1) : idle_workers'[i] = v
      <4> SUFFICES ASSUME NEW v \in PoolIds, Idle(v)', v # w
                   PROVE  \E i \in 1..(n + 1) : idle_workers'[i] = v
        BY <3>1
      <4>1. Idle(v) BY <1>8 DEF Ids
      <4>2. PICK i \in 1..n : idle_workers[i] = v
        BY <2>2, <3>1, <4>1 DEF IInv, PoolInv, IdleInv
      <4> QED BY <3>1, <4>2
    <3>9. IdleInv'
      BY <1>2, <2>2, <3>1, <3>6, <3>7, <3>8 DEF IInv, PoolInv, IdleInv
    <3> QED BY <3>4, <3>9
  <2> QED BY <2>1, <2>2 DEF Ids
<1>17. ASSUME NEW k \in Classes PROVE active'[k] = Cardinality(BusyWith(k)')
  <2>1. active[k] = Cardinality(BusyWith(k)) /\ IsFiniteSet(BusyWith(k))
    BY <1>1, FlightFinite, Zenon DEF IInv, PoolInv, CountInv
  <2>2. CASE w \in PoolIds /\ k = run[w].class
    <3>1. active'[k] = active[k] - 1 BY <1>1, <1>4, <1>5, <2>2 DEF PoolType
    <3>2. w \in BusyWith(k) BY <1>9, <2>2 DEF BusyWith
    <3>3. BusyWith(k)' = BusyWith(k) \ {w} BY <1>15, <2>2
    <3> QED BY <2>1, <3>1, <3>2, <3>3, FS_RemoveElement, Zenon
  <2>3. CASE w \notin PoolIds \/ k # run[w].class
    <3>1. active'[k] = active[k] BY <1>1, <1>4, <1>5, <2>3 DEF PoolType
    <3>2. BusyWith(k)' = BusyWith(k) BY <1>15, <2>3 DEF BusyWith
    <3> QED BY <2>1, <3>1, <3>2
  <2> QED BY <2>2, <2>3
<1>18. CountInv' BY <1>16, <1>17 DEF CountInv
<1>19. SeatInv'
  <2>1. PICK F, G, r : F = Flight /\ G = Flight' /\ r = run OBVIOUS
  <2>2. G \in SUBSET F BY <1>14, <2>1
  <2>3. Seated(F, r) => Seated(G, r) BY <2>2, SeatKeep
  <2> QED BY <2>1, <2>3 DEF IInv, PoolInv, SeatInv
<1>20. PoolWithinCapacity' BY DEF IInv, PoolInv, PoolWithinCapacity
<1>21. PoolInv' BY <1>10, <1>11, <1>12, <1>13, <1>16, <1>18, <1>19, <1>20 DEF PoolInv
<1>22. RestType' BY <1>3, WorkerRanRest
<1> QED BY <1>10, <1>21, <1>22, TypeSplitNext DEF IInv

-----------------------------------------------------------------------------
(***************************************************************************)
(* The invariant is established and kept.                                  *)
(***************************************************************************)
LEMMA InitIInv == Init => IInv
<1> SUFFICES ASSUME Init PROVE IInv OBVIOUS
<1> USE DEF Init
<1>1. PoolIds = {} /\ Ids = Tagged BY DEF PoolIds, Ids
<1>2. \A b \in Batches : Len(BatchThreads[b]) \in Int
  <2> SUFFICES ASSUME NEW b \in Batches PROVE Len(BatchThreads[b]) \in Int OBVIOUS
  <2>1. BatchThreads[b] \in Seq(Tagged \cup {"pool"}) BY WorkAssumption
  <2> QED BY <2>1
<1>3. run \in [Tagged -> RunInfo] BY DEF RunInfo
<1>4. PoolType BY <1>1, <1>3 DEF PoolType
<1>5. todo \subseteq Tasks \cup Batches \cup {"QUIT"} OBVIOUS
<1>6. RestType
  <2>1. outstanding \in [Batches -> Int] BY <1>2
  <2>2. jobs \in [Queues -> Seq(JobRefs)] /\ pending_commands \in Seq(Tasks) OBVIOUS
  <2>3. queued \in [Categories -> Int] /\ batch \in [Batches -> {"new", "live", "deleted"}]
    OBVIOUS
  <2>4. /\ pc \in {"top", "control", "workers", "timers", "tagged", "batch", "reply",
                   "pending", "incoming", "done"}
        /\ it \in Nat \ {0} /\ dropped \subseteq Tasks /\ finished \subseteq Tasks \cup JobRefs
    OBVIOUS
  <2>5. proxy_skip_one_poll \in BOOLEAN BY Zenon
  <2> HIDE DEF Init
  <2> QED BY <1>5, <2>1, <2>2, <2>3, <2>4, <2>5, Zenon DEF RestType
<1>7. \A t \in Tagged : Idle(t) BY DEF Idle, At
<1>8. \A t \in Tagged : ~AtWork(t) /\ ~Leaving(t)
  BY <1>7, SituationsExclusive DEF Exclusive
<1>9. ChannelInv /\ LoadInv /\ BusyInv
  BY <1>1, <1>7, <1>8 DEF ChannelInv, LoadInv, BusyInv
<1>10. max_workers # 0 BY SeatsFinite
<1>11. IdleInv
  <2>1. idle_workers = <<>> /\ DOMAIN idle_workers = {} OBVIOUS
  <2> QED BY <1>1, <1>10, <2>1 DEF IdleInv
<1>12. Flight = {} /\ \A k : BusyWith(k) = {} BY <1>1 DEF Flight, BusyWith
<1>13. CountInv
  <2>1. Cardinality({}) = 0 BY FS_EmptySet
  <2>2. ActiveWorkers = 0
    <3>1. Len(idle_workers) = 0 /\ nworkers = 0 BY EmptySeq
    <3> HIDE DEF Init
    <3> QED BY <3>1 DEF ActiveWorkers
  <2>3. \A k \in Classes : active[k] = 0 OBVIOUS
  <2> QED BY <1>12, <2>1, <2>2, <2>3, Zenon DEF CountInv
<1>14. SeatInv
  <2>1. \A r : Seated({}, r)
    <3> TAKE r
    <3> DEFINE none == [v \in {} |-> <<>>]
    <3>1. none \in [{} -> Seats] OBVIOUS
    <3> QED BY <3>1, Zenon DEF Seated
  <2> QED BY <1>12, <2>1 DEF SeatInv
<1>15. PoolWithinCapacity BY SeatsFinite DEF PoolWithinCapacity
<1> QED BY <1>4, <1>6, <1>9, <1>11, <1>13, <1>14, <1>15, TypeSplit DEF IInv, PoolInv

LEMMA NextIInv == IInv /\ [Next]_vars => IInv'
<1> SUFFICES ASSUME IInv, [Next]_vars PROVE IInv' OBVIOUS
<1>1. DOMAIN run = Ids BY TypeSplit DEF IInv, PoolType
<1>2. CASE Proxy
  <2>1. CASE Phase BY <2>1, PhaseMoves, PhaseStep
  <2>2. CASE \E b \in AppBatches : ControlBatch(b) BY <2>2, QueueStep DEF Batches
  <2>3. CASE \E t \in InjectTasks : ControlInject(t)
    BY <2>3, DispatchStep DEF ControlInject, Tasks
  <2>4. CASE ControlQuit BY <2>4, ControlQuitStep
  <2>5. CASE \E r \in ReplyJobs : ScheduleReply(r) BY <2>5, ScheduleReplyStep
  <2>6. CASE \E w \in DOMAIN run : WorkerRan(w) \/ WorkerQuitting(w)
    BY <1>1, <2>6, WorkerRanStep, WorkerQuittingStep
  <2>7. CASE \E b \in TimerBatches : TimerFires(b) BY <2>7, QueueStep DEF Batches
  <2>8. CASE ProcessTagged BY <2>8, ProcessTaggedStep
  <2>9. CASE \E k \in {"batch", "reply"} : RunBatchJob(k) BY <2>9, RunBatchJobStep
  <2>10. CASE \E k \in {"batch", "reply"} : EndBatchJobs(k) BY <2>10, PhaseMoves, PhaseStep
  <2>11. CASE RunPending BY <2>11, RunPendingStep
  <2>12. CASE SkipPending BY <2>12, PhaseMoves, PhaseStep
  <2>13. CASE \E t \in NetTasks : IncomingCommand(t)
    BY <2>13, DispatchStep DEF IncomingCommand, Tasks
  <2> QED
    BY <1>2, <2>1, <2>2, <2>3, <2>4, <2>5, <2>6, <2>7, <2>8, <2>9, <2>10, <2>11,
       <2>12, <2>13
    DEF Proxy
<1>3. CASE \E w \in DOMAIN run : Worker(w)
  BY <1>1, <1>3, WorkerRunStep, WorkerReceiveStep DEF Worker
<1>4. CASE UNCHANGED vars
  <2> USE <1>4 DEF vars, proxyVars, poolVars, queueVars, threadVars, batchVars, envVars
  <2>1. PoolInv' BY FrameStep DEF IInv
  <2>2. RestType' BY TypeSplit DEF IInv, RestType
  <2> QED BY <2>1, <2>2, TypeSplitNext DEF IInv, PoolInv
<1> QED BY <1>2, <1>3, <1>4 DEF Next, Stopped

LEMMA SpecIInv == Spec => []IInv
BY InitIInv, NextIInv, PTL DEF Spec
-----------------------------------------------------------------------------
(* Every variable of the scheduler keeps its type, however long it runs. *)
THEOREM TypeCorrect == Spec => []TypeOK
<1>1. IInv => TypeOK BY DEF IInv
<1> QED BY <1>1, SpecIInv, PTL

(* Until QUIT, proxy_to_worker, proxy_inject_task and proxy_run_batch_jobs     *)
(* together never create more than max_workers workers, whatever the           *)
(* reservations: the vectors proxy_loop_init reserves never reallocate.        *)
THEOREM PoolBounded == Spec => []PoolWithinCapacity
<1>1. IInv => PoolWithinCapacity BY DEF IInv, PoolInv
<1> QED BY <1>1, SpecIInv, PTL

(* active_threads, batch_jobs_active, reply_jobs_active and busy always equal  *)
(* what the threads hold, so the asserts of proxy_worker_message hold.         *)
THEOREM CountersAreExact == Spec => []CountersExact
<1>1. IInv => CountersExact
  <2> SUFFICES ASSUME IInv PROVE CountersExact OBVIOUS
  <2>1. \A k \in Classes : active[k] = Cardinality(BusyWith(k))
    BY DEF IInv, PoolInv, CountInv
  <2>2. \A t \in Tagged : InFlight(t) <=> AtWork(t)
    BY SituationsExclusive DEF IInv, PoolInv, ChannelInv, Exclusive, Ids
  <2> QED BY <2>1, <2>2 DEF CountersExact, IInv, PoolInv, BusyInv
<1> QED BY <1>1, SpecIInv, PTL

(* Until QUIT, idle_workers holds each free worker once and no busy one:       *)
(* get_idle_worker never hands out a worker that is still at work.             *)
THEOREM IdleIsExact == Spec => []IdleExact
<1>1. IInv => IdleExact
  <2> SUFFICES ASSUME IInv, max_workers # 0
               PROVE  /\ \A i, j \in DOMAIN idle_workers :
                             idle_workers[i] = idle_workers[j] => i = j
                      /\ Range(idle_workers) = {w \in PoolIds : ~InFlight(w)}
    BY DEF IdleExact
  <2>1. idle_workers \in Seq(PoolIds) BY DEF IInv, PoolInv, PoolType
  <2>2. \A w \in PoolIds : Idle(w) <=> ~InFlight(w)
    BY SituationsExclusive DEF IInv, PoolInv, ChannelInv, Exclusive, Ids
  <2>3. \A w \in PoolIds : Idle(w) => \E i \in DOMAIN idle_workers : idle_workers[i] = w
    BY DEF IInv, PoolInv, IdleInv
  <2>4. \A i \in DOMAIN idle_workers : idle_workers[i] \in PoolIds /\ Idle(idle_workers[i])
    BY <2>1 DEF IInv, PoolInv, IdleInv
  <2>5. Range(idle_workers) = {w \in PoolIds : Idle(w)} BY <2>3, <2>4 DEF Range
  <2> QED BY <2>2, <2>5 DEF IInv, PoolInv, IdleInv
<1> QED BY <1>1, SpecIInv, PTL

(* A worker never has two messages to read, nothing is sent to a thread that   *)
(* was told to quit, and only a thread that has ended has said QUITTING.       *)
THEOREM ChannelsAreDisciplined == Spec => []ChannelDiscipline
<1>1. IInv => ChannelDiscipline
  <2> SUFFICES ASSUME IInv, NEW w \in Ids
               PROVE  /\ Len(inbox[w]) <= 1
                      /\ inbox[w] # <<>> => /\ thread[w] = "waiting"
                                            /\ <<w, "RAN">> \notin worker_msgs
                      /\ <<w, "QUITTING">> \in worker_msgs => thread[w] = "gone"
    BY Zenon DEF ChannelDiscipline, IInv, PoolInv, PoolType
  <2>1. Len(<<>>) = 0 /\ Len(<<"RUN">>) = 1 /\ Len(<<"QUIT">>) = 1
    OBVIOUS
  <2>2. \/ Idle(w) \/ Told(w) \/ Running(w) \/ Ran(w)
        \/ ToldToQuit(w) \/ Gone(w) \/ Joined(w)
    BY DEF IInv, PoolInv, ChannelInv, AtWork, Leaving
  <2> QED BY <2>1, <2>2, Messages
          DEF Idle, Told, Running, Ran, ToldToQuit, Gone, Joined, At
<1> QED BY <1>1, SpecIInv, PTL

(* The worker that Start loads is not in flight. *)
LEMMA StartKeepsRun ==
    ASSUME IInv, NEW k, NEW what, Dispatching(k, what), NEW v \in Ids, InFlight(v)
    PROVE  run'[v] = run[v]
<1>1. PICK w : Picked(w, k, what)
  <2>1. CASE StartNew(k, what)
    <3>1. PICK w : w = nworkers OBVIOUS
    <3> QED BY <2>1, <3>1, StartNewPicks DEF IInv
  <2>2. CASE StartIdle(k, what)
    <3>1. PICK w : w = idle_workers[Len(idle_workers)] OBVIOUS
    <3> QED BY <2>2, <3>1, StartIdlePicks DEF IInv
  <2> QED BY <2>1, <2>2 DEF Dispatching, Start
<1>2. v # w BY <1>1 DEF Picked, Flight, Ids
<1> QED BY <1>1, <1>2 DEF Picked

(* The run_info that a worker thread holds a reference to is never reloaded    *)
(* between its RUN and the proxy's processing of its RAN.                      *)
THEOREM RunInfoIsStable == Spec => RunStableWhileInFlight
<1> DEFINE Keeps == \A w \in DOMAIN run : InFlight(w) => run'[w] = run[w]
<1>1. IInv /\ [Next]_vars => [Keeps]_vars
  <2> SUFFICES ASSUME IInv, Next, NEW v \in Ids, InFlight(v)
               PROVE  run'[v] = run[v]
    BY TypeSplit DEF IInv, PoolType
  <2>1. RestType BY TypeSplit DEF IInv
  <2>2. ASSUME NEW t \in Tasks, Dispatch(t) PROVE run'[v] = run[v]
    <3>1. CategoryOf[t] \in Categories /\ CategoryOf[t] \in Classes
      BY WorkAssumption DEF Classes
    <3>2. CASE RunNow(t)
      <4>1. Dispatching(CategoryOf[t], t)
        BY <2>2, <3>1, <3>2 DEF Dispatching, RunNow, Dispatch, proxyVars, batchVars
      <4> QED BY <4>1, StartKeepsRun
    <3>3. CASE Enqueue(t) \/ Drop(t) BY <3>3 DEF Enqueue, Drop, poolVars
    <3> QED BY <2>2, <3>2, <3>3 DEF Dispatch
  <2>3. ASSUME NEW k \in {"batch", "reply"}, RunBatchJob(k) PROVE run'[v] = run[v]
    <3>1. k \in Queues /\ k \in Classes /\ k \notin Categories
      BY SetsAssumption DEF Queues, Classes
    <3>2. jobs[k] \in Seq(JobRefs) /\ jobs[k] # <<>>
      BY <2>1, <2>3, <3>1 DEF RestType, RunBatchJob, BatchJobsRunnable
    <3>3. PICK what \in JobRefs : what = Head(jobs[k]) BY <3>2, HeadTailProperties
    <3>4. Dispatching(k, what)
      BY <2>3, <3>1, <3>3 DEF Dispatching, RunBatchJob, proxyVars, envVars
    <3> QED BY <3>4, StartKeepsRun
  <2>4. ASSUME RunPending PROVE run'[v] = run[v]
    <3>1. PICK t \in Tasks : t = pending_commands[it]
      BY <2>1, <2>4 DEF RestType, RunPending, PendingLeft
    <3>2. CategoryOf[t] \in Categories /\ CategoryOf[t] \in Classes
      BY WorkAssumption DEF Classes
    <3>3. Dispatching(CategoryOf[t], t)
      BY <2>4, <3>1, <3>2 DEF Dispatching, RunPending, proxyVars, batchVars, envVars
    <3> QED BY <3>3, StartKeepsRun
  <2>5. ASSUME ProcessTagged PROVE run'[v] = run[v]
    <3>1. v \in Tagged /\ TaggedReady(v) => ~InFlight(v)
      BY SituationsExclusive
      DEF TaggedReady, IInv, PoolInv, BusyInv, ChannelInv, Exclusive, Ids
    <3>2. DOMAIN run = Ids BY TypeSplit DEF IInv, PoolType
    <3> QED BY <2>5, <3>1, <3>2 DEF ProcessTagged
  <2>6. CASE Proxy
    <3> USE DEF poolVars
    <3>1. CASE Phase BY <3>1, PhaseMoves DEF LoopMoves
    <3>2. CASE \/ \E t \in InjectTasks : ControlInject(t)
               \/ \E t \in NetTasks : IncomingCommand(t)
      BY <2>2, <3>2 DEF ControlInject, IncomingCommand, Tasks
    <3>3. CASE \/ \E b \in AppBatches : ControlBatch(b)
               \/ \E b \in TimerBatches : TimerFires(b)
               \/ \E r \in ReplyJobs : ScheduleReply(r)
               \/ ControlQuit \/ SkipPending
      BY <3>3 DEF ControlBatch, TimerFires, ScheduleReply, ControlQuit, SkipPending
    <3>4. CASE \E w \in DOMAIN run : WorkerRan(w) \/ WorkerQuitting(w)
      BY <3>4 DEF WorkerRan, WorkerQuitting
    <3>5. CASE \E k \in {"batch", "reply"} : RunBatchJob(k) \/ EndBatchJobs(k)
      BY <2>3, <3>5 DEF EndBatchJobs
    <3> QED BY <2>4, <2>5, <2>6, <3>1, <3>2, <3>3, <3>4, <3>5 DEF Proxy
  <2>7. CASE \E w \in DOMAIN run : Worker(w)
    BY <2>7 DEF Worker, WorkerRun, WorkerReceive, poolVars
  <2>8. CASE Stopped BY <2>8 DEF Stopped, vars, poolVars
  <2> QED BY <2>6, <2>7, <2>8 DEF Next
<1>2. Spec => [][Keeps]_vars BY <1>1, SpecIInv, PTL DEF Spec
<1> QED BY <1>2 DEF RunStableWhileInFlight
=============================================================================
