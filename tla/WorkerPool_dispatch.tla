------------------------ MODULE WorkerPool_dispatch -------------------------
(***************************************************************************)
(* Handing a job to a pool worker, and the steps of the proxy that do it   *)
(* or that only move queues, preserve the invariant.                       *)
(***************************************************************************)
EXTENDS WorkerPool_invariant

(* What Start does, with w the worker it picks: only w changes, from no    *)
(* pool entry or from idle to at work.                                     *)
Picked(w, k, what) ==
    /\ w \in PoolIds' /\ w \notin Tagged /\ w \notin Flight
    /\ PoolIds' = PoolIds \cup {w}
    /\ run'[w] = [class |-> k, what |-> what]
    /\ \A v \in Ids \ {w} : run'[v] = run[v] /\ SameChannel(v)
    /\ AtWork(w)'
    /\ nworkers' - Len(idle_workers') = ActiveWorkers + 1

StartType ==
    /\ nworkers' \in Nat
    /\ idle_workers' \in Seq(PoolIds')
    /\ active' \in [Classes -> Int]
    /\ run' \in [Ids' -> RunInfo]
    /\ thread' \in [Ids' -> {"running", "waiting", "gone", "joined"}]
    /\ inbox' \in [Ids' -> Seq({"RUN", "QUIT"})]
    /\ worker_msgs' \subseteq Ids' \X {"RAN", "QUITTING"}

(* A dispatch: the class, what it is given, and what it leaves alone. *)
Dispatching(k, what) ==
    /\ k \in Classes
    /\ what \in IF k \in Categories THEN Tasks ELSE JobRefs
    /\ Start(k, what)
    /\ UNCHANGED <<max_workers, busy, worker_msgs>>

LEMMA StartNewPicks ==
    ASSUME PoolInv, NEW k, NEW what, Dispatching(k, what), StartNew(k, what),
           NEW w, w = nworkers
    PROVE  /\ Picked(w, k, what) /\ StartType
           /\ idle_workers = <<>> /\ nworkers' = nworkers + 1
<1> USE DEF StartNew, Dispatching
<1>1. nworkers \in Nat /\ w \notin Tagged /\ w \notin PoolIds
  BY SetsAssumption DEF PoolInv, PoolType, PoolIds
<1>2. PoolIds' = PoolIds \cup {w} /\ Ids' = Ids \cup {w}
  BY <1>1 DEF PoolIds, Ids
<1>3. DOMAIN run = Ids /\ DOMAIN thread = Ids /\ DOMAIN inbox = Ids
  BY DEF PoolInv, PoolType
<1>4. [class |-> k, what |-> what] \in RunInfo BY DEF RunInfo
<1>5. run' \in [Ids' -> RunInfo]
  BY <1>2, <1>3, <1>4 DEF PoolInv, PoolType, Extend
<1>6. /\ thread' \in [Ids' -> {"running", "waiting", "gone", "joined"}]
      /\ inbox' \in [Ids' -> Seq({"RUN", "QUIT"})]
  BY <1>2, <1>3 DEF PoolInv, PoolType, Extend
<1>7. /\ worker_msgs' \subseteq Ids' \X {"RAN", "QUITTING"}
      /\ <<w, "RAN">> \notin worker_msgs /\ <<w, "QUITTING">> \notin worker_msgs
  BY <1>1, <1>2 DEF PoolInv, PoolType, Ids
<1>8. active' \in [Classes -> Int] BY DEF PoolInv, PoolType, Start
<1>9. StartType BY <1>1, <1>5, <1>6, <1>7, <1>8 DEF StartType
<1>10. AtWork(w)'
  BY <1>3, <1>7 DEF AtWork, Running, At, Extend
<1>11. run'[w] = [class |-> k, what |-> what] BY <1>3 DEF Extend
<1>12. \A v \in Ids \ {w} : run'[v] = run[v] /\ SameChannel(v)
  BY <1>3 DEF Extend, SameChannel
<1>13. nworkers' - Len(idle_workers') = ActiveWorkers + 1
  BY <1>1 DEF ActiveWorkers
<1> QED BY <1>1, <1>2, <1>9, <1>10, <1>11, <1>12, <1>13 DEF Picked, Flight

LEMMA PopLast ==
    ASSUME NEW S, NEW s \in Seq(S), s # <<>>
    PROVE  /\ Len(s) \in Nat \ {0} /\ s[Len(s)] \in S
           /\ SubSeq(s, 1, Len(s) - 1) \in Seq(S) /\ Len(SubSeq(s, 1, Len(s) - 1)) = Len(s) - 1
           /\ \A i \in 1..(Len(s) - 1) : SubSeq(s, 1, Len(s) - 1)[i] = s[i]
<1>1. Len(s) \in Nat \ {0} /\ \A i \in 1..Len(s) : s[i] \in S OBVIOUS
<1>2. ASSUME NEW n \in Nat, n < Len(s)
      PROVE  /\ SubSeq(s, 1, n) \in Seq(S)
             /\ Len(SubSeq(s, 1, n)) = n
             /\ \A i \in 1..n : SubSeq(s, 1, n)[i] = s[i]
  <2>1. \A i \in 1..n : s[i] \in S BY <1>1, <1>2
  <2>2. /\ SubSeq(s, 1, n) \in Seq(S)
        /\ Len(SubSeq(s, 1, n)) = IF 1 <= n THEN n - 1 + 1 ELSE 0
        /\ \A i \in 1..n-1+1 : SubSeq(s, 1, n)[i] = s[1 + i - 1]
    BY <2>1, SubSeqProperties
  <2> DEFINE t == SubSeq(s, 1, n)
  <2> HIDE DEF t
  <2>3. /\ t \in Seq(S)
        /\ Len(t) = IF 1 <= n THEN n - 1 + 1 ELSE 0
        /\ \A i \in 1..n-1+1 : t[i] = s[1 + i - 1]
    BY <2>2 DEF t
  <2>4. Len(t) = n BY <2>3
  <2>5. ASSUME NEW i \in 1..n PROVE t[i] = s[i]
    <3>1. i \in 1..n-1+1 /\ 1 + i - 1 = i OBVIOUS
    <3> QED BY <2>3, <3>1
  <2> QED BY <2>3, <2>4, <2>5 DEF t
<1>3. Len(s) - 1 \in Nat /\ Len(s) - 1 < Len(s) BY <1>1
<1>4. /\ SubSeq(s, 1, Len(s) - 1) \in Seq(S) /\ Len(SubSeq(s, 1, Len(s) - 1)) = Len(s) - 1
      /\ \A i \in 1..(Len(s) - 1) : SubSeq(s, 1, Len(s) - 1)[i] = s[i]
  BY <1>2, <1>3, Zenon
<1>5. s[Len(s)] \in S BY <1>1
<1> QED BY <1>1, <1>4, <1>5

LEMMA StartIdlePicks ==
    ASSUME PoolInv, NEW k, NEW what, Dispatching(k, what), StartIdle(k, what),
           NEW w, w = idle_workers[Len(idle_workers)]
    PROVE  /\ Picked(w, k, what) /\ StartType
           /\ idle_workers # <<>> /\ idle_workers' = SubSeq(idle_workers, 1, Len(idle_workers) - 1)
           /\ nworkers' = nworkers /\ max_workers # 0
<1> USE DEF StartIdle, Dispatching
<1>1. nworkers \in Nat /\ PoolIds' = PoolIds /\ Ids' = Ids
  BY DEF PoolInv, PoolType, PoolIds, Ids
<1>2. w \in PoolIds /\ w = idle_workers[Len(idle_workers)] /\ Len(idle_workers) \in Nat \ {0}
  BY PopLast DEF PoolInv, PoolType
<1>3. Idle(w) /\ w \in Ids /\ w \notin Tagged
  BY <1>1, <1>2, SetsAssumption DEF PoolInv, PoolType, IdleInv, PoolIds, Ids
<1>4. w \notin Flight BY <1>3, SituationsExclusive DEF Exclusive, Flight
<1>5. inbox' = [inbox EXCEPT ![w] = <<"RUN">>] /\ thread' = thread
  BY <1>3, Messages DEF RunWorker, Idle, At, PoolInv, PoolType
<1>6. [class |-> k, what |-> what] \in RunInfo BY DEF RunInfo
<1>7. run' \in [Ids -> RunInfo] BY <1>6, Zenon DEF PoolInv, PoolType
<1>8. inbox' \in [Ids -> Seq({"RUN", "QUIT"})]
  <2>1. <<"RUN">> \in Seq({"RUN", "QUIT"}) OBVIOUS
  <2> QED BY <1>5, <2>1, Zenon DEF PoolInv, PoolType
<1>9. active' \in [Classes -> Int] BY DEF PoolInv, PoolType, Start
<1>10. idle_workers' \in Seq(PoolIds) /\ Len(idle_workers') = Len(idle_workers) - 1
  BY PopLast DEF PoolInv, PoolType
<1>11. StartType BY <1>1, <1>5, <1>7, <1>8, <1>9, <1>10 DEF StartType, PoolInv, PoolType
<1>12. AtWork(w)' BY <1>3, <1>5 DEF AtWork, Told, Idle, At, PoolInv, PoolType
<1>13. run'[w] = [class |-> k, what |-> what] BY <1>3 DEF PoolInv, PoolType
<1>14. \A v \in Ids \ {w} : run'[v] = run[v] /\ SameChannel(v)
  BY <1>5 DEF SameChannel, PoolInv, PoolType
<1>15. nworkers' - Len(idle_workers') = ActiveWorkers + 1
  <2>1. PICK n, m : n = Len(idle_workers) /\ m = Len(idle_workers') OBVIOUS
  <2>2. n \in Nat /\ m = n - 1 /\ nworkers' = nworkers BY <1>2, <1>10, <2>1
  <2>3. nworkers - m = nworkers - n + 1 BY <1>1, <2>2
  <2> QED BY <2>1, <2>2, <2>3 DEF ActiveWorkers
<1>16. max_workers # 0 BY DEF PoolInv, IdleInv
<1> QED BY <1>1, <1>2, <1>3, <1>4, <1>11, <1>12, <1>13, <1>14, <1>15, <1>16 DEF Picked

LEMMA FlightFinite ==
    ASSUME PoolType
    PROVE  /\ IsFiniteSet(Flight) /\ Cardinality(Flight) \in Nat
           /\ \A k : IsFiniteSet(BusyWith(k)) /\ Cardinality(BusyWith(k)) \in Nat
           /\ \A k : BusyWith(k) = {v \in Flight : run[v].class = k}
<1>1. IsFiniteSet(PoolIds) BY FS_Interval DEF PoolType, PoolIds
<1>2. IsFiniteSet(Flight) BY <1>1, FS_Subset DEF Flight
<1>3. \A k : IsFiniteSet(BusyWith(k)) BY <1>1, FS_Subset DEF BusyWith
<1>4. \A k : BusyWith(k) = {v \in Flight : run[v].class = k} BY DEF BusyWith, Flight
<1> QED BY <1>2, <1>3, <1>4, FS_CardinalityType

LEMMA PickedStep ==
    ASSUME PoolInv, NEW w, NEW k, NEW what, Dispatching(k, what), FreeSlot(k),
           Picked(w, k, what), StartType
    PROVE  /\ PoolType' /\ ChannelInv' /\ LoadInv' /\ BusyInv' /\ CountInv' /\ SeatInv'
           /\ max_workers # 0 => Cardinality(Flight') <= MaxWorkers
           /\ \A v \in Ids \ {w} : Idle(v)' <=> Idle(v)
           /\ Ids' = Ids \cup {w} /\ ~Idle(w)'
<1>1. PoolType' BY DEF StartType, Dispatching, PoolInv, PoolType
<1>2. /\ PoolIds' = PoolIds \cup {w} /\ Ids' = Ids \cup {w}
      /\ w \notin Tagged /\ w \notin Flight /\ w \in PoolIds' /\ w \in Ids'
      /\ k \in Classes /\ max_workers' = max_workers /\ busy' = busy
  BY DEF Picked, Ids, Dispatching
<1>3. \A v \in Ids \ {w} :
          /\ Idle(v)' <=> Idle(v)
          /\ AtWork(v)' <=> AtWork(v)
          /\ Leaving(v)' <=> Leaving(v)
          /\ InFlight(v)' <=> InFlight(v)
          /\ run'[v] = run[v]
  BY SameSituation DEF Picked
<1>4. AtWork(w)' /\ InFlight(w)' /\ ~Idle(w)' /\ ~Leaving(w)'
  BY SituationsExclusiveNext DEF Exclusive, Picked
<1>5. run'[w].class = k /\ run'[w].what = what BY DEF Picked
<1>6. ChannelInv' BY <1>2, <1>3, <1>4 DEF PoolInv, ChannelInv
<1>7. LoadInv'
  <2>1. \A v \in PoolIds' : run'[v].class \in Classes
    BY <1>2, <1>3, <1>5 DEF PoolInv, LoadInv, Ids
  <2>2. \A t \in Tagged : run'[t].class = "tagged"
    BY <1>2, <1>3 DEF PoolInv, LoadInv, Ids
  <2>3. \A v \in Ids' : AtWork(v)' =>
            IF run'[v].class \in Categories THEN run'[v].what \in Tasks
                                            ELSE run'[v].what \in JobRefs
    BY <1>2, <1>3, <1>5 DEF PoolInv, LoadInv, Dispatching
  <2> QED BY <2>1, <2>2, <2>3 DEF LoadInv
<1>8. BusyInv' BY <1>2, <1>3 DEF PoolInv, BusyInv, Ids
<1>9. Flight' = Flight \cup {w} BY <1>2, <1>3, <1>4 DEF Flight, Ids
<1>10. BusyWith(k)' = BusyWith(k) \cup {w} /\ w \notin BusyWith(k)
  BY <1>2, <1>3, <1>4, <1>5 DEF BusyWith, Ids, Flight
<1>11. \A j \in Classes \ {k} : BusyWith(j)' = BusyWith(j)
  BY <1>2, <1>3, <1>4, <1>5 DEF BusyWith, Ids, Flight
<1>12. CountInv'
  <2>1. active'[k] = active[k] + 1 /\ \A j \in Classes \ {k} : active'[j] = active[j]
    BY <1>2 DEF Dispatching, Start, PoolInv, PoolType
  <2>2. Cardinality(BusyWith(k)') = Cardinality(BusyWith(k)) + 1
    BY <1>10, FlightFinite, FS_AddElement, Zenon DEF PoolInv
  <2>3. \A j \in Classes : active'[j] = Cardinality(BusyWith(j)')
    BY <1>11, <2>1, <2>2 DEF PoolInv, CountInv
  <2>4. Cardinality(Flight') = Cardinality(Flight) + 1
    BY <1>2, <1>9, FlightFinite, FS_AddElement DEF PoolInv
  <2>5. max_workers # 0 => Cardinality(Flight') = nworkers' - Len(idle_workers')
    BY <2>4 DEF PoolInv, CountInv, Picked
  <2> QED BY <1>2, <2>3, <2>5 DEF CountInv, ActiveWorkers
<1>13. max_workers # 0 => Seated(Flight', run')
  <2> SUFFICES ASSUME max_workers # 0 PROVE Seated(Flight', run') OBVIOUS
  <2>1. \/ Cardinality({v \in Flight : run[v].class = k}) < reserved[k]
        \/ Cardinality(Flight) < general_workers
    BY <1>2, FlightFinite, Zenon DEF FreeSlot, PoolInv, CountInv
  <2>2. \A v \in Flight : run[v].class \in Classes /\ run'[v].class = run[v].class
    BY <1>2, <1>3 DEF PoolInv, LoadInv, Flight, Ids
  <2>3. Seated(Flight, run) /\ IsFiniteSet(Flight) BY FlightFinite DEF PoolInv, SeatInv
  <2>4. Seated(Flight \cup {w}, run') BY <1>2, <1>5, <2>1, <2>2, <2>3, SeatAdd
  <2> QED BY <1>9, <2>4
<1>14. max_workers # 0 => Cardinality(Flight') <= MaxWorkers BY <1>13, SeatBound
<1>15. SeatInv' BY <1>2, <1>13 DEF SeatInv
<1> QED BY <1>1, <1>2, <1>3, <1>4, <1>6, <1>7, <1>8, <1>12, <1>14, <1>15

(* A dispatch that passes the test keeps the pool's invariant. *)
LEMMA StartStep ==
    ASSUME PoolInv, NEW k, NEW what, Dispatching(k, what), FreeSlot(k),
           todo' \subseteq todo
    PROVE  PoolInv'
<1>0. max_workers' = max_workers BY DEF Dispatching
<1>1. CASE StartNew(k, what)
  <2>1. PICK w : w = nworkers OBVIOUS
  <2>2. /\ Picked(w, k, what) /\ StartType
        /\ idle_workers = <<>> /\ nworkers' = nworkers + 1
    BY <1>1, <2>1, StartNewPicks
  <2>3. /\ PoolType' /\ ChannelInv' /\ LoadInv' /\ BusyInv' /\ CountInv' /\ SeatInv'
        /\ max_workers # 0 => Cardinality(Flight') <= MaxWorkers
        /\ \A v \in Ids \ {w} : Idle(v)' <=> Idle(v)
        /\ Ids' = Ids \cup {w} /\ ~Idle(w)'
    BY <2>2, PickedStep
  <2>4. idle_workers' = <<>> BY <1>1 DEF StartNew
  <2>5. \A v \in PoolIds' : max_workers # 0 => ~Idle(v)'
    BY <2>2, <2>3 DEF PoolInv, IdleInv, Picked, Ids
  <2>6. IdleInv' BY <1>0, <2>4, <2>5 DEF PoolInv, IdleInv
  <2>7. PoolWithinCapacity'
    <3>1. max_workers # 0 => Cardinality(Flight') = nworkers' - Len(idle_workers')
      BY <1>0, <2>3 DEF CountInv, ActiveWorkers
    <3>2. Len(idle_workers') = 0 /\ nworkers' \in Nat BY <2>4, <2>2 DEF StartType
    <3> QED BY <1>0, <2>3, <3>1, <3>2 DEF PoolWithinCapacity
  <2> QED BY <2>3, <2>6, <2>7 DEF PoolInv
<1>2. CASE StartIdle(k, what)
  <2>1. PICK w : w = idle_workers[Len(idle_workers)] OBVIOUS
  <2>2. /\ Picked(w, k, what) /\ StartType
        /\ idle_workers # <<>> /\ idle_workers' = SubSeq(idle_workers, 1, Len(idle_workers) - 1)
        /\ nworkers' = nworkers /\ max_workers # 0
    BY <1>2, <2>1, StartIdlePicks
  <2>3. /\ PoolType' /\ ChannelInv' /\ LoadInv' /\ BusyInv' /\ CountInv' /\ SeatInv'
        /\ \A v \in Ids \ {w} : Idle(v)' <=> Idle(v)
        /\ Ids' = Ids \cup {w} /\ ~Idle(w)'
    BY <2>2, PickedStep
  <2>4. PoolWithinCapacity' BY <1>0, <2>2 DEF PoolInv, PoolWithinCapacity
  <2>5. PICK n \in Nat :
          /\ n + 1 = Len(idle_workers) /\ w = idle_workers[n + 1]
          /\ DOMAIN idle_workers = 1..(n + 1) /\ DOMAIN idle_workers' = 1..n
          /\ \A i \in 1..n : idle_workers'[i] = idle_workers[i]
    <3>1. idle_workers \in Seq(PoolIds) BY DEF PoolInv, PoolType
    <3>2. /\ Len(idle_workers) - 1 \in Nat /\ w = idle_workers[Len(idle_workers)]
          /\ idle_workers' \in Seq(PoolIds) /\ Len(idle_workers') = Len(idle_workers) - 1
          /\ \A i \in 1..(Len(idle_workers) - 1) : idle_workers'[i] = idle_workers[i]
      BY <2>1, <2>2, <3>1, PopLast
    <3> QED BY <3>1, <3>2
  <2>6. \A i \in 1..n : idle_workers[i] # w /\ idle_workers[i] \in Ids
    <3>1. \A i \in 1..(n + 1) : idle_workers[i] \in PoolIds BY <2>5 DEF PoolInv, PoolType
    <3>2. \A i, j \in 1..(n + 1) : idle_workers[i] = idle_workers[j] => i = j
      BY <2>5 DEF PoolInv, IdleInv
    <3> QED BY <2>5, <3>1, <3>2 DEF Ids
  <2>7. \A i \in 1..n : Idle(idle_workers[i])'
    <3> SUFFICES ASSUME NEW i \in 1..n, NEW v, v = idle_workers[i]
                 PROVE  Idle(v)'
      BY <2>5 DEF Idle, At
    <3>1. Idle(v) BY <2>5 DEF PoolInv, IdleInv
    <3> QED BY <2>3, <2>6, <3>1
  <2>8. \A v \in PoolIds' : Idle(v)' => \E i \in 1..n : idle_workers[i] = v
    <3> SUFFICES ASSUME NEW v \in PoolIds', Idle(v)'
                 PROVE  \E i \in 1..n : idle_workers[i] = v
      OBVIOUS
    <3>1. v # w /\ v \in PoolIds /\ Idle(v) BY <2>2, <2>3 DEF Picked, Ids
    <3>2. PICK i \in 1..(n + 1) : idle_workers[i] = v
      BY <2>2, <2>5, <3>1 DEF PoolInv, IdleInv
    <3> QED BY <2>5, <3>1, <3>2
  <2>9. max_workers # 0 BY <2>2
  <2>10. \A i, j \in 1..n : idle_workers'[i] = idle_workers'[j] => i = j
    BY <2>5 DEF PoolInv, IdleInv
  <2>11. IdleInv'
    BY <1>0, <2>5, <2>7, <2>8, <2>9, <2>10 DEF IdleInv
  <2> QED BY <2>3, <2>4, <2>11 DEF PoolInv
<1> QED BY <1>1, <1>2 DEF Dispatching, Start

(***************************************************************************)
(* The steps of the proxy that start no job, or start one with Start.      *)
(***************************************************************************)
LEMMA DispatchStep ==
    ASSUME IInv, NEW t \in Tasks, Dispatch(t)
    PROVE  IInv'
<1> USE DEF Dispatch, proxyVars, poolVars, queueVars, threadVars, batchVars
<1>1. CategoryOf[t] \in Categories /\ CategoryOf[t] \in Classes
  BY WorkAssumption DEF Classes
<1>2. RestType
  BY TypeSplit DEF IInv
<1>3. CASE RunNow(t)
  <2>1. Dispatching(CategoryOf[t], t) /\ FreeSlot(CategoryOf[t])
    BY <1>1, <1>3 DEF RunNow, Dispatching
  <2>2. PoolInv' BY <2>1, StartStep DEF IInv
  <2>3. RestType' BY <1>2, <1>3 DEF RestType, RunNow
  <2> QED BY <2>2, <2>3, TypeSplitNext DEF IInv, PoolInv
<1>4. CASE Enqueue(t)
  <2>1. PoolInv' BY <1>4, FrameStep DEF IInv, Enqueue
  <2>2. pending_commands' \in Seq(Tasks) BY <1>2, <1>4 DEF Enqueue, RestType
  <2>3. queued' \in [Categories -> Int]
    <3>1. queued \in [Categories -> Int] BY <1>2 DEF RestType
    <3>2. queued' = [queued EXCEPT ![CategoryOf[t]] = queued[CategoryOf[t]] + 1]
      BY <1>4 DEF Enqueue
    <3> QED BY <1>1, <3>1, <3>2
  <2>4. RestType' BY <1>2, <1>4, <2>2, <2>3 DEF RestType, Enqueue
  <2> QED BY <2>1, <2>4, TypeSplitNext DEF IInv, PoolInv
<1>5. CASE Drop(t)
  <2>1. PoolInv' BY <1>5, FrameStep DEF IInv, Drop
  <2>2. RestType' BY <1>2, <1>5 DEF RestType, Drop
  <2> QED BY <2>1, <2>2, TypeSplitNext DEF IInv, PoolInv
<1> QED BY <1>3, <1>4, <1>5

LEMMA JobsForType ==
    ASSUME RestType, NEW b \in Batches
    PROVE  [q \in Queues |-> jobs[q] \o JobsFor(b, q)] \in [Queues -> Seq(JobRefs)]
<1>1. \A q \in Queues : JobsFor(b, q) \in Seq(JobRefs)
  <2> SUFFICES ASSUME NEW q \in Queues, NEW s, s = JobsFor(b, q)
               PROVE  s \in Seq(JobRefs)
    OBVIOUS
  <2>1. s \in Seq({b} \X Nat) BY JobsForAssumption
  <2>2. {b} \X Nat \subseteq JobRefs BY DEF JobRefs
  <2> QED BY <2>1, <2>2
<1> QED BY <1>1 DEF RestType

(* Batches and timer jobs join the queues. *)
LEMMA QueueStep ==
    ASSUME IInv, NEW b \in Batches, ControlBatch(b) \/ TimerFires(b)
    PROVE  IInv'
<1> USE DEF ControlBatch, TimerFires, Live, proxyVars, poolVars, queueVars, threadVars
<1>1. PoolInv' BY FrameStep DEF IInv
<1>2. RestType BY TypeSplit DEF IInv
<1>3. jobs' \in [Queues -> Seq(JobRefs)] BY <1>2, JobsForType, Zenon
<1>4. RestType' BY <1>2, <1>3, Zenon DEF RestType
<1> QED BY <1>1, <1>4, TypeSplitNext DEF IInv, PoolInv

LEMMA ScheduleReplyStep ==
    ASSUME IInv, NEW r \in ReplyJobs, ScheduleReply(r)
    PROVE  IInv'
<1> USE DEF ScheduleReply, Live, poolVars, queueVars, threadVars
<1>1. PoolInv' BY FrameStep DEF IInv
<1>2. RestType BY TypeSplit DEF IInv
<1>3. <<r, 0>> \in JobRefs /\ r \in Batches /\ "reply" \in Queues
  BY DEF JobRefs, Batches, Queues
<1>4. jobs' \in [Queues -> Seq(JobRefs)] BY <1>2, <1>3 DEF RestType
<1>5. RestType' BY <1>2, <1>3, <1>4 DEF RestType
<1> QED BY <1>1, <1>5, TypeSplitNext DEF IInv, PoolInv

LEMMA RunBatchJobStep ==
    ASSUME IInv, NEW k \in {"batch", "reply"}, RunBatchJob(k)
    PROVE  IInv'
<1>0. /\ UNCHANGED <<pc, proxy_skip_one_poll, max_workers, it, queued, pending_commands,
                     busy, batch, outstanding, worker_msgs, todo, dropped, finished>>
      /\ jobs' = [jobs EXCEPT ![k] = Tail(jobs[k])]
  BY DEF RunBatchJob, proxyVars, queueVars, envVars
<1>1. RestType BY TypeSplit DEF IInv
<1>2. k \in Queues /\ k \in Classes /\ k \notin Categories
  BY SetsAssumption DEF Queues, Classes
<1>3. jobs[k] \in Seq(JobRefs) /\ jobs[k] # <<>>
  BY <1>1, <1>2 DEF RestType, RunBatchJob, BatchJobsRunnable
<1>4. Head(jobs[k]) \in JobRefs /\ Tail(jobs[k]) \in Seq(JobRefs)
  BY <1>3, HeadTailProperties
<1>5. Dispatching(k, Head(jobs[k])) /\ FreeSlot(k)
  BY <1>0, <1>2, <1>4 DEF Dispatching, RunBatchJob, BatchJobsRunnable
<1>6. PICK what : what = Head(jobs[k]) OBVIOUS
<1>7. PoolInv' BY <1>0, <1>5, <1>6, StartStep DEF IInv
<1>8. jobs' \in [Queues -> Seq(JobRefs)] BY <1>0, <1>1, <1>4, Zenon DEF RestType
<1>9. RestType' BY <1>0, <1>1, <1>8, Zenon DEF RestType
<1> QED BY <1>7, <1>9, TypeSplitNext DEF IInv, PoolInv

LEMMA RunPendingStep ==
    ASSUME IInv, RunPending
    PROVE  IInv'
<1>0. /\ UNCHANGED <<pc, proxy_skip_one_poll, max_workers, it, jobs, busy, batch,
                     outstanding, worker_msgs, todo, dropped, finished>>
      /\ pending_commands' = ErasePending
  BY DEF RunPending, proxyVars, batchVars, envVars
<1>1. RestType BY TypeSplit DEF IInv
<1>2. it \in 1..Len(pending_commands) /\ pending_commands \in Seq(Tasks)
  BY <1>1 DEF RestType, RunPending, PendingLeft
<1>3. PICK t \in Tasks : t = pending_commands[it] BY <1>2
<1>4. CategoryOf[t] \in Categories /\ CategoryOf[t] \in Classes
  BY WorkAssumption DEF Classes
<1>5. Dispatching(CategoryOf[t], t) /\ FreeSlot(CategoryOf[t])
  BY <1>0, <1>3, <1>4 DEF Dispatching, RunPending
<1>6. PoolInv' BY <1>0, <1>5, StartStep DEF IInv
<1>7. pending_commands' \in Seq(Tasks)
  <2>1. SubSeq(pending_commands, 1, it - 1) \in Seq(Tasks)
    BY <1>2, SubSeqProperties
  <2>2. SubSeq(pending_commands, it + 1, Len(pending_commands)) \in Seq(Tasks)
    BY <1>2, SubSeqProperties
  <2> QED BY <1>0, <2>1, <2>2, ConcatProperties DEF ErasePending
<1>8. queued' \in [Categories -> Int]
  <2>1. queued \in [Categories -> Int] BY <1>1 DEF RestType
  <2>2. queued' = [queued EXCEPT ![CategoryOf[t]] = queued[CategoryOf[t]] - 1]
    BY <1>3 DEF RunPending
  <2> QED BY <1>4, <2>1, <2>2
<1>9. RestType' BY <1>0, <1>1, <1>7, <1>8, Zenon DEF RestType
<1> QED BY <1>6, <1>9, TypeSplitNext DEF IInv, PoolInv

(* The steps that only move the loop on. *)
LoopMoves ==
    /\ pc' \in {"top", "control", "workers", "timers", "tagged", "batch", "reply",
                "pending", "incoming", "done"}
    /\ it' = it \/ it' = 1 \/ it' = it + 1
    /\ proxy_skip_one_poll' = proxy_skip_one_poll \/ proxy_skip_one_poll' = FALSE
    /\ UNCHANGED <<max_workers, nworkers, idle_workers, active, run, queued,
                   pending_commands, thread, inbox, jobs, busy, batch, outstanding,
                   worker_msgs, todo, dropped, finished>>

LEMMA PhaseMoves ==
    ASSUME Phase \/ SkipPending \/ \E k \in {"batch", "reply"} : EndBatchJobs(k)
    PROVE  LoopMoves
<1> USE DEF LoopMoves, poolVars, queueVars, threadVars, batchVars, envVars
<1>1. CASE ProxyQuit BY <1>1, Zenon DEF ProxyQuit, Goto
<1>2. CASE Poll BY <1>2, Zenon DEF Poll, Goto
<1>3. CASE EndControl \/ EndWorkers \/ EndTimers \/ EndIncoming
  BY <1>3, Zenon DEF EndControl, EndWorkers, EndTimers, EndIncoming, Goto
<1>4. CASE SkipQueue \/ EndPending BY <1>4, Zenon DEF SkipQueue, EndPending, Goto
<1>5. CASE SkipPending BY <1>5, Zenon DEF SkipPending
<1>6. CASE \E k \in {"batch", "reply"} : EndBatchJobs(k)
  BY <1>6, Zenon DEF EndBatchJobs
<1> QED BY <1>1, <1>2, <1>3, <1>4, <1>5, <1>6, Zenon DEF Phase

LEMMA PhaseStep ==
    ASSUME IInv, LoopMoves
    PROVE  IInv'
<1>1. PoolInv' BY FrameStep DEF IInv, LoopMoves
<1>2. RestType BY TypeSplit DEF IInv
<1>3. it' \in Nat \ {0} BY <1>2 DEF RestType, LoopMoves
<1>4. proxy_skip_one_poll' \in BOOLEAN BY <1>2, Zenon DEF RestType, LoopMoves
<1>5. RestType' BY <1>2, <1>3, <1>4, Zenon DEF RestType, LoopMoves
<1> QED BY <1>1, <1>5, TypeSplitNext DEF IInv, PoolInv
=============================================================================
