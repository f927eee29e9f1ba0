------------------------ MODULE WorkerPool_invariant ------------------------
(***************************************************************************)
(* The inductive invariant of WorkerPool, the argument that bounds the     *)
(* pool, and the steps of a worker thread.                                 *)
(***************************************************************************)
EXTENDS WorkerPool, FiniteSetTheorems, SequenceTheorems, TLAPS

LEMMA OneMessage ==
    ASSUME NEW x
    PROVE  /\ <<x>> # <<>> /\ Len(<<x>>) = 1
           /\ Append(<<>>, x) = <<x>>
           /\ Head(<<x>>) = x /\ Tail(<<x>>) = <<>>
           /\ Range(<<x>>) = {x} /\ Range(<<>>) = {}
<1>1. Range(<<x>>) = {x} BY DEF Range
<1>2. Range(<<>>) = {} BY DEF Range
<1>3. Append(<<>>, x) = <<x>> OBVIOUS
<1>4. Tail(<<x>>) = <<>> OBVIOUS
<1>5. <<x>> # <<>> /\ Len(<<x>>) = 1 /\ Head(<<x>>) = x OBVIOUS
<1> QED BY <1>1, <1>2, <1>3, <1>4, <1>5

LEMMA Messages ==
    /\ <<"RUN">> # <<>> /\ <<"QUIT">> # <<>> /\ <<"RUN">> # <<"QUIT">>
    /\ Range(<<"RUN">>) = {"RUN"} /\ Range(<<"QUIT">>) = {"QUIT"} /\ Range(<<>>) = {}
    /\ Append(<<>>, "RUN") = <<"RUN">> /\ Append(<<>>, "QUIT") = <<"QUIT">>
    /\ Head(<<"RUN">>) = "RUN" /\ Head(<<"QUIT">>) = "QUIT"
    /\ Tail(<<"RUN">>) = <<>> /\ Tail(<<"QUIT">>) = <<>>
<1>1. "RUN" # "QUIT" OBVIOUS
<1> QED BY <1>1, OneMessage

LEMMA SeatsFinite ==
    /\ IsFiniteSet(Seats)
    /\ \A k \in Classes : /\ IsFiniteSet(ReservedSeats(k))
                          /\ Cardinality(ReservedSeats(k)) = reserved[k]
    /\ IsFiniteSet(GeneralSeats) /\ Cardinality(GeneralSeats) = general_workers
    /\ MaxWorkers \in Nat \ {0}
<1>1. ASSUME NEW n \in Nat, NEW x
      PROVE  IsFiniteSet({x} \X (1..n)) /\ Cardinality({x} \X (1..n)) = n
  <2>1. IsFiniteSet(1..n) /\ Cardinality(1..n) = n
    BY <1>1, FS_Interval
  <2>2. IsFiniteSet({x}) /\ Cardinality({x}) = 1
    BY FS_Singleton
  <2> QED BY <1>1, <2>1, <2>2, FS_Product
<1>2. \A k \in Classes : /\ IsFiniteSet(ReservedSeats(k))
                         /\ Cardinality(ReservedSeats(k)) = reserved[k]
  BY <1>1, ReservationAssumption DEF ReservedSeats
<1>3. IsFiniteSet(GeneralSeats) /\ Cardinality(GeneralSeats) = general_workers
  BY <1>1, ReservationAssumption, Zenon DEF GeneralSeats
<1>4. IsFiniteSet(Classes)
  <2>1. IsFiniteSet({"batch", "reply"})
    <3>1. IsFiniteSet({"batch"}) BY FS_Singleton
    <3>2. IsFiniteSet({"batch"} \cup {"reply"}) BY <3>1, FS_AddElement
    <3>3. {"batch", "reply"} = {"batch"} \cup {"reply"} OBVIOUS
    <3> QED BY <3>2, <3>3
  <2> QED BY <2>1, SetsAssumption, FS_Union, Zenon DEF Classes
<1>5. IsFiniteSet({ReservedSeats(k) : k \in Classes})
  <2> DEFINE f == [k \in Classes |-> ReservedSeats(k)]
  <2>1. f \in Surjection(Classes, {ReservedSeats(k) : k \in Classes})
    BY DEF Surjection
  <2> QED BY <1>4, <2>1, FS_Surjection
<1>6. IsFiniteSet(UNION {ReservedSeats(k) : k \in Classes})
  BY <1>2, <1>5, FS_UNION
<1>7. IsFiniteSet(Seats)
  BY <1>3, <1>6, FS_Union, Zenon DEF Seats
<1>8. MaxWorkers \in Nat \ {0}
  <2>1. GeneralSeats \subseteq Seats BY DEF Seats
  <2>2. Cardinality(GeneralSeats) <= Cardinality(Seats) BY <1>7, <2>1, FS_Subset
  <2>3. Cardinality(Seats) \in Nat BY <1>7, FS_CardinalityType
  <2> QED BY <1>3, <2>2, <2>3, ReservationAssumption DEF MaxWorkers
<1> QED BY <1>2, <1>3, <1>7, <1>8
-----------------------------------------------------------------------------
(***************************************************************************)
(* The argument for the size of the pool: every job at work can be given a *)
(* seat of its own, a general one or one reserved for its class.           *)
(***************************************************************************)
SeatsFor(k) == GeneralSeats \cup ReservedSeats(k)

Seated(F, r) ==
    \E seat \in [F -> Seats] :
        /\ \A v, w \in F : seat[v] = seat[w] => v = w
        /\ \A w \in F : seat[w] \in SeatsFor(r[w].class)

(* Fewer holders than seats in a part of Seats leave one of its seats free. *)
LEMMA SeatLeft ==
    ASSUME NEW A, NEW S, IsFiniteSet(A), IsFiniteSet(S), Cardinality(A) < Cardinality(S),
           NEW f
    PROVE  \E s \in S : \A w \in A : f[w] # s
<1> SUFFICES ASSUME \A s \in S : \E w \in A : f[w] = s
             PROVE  FALSE
  OBVIOUS
<1> DEFINE B == {w \in A : f[w] \in S}
           g == [w \in B |-> f[w]]
<1>1. g \in Surjection(B, S) BY DEF Surjection
<1>2. B \in SUBSET A OBVIOUS
<1> HIDE DEF B, g
<1>3. IsFiniteSet(B) /\ Cardinality(B) <= Cardinality(A) BY <1>2, FS_Subset
<1>4. Cardinality(S) <= Cardinality(B) BY <1>1, <1>3, FS_Surjection
<1>5. Cardinality(A) \in Nat /\ Cardinality(B) \in Nat /\ Cardinality(S) \in Nat
  BY <1>3, FS_CardinalityType
<1> QED BY <1>3, <1>4, <1>5

(* A job that passes the dispatch test finds a seat. *)
LEMMA SeatAdd ==
    ASSUME NEW F, IsFiniteSet(F), NEW r, NEW r2, NEW w, w \notin F, NEW k \in Classes,
           Seated(F, r),
           \A v \in F : r[v].class \in Classes /\ r2[v].class = r[v].class,
           r2[w].class = k,
           \/ Cardinality({v \in F : r[v].class = k}) < reserved[k]
           \/ Cardinality(F) < general_workers
    PROVE  Seated(F \cup {w}, r2)
<1>1. PICK seat \in [F -> Seats] :
          /\ \A u, v \in F : seat[u] = seat[v] => u = v
          /\ \A v \in F : seat[v] \in SeatsFor(r[v].class)
  BY DEF Seated
<1> DEFINE A == {v \in F : r[v].class = k}
<1>2. \E s \in SeatsFor(k) : \A v \in F : seat[v] # s
  <2>1. CASE Cardinality(A) < reserved[k]
    <3>1. IsFiniteSet(A) BY FS_Subset
    <3>2. PICK s \in ReservedSeats(k) : \A v \in A : seat[v] # s
      <4> HIDE DEF A
      <4> QED BY <2>1, <3>1, SeatsFinite, SeatLeft
    <3>3. \A v \in F \ A : seat[v] # s
      BY <1>1, <3>2, SetsAssumption
      DEF SeatsFor, GeneralSeats, ReservedSeats, Classes
    <3> QED BY <3>2, <3>3 DEF SeatsFor
  <2>2. CASE Cardinality(F) < general_workers
    <3>1. \E s \in GeneralSeats : \A v \in F : seat[v] # s
      BY <2>2, SeatsFinite, SeatLeft
    <3> QED BY <3>1 DEF SeatsFor
  <2> QED BY <2>1, <2>2
<1>3. PICK s \in SeatsFor(k) : \A v \in F : seat[v] # s BY <1>2
<1>4. s \in Seats BY <1>3 DEF SeatsFor, Seats
<1> DEFINE seat2 == [v \in F \cup {w} |-> IF v = w THEN s ELSE seat[v]]
<1>5. seat2 \in [F \cup {w} -> Seats] BY <1>1, <1>4
<1>6. \A u, v \in F \cup {w} : seat2[u] = seat2[v] => u = v BY <1>1, <1>3
<1>7. \A v \in F \cup {w} : seat2[v] \in SeatsFor(r2[v].class) BY <1>1, <1>3
<1> HIDE DEF seat2
<1> QED BY <1>5, <1>6, <1>7 DEF Seated

LEMMA SeatKeep ==
    ASSUME NEW F, NEW G \in SUBSET F, NEW r, NEW r2, Seated(F, r),
           \A v \in G : r2[v].class = r[v].class
    PROVE  Seated(G, r2)
<1>1. PICK seat \in [F -> Seats] :
          /\ \A u, v \in F : seat[u] = seat[v] => u = v
          /\ \A v \in F : seat[v] \in SeatsFor(r[v].class)
  BY DEF Seated
<1> DEFINE seat2 == [v \in G |-> seat[v]]
<1>2. seat2 \in [G -> Seats] BY <1>1
<1>3. \A u, v \in G : seat2[u] = seat2[v] => u = v BY <1>1
<1>4. \A v \in G : seat2[v] \in SeatsFor(r2[v].class) BY <1>1
<1> HIDE DEF seat2
<1> QED BY <1>2, <1>3, <1>4 DEF Seated

LEMMA SeatBound ==
    ASSUME NEW F, NEW r, Seated(F, r)
    PROVE  IsFiniteSet(F) /\ Cardinality(F) <= MaxWorkers
<1>1. PICK seat \in [F -> Seats] : \A v, w \in F : seat[v] = seat[w] => v = w
  BY DEF Seated
<1>2. seat \in Injection(F, Seats) BY <1>1 DEF Injection, IsInjective
<1> QED BY <1>2, SeatsFinite, FS_Injection DEF MaxWorkers
-----------------------------------------------------------------------------
(***************************************************************************)
(* The inductive invariant.                                                *)
(***************************************************************************)
Ids == PoolIds \cup Tagged
Flight == {w \in PoolIds : InFlight(w)}

(* The seven situations of a worker: its thread and its two channels. *)
At(w, th, in, ran, quitting) ==
    /\ thread[w] = th
    /\ inbox[w] = in
    /\ <<w, "RAN">> \in worker_msgs <=> ran
    /\ <<w, "QUITTING">> \in worker_msgs <=> quitting
Idle(w) == At(w, "waiting", <<>>, FALSE, FALSE)
Told(w) == At(w, "waiting", <<"RUN">>, FALSE, FALSE)
Running(w) == At(w, "running", <<>>, FALSE, FALSE)
Ran(w) == At(w, "waiting", <<>>, TRUE, FALSE)
ToldToQuit(w) == At(w, "waiting", <<"QUIT">>, FALSE, FALSE)
Gone(w) == At(w, "gone", <<>>, FALSE, TRUE)
Joined(w) == At(w, "joined", <<>>, FALSE, FALSE)

AtWork(w) == Told(w) \/ Running(w) \/ Ran(w)
Leaving(w) == ToldToQuit(w) \/ Gone(w) \/ Joined(w)

ChannelInv ==
    /\ \A w \in Ids : Idle(w) \/ AtWork(w) \/ Leaving(w)
    /\ max_workers # 0 => \A w \in Ids : ~Leaving(w)

(* What a worker was loaded with fits the worker. *)
LoadInv ==
    /\ \A w \in PoolIds : run[w].class \in Classes
    /\ \A t \in Tagged : run[t].class = "tagged"
    /\ \A w \in Ids : AtWork(w) =>
           IF run[w].class \in Categories THEN run[w].what \in Tasks
                                          ELSE run[w].what \in JobRefs

IdleInv ==
    /\ max_workers = 0 => idle_workers = <<>>
    /\ \A i \in DOMAIN idle_workers : Idle(idle_workers[i])
    /\ \A i, j \in DOMAIN idle_workers : idle_workers[i] = idle_workers[j] => i = j
    /\ max_workers # 0 => \A w \in PoolIds : Idle(w) =>
           \E i \in DOMAIN idle_workers : idle_workers[i] = w
    /\ "QUIT" \in todo => max_workers # 0

BusyInv == \A t \in Tagged : busy[t] <=> AtWork(t)

CountInv ==
    /\ \A k \in Classes : active[k] = Cardinality(BusyWith(k))
    /\ max_workers # 0 => Cardinality(Flight) = ActiveWorkers

SeatInv == max_workers # 0 => Seated(Flight, run)

(* The part of TypeOK these rest on. *)
PoolType ==
    /\ max_workers \in {0, MaxWorkers}
    /\ nworkers \in Nat
    /\ idle_workers \in Seq(PoolIds)
    /\ active \in [Classes -> Int]
    /\ busy \in [Tagged -> BOOLEAN]
    /\ run \in [Ids -> RunInfo]
    /\ thread \in [Ids -> {"running", "waiting", "gone", "joined"}]
    /\ inbox \in [Ids -> Seq({"RUN", "QUIT"})]
    /\ worker_msgs \subseteq Ids \X {"RAN", "QUITTING"}

PoolInv ==
    /\ PoolType /\ ChannelInv /\ LoadInv /\ IdleInv /\ BusyInv /\ CountInv /\ SeatInv
    /\ PoolWithinCapacity

IInv == TypeOK /\ PoolInv

(* A worker is in flight exactly when it is told, running or done. *)
Exclusive(w) ==
    /\ Idle(w) => ~InFlight(w) /\ ~AtWork(w) /\ ~Leaving(w)
    /\ AtWork(w) => InFlight(w)
    /\ Leaving(w) => ~InFlight(w) /\ ~AtWork(w)

LEMMA SituationsExclusive == \A w : Exclusive(w)
<1> TAKE w
<1>1. Idle(w) => ~InFlight(w) /\ ~AtWork(w)
  BY Messages DEF Idle, AtWork, Told, Running, Ran, InFlight, At
<1>2. Idle(w) => ~Leaving(w)
  BY Messages DEF Idle, Leaving, ToldToQuit, Gone, Joined, At
<1>3. AtWork(w) => InFlight(w)
  BY Messages DEF AtWork, Told, Running, Ran, InFlight, At
<1>4. Leaving(w) => ~InFlight(w) /\ ~AtWork(w)
  BY Messages DEF Leaving, ToldToQuit, Gone, Joined, AtWork, Told, Running, Ran, InFlight, At
<1> QED BY <1>1, <1>2, <1>3, <1>4 DEF Exclusive

LEMMA SituationsExclusiveNext == (\A w : Exclusive(w))'
BY SituationsExclusive, PTL

(* Steps that leave the pool and the channels alone. *)
LEMMA FrameStep ==
    ASSUME PoolInv, todo' \subseteq todo,
           UNCHANGED <<max_workers, nworkers, idle_workers, active, busy, run,
                       thread, inbox, worker_msgs>>
    PROVE  PoolInv'
<1>1. Ids' = Ids /\ PoolIds' = PoolIds /\ Flight' = Flight
  BY DEF Ids, PoolIds, Flight, InFlight
<1>2. PoolType' BY <1>1 DEF PoolInv, PoolType
<1>3. \A w : /\ Idle(w)' <=> Idle(w)
             /\ AtWork(w)' <=> AtWork(w)
             /\ Leaving(w)' <=> Leaving(w)
  BY DEF Idle, AtWork, Leaving, Told, Running, Ran, ToldToQuit, Gone, Joined, At
<1>4. ChannelInv' /\ LoadInv' /\ IdleInv' /\ BusyInv'
  BY <1>1, <1>3 DEF PoolInv, ChannelInv, LoadInv, IdleInv, BusyInv
<1>5. \A k : BusyWith(k)' = BusyWith(k) BY <1>1 DEF BusyWith, InFlight
<1>6. CountInv' /\ SeatInv' /\ PoolWithinCapacity'
  BY <1>1, <1>5 DEF PoolInv, CountInv, SeatInv, PoolWithinCapacity, ActiveWorkers
<1> QED BY <1>2, <1>4, <1>6 DEF PoolInv

(* The step leaves the thread and the channels of v alone. *)
SameChannel(v) ==
    /\ thread'[v] = thread[v] /\ inbox'[v] = inbox[v]
    /\ <<v, "RAN">> \in worker_msgs' <=> <<v, "RAN">> \in worker_msgs
    /\ <<v, "QUITTING">> \in worker_msgs' <=> <<v, "QUITTING">> \in worker_msgs

LEMMA SameSituation ==
    ASSUME NEW v, SameChannel(v)
    PROVE  /\ Idle(v)' <=> Idle(v)
           /\ AtWork(v)' <=> AtWork(v)
           /\ Leaving(v)' <=> Leaving(v)
           /\ InFlight(v)' <=> InFlight(v)
BY DEF SameChannel, Idle, AtWork, Leaving, Told, Running, Ran, ToldToQuit, Gone,
       Joined, At, InFlight

(* Steps that move one worker on, at work or leaving as before. *)
LEMMA ChannelStep ==
    ASSUME PoolInv, PoolType', NEW w \in Ids,
           UNCHANGED <<max_workers, nworkers, idle_workers, active, busy, run, todo>>,
           \A v \in Ids \ {w} : SameChannel(v),
           (AtWork(w) /\ AtWork(w)') \/ (Leaving(w) /\ Leaving(w)')
    PROVE  PoolInv'
<1>1. Ids' = Ids /\ PoolIds' = PoolIds BY DEF Ids, PoolIds
<1>2. \A v \in Ids \ {w} :
          /\ Idle(v)' <=> Idle(v)
          /\ AtWork(v)' <=> AtWork(v)
          /\ Leaving(v)' <=> Leaving(v)
          /\ InFlight(v)' <=> InFlight(v)
  BY SameSituation
<1>3. ChannelInv'
  <2>1. \A v \in Ids : Idle(v)' \/ AtWork(v)' \/ Leaving(v)'
    BY <1>2 DEF PoolInv, ChannelInv
  <2>2. max_workers # 0 => \A v \in Ids : ~Leaving(v)'
    BY <1>2, SituationsExclusiveNext DEF PoolInv, ChannelInv, Exclusive
  <2> QED BY <1>1, <2>1, <2>2 DEF ChannelInv
<1>4. Exclusive(w) /\ Exclusive(w)' BY SituationsExclusive, SituationsExclusiveNext
<1>5. (AtWork(w)' <=> AtWork(w)) /\ (InFlight(w)' <=> InFlight(w)) /\ (Idle(w)' <=> Idle(w))
  BY <1>4 DEF Exclusive
<1>6. \A v \in Ids : (AtWork(v)' <=> AtWork(v)) /\ (InFlight(v)' <=> InFlight(v))
  BY <1>2, <1>5
<1>7. \A v \in Ids : Idle(v)' <=> Idle(v) BY <1>2, <1>5
<1>8. LoadInv' /\ BusyInv' BY <1>1, <1>6 DEF PoolInv, LoadInv, BusyInv, Ids
<1>9. IdleInv' BY <1>1, <1>7 DEF PoolInv, IdleInv, Ids, PoolType
<1>10. Flight' = Flight BY <1>1, <1>6 DEF Flight, Ids
<1>11. \A k : BusyWith(k)' = BusyWith(k) BY <1>1, <1>6 DEF BusyWith, Ids
<1>12. CountInv' /\ SeatInv' /\ PoolWithinCapacity'
  BY <1>1, <1>10, <1>11 DEF PoolInv, CountInv, SeatInv, PoolWithinCapacity, ActiveWorkers
<1> QED BY <1>3, <1>8, <1>9, <1>12 DEF PoolInv

(* The rest of TypeOK. *)
RestType ==
    /\ pc \in {"top", "control", "workers", "timers", "tagged", "batch",
               "reply", "pending", "incoming", "done"}
    /\ proxy_skip_one_poll \in BOOLEAN
    /\ queued \in [Categories -> Int]
    /\ pending_commands \in Seq(Tasks)
    /\ it \in Nat \ {0}
    /\ jobs \in [Queues -> Seq(JobRefs)]
    /\ batch \in [Batches -> {"new", "live", "deleted"}]
    /\ outstanding \in [Batches -> Int]
    /\ todo \subseteq Tasks \cup Batches \cup {"QUIT"}
    /\ dropped \subseteq Tasks
    /\ finished \subseteq Tasks \cup JobRefs

LEMMA TypeSplit == TypeOK <=> PoolType /\ RestType
BY DEF TypeOK, PoolType, RestType, Ids

LEMMA TypeSplitNext == TypeOK' <=> PoolType' /\ RestType'
BY TypeSplit, PTL
-----------------------------------------------------------------------------
(***************************************************************************)
(* The steps of a worker thread, and of the proxy joining it.              *)
(***************************************************************************)
LEMMA WorkerRunStep ==
    ASSUME IInv, NEW w \in Ids, WorkerRun(w)
    PROVE  IInv'
<1> USE DEF WorkerRun, proxyVars, poolVars, queueVars, batchVars
<1>1. Running(w) /\ AtWork(w)
  BY Messages DEF IInv, PoolInv, ChannelInv, Idle, AtWork, Leaving, Told, Running, Ran,
     ToldToQuit, Gone, Joined, At
<1>2. run[w].what \in Tasks \cup JobRefs BY <1>1 DEF IInv, PoolInv, LoadInv
<1>3. TypeOK' BY <1>2 DEF IInv, TypeOK, PoolIds, Ids
<1>4. \A v \in Ids \ {w} : SameChannel(v) BY DEF IInv, TypeOK, Ids, SameChannel
<1>5. AtWork(w)' BY <1>1 DEF IInv, TypeOK, Ids, AtWork, Ran, Running, At
<1>6. PoolInv' BY <1>1, <1>3, <1>4, <1>5, TypeSplitNext, ChannelStep DEF IInv
<1> QED BY <1>3, <1>6 DEF IInv

LEMMA WorkerReceiveStep ==
    ASSUME IInv, NEW w \in Ids, WorkerReceive(w)
    PROVE  IInv'
<1> USE DEF WorkerReceive, proxyVars, poolVars, queueVars, batchVars
<1>1. Told(w) \/ ToldToQuit(w)
  BY Messages DEF IInv, PoolInv, ChannelInv, Idle, AtWork, Leaving, Told, Running, Ran,
     ToldToQuit, Gone, Joined, At
<1>2. TypeOK'
  <2>1. Tail(inbox[w]) = <<>> BY <1>1, Messages, Zenon DEF Told, ToldToQuit, At
  <2>2. inbox' \in [Ids -> Seq({"RUN", "QUIT"})] BY <2>1 DEF IInv, TypeOK, Ids
  <2>3. /\ thread' \in [Ids -> {"running", "waiting", "gone", "joined"}]
        /\ worker_msgs' \subseteq Ids \X {"RAN", "QUITTING"}
    BY DEF IInv, TypeOK, Ids
  <2> QED BY <2>2, <2>3 DEF IInv, TypeOK, PoolIds, Ids
<1>3. \A v \in Ids \ {w} : SameChannel(v) BY DEF IInv, TypeOK, Ids, SameChannel
<1>4. CASE Told(w)
  <2>1. AtWork(w) BY <1>4 DEF AtWork
  <2>2. AtWork(w)' BY <1>4, Messages DEF IInv, TypeOK, Ids, AtWork, Told, Running, At
  <2>3. PoolInv' BY <1>2, <1>3, <2>1, <2>2, TypeSplitNext, ChannelStep DEF IInv
  <2> QED BY <1>2, <2>3 DEF IInv
<1>5. CASE ToldToQuit(w)
  <2>1. Leaving(w) BY <1>5 DEF Leaving
  <2>2. Leaving(w)' BY <1>5, Messages DEF IInv, TypeOK, Ids, Leaving, ToldToQuit, Gone, At
  <2>3. PoolInv' BY <1>2, <1>3, <2>1, <2>2, TypeSplitNext, ChannelStep DEF IInv
  <2> QED BY <1>2, <2>3 DEF IInv
<1> QED BY <1>1, <1>4, <1>5

LEMMA WorkerQuittingStep ==
    ASSUME IInv, NEW w \in Ids, WorkerQuitting(w)
    PROVE  IInv'
<1> USE DEF WorkerQuitting, proxyVars, poolVars, queueVars, batchVars
<1>1. Gone(w) /\ Leaving(w)
  BY DEF IInv, PoolInv, ChannelInv, Idle, AtWork, Leaving, Told, Running, Ran,
     ToldToQuit, Gone, Joined, At
<1>2. TypeOK' BY DEF IInv, TypeOK, PoolIds, Ids
<1>3. \A v \in Ids \ {w} : SameChannel(v) BY DEF IInv, TypeOK, Ids, SameChannel
<1>4. Leaving(w)' BY <1>1 DEF IInv, TypeOK, Ids, Leaving, Joined, Gone, At
<1>5. PoolInv' BY <1>1, <1>2, <1>3, <1>4, TypeSplitNext, ChannelStep DEF IInv
<1> QED BY <1>2, <1>5 DEF IInv
=============================================================================
