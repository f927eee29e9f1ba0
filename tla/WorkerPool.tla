----------------------------- MODULE WorkerPool -----------------------------
(***************************************************************************)
(* The job scheduler of OxenMQ: the proxy thread hands commands, injected  *)
(* tasks, batch jobs and reply jobs to a lazily grown pool of worker       *)
(* threads and to the tagged threads, and shuts all of them down.          *)
(* (worker.cpp, jobs.cpp, batch.h, and the scheduling part of proxy.cpp)   *)
(*                                                                         *)
(* The proxy owns every variable except thread, inbox (shared with the     *)
(* worker at its other end), worker_msgs and finished.  Pool workers are   *)
(* numbered 0, 1, ... as in the code; tagged threads are model values.     *)
(* A client's call and the proxy's reception of it are one step: an item   *)
(* still in "todo" has not been sent yet or is still on its socket.        *)
(*                                                                         *)
(* An operator X_Mistake before X is X with a mistake in it; nothing uses  *)
(* it except the sensitivity runs described in README.md.                  *)
(***************************************************************************)
EXTENDS Integers, FiniteSets, Sequences, Functions

CONSTANTS
    Categories,      \* the command categories
    Tagged,          \* the tagged threads
    NetTasks,        \* commands that arrive from a connection
    InjectTasks,     \* tasks passed to inject_task()
    CategoryOf,      \* the category of each command and injected task
    AppBatches,      \* batches (and single jobs) passed to batch() or job()
    TimerBatches,    \* batches a timer queues when it fires
    ReplyJobs,       \* single jobs passed to proxy_schedule_reply_job()
    BatchThreads,    \* per batch: the target of each of its jobs
    Completion,      \* per batch: where its completion function runs
    general_workers, \* set_general_threads()
    reserved,        \* reserved_threads, batch_jobs_reserved, reply_jobs_reserved
    max_queue,       \* per category: queue limit, negative for no limit
    MayQuit          \* whether the destructor may run

Tasks == NetTasks \cup InjectTasks
Batches == AppBatches \cup TimerBatches \cup ReplyJobs

(* What a pool worker may be busy with: one class per reservation. *)
Classes == Categories \cup {"batch", "reply"}

(* A job of a batch; its number is -1 for the completion function. *)
CompletionNo == -1
JobRefs == Batches \X (Nat \cup {CompletionNo})

(***************************************************************************)
(* start() sums general_workers and every reservation into max_workers;    *)
(* the sum is written here as the size of a set with one seat per unit.    *)
(***************************************************************************)
GeneralSeats == {"general"} \X (1..general_workers)
ReservedSeats(k) == {k} \X (1..reserved[k])
Seats == GeneralSeats \cup UNION {ReservedSeats(k) : k \in Classes}
MaxWorkers == Cardinality(Seats)

ASSUME SetsAssumption ==
    /\ IsFiniteSet(Categories) /\ IsFiniteSet(Tagged)
    /\ Tagged \cap Nat = {}
    /\ Categories \cap ({"batch", "reply", "tagged", "general"} \cup Tagged) = {}
    /\ {"batch", "reply", "pool", "proxy", "none"} \cap Tagged = {}
    /\ Tasks \cap (JobRefs \cup Batches) = {}

ASSUME ReservationAssumption ==
    /\ general_workers \in Nat \ {0}
    /\ reserved \in [Classes -> Nat]
    /\ max_queue \in [Categories -> Int]

ASSUME WorkAssumption ==
    /\ CategoryOf \in [Tasks -> Categories]
    /\ Completion \in [Batches -> Tagged \cup {"pool", "proxy", "none"}]
    /\ DOMAIN BatchThreads = Batches
    /\ \A b \in Batches : BatchThreads[b] \in Seq(Tagged \cup {"pool"})
    /\ MayQuit \in BOOLEAN

(* The jobs of batch b that go to queue q, in the order proxy_batch adds   *)
(* them; job numbers start at 0.  Jobs for no thread go to "batch".        *)
Queues == {"batch", "reply"} \cup Tagged
QueueOf(target) == IF target = "pool" THEN "batch" ELSE target
JobsFor(b, q) ==
    SelectSeq([i \in 1..Len(BatchThreads[b]) |-> <<b, i - 1>>],
              LAMBDA r : QueueOf(BatchThreads[b][r[2] + 1]) = q)

ASSUME JobsForAssumption ==
    \A b \in Batches, q \in Queues : JobsFor(b, q) \in Seq({b} \X Nat)

VARIABLES
    pc,                  \* where the proxy loop is
    proxy_skip_one_poll,
    max_workers,         \* 0 once QUIT was received
    nworkers,            \* workers.size()
    idle_workers,        \* the first idle_worker_count entries of idle_workers
    active,              \* active_threads, batch_jobs_active, reply_jobs_active
    queued,              \* per category: its entries of pending_commands
    pending_commands,
    it,                  \* the iterator of proxy_process_queue
    jobs,                \* batch_jobs, reply_jobs, and the tagged threads' queues
    busy,                \* per tagged thread
    run,                 \* per worker: the run_info it was last loaded with
    thread,              \* per worker: what its thread is doing
    inbox,               \* per worker: control messages from the proxy
    worker_msgs,         \* messages waiting on workers_socket
    batch,               \* per batch: not received, live or deleted
    outstanding,         \* per batch: jobs_outstanding
    todo,                \* items the proxy has not received
    dropped,             \* commands refused because of max_queue
    finished             \* tasks, jobs and completions whose function returned

proxyVars == <<pc, proxy_skip_one_poll, max_workers, it>>
poolVars == <<nworkers, idle_workers, active, run>>
queueVars == <<queued, pending_commands>>
threadVars == <<thread, inbox>>
batchVars == <<jobs, busy, batch, outstanding>>
envVars == <<worker_msgs, todo, dropped, finished>>
vars == <<proxyVars, poolVars, queueVars, threadVars, batchVars, envVars>>

ActiveWorkers == nworkers - Len(idle_workers)

(* The test every dispatch makes: an unused reservation, or general room. *)
FreeSlot_OffByOne(k) ==
    active[k] <= reserved[k] \/ ActiveWorkers < general_workers
FreeSlot_OneMore(k) ==
    active[k] < reserved[k] \/ ActiveWorkers <= general_workers
FreeSlot(k) ==
    active[k] < reserved[k] \/ ActiveWorkers < general_workers

(* The job of w was dispatched and its RAN is not yet processed. *)
InFlight(w) ==
    \/ thread[w] = "running"
    \/ "RUN" \in Range(inbox[w])
    \/ <<w, "RAN">> \in worker_msgs

Extend(f, x, v) == [y \in DOMAIN f \cup {x} |-> IF y = x THEN v ELSE f[y]]

Init ==
    /\ pc = "top"
    /\ proxy_skip_one_poll = FALSE
    /\ max_workers = MaxWorkers
    /\ nworkers = 0
    /\ idle_workers = <<>>
    /\ active = [k \in Classes |-> 0]
    /\ queued = [c \in Categories |-> 0]
    /\ pending_commands = <<>>
    /\ it = 1
    /\ jobs = [q \in Queues |-> <<>>]
    /\ busy = [t \in Tagged |-> FALSE]
    /\ run = [t \in Tagged |-> [class |-> "tagged", what |-> "nothing"]]
    /\ thread = [t \in Tagged |-> "waiting"]
    /\ inbox = [t \in Tagged |-> <<>>]
    /\ worker_msgs = {}
    /\ batch = [b \in Batches |-> "new"]
    /\ outstanding = [b \in Batches |-> Len(BatchThreads[b])]
    /\ todo = Tasks \cup Batches \cup (IF MayQuit THEN {"QUIT"} ELSE {})
    /\ dropped = {}
    /\ finished = {}
-----------------------------------------------------------------------------
(* Handing a job to a worker. *)

(* proxy_run_worker: start the thread, or wake it with RUN. *)
RunWorker(w) ==
    IF thread[w] = "joined"
    THEN thread' = [thread EXCEPT ![w] = "running"] /\ UNCHANGED inbox
    ELSE inbox' = [inbox EXCEPT ![w] = Append(@, "RUN")] /\ UNCHANGED thread

(* get_idle_worker with no idle worker: a new pool entry and its thread. *)
StartNew(k, what) ==
    /\ idle_workers = <<>>
    /\ nworkers' = nworkers + 1
    /\ run' = Extend(run, nworkers, [class |-> k, what |-> what])
    /\ thread' = Extend(thread, nworkers, "running")
    /\ inbox' = Extend(inbox, nworkers, <<>>)
    /\ UNCHANGED idle_workers

(* get_idle_worker taking the most recently idled worker. *)
StartIdle_NoPop(k, what) ==
    /\ idle_workers # <<>>
    /\ LET w == idle_workers[Len(idle_workers)]
       IN  /\ run' = [run EXCEPT ![w] = [class |-> k, what |-> what]]
           /\ RunWorker(w)
    /\ UNCHANGED <<idle_workers, nworkers>>
StartIdle(k, what) ==
    /\ idle_workers # <<>>
    /\ LET w == idle_workers[Len(idle_workers)]
       IN  /\ run' = [run EXCEPT ![w] = [class |-> k, what |-> what]]
           /\ RunWorker(w)
    /\ idle_workers' = SubSeq(idle_workers, 1, Len(idle_workers) - 1)
    /\ UNCHANGED nworkers

(* get_idle_worker, run_info::load, proxy_run_worker and the counter. *)
Start(k, what) ==
    /\ StartNew(k, what) \/ StartIdle(k, what)
    /\ active' = [active EXCEPT ![k] = @ + 1]

(* proxy_to_worker past its checks, and proxy_inject_task: run the command *)
(* at once, queue it, or drop it.                                          *)
QueueFull(c) == max_queue[c] >= 0 /\ queued[c] >= max_queue[c]

RunNow(t) ==
    /\ FreeSlot(CategoryOf[t])
    /\ Start(CategoryOf[t], t)
    /\ UNCHANGED <<queueVars, dropped>>

Enqueue(t) ==
    /\ ~FreeSlot(CategoryOf[t])
    /\ ~QueueFull(CategoryOf[t])
    /\ pending_commands' = Append(pending_commands, t)
    /\ queued' = [queued EXCEPT ![CategoryOf[t]] = @ + 1]
    /\ UNCHANGED <<poolVars, threadVars, dropped>>

Drop(t) ==
    /\ ~FreeSlot(CategoryOf[t])
    /\ QueueFull(CategoryOf[t])
    /\ dropped' = dropped \cup {t}
    /\ UNCHANGED <<poolVars, threadVars, queueVars>>

Dispatch(t) ==
    /\ t \in todo
    /\ RunNow(t) \/ Enqueue(t) \/ Drop(t)
    /\ todo' = todo \ {t}
    /\ UNCHANGED <<proxyVars, batchVars, worker_msgs, finished>>
-----------------------------------------------------------------------------
(* Control messages, drained at the start of every turn of the loop. *)

(* proxy_batch: the jobs join the queues of the threads they ask for. *)
Live(b) == batch' = [batch EXCEPT ![b] = "live"] /\ todo' = todo \ {b}

ControlBatch(b) ==
    /\ pc = "control" /\ b \in todo
    /\ Live(b)
    /\ jobs' = [q \in Queues |-> jobs[q] \o JobsFor(b, q)]
    /\ proxy_skip_one_poll' = TRUE
    /\ UNCHANGED <<pc, max_workers, it, poolVars, queueVars, threadVars, busy,
                   outstanding, worker_msgs, dropped, finished>>

ControlInject(t) == pc = "control" /\ Dispatch(t)

(* QUIT: no more workers; tell every idle one to quit. *)
QuitNow_PoolOnly(w) == w \in Range(idle_workers)
QuitNow_AllTagged(w) == w \in Range(idle_workers) \/ w \in Tagged
QuitNow(w) == w \in Range(idle_workers) \/ (w \in Tagged /\ ~busy[w])

ControlQuit ==
    /\ pc = "control" /\ "QUIT" \in todo
    /\ todo' = todo \ {"QUIT"}
    /\ max_workers' = 0
    /\ inbox' = [w \in DOMAIN inbox |->
                    IF QuitNow(w) THEN Append(inbox[w], "QUIT") ELSE inbox[w]]
    /\ idle_workers' = <<>>
    /\ UNCHANGED <<pc, proxy_skip_one_poll, it, nworkers, active, run,
                   queueVars, thread, batchVars, worker_msgs, dropped, finished>>

(* proxy_schedule_reply_job: the answer to a request or to a connect. *)
ScheduleReply_NoSkip(r) ==
    /\ pc \in {"control", "incoming"} /\ r \in todo
    /\ Live(r)
    /\ jobs' = [jobs EXCEPT !["reply"] = Append(@, <<r, 0>>)]
    /\ UNCHANGED <<proxyVars, poolVars, queueVars, threadVars, busy,
                   outstanding, worker_msgs, dropped, finished>>
ScheduleReply(r) ==
    /\ pc \in {"control", "incoming"} /\ r \in todo
    /\ Live(r)
    /\ jobs' = [jobs EXCEPT !["reply"] = Append(@, <<r, 0>>)]
    /\ proxy_skip_one_poll' = TRUE
    /\ UNCHANGED <<pc, max_workers, it, poolVars, queueVars, threadVars, busy,
                   outstanding, worker_msgs, dropped, finished>>
-----------------------------------------------------------------------------
(* Messages from the workers (proxy_worker_message). *)

(* A finished worker is told to quit, or becomes idle. *)
Release_TaggedToo(w) ==
    /\ idle_workers' = Append(idle_workers, w)
    /\ UNCHANGED inbox
Release(w) ==
    IF max_workers = 0
    THEN inbox' = [inbox EXCEPT ![w] = Append(@, "QUIT")] /\ UNCHANGED idle_workers
    ELSE /\ idle_workers' = IF w \in Tagged THEN idle_workers
                                            ELSE Append(idle_workers, w)
         /\ UNCHANGED inbox

CommandRan(w) ==
    /\ run[w].class \in Categories
    /\ active' = [active EXCEPT ![run[w].class] = @ - 1]
    /\ UNCHANGED <<batchVars, finished>>

(* The thread of a batch job is free again. *)
BatchSlotFreed_WrongCounter(w) ==
    IF w \in Tagged
    THEN busy' = [busy EXCEPT ![w] = FALSE] /\ UNCHANGED active
    ELSE active' = [active EXCEPT !["batch"] = @ - 1] /\ UNCHANGED busy
BatchSlotFreed_StaysBusy(w) ==
    IF w \in Tagged
    THEN UNCHANGED <<busy, active>>
    ELSE active' = [active EXCEPT ![run[w].class] = @ - 1] /\ UNCHANGED busy
BatchSlotFreed(w) ==
    IF w \in Tagged
    THEN busy' = [busy EXCEPT ![w] = FALSE] /\ UNCHANGED active
    ELSE active' = [active EXCEPT ![run[w].class] = @ - 1] /\ UNCHANGED busy

(* delete batch *)
Delete_Leak(b) == UNCHANGED batch
Delete(b) == batch' = [batch EXCEPT ![b] = "deleted"]

(* Where the completion job goes when the last job was run by w. *)
CompletionQueue(w, b) ==
    IF Completion[b] \in Tagged THEN Completion[b]
    ELSE IF run[w].class = "reply" THEN "reply" ELSE "batch"

(* job_finished() *)
JobsRemain_OffByOne(b) == outstanding[b] - 1 > 1
JobsRemain(b) == outstanding[b] - 1 > 0

(* After a job: jobs remain, or the batch is over, or its completion is *)
(* run by the proxy here, or queued.                                       *)
JobRan(w, b) ==
    /\ outstanding' = [outstanding EXCEPT ![b] = @ - 1]
    /\ \/ /\ JobsRemain(b)
          /\ UNCHANGED <<jobs, batch, finished>>
       \/ /\ ~JobsRemain(b) /\ Completion[b] = "none"
          /\ Delete(b)
          /\ UNCHANGED <<jobs, finished>>
       \/ /\ ~JobsRemain(b) /\ Completion[b] = "proxy"
          /\ finished' = finished \cup {<<b, CompletionNo>>}
          /\ Delete(b)
          /\ UNCHANGED jobs
       \/ /\ ~JobsRemain(b) /\ Completion[b] \notin {"none", "proxy"}
          /\ jobs' = [jobs EXCEPT ![CompletionQueue(w, b)] =
                         Append(@, <<b, CompletionNo>>)]
          /\ UNCHANGED <<batch, finished>>

BatchRan(w) ==
    /\ run[w].class \notin Categories
    /\ BatchSlotFreed(w)
    /\ LET b == run[w].what[1]
       IN  \/ /\ run[w].what[2] = CompletionNo
              /\ Delete(b)
              /\ UNCHANGED <<jobs, outstanding, finished>>
           \/ run[w].what[2] # CompletionNo /\ JobRan(w, b)

WorkerRan(w) ==
    /\ pc = "workers" /\ <<w, "RAN">> \in worker_msgs
    /\ worker_msgs' = worker_msgs \ {<<w, "RAN">>}
    /\ CommandRan(w) \/ BatchRan(w)
    /\ Release(w)
    /\ UNCHANGED <<proxyVars, nworkers, run, queueVars, thread, todo, dropped>>

(* QUITTING: join the thread. *)
WorkerQuitting(w) ==
    /\ pc = "workers" /\ <<w, "QUITTING">> \in worker_msgs
    /\ worker_msgs' = worker_msgs \ {<<w, "QUITTING">>}
    /\ thread' = [thread EXCEPT ![w] = "joined"]
    /\ UNCHANGED <<proxyVars, poolVars, queueVars, inbox, batchVars, todo,
                   dropped, finished>>

(* A timer fires (_queue_timer_job): its single job joins a queue. *)
TimerFires(b) ==
    /\ pc = "timers" /\ b \in todo
    /\ Live(b)
    /\ jobs' = [q \in Queues |-> jobs[q] \o JobsFor(b, q)]
    /\ UNCHANGED <<proxyVars, poolVars, queueVars, threadVars, busy,
                   outstanding, worker_msgs, dropped, finished>>
-----------------------------------------------------------------------------
(* proxy_process_queue, skipped while shutting down. *)

(* Every idle tagged thread gets the first job of its queue. *)
TaggedReady_Busy(t) == jobs[t] # <<>>
TaggedReady(t) == ~busy[t] /\ jobs[t] # <<>>

ProcessTagged ==
    /\ pc = "tagged" /\ max_workers # 0
    /\ LET ready == {t \in Tagged : TaggedReady(t)}
       IN  /\ busy' = [t \in Tagged |-> busy[t] \/ t \in ready]
           /\ run' = [w \in DOMAIN run |->
                         IF w \in ready
                         THEN [class |-> "tagged", what |-> Head(jobs[w])]
                         ELSE run[w]]
           /\ inbox' = [w \in DOMAIN inbox |->
                         IF w \in ready THEN Append(inbox[w], "RUN") ELSE inbox[w]]
           /\ jobs' = [q \in Queues |-> IF q \in ready THEN Tail(jobs[q]) ELSE jobs[q]]
    /\ pc' = "batch"
    /\ UNCHANGED <<proxy_skip_one_poll, max_workers, it, nworkers, idle_workers,
                   active, queueVars, thread, batch, outstanding, envVars>>

(* proxy_run_batch_jobs(batch_jobs), then the same for reply_jobs: one     *)
(* turn of its loop per step, until its condition fails.                   *)
BatchJobsRunnable(k) ==
    jobs[k] # <<>> /\ ActiveWorkers < max_workers /\ FreeSlot(k)

RunBatchJob(k) ==
    /\ pc = k
    /\ BatchJobsRunnable(k)
    /\ Start(k, Head(jobs[k]))
    /\ jobs' = [jobs EXCEPT ![k] = Tail(@)]
    /\ UNCHANGED <<proxyVars, queueVars, busy, batch, outstanding, envVars>>

EndBatchJobs(k) ==
    /\ pc = k
    /\ ~BatchJobsRunnable(k)
    /\ pc' = IF k = "batch" THEN "reply" ELSE "pending"
    /\ it' = 1
    /\ UNCHANGED <<proxy_skip_one_poll, max_workers, poolVars, queueVars,
                   threadVars, batchVars, envVars>>

(* The loop over pending_commands. *)
ErasePending ==
    SubSeq(pending_commands, 1, it - 1)
        \o SubSeq(pending_commands, it + 1, Len(pending_commands))

PendingLeft_MissLast == it < Len(pending_commands) /\ ActiveWorkers < max_workers
PendingLeft == it <= Len(pending_commands) /\ ActiveWorkers < max_workers

RunPending_KeepCount ==
    /\ pc = "pending" /\ PendingLeft
    /\ FreeSlot(CategoryOf[pending_commands[it]])
    /\ Start(CategoryOf[pending_commands[it]], pending_commands[it])
    /\ pending_commands' = ErasePending
    /\ UNCHANGED <<proxyVars, queued, batchVars, envVars>>
RunPending_KeepEntry ==
    /\ pc = "pending" /\ PendingLeft
    /\ FreeSlot(CategoryOf[pending_commands[it]])
    /\ Start(CategoryOf[pending_commands[it]], pending_commands[it])
    /\ it' = it + 1
    /\ UNCHANGED <<pc, proxy_skip_one_poll, max_workers, queueVars, batchVars, envVars>>
RunPending ==
    /\ pc = "pending" /\ PendingLeft
    /\ LET t == pending_commands[it]
       IN  /\ FreeSlot(CategoryOf[t])
           /\ Start(CategoryOf[t], t)
           /\ queued' = [queued EXCEPT ![CategoryOf[t]] = @ - 1]
    /\ pending_commands' = ErasePending
    /\ UNCHANGED <<proxyVars, batchVars, envVars>>

SkipPending ==
    /\ pc = "pending" /\ PendingLeft
    /\ ~FreeSlot(CategoryOf[pending_commands[it]])
    /\ it' = it + 1
    /\ UNCHANGED <<pc, proxy_skip_one_poll, max_workers, poolVars, queueVars,
                   threadVars, batchVars, envVars>>
-----------------------------------------------------------------------------
(* The phases of proxy_loop.  The timeout of a poll is finite, so a poll   *)
(* may return at any time.                                                 *)
IncomingCommand(t) == pc = "incoming" /\ Dispatch(t)

Goto(from, to) ==
    /\ pc = from
    /\ pc' = to
    /\ UNCHANGED <<max_workers, poolVars, queueVars, threadVars, batchVars, envVars>>

AllJoined == \A w \in DOMAIN thread : thread[w] = "joined"

(* All workers have finished: proxy_quit. *)
ProxyQuit ==
    /\ max_workers = 0 /\ AllJoined
    /\ Goto("top", "done")
    /\ UNCHANGED <<proxy_skip_one_poll, it>>

Poll ==
    /\ max_workers # 0 \/ ~AllJoined
    /\ Goto("top", "control")
    /\ proxy_skip_one_poll' = FALSE
    /\ UNCHANGED it

EndControl == Goto("control", "workers") /\ UNCHANGED <<proxy_skip_one_poll, it>>

EndWorkers ==
    /\ worker_msgs = {}
    /\ Goto("workers", "timers")
    /\ UNCHANGED <<proxy_skip_one_poll, it>>

EndTimers_IncomingFirst ==
    Goto("timers", "incoming") /\ UNCHANGED <<proxy_skip_one_poll, it>>
EndTimers == Goto("timers", "tagged") /\ UNCHANGED <<proxy_skip_one_poll, it>>

SkipQueue ==
    /\ max_workers = 0
    /\ Goto("tagged", "incoming")
    /\ UNCHANGED <<proxy_skip_one_poll, it>>

EndPending ==
    /\ ~PendingLeft
    /\ Goto("pending", "incoming")
    /\ UNCHANGED <<proxy_skip_one_poll, it>>

EndIncoming == Goto("incoming", "top") /\ UNCHANGED <<proxy_skip_one_poll, it>>

Phase ==
    \/ ProxyQuit \/ Poll \/ EndControl \/ EndWorkers \/ EndTimers
    \/ SkipQueue \/ EndPending \/ EndIncoming

Proxy ==
    \/ Phase
    \/ \E b \in AppBatches : ControlBatch(b)
    \/ \E t \in InjectTasks : ControlInject(t)
    \/ ControlQuit
    \/ \E r \in ReplyJobs : ScheduleReply(r)
    \/ \E w \in DOMAIN run : WorkerRan(w) \/ WorkerQuitting(w)
    \/ \E b \in TimerBatches : TimerFires(b)
    \/ ProcessTagged
    \/ \E k \in {"batch", "reply"} : RunBatchJob(k) \/ EndBatchJobs(k)
    \/ RunPending \/ SkipPending
    \/ \E t \in NetTasks : IncomingCommand(t)
-----------------------------------------------------------------------------
(* A worker thread (worker_thread, worker_wait_for). *)

(* Run the loaded job, whatever it throws, and report RAN. *)
WorkerRun(w) ==
    /\ thread[w] = "running"
    /\ finished' = finished \cup {run[w].what}
    /\ worker_msgs' = worker_msgs \cup {<<w, "RAN">>}
    /\ thread' = [thread EXCEPT ![w] = "waiting"]
    /\ UNCHANGED <<proxyVars, poolVars, queueVars, inbox, batchVars, todo, dropped>>

(* Take the next control message: RUN, or QUIT, which ends the thread. *)
WorkerReceive(w) ==
    /\ thread[w] = "waiting" /\ inbox[w] # <<>>
    /\ inbox' = [inbox EXCEPT ![w] = Tail(@)]
    /\ \/ /\ Head(inbox[w]) = "RUN"
          /\ thread' = [thread EXCEPT ![w] = "running"]
          /\ UNCHANGED worker_msgs
       \/ /\ Head(inbox[w]) = "QUIT"
          /\ thread' = [thread EXCEPT ![w] = "gone"]
          /\ worker_msgs' = worker_msgs \cup {<<w, "QUITTING">>}
    /\ UNCHANGED <<proxyVars, poolVars, queueVars, batchVars, todo, dropped, finished>>

Worker(w) == WorkerRun(w) \/ WorkerReceive(w)

Stopped == pc = "done" /\ UNCHANGED vars

Next == Proxy \/ (\E w \in DOMAIN run : Worker(w)) \/ Stopped

(* The proxy thread and the workers keep running; a job returns. *)
Fairness ==
    /\ WF_vars(Proxy)
    /\ WF_vars(\E w \in DOMAIN run : Worker(w))

Spec == Init /\ [][Next]_vars
FairSpec == Spec /\ Fairness
-----------------------------------------------------------------------------
(* Properties. *)

RunInfo == [class : Classes \cup {"tagged"}, what : Tasks \cup JobRefs \cup {"nothing"}]
PoolIds == 0..(nworkers - 1)

(* Every variable of the scheduler stays in its type. *)
TypeOK ==
    /\ pc \in {"top", "control", "workers", "timers", "tagged", "batch",
               "reply", "pending", "incoming", "done"}
    /\ proxy_skip_one_poll \in BOOLEAN
    /\ max_workers \in {0, MaxWorkers}
    /\ nworkers \in Nat
    /\ idle_workers \in Seq(PoolIds)
    /\ active \in [Classes -> Int]
    /\ queued \in [Categories -> Int]
    /\ pending_commands \in Seq(Tasks)
    /\ it \in Nat \ {0}
    /\ jobs \in [Queues -> Seq(JobRefs)]
    /\ busy \in [Tagged -> BOOLEAN]
    /\ run \in [PoolIds \cup Tagged -> RunInfo]
    /\ thread \in [PoolIds \cup Tagged -> {"running", "waiting", "gone", "joined"}]
    /\ inbox \in [PoolIds \cup Tagged -> Seq({"RUN", "QUIT"})]
    /\ worker_msgs \subseteq (PoolIds \cup Tagged) \X {"RAN", "QUITTING"}
    /\ batch \in [Batches -> {"new", "live", "deleted"}]
    /\ outstanding \in [Batches -> Int]
    /\ todo \subseteq Tasks \cup Batches \cup {"QUIT"}
    /\ dropped \subseteq Tasks
    /\ finished \subseteq Tasks \cup JobRefs

BusyWith(k) == {w \in PoolIds : InFlight(w) /\ run[w].class = k}

(* The counters the dispatch test reads (active_threads, batch_jobs_active,  *)
(* reply_jobs_active, busy) agree with what the worker threads really hold,  *)
(* so none of the asserts on them can fail.                                  *)
CountersExact ==
    /\ \A k \in Classes : active[k] = Cardinality(BusyWith(k))
    /\ \A t \in Tagged : busy[t] <=> InFlight(t)

(* Until QUIT the pool never outgrows what proxy_loop_init reserved for it   *)
(* (workers, idle_workers and worker_sockets have max_workers entries),      *)
(* although proxy_to_worker and proxy_inject_task never test max_workers.    *)
PoolWithinCapacity == max_workers # 0 => nworkers <= MaxWorkers

(* "This will always contains the current job, and is guaranteed to never be *)
(* invalidated" (worker.cpp, of the worker's reference into workers): the    *)
(* vector never grows past its reserved capacity, not even during shutdown.  *)
RunInfoNeverMoves == nworkers <= MaxWorkers

(* Jobs beyond their class's reservation share the general threads: a        *)
(* reservation is never spent on another class (README, "reserved").         *)
ExcessWithinGeneral ==
    max_workers # 0 =>
        SumFunction([k \in Classes |-> IF active[k] > reserved[k]
                                       THEN active[k] - reserved[k] ELSE 0])
            <= general_workers

(* The idle stack lists each worker that has nothing to do exactly once,     *)
(* and get_idle_worker never hands out one that is still at work.            *)
IdleExact ==
    max_workers # 0 =>
        /\ \A i, j \in DOMAIN idle_workers : idle_workers[i] = idle_workers[j] => i = j
        /\ Range(idle_workers) = {w \in PoolIds : ~InFlight(w)}

(* queued counts the category's entries of pending_commands, within its limit. *)
QueuedExact ==
    \A c \in Categories :
        /\ queued[c] = Cardinality({i \in DOMAIN pending_commands :
                                        CategoryOf[pending_commands[i]] = c})
        /\ max_queue[c] >= 0 => queued[c] <= max_queue[c]

(* When the proxy is about to block in its poll, nothing it has queued could *)
(* run: whatever became runnable after proxy_process_queue set               *)
(* proxy_skip_one_poll.                                                      *)
NoRunnableWorkAtPoll ==
    pc = "top" /\ ~proxy_skip_one_poll /\ max_workers # 0 =>
        /\ \A t \in Tagged : busy[t] \/ jobs[t] = <<>>
        /\ \A k \in {"batch", "reply"} : jobs[k] = <<>> \/ ~FreeSlot(k)
        /\ \A i \in DOMAIN pending_commands : ~FreeSlot(CategoryOf[pending_commands[i]])

(* A worker has at most one message to read and none once it has quit: no    *)
(* job is sent to a thread that was told to quit, and no RUN is lost.        *)
ChannelDiscipline ==
    \A w \in DOMAIN inbox :
        /\ Len(inbox[w]) <= 1
        /\ inbox[w] # <<>> => thread[w] = "waiting" /\ <<w, "RAN">> \notin worker_msgs
        /\ <<w, "QUITTING">> \in worker_msgs => thread[w] = "gone"

(* Each command is in exactly one place: not received, waiting, with one     *)
(* worker, refused, or done.                                                 *)
Holders(t) == {w \in DOMAIN run : InFlight(w) /\ run[w].what = t}

ExactlyOnce ==
    \A t \in Tasks :
        LET waiting == {i \in DOMAIN pending_commands : pending_commands[i] = t}
            places == Cardinality(Holders(t)) + Cardinality(waiting)
                      + (IF t \in todo THEN 1 ELSE 0) + (IF t \in dropped THEN 1 ELSE 0)
        IN  places = IF t \in finished /\ Holders(t) = {} THEN 0 ELSE 1

(* Every live batch is referred to by one queue entry or busy worker per     *)
(* outstanding job, or by its completion job alone; a deleted batch by none: *)
(* no use after delete, no second completion, no leak.                       *)
BatchRefs ==
    \A b \in Batches :
        LET inQueue == {x \in UNION {{q} \X DOMAIN jobs[q] : q \in Queues} :
                           jobs[x[1]][x[2]][1] = b}
            inThread == {w \in DOMAIN run : InFlight(w) /\ run[w].class \notin Categories
                                            /\ run[w].what[1] = b}
        IN  Cardinality(inQueue) + Cardinality(inThread) =
                IF batch[b] # "live" THEN 0
                ELSE IF outstanding[b] > 0 THEN outstanding[b] ELSE 1

(* The completion function of a batch runs only after all its jobs returned, *)
(* and a batch without one never runs one.                                   *)
CompletionLast ==
    \A b \in Batches :
        <<b, CompletionNo>> \in finished =>
            /\ Completion[b] # "none"
            /\ \A i \in DOMAIN BatchThreads[b] : <<b, i - 1>> \in finished

(* Until QUIT, commands of one category start in the order they were         *)
(* received: when t starts, no earlier command of its category is left       *)
(* waiting.  (After QUIT the queue is left alone, and a command that arrives *)
(* then may start before those in it.)                                       *)
NoOvertaking ==
    [][\A t \in Tasks :
          max_workers # 0 /\ Holders(t) = {} /\ Holders(t)' # {} =>
              \A i \in DOMAIN pending_commands :
                  CategoryOf[pending_commands[i]] = CategoryOf[t] =>
                      \/ pending_commands[i] = t
                      \/ \E j \in 1..(i - 1) : pending_commands[j] = t]_vars

(* The run_info a worker is reading is not reloaded until its RAN has been   *)
(* received ("will always contains the current job", worker.cpp).            *)
RunStableWhileInFlight ==
    [][\A w \in DOMAIN run : InFlight(w) => run'[w] = run[w]]_vars

(* Once told to quit, the proxy thread ends: every worker gets a QUIT,       *)
(* answers it and is joined.                                                 *)
ShutdownCompletes == (max_workers = 0) ~> (pc = "done")

(* A command that was queued runs, and a live batch is completed and         *)
(* deleted, unless the program shuts down first.                             *)
QueuedCommandsRun ==
    \A t \in Tasks :
        (t \in Range(pending_commands)) ~> (t \in finished \/ max_workers = 0)
BatchesComplete ==
    \A b \in Batches : (batch[b] = "live") ~> (batch[b] = "deleted" \/ max_workers = 0)
=============================================================================
