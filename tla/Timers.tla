------------------------------- MODULE Timers -------------------------------
(***************************************************************************)
(* Timers: what the proxy keeps about them, and the jobs they schedule.    *)
(* (add_timer, cancel_timer, proxy_timer, proxy_timer_del and              *)
(* _queue_timer_job of jobs.cpp)  These are steps of the loop that         *)
(* ProxyLoop models; it says when they are taken.                          *)
(*                                                                         *)
(* An operator X_Mistake before X is X with a mistake in it; nothing uses  *)
(* it except the sensitivity runs described in README.md.                  *)
(***************************************************************************)
EXTENDS Integers, Sequences, FiniteSets, Functions

CONSTANTS
    TimerIDs,   \* timers that clients add, each once
    Squelch,    \* those among them whose jobs are not to be double-booked
    InProxy,    \* those that run in the proxy thread
    MaxJobs     \* bound: jobs of one timer that are scheduled at a time

ASSUME TimersAssumption == Squelch \subseteq TimerIDs /\ InProxy \subseteq TimerIDs

VARIABLES
    zmq_timers,    \* timers that libzmq has running
    due,           \* those among them whose interval has passed
    timer_zmq_id,  \* timers that can still be cancelled
    timer_jobs,    \* timer -> is a job of it running, as far as the proxy knows
    queued,        \* timer -> jobs in the job queue
    working,       \* timer -> jobs in a worker
    ran            \* timer -> jobs whose completion the proxy has not handled yet

tvars == <<zmq_timers, due, timer_zmq_id, timer_jobs, queued, working, ran>>

InitTimers ==
    /\ zmq_timers = {} /\ due = {} /\ timer_zmq_id = {}
    /\ timer_jobs = [t \in {} |-> FALSE]
    /\ queued = [t \in TimerIDs |-> 0]
    /\ working = [t \in TimerIDs |-> 0]
    /\ ran = [t \in TimerIDs |-> 0]

Jobs(t) == queued[t] + working[t] + ran[t]

(* An interval passes.  (libzmq) *)
Elapses(t) ==
    /\ t \in zmq_timers \ due
    /\ Jobs(t) < MaxJobs
    /\ due' = due \cup {t}
    /\ UNCHANGED <<zmq_timers, timer_zmq_id, timer_jobs, queued, working, ran>>

proxy_timer(t) ==
    /\ zmq_timers' = zmq_timers \cup {t}
    /\ timer_jobs' = [x \in DOMAIN timer_jobs \cup {t} |-> x # t /\ timer_jobs[x]]
    /\ timer_zmq_id' = timer_zmq_id \cup {t}
    /\ UNCHANGED <<due, queued, working, ran>>

(* The entry of timer_jobs stays. *)
proxy_timer_del_KeepsZmq(t) ==
    /\ timer_zmq_id' = timer_zmq_id \ {t}
    /\ UNCHANGED <<zmq_timers, due, timer_jobs, queued, working, ran>>
proxy_timer_del(t) ==
    /\ IF t \in timer_zmq_id
       THEN zmq_timers' = zmq_timers \ {t} /\ due' = due \ {t}
       ELSE UNCHANGED <<zmq_timers, due>>
    /\ timer_zmq_id' = timer_zmq_id \ {t}
    /\ UNCHANGED <<timer_jobs, queued, working, ran>>

(* _queue_timer_job, called by libzmq when a timer is due *)
Held_Never(t) == FALSE
Held(t) == t \in Squelch /\ timer_jobs[t]
queue_timer_job(t) ==
    /\ t \in due
    /\ due' = due \ {t}
    /\ IF Held(t) \/ t \in InProxy
       THEN UNCHANGED <<timer_jobs, queued>>
       ELSE /\ queued' = [queued EXCEPT ![t] = @ + 1]
            /\ timer_jobs' = [timer_jobs EXCEPT ![t] = t \in Squelch]
    /\ UNCHANGED <<zmq_timers, timer_zmq_id, working, ran>>

(* proxy_process_queue gives the job a worker; the worker runs it.  What   *)
(* the job throws is caught, and it is finished all the same.              *)
JobStarts(t) ==
    /\ queued[t] > 0
    /\ queued' = [queued EXCEPT ![t] = @ - 1]
    /\ working' = [working EXCEPT ![t] = @ + 1]
    /\ UNCHANGED <<zmq_timers, due, timer_zmq_id, timer_jobs, ran>>
JobFinishes(t) ==
    /\ working[t] > 0
    /\ working' = [working EXCEPT ![t] = @ - 1]
    /\ ran' = [ran EXCEPT ![t] = @ + 1]
    /\ UNCHANGED <<zmq_timers, due, timer_zmq_id, timer_jobs, queued>>

(* The RAN message: the completion of a squelched timer's batch runs in    *)
(* the proxy.                                                              *)
StillRunning(t) == timer_jobs[t] /\ t \notin Squelch
JobCompletes(t) ==
    /\ ran[t] > 0
    /\ ran' = [ran EXCEPT ![t] = @ - 1]
    /\ timer_jobs' = [timer_jobs EXCEPT ![t] = StillRunning(t)]
    /\ UNCHANGED <<zmq_timers, due, timer_zmq_id, queued, working>>

-----------------------------------------------------------------------------
Running(t) == t \in DOMAIN timer_jobs /\ timer_jobs[t]

(***************************************************************************)
(* "A new timed job will not be scheduled if the timer fires before a      *)
(* previously scheduled callback of the job has completed": a squelched    *)
(* timer never has two jobs, in the queue, in a worker or in between; and  *)
(* it is held back just as long as it has one, so that it is not squelched *)
(* for good.                                                               *)
(***************************************************************************)
SquelchExact == \A t \in Squelch : Jobs(t) = IF Running(t) THEN 1 ELSE 0
=============================================================================
