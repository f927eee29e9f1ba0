# A TLA+ model of OxenMQ

OxenMQ runs one *proxy thread* that owns every socket and every data structure.
Clients (any thread of the program) talk to it through per-thread control
sockets; remote peers through listening and outgoing ZMQ sockets. The proxy
hands work to a pool of worker threads, grown lazily up to `max_workers`, and to
*tagged* threads created by name. Everything that is hard about the library is in
the order in which the proxy sees the messages of all these parties.

## 1. Parts of the system

| Part | Source (`src/oxenmq/`) | Model |
|---|---|---|
| worker pool, dispatch, pending commands | `worker.cpp`, `proxy.cpp` 820-854, `oxenmq.cpp` 224-246, 386-428 | `WorkerPool` |
| batches, jobs, reply jobs, completions | `batch.h`, `jobs.cpp` 9-51 | `WorkerPool` |
| tagged threads | `worker.cpp`, `jobs.cpp`, `proxy.cpp` 455-486, 825-831 | jobs in `WorkerPool`, start and end in `Lifecycle` |
| set-up, start, listeners, destruction | `oxenmq.cpp`, `proxy.cpp` 30-50, 315-485 | `Lifecycle` |
| categories, commands, aliases | `oxenmq.cpp` 60-153 | `Lifecycle`, look-up in `Access` |
| the proxy's loop, `zmq::poll` and epoll | `proxy.cpp` 489-686, `connections.cpp` 30-67 | `ProxyLoop` |
| timers | `jobs.cpp` 53-161 | `Timers`, in the loop of `ProxyLoop` |
| connections and peers | `connections.cpp`, `proxy.cpp` 733-777 | `Connections` |
| sending | `proxy.cpp` 52-223 | `Connections` |
| requests, replies, time-outs | `proxy.cpp`, `connections.cpp` 259-309, `oxenmq.h` | `Requests`, its promise in `RequestService` |
| service nodes, access checks, ZAP | `auth.cpp`, `worker.cpp` 287-359 | decisions in `Access`, state in `Connections` |
| publish/subscribe | `pubsub.h` | `PubSub` |
| control sockets | `oxenmq.cpp` 155-185 | queues per thread in `ProxyLoop` and `Lifecycle` |
| messages and deferred sends, addresses | `message.h`, `address.cpp` | not modelled, see section 6 |

`PROJECT.json` lists the same parts with their status, the hazards found in each
with the line where they bite, and for every definition the lines it models.

The proxy thread is sequential, so the parts meet in two places only: its loop, and
the tables it owns. The modules cut along that line. `WorkerPool`, `ProxyLoop`
and `Lifecycle` each model the threads and the messages between them, with the
contents of the messages reduced to what that part does with them.
`Connections` and `Requests` model the tables, with a handler as a step.

## 2. Modules

| Module | Contents | Proofs |
|---|---|---|
| `WorkerPool` | the scheduler | `WorkerPool_invariant` (the invariant, the seats, the steps of a worker), `WorkerPool_dispatch` (dispatch and the queues), `WorkerPool_proofs` (QUIT, tagged threads, RAN, the theorems) |
| `Access` | the decisions that are pure functions | in `Requests_proofs` |
| `Connections` | sockets, peers, service nodes; extends `Access` | in `Requests_proofs` |
| `Requests` | requests, on top of `Connections` | `Requests_proofs` |
| `RequestService` | what `request()` promises | |
| `Timers`, `ProxyLoop` | timers; the loop, which takes their steps | `ProxyLoop_proofs` |
| `Lifecycle` | from set-up to destruction; extends `Access` | `Lifecycle_proofs` (commands, start(), listeners), `Lifecycle_tagged` (tagged threads) |
| `PubSub` | subscriptions | at its end |

The `MC_` modules give the constants values; the `.cfg` files choose an instance
each. `MC_WorkerPool` also checks that `MaxWorkers`, defined as the size of a set of
seats, is the sum that `start()` computes.

### How `WorkerPool` corresponds to the code

| Variable | Code |
|---|---|
| `pc` | where `proxy_loop` is: `top` (quit test and poll), `control`, `workers`, `timers`, `tagged`/`batch`/`reply`/`pending` (the four parts of `proxy_process_queue`), `incoming`, `done` |
| `max_workers` | the same; 0 once QUIT was received |
| `nworkers`, `idle_workers` | `workers.size()`, the used part of `idle_workers` |
| `active[k]` | `active_threads` of category `k`, `batch_jobs_active`, `reply_jobs_active` |
| `queued`, `pending_commands`, `it` | the same, with the loop's iterator |
| `jobs[q]` | `batch_jobs`, `reply_jobs`, the queue of each tagged thread |
| `busy` | the flag of each tagged thread |
| `run[w]` | the `run_info` of a worker: the class it counts for and what it runs |
| `thread[w]` | what the thread is doing: `running` a job, `waiting` for a message, `gone` (QUITTING sent), `joined` |
| `inbox[w]`, `worker_msgs` | RUN/QUIT towards a worker, RAN/QUITTING on `workers_socket` |
| `batch[b]`, `outstanding[b]` | the life of a `Batch` object, its `jobs_outstanding` |
| `todo`, `dropped`, `finished` | items not yet received, refused, and functions that returned |

A reservation is written once for all classes: categories, `"batch"` and
`"reply"` have the same test (`FreeSlot`) in four places of the code
(`worker.cpp` 364 and 421, `jobs.cpp` 46, `proxy.cpp` 843), and `active` and
`reserved` are functions of the class.

What is abstracted:

* A client's call and the proxy's reception of its message are one step. An item
  in `todo` may not have been sent yet or may still be on its socket, so control
  messages of different threads arrive in any order and at any time.
* What a job or command does is invisible: it returns (or throws, which the
  worker catches) and becomes an element of `finished`. A `Job` is a batch of one
  job without a completion.
* An element of `NetTasks` is a command that passed the access checks
  (`worker.cpp` 287-359), which are in `Connections`.
* Tagged threads have been through the STARTING/START handshake of
  `proxy_loop_init`, which is in `Lifecycle`.
* The poll may return at any time. Its time-out is finite because
  `proxy_loop_init` always installs the connection-cleanup timer.
* `proxy_process_queue` and the receive loops run one iteration per step, so that
  worker threads interleave with them. The tagged part is one step: it only
  appends RUN messages to idle threads.

### Connections, Access and Requests

The tables of the proxy thread. A handler runs to its end before the next one, so
it is one step; `proxy_send`, whose loop is the point of one of its properties, is
several (`send.stage`).

| Variable | Code |
|---|---|
| `connections` | the map of sockets, with the kind of each; `"null"` is the entry that `connections[id]` makes for an id it does not have |
| `peers` | the multimap: a sequence of `peer_info` per service node or connection id |
| `outgoing_sn_conns`, `pending_connects`, `next_conn_id`, `active_service_nodes` | the same |
| `issued` | ids that `connect_remote()` has returned and whose CONNECT_REMOTE message the proxy has not handled |
| `callbacks` | what the connect callbacks of an id were called with |
| `sessions` | what ZAP granted the remote behind a routing id, which libzmq returns as metadata with every message |
| `send` | the SEND message in hand and how far `proxy_send` is with it |
| `last` | the sender of the last command, as `proxy_check_auth` saw it |
| `used`, `pending_requests` | tags drawn; requests sent and not answered |
| `answers`, `reports` | what request callbacks and send callbacks were called with |

Remotes are an environment that may do anything at any time: connect, vanish,
send HELLO, BYE, a command, a reply to any tag, twice or never. That covers lost,
repeated, late and reordered messages without a model of the network.
Time is a countdown per deadline (`Tick`); idle times count up, and the
constants are in ticks. `connect_sn()` writes its keep-alive in microseconds and
`proxy_connect_sn` reads milliseconds, which is why `ConnectSnKeepAlive` has a
factor of 1000.

Where the code is not deterministic the model is not either: a multimap may put
an equal key first or last (`Emplace`), the scan of an unordered set may see it
in any order (`Scans`), zmq may refuse an address and a queue may be full.

Once an entry of `connections` is `"null"` the model of the proxy stops (`Alive`): the
next round of the loop asks that socket for its descriptor or its events and throws
out of the thread. The real loop may handle a few more control messages of the
same round first.

`Access` holds what needs no state: the arithmetic of `set_active_sns` and
`update_active_sns`, `get_command`, `proxy_check_auth` and the decision of
`process_zap_requests`. `Connections` and `Lifecycle` call these from their actions.
A name is a sequence of its parts, `<<category, command>>` or one part without a dot,
and `PartSize` gives the number of characters of a part: the code tests nothing else of
a name but whether it has a dot, how long it is and what it equals.

`RequestService` is the promise of `request()`: its callback is called exactly
once. `Requests` implements it under the mapping `asked <- Asked`: a request counts
as asked while `proxy_send` has it in hand, while it is pending, and once it is
answered, so one that fell between these would be a step that the service cannot
take.

### ProxyLoop and Timers

One action per phase of `proxy_loop`, and one per message within a phase, for
`zmq::poll` and for epoll (`using_epoll`). `process` and `process_all` are the flags
that the wait sets, `queue` the ring of pointers to connections, `skip`
is `proxy_skip_one_poll`. A zmq socket has messages (`inbox`, `controls`, `ran`), and
a descriptor that becomes readable when something happened that the socket has not
looked at (`signalled`). Every use of the socket looks, also a send, and epoll
reports a descriptor only when it becomes readable (`edge`). That is the hazard of
this code: a message may be there without an edge.

What a message does is reduced to what the loop notices: it may use another
socket, open or close a connection, add or cancel a timer, queue a batch or start a
job. Starting one sends RUN on the workers' socket, and so looks at it, unless the
job waits or goes to a new thread (`RunSockets`): a command that arrives, an INJECT
and a queued job all may. A BATCH, also one the proxy sends itself, makes it skip the next wait; a
CONNECT_REMOTE that fails does the same. `Timers` has the
bookkeeping of timers and of the jobs they queue; the worker that runs the job
is one step.

### Lifecycle

The owner's thread (`main`), the proxy thread (`proxy`) and the tagged threads
(`tagged`), from set-up to the end of the destructor. `start()` may fail
because a listener cannot be bound; the object may then be destroyed or started
again (which fails, as `worker_sockets` is not empty). The wait of a tagged thread
on `tagged_cv` is four states, `lock`, `check`, `wait` and `asleep`, so that the
notification may come between any two of them, and the condition variable may wake
a thread for no reason. Calls that throw before they change anything are no steps.

### PubSub

`publish` is split at its locks and at every call of the publisher's function.
Methods that hold the mutex alone from begin to end are one step.

### Sensitivity runs

Each operator named `X_Mistake` stands before `X` and is `X` with a plausible
mistake: an off-by-one in the dispatch test, a worker not popped from the idle
stack, a counter not restored, a completion queued a job early, QUIT sent to busy
tagged threads, a poll not skipped, a pending connect forgotten, a lock not taken.
No specification uses them. In a *sensitivity run* the body of `X` is replaced by a use of `X_Mistake` and the same
configuration is checked again; the property named with the pair in
`PROJECT.json` ("mutants") must then fail. That shows that each property depends
on the code behaviour it is about.

## 3. Runs

| Run | Instance | Distinct states | Checks |
|---|---|---|---|
| `pool_commands` | two categories, one with a reserved thread and one with a queue of one, three commands, an injected task, a pool batch of two jobs with completion, a reply job, QUIT; one general thread | 2879460 | `PoolWithinCapacity`, `ExcessWithinGeneral`, `IdleExact`, `QueuedExact`, `ExactlyOnce`, `NoOvertaking` |
| `pool_batches` | a batch split between a tagged thread and the pool with its completion in the tagged thread, a squelched timer job, a reply job, a command and QUIT; one general thread, one reserved for batches; with fairness | 162170 | `TypeOK`, `CountersExact`, `ChannelDiscipline`, `NoRunnableWorkAtPoll`, `BatchRefs`, `CompletionLast`, `RunStableWhileInFlight`, `ShutdownCompletes`, `QueuedCommandsRun`, `BatchesComplete` |
| `net_service_nodes` | a service node that we may reach and that may reach us, ourselves over inproc, two more connection ids, four lists of service nodes | 890401 | `TypeOK`, `NoOrphanSocket`, `AccessSound`, `RemovedSnGone` |
| `net_requests` | two requests with different send callbacks, a service node in both directions, a remote, three keys | 82984 | `RequestsTypeOK`, `CallbackExact`, `UnsentReported`, `ListExact`, `RequestsAnswered`, `ConnectAnswered` |
| `loop_events` | two connections of which one may open later, a client thread, a squelched timer, both ways of waiting | 440076 | `LoopTypeOK`, `NoLostWakeup`, `PollRefsLive`, `SquelchExact`, `MessagesServed`, `OwnerCancels` |
| `lifecycle` | two tagged threads with one job, two listeners, names at and over the length limits, aliases that collide with a command or are too long | 797082 | `LifeTypeOK`, `TaggedProtocol`, `CommandsReachable`, `BindsExact`, `CallsReturn` |
| `pubsub` | two publishers, two subscribers, a clock up to 4 | 32584 | `SubsTypeOK`, `IterationStable`, `LiveSubsKept` |
| `pool_overgrown` | three commands and QUIT | | finds `RunInfoNeverMoves` violated |
| `net_bye` | one service node that may say BYE | | finds `NoDanglingPeer` violated |
| `net_retry` | one service node, sends with all options, with fairness | | finds `SendEnds` violated |
| `net_queue_full` | the instance of `net_requests` | | finds `QueueFullOnly` violated |
| `loop_epoll` | epoll, two client threads | | finds `QueueRefsLive` violated |

What the properties say, beyond the comments in the modules:

* Capacity. `proxy_to_worker` and `proxy_inject_task` never look at
  `max_workers`. `PoolWithinCapacity` says the pool still stays within it until
  QUIT, and `ExcessWithinGeneral` that reservations are never spent on others.
* Scheduling. `NoRunnableWorkAtPoll` says the proxy never blocks in its poll while
  a queue holds something that could run, which rests on every place that queues
  work late setting `proxy_skip_one_poll`. `NoOvertaking` says that commands of a
  category start in order, which rests on draining the queue before reading new
  messages. Both hold until QUIT: from then on `proxy_process_queue` is not called,
  but `proxy_to_worker` still starts a new command while those queued before it stay.
* Ownership. `BatchRefs` counts the references to a batch: one per outstanding job
  or one for its completion, and none once it is deleted.
* Handshake. `IdleExact`, `ChannelDiscipline` and `RunStableWhileInFlight` together
  say that the lock-free sharing of `run_info` is safe.
* Tables. Several places close connections or erase peers, each in its own order.
  `NoOrphanSocket` says that a socket keeps exactly one peer entry throughout, and
  `RemovedSnGone` that a node that left the list keeps nothing. The converse, that an
  entry has its socket, is what `net_bye` refutes.
* Answers. `CallbackExact` and the refinement `RequestsAnswered` say that every
  connect and every request gets one answer and not two, whatever is lost, late or
  doubled, and that time-outs see to it in the end. `UnsentReported` says that a
  message that did not go out, and no other, is reported to its send callbacks. Which
  of the two callbacks may be called for which failure is `QueueFullOnly`, which
  `net_queue_full` refutes.
* Names. `CommandsReachable` says that the limit that `get_command` puts on a whole
  name fits those that `add_category` and `add_command` put on its parts, and that no
  order of adding commands and aliases hides a command or turns an alias elsewhere.
* Access. `AccessSound` compares the verdict of `proxy_check_auth`, reached through a
  cached `peer_info`, with the list of service nodes at that moment.
* Wake-ups. `NoLostWakeup` and `MessagesServed` are the two halves of the comment at
  `proxy.cpp` 666: no message without an edge when the proxy goes to sleep, and
  every message served.
* Start and end. `CallsReturn` says that `start()` and the destructor return
  wherever the tagged threads are, and `TaggedProtocol` that no message to a tagged
  thread can be lost or come too early. `BindsExact` says that a listener's ZAP domain
  is its own index although a failed bind in between takes no index.

Bounds. Every instance is explored completely. In `WorkerPool` the items are
finite supplies, with more work than threads, so that queues fill, limits are met,
workers are reused and classes exceed their reservation; with at least two workers
RAN messages arrive in both orders. In `Connections` the bound is the number of
connection ids (`MaxConnId`): two of them let a service node be connected, closed and
connected again, or a service node and a remote be connected at once; the sets of
keys contain a malformed one. In `ProxyLoop` it is the number of messages
(`MaxArrivals`, `MaxControls`) and of jobs of a timer (`MaxJobs`): two arrivals
are needed for one to be hidden behind the other. In `Lifecycle` it is one job
(`MaxJobs`), which is enough for QUIT to find a thread busy, and the calls of
`add_command_alias` (`AliasCalls`): of two commands each becomes an alias of the other,
a name without a dot is given twice, and one alias is too long. The parts of names have
50 and 51 characters (categories) and 200, 1 and 201 (commands), so that the longest
legal name has exactly the 251 that `get_command` admits. In `PubSub` it is
the clock (`MaxTime`): a subscription can expire, be renewed and expire again.
`net_requests` leaves out the option `incoming` and a BYE from service nodes,
because with them the proxy thread may hang or end, as `net_retry` and `net_bye`
show, and nothing is answered then. Larger instances are covered by the theorems.

Fairness. All of it is weak.

* `WorkerPool`: the proxy thread and the worker threads as a whole. Both are loops of
  the program that block only on the messages the model shows, and jobs are
  assumed to return. Because supplies are finite the liveness results say that no
  work is lost or left behind; they do not say that a category cannot be starved by
  an endless supply of other work, which the code does not promise (batch jobs have
  priority).
* `Connections`: the proxy goes on with a send that it has begun. `Requests` adds
  that it handles CONNECT_REMOTE messages, that the clock runs and that the timer
  of `proxy_conn_cleanup`, installed by `proxy_loop_init`, fires again. Nothing is
  assumed of remotes.
* `ProxyLoop`: the loop runs, workers finish jobs. Nothing is assumed of clients
  and remotes.
* `Lifecycle`: the three kinds of threads run; the owner need not call anything; a
  thread is not woken for no reason over and over again.

### What the violations show

`pool_overgrown`. `worker.cpp` 103 says of a worker's reference into `workers`:
"This will always contains the current job, and is guaranteed to never be
invalidated". This holds until QUIT (`PoolBounded` below). QUIT sets
`max_workers` and `idle_worker_count` to 0, and finished workers no longer become
idle, but commands are still read and still dispatched when a reservation is free.
Each then takes a *new* entry of `workers`. In the trace the proxy handles QUIT first;
then three times it receives a command, which takes a new entry, and before the next
one its RAN, which frees the reservation and not the entry. The third entry exceeds
the two that were reserved.

`net_bye`. `connections.cpp` 242 says of `proxy_close_connection`: "Closes outgoing
connections and removes all references." The entry in `peers` is left to the
callers, and the BYE branch of `proxy_handle_builtin` does not erase it. The next
send to that service node finds it, and `connections[peer.conn_id]` makes a socket that is
none.

`net_retry`. `proxy.cpp` 118-121 says that `proxy_send` repeats its loop "so if one
fails we can clean up that connection and try the next one". The search for the
failed route (173-180) never advances its iterator. When the first entry of the
service node is another one, for instance an outgoing connection that was opened
later and put first, and the send asked for an incoming connection, the proxy
thread stays in that search.

`net_queue_full`. `oxenmq.h` 1481-1482 says of a `queue_full` callback that it "is only
invoked on a (potentially recoverable) full queue failure". `proxy.cpp` 215-222 also
calls it after a send error, in addition to `queue_failure`, and when there is no
route. In the trace a message for a service node finds no connection, and that is
reported as a full queue.

`loop_epoll`. `proxy.cpp` 650-651 says: "If connections got updated then our points
are stale, so restart the proxy loop". With `zmq::poll` the pointers are taken right
before the loop that uses them, and `PollRefsLive` holds. With epoll they are taken
as `epoll_wait` returns (563-564), before control messages and timers are handled;
a DISCONNECT or the clean-up of an idle connection may erase one of them, and line
631 uses its pointer.

### Other disagreements met while modelling

These are not runs, as they are visible at the lines named.

* `add_command_alias` (`oxenmq.cpp` 131-153) tests that its target has a dot and that
  the alias is not a command, but not the length of the alias. One of more than 251
  characters is accepted, and `get_command` (327) refuses it before it looks at the
  aliases: it never leads anywhere. `CommandsReachable` states this case.
* `connect_sn()` passes its keep-alive in microseconds (`oxenmq.h` 1706) where the
  proxy reads milliseconds; the documentation says five minutes.
* `peers.find()` gives the first entry of a service node, so a command that comes in
  over one of its connections may count as activity of another (`worker.cpp`
  294-300, 395), and a command that has to wait for a worker is no activity.
* The option `outgoing` of a send to a recipient that is no service node has no
  effect.
* A TIMER_DEL from a thread other than the one that added the timer may overtake
  the TIMER; the timer then stays. `OwnerCancels` is therefore about the owner.
  An entry of `timer_jobs` is never erased.
* After a `start()` that failed every other `start()` fails (`proxy.cpp` 395).
* `proxy_reply` (`proxy.cpp` 225-277) is dead code: nothing sends REPLY.

## 4. Theorems

The theorems hold for every value of the constants that satisfies the named
`ASSUME`s of the modules; the bounds of the instances play no part in them.

| Theorem | Module | States |
|---|---|---|
| `TypeCorrect` | `WorkerPool_proofs` | `Spec => []TypeOK` |
| `PoolBounded` | | `Spec => []PoolWithinCapacity` |
| `CountersAreExact` | | `Spec => []CountersExact` |
| `IdleIsExact` | | `Spec => []IdleExact` |
| `ChannelsAreDisciplined` | | `Spec => []ChannelDiscipline` |
| `RunInfoIsStable` | | `Spec => RunStableWhileInFlight` |
| `ListsAreExact` | `Requests_proofs` | `SpecAll => []ListExact` |
| `ConnectAnsweredOnce` | | `SpecAll => []CallbackOnce` |
| `ImplementsService` | | `SpecAll => Service!Safe` |
| `ReportsAreTrue` | | `SpecAll => []UnsentReported` |
| `LoopTypes` | `ProxyLoop_proofs` | `Spec => []LoopTypeOK` |
| `NoWakeupIsLost` | | `Spec => []NoLostWakeup` |
| `PollPointersLive` | | `Spec => []PollRefsLive` |
| `SquelchIsExact` | | `Spec => []SquelchExact` |
| `OwnerCancelsForGood` | | `Spec => OwnerCancels` |
| `EveryCommandIsFound` | `Lifecycle_proofs` | `Spec => []CommandsReachable` |
| `ListenersAreExact` | | `Spec => []BindsExact` |
| `ThreadsFollowTheProtocol` | `Lifecycle_tagged` | `Spec => []TaggedProtocol` |
| `TypeCorrect` | `PubSub` | `Spec => []SubsTypeOK` |
| `IterationIsStable` | | `Spec => []IterationStable` |
| `LiveSubsAreKept` | | `Spec => LiveSubsKept` |

### The pool

The assumptions say that names of different kinds are different, that
`general_workers` is positive (asserted in `start()`), that the functions have
their types, and that the job lists of a batch are sequences of its jobs.

None of the properties is inductive alone. The inductive invariant `IInv` is
`TypeOK` and `PoolInv`, which joins

* `ChannelInv`: every worker is in exactly one situation: about to be woken,
  running, reporting, idle, told to quit, quitting or joined. At most one
  message exists per worker, in either direction.
* `LoadInv`: a worker with a job holds a job of the kind its class says, so that
  RAN is charged to the class that dispatch charged.
* `IdleInv`, `BusyInv`, `CountInv`: the idle stack, the busy flags and the
  counters agree with those situations.
* `SeatInv`: the jobs in flight can be seated: there is an injection from
  busy pool workers to seats where each sits on a general seat or on one reserved
  for its class. A dispatch that passes `FreeSlot` always finds a seat left
  (`SeatLeft`), and because idle workers are reused first the pool never needs
  more entries than seats (`SeatBound`). The seats replace arithmetic on sums,
  which would need induction over the set of categories.

The proof that a step preserves `IInv` has one lemma per action that touches the
pool (`StartStep`, `DispatchStep`, `RunBatchJobStep`, `RunPendingStep`,
`ProcessTaggedStep`, `WorkerRanStep`, `ControlQuitStep`, ...) and two frame lemmas:
`ChannelStep` for a worker that moves on by itself, and `FrameStep` for the steps
that leave the pool alone.

### Requests and connections

`KeysAssumption` says that there are finitely many keys and that malformed ones are
not among them. Three invariants, independent of each other:

* Lists. `StopsWhenComplete` is the heart: the sizes add up exactly when the scan
  has seen every removed key, in whatever order. That is why stopping
  early is right.
* `ConnectInv`: an id from `next_conn_id` on is neither on its way nor pending nor
  answered, and no id is two of these. `ConnectEffects` reduces every step to one of
  four effects on ids: drawn, heard of, settled, or nothing. `CallbackOnce` is
  `CallbackExact` without its last conjunct, which is about `peers`.
* `RequestInv`: a tag is unused, in the hands of `proxy_send`, pending or answered,
  and in one of these only. It makes `Asked` equal to `used`, from which the step
  simulation `ServiceStep` follows. `ReportsAreTrue` adds `ReportInv`: the history
  variable `outcome`, how `proxy_send` ended, is set in the step that makes the reports
  and the answer, and a pending request is one whose message was sent. It assumes of
  `SendCallbacks` only that it names the callbacks of each request
  (`CallbacksAssumption`).

### The loop

`LoopInv` joins

* `TimerInv`: a timer has jobs only if the proxy has heard of it, and
  `SquelchExact`.
* `ControlInv`: a TIMER message that is on its way is the only one and comes from the
  owner, so handling it never overwrites an entry of `timer_jobs`.
* `BaseInv`: types; the ring of pointers has every connection at most once, which
  bounds its length.
* `WakeInv`: from the check at the end of a round until `epoll_wait`, every socket that
  was checked and has a message also has an edge, or the wait will be skipped, or
  the descriptors will be registered anew. `NoLostWakeup` itself says nothing before
  the wait and is not inductive.
* `PollInv`: with `zmq::poll`, in the loop over incoming messages the pointers are those
  of open connections, or the loop is left at once.

`OwnerCancelsForGood` adds `OrderInv`: in the queue of its owner the TIMER comes before
every TIMER_DEL for it, because the queue is first in first out.

### Set-up, start and end

* `RegistryInv`: no name is both a command and an alias, and the parts of a command are
  within the limits of `add_category` and `add_command`. That these limits and the dot
  add up to that of `get_command` is `LimitsAddUp`. `SizeAssumption` and
  `NamesAssumption` say that parts have sizes and names consist of parts; the sizes
  themselves are arbitrary.
* `MainInv`: how far the owner's thread and the proxy can be apart.
* `BindInv`: a listener was asked for once and is in one place, `bind` or the queue of
  BIND messages (`OnceInv`); what `on_bind` was told agrees with the sockets
  (`ToldInv`); a socket and its entry of `bind` point to each other (`SocketInv`).
* `QuitInv` and `TagInv`: until START is sent nothing is on its way to a tagged thread;
  afterwards what is on its way, what the thread does and whether the proxy counts
  it as busy determine each other.

### PubSub

`SubsTypeOK` has the fact that carries the proofs: the readers of the mutex are the
publishers that are calling their function. As every change of the map needs the mutex
alone, the map is constant for them.

### Only model-checked

* Liveness (`ShutdownCompletes`, `QueuedCommandsRun`, `BatchesComplete`,
  `MessagesServed`, `CallsReturn`, `ConnectAnswered` and the fairness part of
  `RequestsAnswered`): proofs with fairness need ENABLED, which the prover does not
  handle.
* What `peers` holds (`NoOrphanSocket`, `AccessSound`, `RemovedSnGone`, the last
  conjunct of `CallbackExact`): it is changed with `SelectSeq`, a recursive
  definition, and facts about its result need induction over data.
* In `WorkerPool`: `ExcessWithinGeneral` (a sum over a set), `QueuedExact`,
  `ExactlyOnce`, `BatchRefs`, `CompletionLast`, `NoOvertaking` and
  `NoRunnableWorkAtPoll`. They count or order elements of sequences from which
  elements in the middle are removed.
* `TypeOK` of `Connections`, `RequestsTypeOK` and `LifeTypeOK`.

## 5. Hazards

`PROJECT.json` lists what can go wrong in this code and would hardly be met by a test,
with the properties that cover it. Two have no property. After QUIT the
queues are neither run nor emptied, and the callbacks of pending requests are not
called; that is the design of the shutdown, and the liveness properties end in "or
shutting down". And timers keep firing during the shutdown, into queues that nobody
drains; `WorkerPool` has the end of the loop and `ProxyLoop` the timers.

## 6. Not modelled

* Addresses (`address.cpp`, `address.h`) are parsers and formatters of strings, without
  state; nothing of them is left when strings are abstracted.
* `Message` and deferred sends (`message.h`) forward their arguments to `send()`.
* Serialisation of control messages and of pointers (`oxenmq-internal.h`,
  `detail::serialize_object`): each pointer is sent once and received once, which
  the queues of the models show as messages.
* The map of control sockets per thread and its mutex (`get_control_socket`), with
  the refusal of new ones during shutdown. A control message that a worker
  sends right before the shutdown may be lost.
* The constructor's handling of keys, `set_general_threads` and its relatives,
  socket options and permissions: values that are set once.
* The answer to a remote's HI, which changes no table, and ephemeral routing ids.
* The frames of a ZAP request; the decision is in `Access`.
* What user functions do: commands, jobs, `allow_connection`, `sn_lookup`,
  callbacks. They return some value, or throw where the code catches it.

The composition of all modules is not checked as a whole. Its parts share the order
of the proxy's steps, which `ProxyLoop` has, and hardly any data: the scheduler does
not read the tables, and the tables do not depend on who runs a command.
