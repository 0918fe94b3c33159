# Formal models of xmlrpc_extended

TLA+ models of `xmlrpc_extended`, the XML-RPC server with a bounded thread
pool, the ASGI application, the client helper and the multi-process helpers of
this repository. TLC checks the models on small instances; TLAPS proves the
theorems for every value of the constants.

    tlc -config Serving.cfg MCThreadPoolServer.tla     # a run
    tlapm ThreadPoolServerProofs.tla                   # the proofs

## 1. The system

| Component | Source | State it keeps | Operations |
|---|---|---|---|
| Admission and worker pool | `server.py` `ThreadPoolXMLRPCServer` | semaphore `_capacity`, `_executor`, `_executor_lock`, `_executor_closed`, one socket per accepted connection | `process_request`, `submit_request`, `_process_request_worker`, `_reject_request` (+ `_send_fault_response`, `_send_503_response`), `shutdown_executor`, `server_close`, `stats` |
| Activity counters | `server.py` `_StatsTracker`, `ServerStats` | seven counters under a lock | `record_*`, `snapshot` |
| Request gate | `server.py` `LimitedXMLRPCRequestHandler`, `_build_request_handler` | none; one connection each | `do_POST`: 501, 411, 400, 413 or the standard dispatcher; the class that puts it in front of the handler it was given |
| Constructor | `server.py` `__init__` | the frozen `XMLRPCServerConfig` | validation; clean-up when `super().__init__` fails |
| ASGI application | `asgi.py` `XMLRPCASGIApp` | `_executor`, created by lifespan or lazily | `_handle_lifespan`, `_handle_http`, `_read_body`, `_async_dispatch`, `close` |
| Client helper | `client.py` `XMLRPCClient`, `_TimeoutTransport` | `_proxy` | `__enter__`, `__exit__`, calls |
| Multi-process scaling | `multiprocess.py` | a list of processes, one `SO_REUSEPORT` socket each | `create_reuseport_socket`, `spawn_workers` |
| Configuration and exports | `XMLRPCServerConfig`, `__init__.py` | immutable | none |
| Benchmarks, docs, build files | `benchmarks/`, `docs/` | none | not behaviour of the library |

How they interact. `serve_forever` (the standard library's accept loop) runs in
one thread and calls `process_request` for each connection it accepts. That
thread takes a permit from the semaphore, or waits for one under `BLOCK`, or
rejects the connection itself, answer included. With a permit in hand it counts
the request and submits it to the executor; a pool thread counts it as started,
lets the HTTP handler serve it, closes the socket, counts the end and gives the
permit back. Any other thread, or a method that a worker runs, may call
`shutdown` (which waits for the accept loop) and `shutdown_executor` or
`server_close` (which wait for the pool, holding `_executor_lock`). Inside one
connection, client and server share only what the kernel holds between them:
the server closes while the client may still be sending. The components share the semaphore, the counters,
the executor's queue and the sockets.

What makes it hard. Four kinds of threads touch a request in turn and every
hand-over has a failure path (`submit` raises before or after it has queued the
request; `handle_error` raises on the error path). The permit, the two gauges
and the socket of a request must be released exactly once on every path. BLOCK
stops the accept thread, and with it `shutdown`. Closing races with accepting,
and a method that closes its own server waits for itself. A connection closed
with bytes unread is reset, and the client loses the answer it was sent.
Clients may be silent, slow or gone. `PROJECT.json` lists each hazard at its
line. In the ASGI application the event loop is one thread, but `close` may run
in another and shares `_executor` with it without a lock; pools follow one
another. Between processes there is the client's transport, which sends a call
again when its connection breaks.

What makes each component correct:

* pool: permits are conserved; a connection has one owner and is closed once
  its owner is through with it; refusals happen only at capacity; a refused
  connection is never run; `server_close` returns with the pool drained; with a
  read timeout everything that was accepted ends;
* counters: gauges equal what the threads are doing; each accepted connection
  is recorded once, and a socket nobody is left to close shows in a gauge;
* gate: no body beyond `max_request_size` is read, whatever is announced and
  whatever is sent; no half of a request runs because of a timeout; a client
  that is turned away gets to read why; the server lets go of every client;
* ASGI: as long as one party closes it, no pool is forgotten and `max_workers`
  bounds the functions at work, as if there were one pool; a pool that was shut
  down drains; every call that is dispatched is answered;
* client and multi-process: every call ends; one death breaks no call, unless in
  the middle of its answer; a method runs twice only if the process that ran it
  first has died.

## 2. Modules

| Module | Models | Kind |
|---|---|---|
| `StatsTracker` | `_StatsTracker` | operators on the record of counters |
| `ThreadPoolServer` | the pool with its accept thread, workers, closers and clients | state machine, properties, refinement mapping |
| `AdmissionControl` | what the pool promises about connections | abstract state machine |
| `HttpExchange` | one connection: client, kernel, and the gate or the rejection | state machine, properties |
| `AsgiApp` | the ASGI application with its tasks, pools, lifespans and callers of `close` | state machine, properties, refinement mapping |
| `CallPool` | what the application promises about its functions | abstract state machine |
| `ReusePortCluster` | spawned processes behind one address, and `XMLRPCClient` | state machine, properties, refinement mapping |
| `RemoteCall` | what a user of `XMLRPCClient` may rely on | abstract state machine |
| `MCThreadPoolServer`, `MCAsgiApp` | who shuts the server or the application down | instances for TLC |
| `ThreadPoolServerProofs` | types, permits, draining, deadlocks | proofs |
| `ThreadPoolOwnershipProofs` | who holds a connection | proofs, on the former |
| `ThreadPoolCountingProofs` | the ledger and the gauges | proofs, on the former |
| `ThreadPoolRefinementProofs` | `AdmissionControl` is implemented | proofs, on ownership |
| `AdmissionControlProofs`, `HttpExchangeProofs`, `AsgiAppProofs`, `ReusePortClusterProofs` | theorems about these modules | proofs |

`ThreadPoolServer` is built on `StatsTracker` and instantiates
`AdmissionControl`; `AsgiApp` instantiates `CallPool`, `ReusePortCluster`
`RemoteCall`. `HttpExchange` is what
`ThreadPoolServer` takes as one step, `HandleReturns`, or as
`Respond`-`Drain`-`CloseRejected`, and the two are checked apart: together they
would multiply the sizes of messages with the interleavings of threads, and all
that the pool sees of an exchange is how it ends.

### ThreadPoolServer

An action is one step of one thread between two points at which another thread
can see a difference. The correspondence of state:

| Variable | In the code |
|---|---|
| `policy` | `config.overload_policy`; frozen, any of the four |
| `peer`, `sock`, `outcome` | what the client of a connection does; the server's socket; history of what became of it |
| `apc`, `areq` | the accept thread's place in `serve_forever` / `process_request` and its `request` |
| `capacity` | the value of `_capacity` |
| `stats` | `_stats` |
| `queue`, `wpc`, `job`, `idle`, `execShut` | the executor's work queue, its threads, their requests, its idle semaphore and shutdown flag |
| `execLock`, `execClosed` | `_executor_lock`, `_executor_closed` |
| `listening`, `stopReq` | the listening socket, `BaseServer.__shutdown_request` |
| `kpc`, `todo`, `ahead` | the threads that shut the server down, the calls each has left, and the workers each has still to join |

The accept thread: `AcceptConn`, then `Admit` or `Refuse`; then
`Record`-`Submit`-`Adjust`, with `Undo`-`Abandon` as the `except RuntimeError`
branch, or `Reject`-`Respond`-`Drain`-`CloseRejected`. A worker: `Get`,
`Start`, `HandleReturns` or `HandleRaises`, then `CloseServed`-`Complete` or
`Fail`-`CountFailure`, then `Release` (the finally branch) and `Loop`. A
closer: `CallShutdown`-`LoopStopped` for `shutdown`, and
`CallShutdownExecutor`-`TakeLock`-`ExecutorShutdown`-`JoinWorkers`-`DropLock`
for `shutdown_executor`, continued by `Unlisten` in `server_close`.

A closer may be a worker: then it calls from the method of a request (`MayCall`)
and the request goes on when the call is over (`MethodDone`).
`Executor.shutdown` joins every thread, in the order of a set, so a worker that
waits for the pool comes to itself after any of the others; `Thread.join` then
raises, the lock is dropped with the executor shut but not marked closed, and
the rest of the method is skipped (`JoinItself`). Before it comes to itself it
may wait for ever. `HeldUp` names the ways: it joins a worker that waits for
the lock, or for it, or, under BLOCK, methods in `shutdown` fill the pool while
the accept thread waits for a permit. `Deadlocked` says that some set of
workers is held up so. Nothing in the documentation forbids such methods and
nothing in the code prevents the hang; the model's part is to show that there
is no other.

Outside the repository, and modelled by what the server sees: the kernel's
backlog (any waiting connection may be accepted next), `serve_forever`
(`handle_error` and a second close follow an exception of `process_request`;
an exception out of `handle_error` ends the loop), and `ThreadPoolExecutor` as
of CPython 3.11: `submit` puts the item before it makes sure of a thread, under
a lock that `shutdown` needs too, and starting a thread may raise; a thread
ends when the executor is shut and the queue is empty.

Abstractions. The HTTP exchange is one step: a complete request is
`answered` (a result, an application fault, which the dispatcher turns into an
ordinary response, or one of the gate's errors); a client that left gives
`eof` or makes the handler raise; a read timeout is swallowed by the HTTP
handler. A worker whose socket the accept thread has closed raises; in the code
it may go on reading first if it had begun, which only delays it. `Faults`
names what may fail beyond that: `thread_start` and `handle_error`.
`capacity` is the semaphore's value, so that `BLOCK` is an action that is not
enabled.

`StandStill` states where the system may rest: accept loop polling or stopped,
pool empty and idle, all calls returned; or `Deadlocked`. TLC's deadlock check
therefore reports any other rest. It is switched off only for the runs in which a thread cannot
be started: there a queued request may be left without a thread.

The deadlock check is about `ENABLED`, which cannot be reasoned about in a
proof, and a client that may still send keeps it silent. `AcceptWaits`,
`WorkerWaits` and `CloserWaits` therefore spell out where a thread has to wait
for another one, as conditions on the state; a worker that waits for a client
does not count. They are the negations of the guards of each thread's actions:
`NobodyIsStuck` says that when all wait so, the server has come to rest or is
`Deadlocked`.

### AdmissionControl

`pending` (in order), `executing`, `finished`, `turnedAway`. Admission below
`MaxWorkers + MaxPending`, start in order below `MaxWorkers`, refusal only at
capacity and only if the policy may refuse, loss of the request admitted last
only when the pool is closing. In the mapping a request is pending from the
moment it has a permit and executing until its worker gives it back. The module
has no run of its own: that it allows only what it should (`WithinCapacity`,
`OneFate`) is proved.

### HttpExchange

A message is counted in units, one for the headers and then the body's, so that
`length`, what `Content-Length` announces, and `size`, what really comes, may
differ both ways. The client sends everything before it reads, as
`xmlrpc.client` does; it may pause, half-close, or leave.

| Variable | In the code |
|---|---|
| `route` | whether `process_request` got a permit (`serve`), else the policy |
| `handler`, `timeout` | the class given as `requestHandler`; whether `connection_timeout` is set |
| `req` | the request: framing, announced length, real size, path |
| `cpc`, `sent`, `paused`, `fin` | the client |
| `inbox`, `conn` | what the kernel holds for the server; how it ended the connection |
| `got`, `spc`, `answer`, `gaveUp` | the server's thread: what it has read, where it is, what it answered, whether it has timed out on the client |

A worker: `Receive` the headers, `Gate` (`SizeVerdict` is `do_POST` in its
order; `Lookup` is `_build_request_handler`: the gate comes before the methods
of the class it was given), `Receive` the body until `BodyComplete`, `Ended` or
`TimesOut`, `Dispatch`, `Close`. The accept thread: `Respond`, `Drain` until
`DrainEnds`, `Close`. A close with `inbox > 0` is a reset, and so is a unit sent
afterwards; a client that sees a reset before it has read its answer has lost
it (`Read`). The base handler's `do_POST` and the kernel are outside the
repository and modelled by what the gate relies on: the reader takes what is
there, and a read of a negative size would go on to the end of file. A subclass
of `LimitedXMLRPCRequestHandler` with a `do_POST` of its own has opted out of
the gate and is left out.

`ServerWaits` is where the server can only wait for its client; a client in
`reading` only waits for the server. `OnlyShortBodiesHang` says that both do so
only over a body shorter than its announcement, which is what
`connection_timeout` is for. `StepsLeft` counts down with every step of the
server.

### AsgiApp

The tasks of the event loop alternate only where they wait, so a stretch of a
task between two awaits is one step, except where a thread in `close` can see
the difference: there `loop` names the task in the middle of its stretch, and
no other task may move.

| Variable | In the code |
|---|---|
| `cast` | which lifespans and which threads that call `close` exist; any of the listed sets |
| `executor`, `made`, `shut` | `_executor` (pools are numbered as they are made), how many were made, those with `shutdown` called |
| `loop`, `task` | the task that holds the event loop; where the task of a request is in `_handle_http` and below |
| `place`, `job` | the pool its function was given (`NoPool`: the default one of the loop) and the future in it |
| `reply` | what kind of response it sends |
| `pc`, `waits` | where a lifespan or a caller of `close` is, and the pool it joins |

A request: `Arrive`, `EndBody`, and for a synchronous function `LookForPool`
(the test in `_get_executor` and the lazy creation), `TakePool` (the return
reads `_executor` again) and `SubmitCall`, which a pool that was shut down
refuses; then `Resume` and `Send`. The ASGI server may `Cancel` it wherever it
waits. A lifespan and a caller of `close` take the same steps, `BeginClose`,
`CheckPool`, `ShutPool`, `JoinPool`, `Forget`, but the lifespan holds the loop
through all of them. With two callers one may find `_executor` gone after its
test (`failed`).

The test and the creation in `_get_executor` are one step because other threads
only ever set `_executor` to `None`: one that does so in between changes
nothing that the creation does not overwrite.

`TaskWaits`, `JobWaits` and `PartyWaits` are where a task, a call and a party in
`close` wait for another of them, for the loop or for a place in a pool.
`NothingHangs` says that all of them do so only when no call is left.

### CallPool

One pool: absent, open or draining; calls wait, work in `MaxWorkers` places, and
leave. It takes calls only while it is open and is made again only when it has
drained. In the mapping the pool is `_executor`: the application makes pool after
pool, and `ImplementsPool` says that nobody can tell. It is stated for one
closing party, because with two a pool can be lost (section 6).

### ReusePortCluster

`spc`, `proc` and `deaths` are `spawn_workers`, its processes and how many have
died; `upc`, `number` and `attempt` are each user's place in its `with` block,
its call and the loop variable of `Transport.request`; `req`, `at` are what the
server makes of each attempt and where it was sent; `ran`, `dropped` and
`result` are histories.

`StartProc`/`StartFails` are the loop of `spawn_workers`, `Listen` is
`create_reuseport_socket`, `Enter`, `Exit` and `Timeout` are the client's. The
kernel hands a connection to any listening process (`Connect`), refuses it when
there is none (`Refused`), and breaks what a dead process held (`Die`). A server
runs the method or, when it is full, turns the request away, under the CLOSE
policy by closing the connection (`TurnAway`). An answer is sent in two steps,
`Reply` (or `TurnAway`) and `SendRest`, so that its process may die between
them. The transport sends a call again once if its connection broke without an
answer (`Broken`), and only then: an answer that breaks off is read to the end
of the file and does not parse, which raises at once (`CutOff`). A reset would
be retried also there; the kernel sends one for a dead process that has not read
all of a request, that is, when a request was being turned away.

### RemoteCall

A call is idle, open, or ended in one of five ways; its method is executed while
it is open or after it has timed out, once, or once more if a crash has taken the
whole of the first run's answer (`orphaned`). In the mapping a call is open from its begin to its
end, whatever attempt it is at; it is orphaned when its first attempt ran and its
connection broke. That a full server closed a connection (the CLOSE policy) is
invisible: the attempt that it broke has not run.

## 3. Runs

| Run | Instance | Shows |
|---|---|---|
| `serving` | 4 connections, 2 workers, 1 pending slot, all policies | the bound on what is outstanding, refusals only at that bound |
| `shutdown` | 3 connections, 2 workers, no pending slot, all policies; stop and close against a second close, or close under a running loop while a method closes too | permits, gauges and ownership under a closing pool, what is turned away or dropped is not run, drained close, who may wait for whom, refinement of `AdmissionControl` |
| `failing` | 3 connections, 2 workers, all policies, both faults | types, the ledger of accepted connections, that no permit is lost and that no socket is left open without a trace, under every failure |
| `liveness` | 2 connections, 1 worker, no pending slot, all policies; stop and close while a method closes, or `shutdown_executor(wait=False)` and close while a method calls `shutdown` | short of `Deadlocked`: everything accepted ends, calls return, permits come back |
| `exchange` | one connection; `max_request_size` 2, bodies and announcements up to 4, a buffer of 2; every route, handler class, framing | bodies are bounded, no half request runs, no answer is lost but for the client's own reasons, only short bodies hang, the server's steps are bounded and it lets go |
| `asgi` | 2 requests of every kind, 1 worker; one lifespan, two in turn, one thread or two that call `close`, or a lifespan and a thread | pools, the bound on functions, draining, answers, no deadlock of loop, threads and tasks, `close` returns, refinement of `CallPool` |
| `cluster` | 2 processes that may both die or turn requests away, 2 users with one call each | at most two attempts, what one death does, also in the middle of an answer, when a method runs twice, calls end, refinement of `RemoteCall` |
| `permit_leak`, `queued_leak`, `slow_sender`, `asgi_drain`, `client_retry` | violations, see section 6 | |

The bounds. Each connection carries one request (the handler speaks HTTP/1.0),
so the number of connections is the number of requests. Capacity is 3 with 4
connections, or 2 with 3: the pool fills, one waits, and one more meets the
boundary; two workers give every pair of concurrent steps, and one connection
is left to meet a permit that was given back. `RequestQueueSize` bounds the
backlog as it does in the code. Symmetry over connections and workers is used
in the safety runs only, and over connections only where a worker has a script.
One worker is the tightest pool for liveness: whatever a method waits for, there
is no second worker to bring it.

In `exchange` a body may be smaller than, equal to and larger than the limit, the
announcement and the buffer, each on either side of the others; a buffer of two
units is the least that can be filled by headers and body together and drained
in parts. Announcements include a negative one. A connection ends, so this run
does not check for deadlock; `ServerLetsGo` says that the server does not stop
before.

In `asgi` one worker is enough for a queue to form and for a second pool to
break the bound; two requests are one that holds a pool and one that comes while
it is closed. A thread may call `close` again and again. In `cluster` two
processes are the one a call was sent to and the one it is sent to next; with
both allowed to die every attempt of a call can break. Neither the applications
nor the users need go on, so these two runs do not check for deadlock: a user
may leave, requests may stop coming.

Fairness. `FairSpec` assumes weak fairness of the accept thread, of each worker
and of each closer: the operating system runs a thread that can run. Nothing is
assumed of clients; they may stay silent for ever. The liveness run therefore
needs `connection_timeout` to be set, and clients that do not trickle: the
`slow_sender` run shows why. Its properties end in `\/ Deadlocked`; that this is
the only way out is what its deadlock check adds.

`HttpExchange` assumes that the server's thread runs, and of a client that has
still to send only that it sends or has at some point been silent for longer
than a timeout: time passes. Messages are finite there, which is what excludes
the client of `slow_sender`.

`AsgiApp` assumes that asyncio runs a task that can go on, that threads in
`close` and in a pool run, and that functions return; not that requests come,
that clients finish their bodies or that a lifespan ends. `ReusePortCluster`
assumes of each user only that its call goes on or times out; nothing is
assumed of the processes, so a hung server is among the behaviours.

## 4. Proofs

About `ThreadPoolServer`, for any finite set of connections, any finite
non-empty set of workers, any `MaxPending`, every policy, script and client,
methods that close their own server included:

* `TypeCorrect`: `TypeOK` is inductive as it stands. Besides the types it says
  that the semaphore's value is a natural number, that the accept thread and a
  busy worker have a request in hand, and that a closer inside a call has that
  call at the head of its script.
* `NextPermits`, the lemma the permits rest on: `Permits` (`capacity` + the
  accept thread's permit + the length of the queue + the number of busy workers)
  stays what it is in every step but one, the `undo` after a thread could not be
  started, which adds one. `BusyCount` says how a worker's step changes the
  number of busy workers. Hence `PermitsAreNotLost`, under every fault, and
  `PermitsAreConserved` where `"thread_start" \notin Faults`; `permit_leak`
  shows that the assumption is needed. `RejectsOnlyWhenFull` follows from the
  latter.
* `CloseLeavesNothing` assumes `AlwaysWaits`: threads can be started and no
  script shuts the executor down without waiting. `DrainInv` is what
  `CloseDrains` lacks: a queued item has a thread or is about to get one
  (`Manned`), threads end only when the executor is shut and the queue is empty
  (`ShutFirst`), and whoever is past the join has found everything ended, or
  found it marked closed (`JoinsAll`). A worker that joins does not get past the
  join, which is why it need not have joined all.
* `NobodyGetsStuck`, while threads can be started. The invariant is `Lively`:
  who holds the lock is inside it (`LockHeld`); who waits for the accept loop
  has asked it to stop, and who joins has shut the executor down and waits for
  threads other than itself (`WaitsAreAnnounced`); threads end on an empty queue
  of a closed executor (`EndsEmpty`); and as long as not all threads are
  started, the queued items and the idle semaphore together count the free
  threads (`Manning`), which is why an item in the queue finds one. Then, in a
  state in which all wait: if no method is inside a call, nobody holds a permit,
  so the accept thread does not wait for one, the queue is empty, and each wait
  of a closer is for somebody who is not waiting
  (`NobodyCallsIsQuiescent`). If some methods are (`Calling`), each of them
  waits for the lock, for a worker, or for the accept thread; what it waits for
  can in turn only be held up by a method inside a call, as `HeldUp` says
  (`CallersAreHeldUp`), so `Calling` is the set that `Deadlocked` asks for.
  Without methods that call, `Deadlocked` is false: `OutsidersDoNotDeadlock`.
  This is the part of the liveness properties that does not depend on fairness.
* `TurnedAwayIsNotRun`, `BlockRejectsNobody` and `NoSocketHasTwoOwners` rest on
  `Owned`: the accept thread, the queue and the workers hold different
  connections (`Apart`), accepted ones (`Unheld`), undecided ones (`Decided`),
  and refusals have the reasons they should (`Reasons`). They need threads that
  start; `EverySocketHasOneOwner`, with `Attended`, also a `handle_error` that
  does not raise, for then a socket stays open that nobody holds. `Staged` adds
  which stage goes with which outcome.
* `OutstandingIsBounded`: each outstanding connection stands for a permit, so
  there are no more of them than `PermitsConserved` leaves. The accept thread in
  `adjust` has passed its permit on to the item it has just queued, which a
  worker may have taken and finished meanwhile: its connection is then held by
  nobody's permit, and `SubmittedIsKnown` says that this happens only when a
  permit is free.
* `LedgerIsComplete` holds under every fault: all it needs (`Known`) is that what
  a thread holds was accepted. `GaugesAreRight` takes from `Owned` and `Staged`
  that a connection that is dropped was not dropped before and that the numbers
  of started and active workers move by one. It is put together from the queued
  gauge (`QueuedExact`) and from what `active` shows beyond the active workers
  (`Surplus`): zero without faults, and never negative if `handle_error` raises
  (`GaugesOutliveErrors`).
* `LeaksAreCounted` holds under every fault. There, where a thread cannot be
  started, the accept thread and a worker may have the same connection, so
  holders cannot be counted. The proof keeps two numbers instead, `Surplus` and
  the number of `Lost` connections, open ones that neither the accept thread, the
  queue nor a worker that is not through with them has, and shows that a step that loses one more has
  raised the surplus (`WorkerLeak`, `AcceptLeak`); `Tidy` says that
  the accept thread has nothing in hand between two requests, and that a worker
  counts a request as ended when it has closed it.
* What section 6 reports as violated holds under a condition, and the theorems
  name it. `OutstandingWithinCapacity` needs only that threads can be started.
  `QueuedMeansWaiting` holds until the executor is shut down
  (`QueuedIsExactUntilClosed`).
* `ServerImplementsAdmission`, while threads can be started: the initial state
  maps to the initial state, `Admit` to `Admit`, `Refuse` to `Refuse`, `Get` to
  `Start`, `Release` to `Finish`, the `undo` branch to `GiveUp`, the executor's
  shutdown to `Close`, and every other step to a stutter. `Owned` and `Staged` make
  the mapped sets change by exactly the one connection; `PermitsConserved` gives
  the guards about capacity.

`AdmissionControlProofs`, for any set of connections and natural numbers
`MaxWorkers` and `MaxPending` (`Sizes`): `BoundsHold`, `FatesAreOne`. With the
refinement they hold of the server, too.

`HttpExchangeProofs`, for any limit, message sizes and buffer: `TypeCorrect`,
`BodiesAreBounded`, `HalfRequestsDoNotRun`, `AnswersArrive`. The last is the
hardest. A reset happens steps after its cause, so the invariant says when the
cause is set: at the time the server is about to close, its client has an excuse,
or is gone, or has sent everything, all of it was read, and it has only to read
its answer (`Parting`). `Counted` relates the units sent, held and read;
`Placed` the server's place to the route and to the gate's verdict.

`CompleteRequestsDoNotHang` takes from `Counted` that a client which has sent
everything has sent what is held or read: with nothing held and the body
incomplete, too little was sent. `ServerStepsAreBounded` proves that `StepsLeft`
is a natural number that every step of the server makes smaller. The two are
`ServerLetsGo` without the fairness: with a timeout, or for a complete request,
the server can always go on, and it can do so only so often.

`AsgiAppProofs`, for any finite set of requests, any sets of lifespans and
callers of `close`, and any casts of them:

* `TypeCorrect`: besides the types, the loop is held exactly by the task or the
  lifespan that is in the middle of a stretch.
* `ClosedPoolsAreDrained`, without any condition on who closes: `DrainInv`
  adds that a request has no call in any pool before it submits one, so that a
  call enters a pool only while it is open.
* `NoPoolGetsLost` and `FunctionsAreBounded`, for one closing party: `SoloInv`
  says what that party knows about `_executor` at each of its steps;
  `PoolsBounded` that each pool keeps to `MaxWorkers`. With `DrainInv` only one
  pool has functions at work.
* `PoolsAreOne`, the refinement of `CallPool`: a call that waits or works is in
  the current pool (`CallsAreInThePool`, from `DrainInv` and `SoloInv`), so the
  calls of the abstract pool are those of `_executor`, and when it becomes
  `None` there are none left.
* `LifespansRefuseNobody`: with lifespans only, `_executor` is a pool that was
  shut down only while a lifespan joins it and holds the loop, so no request
  submits to one (`LifespanInv`).
* `NobodyHangs`, for any number of closing parties: a call that is running does
  not wait, so a queued one means a pool below its bound, hence no call is left;
  then nobody in `close` waits for a pool, so nobody holds the loop, and a task
  in `await` has a call that has finished (`AwaitsACall`).

`ReusePortClusterProofs`, for any processes, users and bounds:

* `TypeCorrect`, in which `attempt` stays within `{0, 1}`.
* `RunTwiceOnlyAfterDeath`: `Order` (each attempt is made once, and the second
  only when the first broke) and `RanBefore` (what ran is not waiting any
  more) say that the first run's connection broke after the run; `Placed` that
  only the death of its process breaks it then, and that a dead process is sent
  nothing more, so the second attempt went to another one.
* `FirstDeathIsHidden`: `Breaks` counts the deaths it takes to break an attempt
  and a call; it needs `Order` for the step in which a process dies.
* `ClusterServesCalls`, the refinement of `RemoteCall`: the start of an attempt's
  method maps to `Execute`, a death to `Crash` of the calls whose run it cut off,
  `BeginCall` to `Begin`, the ends of a call to `End`, all else to a stutter.
  `Order` and `RanBefore` say how often the method has run when an attempt is
  still queued; `Settled` that an attempt is queued only in a call that is open
  or has timed out, since every other end of a call has seen what became of its
  last attempt.

Model-checked only: liveness (`AcceptedIsClosed`, `BacklogIsTaken`,
`QueuedIsServed`, `CallsReturn`, `PermitsComeBack`, `ServerLetsGo`,
`CallsAreAnswered`, `CloseReturns`, `CallsEnd`), which rests on fairness and so is
beyond the prover (that nothing waits in a circle, which liveness needs besides
fairness, is proved for the server, the exchange and the application), and the
five violations of section 6. Every invariant and
action property of a passing run is a theorem. No definition is recursive.

## 5. Plan

Done: `ThreadPoolServer` with its abstract promise, methods that close their own
server and all its invariants proved; `HttpExchange`; `AsgiApp` with its abstract
promise; `ReusePortCluster`; that server, exchange and application are free of
deadlocks but for the named ones; `RemoteCall`, implemented by the cluster. What
is left is small:

1. An invariant for `CloseDrains` with several closers of which some do not wait:
   what `server_close` then still promises.
2. Two closing parties of `AsgiApp`: which of `CallPool`'s steps they can break.
3. The ASGI application's body, chunk by chunk, with a disconnect in the middle.

## 6. Where the code and the documentation part

* `permit_leak`: `Executor.submit` raises `RuntimeError` also when it has
  already queued the request and cannot start a thread. `process_request`
  gives the permit back and closes the socket, and the worker that later takes
  the item gives it back again: more than `max_workers + max_pending` requests
  are then outstanding (`docs/user-guide/overload-policies.md:12`). No other
  failure does it (`OutstandingIsBounded`), and no failure at all costs a permit
  (`PermitsAreNotLost`).
* `queued_leak`: a request refused by a closed executor was already counted by
  `record_submitted`, and nothing takes it back: `queued` stays too high
  (`server.py:47`). Before a close, if nothing fails, it is exact (`QueuedIsExactUntilClosed`).
* `slow_sender`: `settimeout` bounds one read, so the promise of
  `server.py:270-273`, that a slow sender cannot hold a worker indefinitely,
  does not hold for one that keeps sending.
* `asgi_drain`: an instance's synchronous `_dispatch` runs in asyncio's default
  executor (`asgi.py:344`), which the shutdown event does not wait for
  (`docs/user-guide/asgi.md:157`: "waits for all in-flight sync handlers").
* `client_retry`: `_TimeoutTransport` inherits the retry of
  `xmlrpc.client.Transport`, so a call whose server dies after it ran the
  method is sent again (`docs/user-guide/client-helpers.md:57-58`: "does not
  retry automatically"). What holds instead is `RemoteCall`.

More behaviours worth knowing, without a run. After
`shutdown_executor(wait=False)` a later `server_close` does not wait for the
requests in flight (the closed flag makes the second call return at once), which
is why `CloseDrains` is checked with scripts that do not use it. If
`handle_error` raises, the request's socket stays open, although its permit does
come back; `LeaksShow` says that the `active` gauge stays raised for it. A worker
closes the socket before it gives its permit back, so a client that reconnects
at once may be rejected by a server with nothing left to do:
`RefusedOnlyWhenFull` counts that worker as busy. The accept thread drains a
rejected client for as long as it goes on sending, and accepts nobody meanwhile;
the liveness run leaves such clients out.

A method that closes or stops its own server may hang it: `Deadlocked` lists
the ways, `liveness` reaches them, and `NobodyGetsStuck` proves that there is no
other. Without a hang, `server_close` from a method
raises `RuntimeError` and leaves the listening socket open (`JoinItself`).

The gate answers 400, 404, 411, 413 and 501 without reading the body and the
connection is closed at once, so a client still sending may see a reset and not
the answer that `README.md:195-198` names. The rejection path drains for exactly
this reason (`server.py:417-419`); the gate does not, so `NoAnswerIsLost` excuses
requests that are not well-formed.

In the same way, two parties that close the ASGI application at once may leave
a pool with its threads behind, or raise `AttributeError` at `asgi.py:392`;
`NoPoolIsLost`, `FunctionsBounded` and `ImplementsPool` are therefore stated for
one. A request that comes after a `close` makes a pool that stays until the next
`close`. A function that itself waits for the event loop would hang a lifespan
that shuts down, which blocks the loop until functions have returned
(`asgi.py:202`); the model's functions return on their own.

If `spawn_workers` fails half way, the processes it has started go on and the
caller has no list to stop them by (`StartFails`).

`PROJECT.json` lists the hazards without a property: the close after
`wait=False`, the client that reconnects at once, the endless drain, the early
answers, the pool made after a `close`, the function that needs the loop, and the
processes of a failed start. They are how the code behaves, and a property that
excused them would say nothing of them.

## 7. Not modelled

* What messages contain: headers beyond the length and the framing, XML, what a
  method computes. The ASGI application's own checks (method, path, length) are
  one kind of reply. It collects a body whole before it compares its length with
  the limit, and dispatches what it has when `http.disconnect` ends one early:
  what a partial body parses to is content.
* A construction that fails (`server.py` 313-325): it happens in one thread, to an
  object nobody else has, and the second `shutdown_executor` of its clean-up
  returns at once.
* One client object entered twice: two statements of one thread replace the
  proxy, and the first exit closes the second connection.
* A timed-out request returns normally from `finish_request` and counts as
  completed: which of the two end counters moves is how
  `_process_request_worker` is written, and `EveryConnectionCounted` is about its
  moving once.
* What the workers inside each process of a `ReusePortCluster` do (that is
  `ThreadPoolServer`); logging; benchmarks; the configuration record and exports.
