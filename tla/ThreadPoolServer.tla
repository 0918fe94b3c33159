-------------------------- MODULE ThreadPoolServer --------------------------
(***************************************************************************)
(* ThreadPoolXMLRPCServer (server.py): one accept thread admits            *)
(* connections through a semaphore, a ThreadPoolExecutor of max_workers    *)
(* threads serves them, and other threads shut the server down.            *)
(*                                                                         *)
(* An action is one step of one thread between two points at which another *)
(* thread can observe it.  The peer (the client's end of a connection),    *)
(* the kernel's accept backlog, serve_forever and the executor are outside *)
(* this repository: they are modelled by what the server sees of them.     *)
(***************************************************************************)
EXTENDS Integers, Sequences, FiniteSets, StatsTracker

CONSTANTS
    Conns,              \* the connections clients will open, one request each
    Workers,            \* the pool's thread slots: max_workers of them
    MaxPending,         \* max_pending, after None was resolved
    RequestQueueSize,   \* request_queue_size: room in the kernel's backlog
    ConnectionTimeout,  \* whether connection_timeout is set
    Senders,            \* how a client may send: "whole", "stalled", "trickling"
    Closers,            \* the threads that shut the server down; a worker is
                        \* one if a method it runs may
    Scripts,            \* the calls each of them may make, in order
    Faults,             \* what may fail: "thread_start", "handle_error"
    None                \* Python's None: no request, nobody

Calls == {"shutdown", "executor_nowait", "executor_wait", "server_close"}

(* What __init__ accepts: max_workers >= 1, max_pending >= 0,              *)
(* and request_queue_size >= 1.                                            *)
ASSUME PoolAssumption ==
    /\ IsFiniteSet(Workers) /\ Workers # {}
    /\ MaxPending \in Nat
    /\ RequestQueueSize \in Nat \ {0}
    /\ ConnectionTimeout \in BOOLEAN

ASSUME EnvironmentAssumption ==
    /\ IsFiniteSet(Conns) /\ None \notin Conns \cup Closers
    /\ Senders \subseteq {"whole", "stalled", "trickling"}
    /\ Faults \subseteq {"thread_start", "handle_error"}
    /\ Scripts \subseteq [Closers -> Seq(Calls)]

MaxWorkers == Cardinality(Workers)
TotalCapacity == MaxWorkers + MaxPending

VARIABLES
    policy,     \* config.overload_policy; the configuration is frozen
    peer,       \* what the client of each connection is doing
    sock,       \* the server's end of each connection
    outcome,    \* history: what became of each connection
    apc, areq,  \* accept thread: where it is, and its local `request`
    capacity,   \* the value of the semaphore _capacity
    stats,      \* the _StatsTracker
    queue,      \* the executor's _work_queue
    wpc, job,   \* worker threads: where each is, and its local `request`
    idle,       \* the value of the executor's _idle_semaphore
    execShut,   \* the executor's _shutdown flag
    execLock,   \* who holds _executor_lock (None: nobody)
    execClosed, \* _executor_closed
    listening,  \* the listening socket is open
    stopReq,    \* BaseServer's __shutdown_request
    kpc, todo,  \* closers: where each is, and the calls it has still to finish
    ahead       \* the workers each has to join before it is through

connVars == <<peer, sock, outcome>>
acceptVars == <<apc, areq>>
poolVars == <<queue, wpc, job, idle>>
closeVars == <<execShut, execLock, execClosed, listening, stopReq, kpc, todo,
               ahead>>
vars == <<policy, connVars, acceptVars, capacity, stats, poolVars, closeVars>>

PeerStates == {"absent", "whole", "stalled", "trickling", "gone"}
SockStates == {"none", "backlog", "open", "closed"}

(* answered: a response (a result or an application fault) was written;    *)
(* eof: the handler found the client gone and returned; timeout: it gave   *)
(* up reading; broken: it raised; overload: a fault or a 503 was sent;     *)
(* refused: closed with no response; dropped: admitted, then given up      *)
(* because the executor raised; reset: still in the backlog when the       *)
(* listening socket was closed.                                            *)
Served == {"answered", "eof", "timeout", "broken"}
Outcomes == Served \cup {"none", "overload", "refused", "dropped", "reset"}

AcceptPcs == {"select", "acquire", "record", "submit", "adjust", "undo", "abandon",
              "reject", "respond", "drain", "close", "stopped"}

(* The accept thread owns a permit that no queued item stands for yet. *)
PermitPcs == {"record", "submit", "undo"}

(* It has decided against the request in hand. *)
TurningAwayPcs == {"abandon", "reject", "respond", "drain", "close"}

(* A worker in one of these has taken an item and not given its permit back. *)
BusyPcs == {"start", "handle", "close", "complete", "error", "fail", "release"}

(* ... and in one of these it is counted by the active gauge. *)
ActivePcs == {"handle", "close", "complete", "error", "fail"}
WorkerPcs == BusyPcs \cup {"unstarted", "get", "tail", "exited"}

CloserPcs == {"ready", "await_loop", "lock", "executor", "join", "unlock", "unlisten"}

Backlog == {c \in Conns : sock[c] = "backlog"}
Busy == {w \in Workers : wpc[w] \in BusyPcs}
Active == {w \in Workers : wpc[w] \in ActivePcs}
Started == {w \in Workers : wpc[w] # "unstarted"}

ConnTypes ==
    /\ peer \in [Conns -> PeerStates]
    /\ sock \in [Conns -> SockStates]
    /\ outcome \in [Conns -> Outcomes]

(* Everywhere but between two requests the accept thread has one in hand. *)
AcceptTypes ==
    /\ apc \in AcceptPcs
    /\ areq \in Conns \cup {None}
    /\ apc \notin {"select", "stopped"} => areq \in Conns

PoolTypes ==
    /\ queue \in Seq(Conns)
    /\ wpc \in [Workers -> WorkerPcs]
    /\ job \in [Workers -> Conns \cup {None}]
    /\ \A w \in Workers : wpc[w] \in BusyPcs => job[w] \in Conns
    /\ idle \in Nat

CloseTypes ==
    /\ execShut \in BOOLEAN /\ execClosed \in BOOLEAN
    /\ execLock \in Closers \cup {None}
    /\ listening \in BOOLEAN /\ stopReq \in BOOLEAN
    /\ kpc \in [Closers -> CloserPcs]
    /\ todo \in [Closers -> Seq(Calls)]
    /\ ahead \in [Closers -> SUBSET Workers]
    /\ \A k \in Closers : kpc[k] # "ready" => todo[k] # <<>>

TypeOK ==
    /\ policy \in Policies
    /\ ConnTypes /\ AcceptTypes /\ PoolTypes /\ CloseTypes
    /\ capacity \in Nat
    /\ stats \in TrackerState

(* A server that was built, bound and is in serve_forever; its executor    *)
(* starts threads only on demand.                                          *)
Init ==
    /\ policy \in Policies
    /\ peer = [c \in Conns |-> "absent"]
    /\ sock = [c \in Conns |-> "none"]
    /\ outcome = [c \in Conns |-> "none"]
    /\ apc = "select" /\ areq = None
    /\ capacity = TotalCapacity
    /\ stats = ZeroStats
    /\ queue = <<>>
    /\ wpc = [w \in Workers |-> "unstarted"]
    /\ job = [w \in Workers |-> None]
    /\ idle = 0
    /\ execShut = FALSE /\ execLock = None /\ execClosed = FALSE
    /\ listening = TRUE /\ stopReq = FALSE
    /\ kpc = [k \in Closers |-> "ready"]
    /\ todo \in Scripts
    /\ ahead = [k \in Closers |-> {}]

-----------------------------------------------------------------------------
(* Clients and the kernel.                                                 *)

Connect(c) ==
    /\ listening /\ sock[c] = "none"
    /\ Cardinality(Backlog) < RequestQueueSize
    /\ \E s \in Senders : peer' = [peer EXCEPT ![c] = s]
    /\ sock' = [sock EXCEPT ![c] = "backlog"]
    /\ UNCHANGED <<outcome, acceptVars, capacity, stats, poolVars, closeVars>>

(* A client whose request is still incomplete sends the rest, falls        *)
(* silent, or goes on a few bytes at a time; any client may go away.       *)
PeerStep(c) ==
    /\ sock[c] \in {"backlog", "open"}
    /\ \/ /\ peer[c] \in {"stalled", "trickling"}
          /\ peer' = [peer EXCEPT ![c] = "whole"]
       \/ /\ peer[c] = "trickling"
          /\ peer' = [peer EXCEPT ![c] = "stalled"]
       \/ /\ peer[c] # "gone"
          /\ peer' = [peer EXCEPT ![c] = "gone"]
    /\ UNCHANGED <<sock, outcome, acceptVars, capacity, stats, poolVars, closeVars>>

Client(c) == (Connect(c) \/ PeerStep(c)) /\ UNCHANGED policy

-----------------------------------------------------------------------------
(* The accept thread: serve_forever, process_request, submit_request and   *)
(* _reject_request.                                                        *)

AcceptConn(c) ==
    /\ apc = "select" /\ ~stopReq /\ listening
    /\ sock[c] = "backlog"
    /\ sock' = [sock EXCEPT ![c] = "open"]
    /\ apc' = "acquire" /\ areq' = c
    /\ UNCHANGED <<peer, outcome, capacity, stats, poolVars, closeVars>>

(* shutdown() is noticed only between two requests. *)
StopServing ==
    /\ apc = "select" /\ stopReq
    /\ apc' = "stopped"
    /\ UNCHANGED <<connVars, areq, capacity, stats, poolVars, closeVars>>

(* Off by one, either way. *)
MutPermitLeft == capacity >= 0
MutPermitKept == capacity > 1
PermitLeft == capacity > 0

(* The policy is not looked at. *)
MutBlocking == FALSE
Blocking == policy = "block"

(* A permit is there: BLOCK waits for this, the others take it at once. *)
Admit ==
    /\ apc = "acquire" /\ PermitLeft
    /\ capacity' = capacity - 1
    /\ apc' = "record"
    /\ UNCHANGED <<connVars, areq, stats, poolVars, closeVars>>

Refuse ==
    /\ apc = "acquire" /\ ~PermitLeft /\ ~Blocking
    /\ apc' = "reject"
    /\ UNCHANGED <<connVars, areq, capacity, stats, poolVars, closeVars>>

Record ==
    /\ apc = "record"
    /\ stats' = RecordSubmitted(stats)
    /\ apc' = "submit"
    /\ UNCHANGED <<connVars, areq, capacity, poolVars, closeVars>>

(* Executor.submit puts the item, then sees to it that a thread will take  *)
(* it, under the executor's own lock; once shut down it raises.            *)
Submit ==
    /\ apc = "submit"
    /\ \/ /\ execShut
          /\ apc' = "undo"
          /\ UNCHANGED queue
       \/ /\ ~execShut
          /\ queue' = Append(queue, areq)
          /\ apc' = "adjust"
    /\ UNCHANGED <<connVars, areq, capacity, stats, wpc, job, idle, closeVars>>

(* _adjust_thread_count: an idle thread is counted on, else a new one is   *)
(* started while there is room.  Starting one can raise, with the item     *)
(* already in the queue.                                                   *)
Adjust ==
    /\ apc = "adjust"
    /\ \/ /\ idle > 0
          /\ idle' = idle - 1
          /\ apc' = "select" /\ areq' = None
          /\ UNCHANGED wpc
       \/ /\ idle = 0 /\ Started # Workers
          /\ \E w \in Workers \ Started : wpc' = [wpc EXCEPT ![w] = "get"]
          /\ apc' = "select" /\ areq' = None
          /\ UNCHANGED idle
       \/ /\ idle = 0 /\ Started # Workers
          /\ "thread_start" \in Faults
          /\ apc' = "undo"
          /\ UNCHANGED <<wpc, idle, areq>>
       \/ /\ idle = 0 /\ Started = Workers
          /\ apc' = "select" /\ areq' = None
          /\ UNCHANGED <<wpc, idle>>
    /\ UNCHANGED <<connVars, capacity, stats, queue, job, closeVars>>

(* The permit is not given back when submit_request raises. *)
MutUndo ==
    /\ apc = "undo"
    /\ apc' = "abandon"
    /\ UNCHANGED <<connVars, areq, capacity, stats, poolVars, closeVars>>

(* The `except RuntimeError` branch of process_request... *)
Undo ==
    /\ apc = "undo"
    /\ capacity' = capacity + 1
    /\ apc' = "abandon"
    /\ UNCHANGED <<connVars, areq, stats, poolVars, closeVars>>

(* The socket is left to nobody. *)
MutAbandon ==
    /\ apc = "abandon"
    /\ outcome' = [outcome EXCEPT ![areq] = IF @ = "none" THEN "dropped" ELSE @]
    /\ apc' = "select" /\ areq' = None
    /\ UNCHANGED <<peer, sock, capacity, stats, poolVars, closeVars>>

(* ... which closes the socket and re-raises; _handle_request_noblock      *)
(* reports the error and closes again.  An exception out of handle_error   *)
(* ends serve_forever.                                                     *)
Abandon ==
    /\ apc = "abandon"
    /\ sock' = [sock EXCEPT ![areq] = "closed"]
    /\ outcome' = [outcome EXCEPT ![areq] = IF @ = "none" THEN "dropped" ELSE @]
    /\ areq' = None
    /\ \/ apc' = "select"
       \/ "handle_error" \in Faults /\ apc' = "stopped"
    /\ UNCHANGED <<peer, capacity, stats, poolVars, closeVars>>

(* _reject_request counts, then answers under FAULT and HTTP_503. *)
Reject ==
    /\ apc = "reject"
    /\ stats' = RecordRejected(stats, policy)
    /\ apc' = IF policy = "close" THEN "close" ELSE "respond"
    /\ UNCHANGED <<connVars, areq, capacity, poolVars, closeVars>>

(* sendall can fail only on a connection the client has given up. *)
Respond ==
    /\ apc = "respond"
    /\ \/ /\ outcome' = [outcome EXCEPT ![areq] = "overload"]
          /\ apc' = "drain"
       \/ /\ peer[areq] = "gone"
          /\ apc' = "close"
          /\ UNCHANGED outcome
    /\ UNCHANGED <<peer, sock, areq, capacity, stats, poolVars, closeVars>>

(* The recv loop ends on end of file, on an error, or when the client says *)
(* nothing for a second; a client that keeps sending keeps it going.       *)
Drain ==
    /\ apc = "drain" /\ peer[areq] # "trickling"
    /\ apc' = "close"
    /\ UNCHANGED <<connVars, areq, capacity, stats, poolVars, closeVars>>

(* process_request goes on after _reject_request. *)
MutCloseRejected ==
    /\ apc = "close"
    /\ sock' = [sock EXCEPT ![areq] = "closed"]
    /\ outcome' = [outcome EXCEPT ![areq] = IF @ = "none" THEN "refused" ELSE @]
    /\ apc' = "record"
    /\ UNCHANGED <<peer, areq, capacity, stats, poolVars, closeVars>>

CloseRejected ==
    /\ apc = "close"
    /\ sock' = [sock EXCEPT ![areq] = "closed"]
    /\ outcome' = [outcome EXCEPT ![areq] = IF @ = "none" THEN "refused" ELSE @]
    /\ apc' = "select" /\ areq' = None
    /\ UNCHANGED <<peer, capacity, stats, poolVars, closeVars>>

AcceptThread ==
    /\ \/ \E c \in Conns : AcceptConn(c)
       \/ StopServing
       \/ Admit \/ Refuse
       \/ Record \/ Submit \/ Adjust \/ Undo \/ Abandon
       \/ Reject \/ Respond \/ Drain \/ CloseRejected
    /\ UNCHANGED policy

-----------------------------------------------------------------------------
(* A pool thread: concurrent.futures' _worker loop around                  *)
(* _process_request_worker.                                                *)

Get(w) ==
    /\ wpc[w] = "get" /\ queue # <<>>
    /\ job' = [job EXCEPT ![w] = Head(queue)]
    /\ queue' = Tail(queue)
    /\ wpc' = [wpc EXCEPT ![w] = "start"]
    /\ UNCHANGED <<connVars, acceptVars, capacity, stats, idle, closeVars>>

(* The sentinel of Executor.shutdown stays behind every item put before    *)
(* it: a thread ends once the executor is shut and nothing is left.        *)
Exit(w) ==
    /\ wpc[w] = "get" /\ queue = <<>> /\ execShut
    /\ wpc' = [wpc EXCEPT ![w] = "exited"]
    /\ UNCHANGED <<connVars, acceptVars, capacity, stats, queue, job, idle, closeVars>>

Start(w) ==
    /\ wpc[w] = "start"
    /\ stats' = RecordStarted(stats)
    /\ wpc' = [wpc EXCEPT ![w] = "handle"]
    /\ UNCHANGED <<connVars, acceptVars, capacity, queue, job, idle, closeVars>>

(* The method has returned from the calls it makes to the server. *)
MethodDone(w) == w \in Closers => kpc[w] = "ready"

(* finish_request returns.  A complete request is answered, also when the  *)
(* method raised; of a client that went away the handler may see end of    *)
(* file, or write into the void; a read that times out is swallowed by the *)
(* handler.  A client that only goes silent blocks the thread unless       *)
(* connection_timeout is set, and one that trickles blocks it anyway: the  *)
(* timeout is that of a single read.                                       *)
HandleReturns(w) ==
    /\ wpc[w] = "handle"
    /\ sock[job[w]] = "open" /\ MethodDone(w)
    /\ \/ /\ peer[job[w]] = "whole"
          /\ outcome' = [outcome EXCEPT ![job[w]] = "answered"]
       \/ /\ peer[job[w]] = "gone"
          /\ outcome' = [outcome EXCEPT ![job[w]] = "eof"]
       \/ /\ peer[job[w]] = "stalled" /\ ConnectionTimeout
          /\ outcome' = [outcome EXCEPT ![job[w]] = "timeout"]
    /\ wpc' = [wpc EXCEPT ![w] = "close"]
    /\ UNCHANGED <<peer, sock, acceptVars, capacity, stats, queue, job, idle, closeVars>>

(* finish_request raises: the client broke the connection, or the accept   *)
(* thread closed the socket after it had queued it.                        *)
HandleRaises(w) ==
    /\ wpc[w] = "handle" /\ MethodDone(w)
    /\ \/ peer[job[w]] = "gone"
       \/ sock[job[w]] = "closed"
    /\ outcome' = [outcome EXCEPT ![job[w]] = IF @ = "none" THEN "broken" ELSE @]
    /\ wpc' = [wpc EXCEPT ![w] = "error"]
    /\ UNCHANGED <<peer, sock, acceptVars, capacity, stats, queue, job, idle, closeVars>>

(* shutdown_request after finish_request. *)
CloseServed(w) ==
    /\ wpc[w] = "close"
    /\ sock' = [sock EXCEPT ![job[w]] = "closed"]
    /\ wpc' = [wpc EXCEPT ![w] = "complete"]
    /\ UNCHANGED <<peer, outcome, acceptVars, capacity, stats, queue, job, idle, closeVars>>

Complete(w) ==
    /\ wpc[w] = "complete"
    /\ stats' = RecordCompleted(stats)
    /\ wpc' = [wpc EXCEPT ![w] = "release"]
    /\ UNCHANGED <<connVars, acceptVars, capacity, queue, job, idle, closeVars>>

(* handle_error reports, but the socket is not closed. *)
MutFail(w) ==
    /\ wpc[w] = "error"
    /\ UNCHANGED sock
    /\ wpc' = [wpc EXCEPT ![w] = "fail"]
    /\ UNCHANGED <<peer, outcome, acceptVars, capacity, stats, queue, job, idle, closeVars>>

(* record_errored stands first, before what may raise. *)
MutCountedFirst(w) ==
    /\ wpc[w] = "error"
    /\ \/ sock' = [sock EXCEPT ![job[w]] = "closed"]
       \/ "handle_error" \in Faults /\ UNCHANGED sock
    /\ stats' = RecordErrored(stats)
    /\ wpc' = [wpc EXCEPT ![w] = "release"]
    /\ UNCHANGED <<peer, outcome, acceptVars, capacity, queue, job, idle, closeVars>>

(* The except branch: handle_error, then shutdown_request.  If handle_error *)
(* itself raises, only the finally branch is left to run.                   *)
Fail(w) ==
    /\ wpc[w] = "error"
    /\ \/ /\ sock' = [sock EXCEPT ![job[w]] = "closed"]
          /\ wpc' = [wpc EXCEPT ![w] = "fail"]
       \/ /\ "handle_error" \in Faults
          /\ wpc' = [wpc EXCEPT ![w] = "release"]
          /\ UNCHANGED sock
    /\ UNCHANGED <<peer, outcome, acceptVars, capacity, stats, queue, job, idle, closeVars>>

CountFailure(w) ==
    /\ wpc[w] = "fail"
    /\ stats' = RecordErrored(stats)
    /\ wpc' = [wpc EXCEPT ![w] = "release"]
    /\ UNCHANGED <<connVars, acceptVars, capacity, queue, job, idle, closeVars>>

(* A failed request keeps its permit, as if the release stood at the end   *)
(* of the try branch and not in the finally branch.                        *)
MutRelease(w) ==
    /\ wpc[w] = "release"
    /\ capacity' = IF outcome[job[w]] = "broken" THEN capacity ELSE capacity + 1
    /\ job' = [job EXCEPT ![w] = None]
    /\ wpc' = [wpc EXCEPT ![w] = "tail"]
    /\ UNCHANGED <<connVars, acceptVars, stats, queue, idle, closeVars>>

Release(w) ==
    /\ wpc[w] = "release"
    /\ capacity' = capacity + 1
    /\ job' = [job EXCEPT ![w] = None]
    /\ wpc' = [wpc EXCEPT ![w] = "tail"]
    /\ UNCHANGED <<connVars, acceptVars, stats, queue, idle, closeVars>>

(* Back in the executor, the thread advertises itself as idle. *)
Loop(w) ==
    /\ wpc[w] = "tail"
    /\ idle' = idle + 1
    /\ wpc' = [wpc EXCEPT ![w] = "get"]
    /\ UNCHANGED <<connVars, acceptVars, capacity, stats, queue, job, closeVars>>

Worker(w) ==
    /\ \/ Get(w) \/ Exit(w) \/ Start(w)
       \/ HandleReturns(w) \/ HandleRaises(w)
       \/ CloseServed(w) \/ Complete(w)
       \/ Fail(w) \/ CountFailure(w)
       \/ Release(w) \/ Loop(w)
    /\ UNCHANGED policy

-----------------------------------------------------------------------------
(* The threads that shut the server down.                                  *)

Return(k) ==
    /\ kpc' = [kpc EXCEPT ![k] = "ready"]
    /\ todo' = [todo EXCEPT ![k] = Tail(@)]

(* A thread of its own calls when it likes; a worker, from the method of a *)
(* request that has arrived whole.  The rest of the script may be left to  *)
(* a later request.                                                        *)
MayCall(k) ==
    /\ kpc[k] = "ready" /\ todo[k] # <<>>
    /\ k \in Workers => /\ wpc[k] = "handle" /\ sock[job[k]] = "open"
                       /\ peer[job[k]] = "whole"

(* BaseServer.shutdown asks the loop to stop and waits for it. *)
CallShutdown(k) ==
    /\ MayCall(k)
    /\ Head(todo[k]) = "shutdown"
    /\ stopReq' = TRUE
    /\ kpc' = [kpc EXCEPT ![k] = "await_loop"]
    /\ UNCHANGED <<connVars, acceptVars, capacity, stats, poolVars,
                   execShut, execLock, execClosed, listening, todo, ahead>>

LoopStopped(k) ==
    /\ kpc[k] = "await_loop" /\ apc = "stopped"
    /\ Return(k)
    /\ UNCHANGED <<connVars, acceptVars, capacity, stats, poolVars,
                   execShut, execLock, execClosed, listening, stopReq, ahead>>

CallShutdownExecutor(k) ==
    /\ MayCall(k)
    /\ Head(todo[k]) # "shutdown"
    /\ kpc' = [kpc EXCEPT ![k] = "lock"]
    /\ UNCHANGED <<connVars, acceptVars, capacity, stats, poolVars,
                   execShut, execLock, execClosed, listening, stopReq, todo, ahead>>

(* Under the lock, a second caller finds the executor closed and returns. *)
TakeLock(k) ==
    /\ kpc[k] = "lock" /\ execLock = None
    /\ execLock' = k
    /\ kpc' = [kpc EXCEPT ![k] = IF execClosed THEN "unlock" ELSE "executor"]
    /\ UNCHANGED <<connVars, acceptVars, capacity, stats, poolVars,
                   execShut, execClosed, listening, stopReq, todo, ahead>>

Waits(k) == Head(todo[k]) # "executor_nowait"

(* _executor_closed is set before the executor is shut down, not after. *)
MutClosedBeforeJoin(k) == TRUE
ClosedBeforeJoin(k) == ~Waits(k)

(* cancel_futures=True. *)
MutQueueKept == <<>>
QueueKept == queue

(* Executor.shutdown(wait=True) joins the threads that were started, in    *)
(* the order in which a set yields them: a worker comes to itself after    *)
(* any of the others.                                                      *)
Ahead(k) == IF k \in Workers THEN SUBSET (Started \ {k}) ELSE {Started}

(* Executor.shutdown needs the lock a submit in progress holds. *)
ExecutorShutdown(k) ==
    /\ kpc[k] = "executor" /\ apc # "adjust"
    /\ execShut' = TRUE
    /\ queue' = QueueKept
    /\ execClosed' = ClosedBeforeJoin(k)
    /\ \/ /\ Waits(k)
          /\ \E J \in Ahead(k) : ahead' = [ahead EXCEPT ![k] = J]
          /\ kpc' = [kpc EXCEPT ![k] = "join"]
       \/ /\ ~Waits(k)
          /\ kpc' = [kpc EXCEPT ![k] = "unlock"]
          /\ UNCHANGED ahead
    /\ UNCHANGED <<connVars, acceptVars, capacity, stats, wpc, job, idle,
                   execLock, listening, stopReq, todo>>

Joined(k) ==
    /\ kpc[k] = "join"
    /\ \A w \in ahead[k] : wpc[w] = "exited"
    /\ ahead' = [ahead EXCEPT ![k] = {}]

(* Every thread that was started has been joined, lock in hand. *)
JoinWorkers(k) ==
    /\ Joined(k) /\ k \notin Workers
    /\ execClosed' = TRUE
    /\ kpc' = [kpc EXCEPT ![k] = "unlock"]
    /\ UNCHANGED <<connVars, acceptVars, capacity, stats, poolVars,
                   execShut, execLock, listening, stopReq, todo>>

(* The lock is not dropped, as without its `with` statement. *)
MutJoinItself(k) ==
    /\ Joined(k) /\ k \in Workers
    /\ kpc' = [kpc EXCEPT ![k] = "ready"]
    /\ todo' = [todo EXCEPT ![k] = <<>>]
    /\ UNCHANGED <<connVars, acceptVars, capacity, stats, poolVars,
                   execShut, execLock, execClosed, listening, stopReq>>

(* A worker that comes to itself gets a RuntimeError from Thread.join: the *)
(* lock is dropped, the executor is shut but not marked closed, and what   *)
(* the method meant to do next is not done.                                *)
JoinItself(k) ==
    /\ Joined(k) /\ k \in Workers
    /\ execLock' = None
    /\ kpc' = [kpc EXCEPT ![k] = "ready"]
    /\ todo' = [todo EXCEPT ![k] = <<>>]
    /\ UNCHANGED <<connVars, acceptVars, capacity, stats, poolVars,
                   execShut, execClosed, listening, stopReq>>

DropLock(k) ==
    /\ kpc[k] = "unlock"
    /\ execLock' = None
    /\ IF Head(todo[k]) = "server_close"
         THEN /\ kpc' = [kpc EXCEPT ![k] = "unlisten"]
              /\ UNCHANGED todo
         ELSE Return(k)
    /\ UNCHANGED <<connVars, acceptVars, capacity, stats, poolVars,
                   execShut, execClosed, listening, stopReq, ahead>>

(* TCPServer.server_close; the kernel resets what it had not handed over. *)
Unlisten(k) ==
    /\ kpc[k] = "unlisten"
    /\ listening' = FALSE
    /\ sock' = [c \in Conns |-> IF sock[c] = "backlog" THEN "closed" ELSE sock[c]]
    /\ outcome' = [c \in Conns |-> IF sock[c] = "backlog" THEN "reset" ELSE outcome[c]]
    /\ Return(k)
    /\ UNCHANGED <<peer, acceptVars, capacity, stats, poolVars,
                   execShut, execLock, execClosed, stopReq, ahead>>

Closer(k) ==
    /\ \/ CallShutdown(k) \/ LoopStopped(k)
       \/ CallShutdownExecutor(k) \/ TakeLock(k) \/ ExecutorShutdown(k)
       \/ JoinWorkers(k) \/ JoinItself(k) \/ DropLock(k) \/ Unlisten(k)
    /\ UNCHANGED policy

-----------------------------------------------------------------------------
(* The server may stand still only when it has nothing left to do: the     *)
(* accept thread polls an empty backlog or has stopped, every thread of    *)
(* the pool waits on an empty queue or has ended, every call has returned. *)
Quiescent ==
    /\ \/ apc = "stopped"
       \/ apc = "select" /\ ~stopReq /\ (Backlog = {} \/ ~listening)
    /\ queue = <<>>
    /\ \A w \in Workers : wpc[w] \in {"unstarted", "get", "exited"}
    /\ \A k \in Closers : kpc[k] = "ready" /\ (k \in Workers \/ todo[k] = <<>>)

(* What a method waits for never comes, because it would have to come from *)
(* one of the workers W, all of which wait: for the lock of a thread that  *)
(* joins one of them, to join one of them, or under BLOCK for an accept    *)
(* thread that waits for a permit and finds all workers held up.           *)
HeldUp(W) ==
    /\ W \subseteq Closers
    /\ \A w \in W :
         \/ /\ kpc[w] = "lock" /\ execLock # None
            /\ kpc[execLock] = "join" /\ ahead[execLock] \cap W # {}
         \/ kpc[w] = "join" /\ ahead[w] \cap W # {}
         \/ /\ kpc[w] = "await_loop" /\ W = Workers
            /\ Blocking /\ apc = "acquire" /\ capacity = 0

(* The ways in which methods that shut their own server down can hang it.  *)
Deadlocked == \E W \in (SUBSET Workers) \ {{}} : HeldUp(W)

StandStill == (Quiescent \/ Deadlocked) /\ UNCHANGED vars

Next ==
    \/ \E c \in Conns : Client(c)
    \/ AcceptThread
    \/ \E w \in Workers : Worker(w)
    \/ \E k \in Closers : Closer(k)
    \/ StandStill

(* The operating system runs every thread that can run; clients promise    *)
(* nothing.                                                                *)
Fairness ==
    /\ WF_vars(AcceptThread)
    /\ \A w \in Workers : WF_vars(Worker(w))
    /\ \A k \in Closers : WF_vars(Closer(k))

Spec == Init /\ [][Next]_vars
FairSpec == Spec /\ Fairness

-----------------------------------------------------------------------------
(* Safety.                                                                 *)

Count(condition) == IF condition THEN 1 ELSE 0

(* The permits of the semaphore: free, with the accept thread, with the    *)
(* queued items, and with the workers that took one.                       *)
Permits ==
    capacity + Count(apc \in PermitPcs) + Len(queue) + Cardinality(Busy)

(* Every permit is in exactly one of these places.  A permit lost or given *)
(* back twice on any path (server.py 357-362, 370-380) breaks this.        *)
PermitsConserved == Permits = TotalCapacity

(* Whatever fails, also the start of a thread, no permit is lost: the      *)
(* capacity that is left to later clients never shrinks (360, 379-380).    *)
NoPermitIsLost == Permits >= TotalCapacity

Outstanding ==
    {c \in Conns :
        \/ areq = c /\ apc \in PermitPcs \cup {"adjust"}
        \/ \E i \in DOMAIN queue : queue[i] = c
        \/ \E w \in Busy : job[w] = c}

(* "total outstanding capacity = max_workers + max_pending": the           *)
(* connections the pool has admitted and not finished with                 *)
(* (docs/user-guide/overload-policies.md:12).  A thread that cannot be     *)
(* started breaks it.                                                      *)
OutstandingWithinCapacity == Cardinality(Outstanding) <= TotalCapacity

Having(o) == {c \in Conns : outcome[c] = o}

(* The gauges are what the threads are doing: active counts the workers    *)
(* between record_started and record_completed or record_errored, queued   *)
(* the requests between record_submitted and record_started, and those the *)
(* executor refused after they were counted (366-367), which stay in it.   *)
GaugesAgree ==
    /\ stats.active = Cardinality(Active)
    /\ stats.submitted =
         Count(apc \in {"submit", "undo", "abandon"}) + Len(queue)
           + Cardinality({w \in Workers : wpc[w] = "start"})
           + Cardinality(Having("dropped"))

Accepted == {c \in Conns : sock[c] \in {"open", "closed"} /\ outcome[c] # "reset"}

(* The counters are a ledger of the accepted connections: each is recorded *)
(* once, under exactly one heading, from the moment process_request has    *)
(* decided on it, whatever fails afterwards.                               *)
EveryConnectionCounted ==
    Recorded(stats) + Count(apc \in {"acquire", "record", "reject"})
      = Cardinality(Accepted)

Holders(c) ==
    Count(areq = c /\ apc # "adjust")
      + Cardinality({i \in DOMAIN queue : queue[i] = c})
      + Cardinality({w \in Busy : job[w] = c})

(* A socket belongs to one thread at a time, and an open one to somebody   *)
(* who will close it: none is served twice, none is forgotten.             *)
OneOwner ==
    \A c \in Conns :
        /\ Holders(c) <= 1
        /\ sock[c] = "open" => Holders(c) = 1

Forgotten == {c \in Conns : sock[c] = "open" /\ Holders(c) = 0}

(* Whatever fails, no open socket is forgotten without a trace: for each   *)
(* one that nobody is left to close, as a handle_error that raises leaves  *)
(* it (375-380), the active gauge stays one above the requests in the      *)
(* threads.                                                                *)
LeaksShow == Cardinality(Forgotten) <= stats.active - Cardinality(Active)

(* A connection that was turned away, by policy or because the executor    *)
(* raised, is never run by the pool as well (352-362).                     *)
TurnedAwayNeverRuns ==
    \A c \in Conns :
        outcome[c] \in {"overload", "refused", "dropped"} =>
            /\ \A i \in DOMAIN queue : queue[i] # c
            /\ \A w \in Busy : job[w] # c

(* Under BLOCK no request is ever rejected; only a closed pool drops one.  *)
BlockTurnsNobodyAway ==
    \A c \in Conns :
        /\ policy = "block" => outcome[c] \notin {"overload", "refused"}
        /\ outcome[c] = "dropped" => execShut

(* Once server_close has closed the listening socket, nothing is running   *)
(* and nothing is waiting in the pool, and nothing will be.                *)
CloseDrains ==
    ~listening => /\ queue = <<>>
                  /\ \A w \in Workers : wpc[w] \in {"unstarted", "exited"}

(* A connection is rejected only while max_workers + max_pending others    *)
(* are held by the pool.                                                   *)
RefusedOnlyWhenFull ==
    [][apc = "acquire" /\ apc' = "reject" =>
          Len(queue) + Cardinality(Busy) = TotalCapacity]_vars

(* Where a thread has to wait for another one, or for more to do. *)
AcceptWaits ==
    \/ apc = "stopped"
    \/ apc = "select" /\ ~stopReq /\ (Backlog = {} \/ ~listening)
    \/ apc = "acquire" /\ ~PermitLeft /\ Blocking

WorkerWaits(w) ==
    \/ wpc[w] \in {"unstarted", "exited"}
    \/ wpc[w] = "get" /\ queue = <<>> /\ ~execShut
    \/ wpc[w] = "handle" /\ ~MethodDone(w)

CloserWaits(k) ==
    \/ kpc[k] = "ready" /\ ~MayCall(k)
    \/ kpc[k] = "await_loop" /\ apc # "stopped"
    \/ kpc[k] = "lock" /\ execLock # None
    \/ kpc[k] = "executor" /\ apc = "adjust"
    \/ kpc[k] = "join" /\ \E w \in ahead[k] : wpc[w] # "exited"

AllWait ==
    /\ AcceptWaits
    /\ \A w \in Workers : WorkerWaits(w)
    /\ \A k \in Closers : CloserWaits(k)

(* Threads that wait for one another and for no client have nothing left   *)
(* to do, unless a method holds its own server up: accept thread, workers  *)
(* and closers with the semaphore, the queue, the idle count and the lock  *)
(* between them do not deadlock (336-358, 453-465).                        *)
NobodyIsStuck == AllWait => Quiescent \/ Deadlocked

-----------------------------------------------------------------------------
(* The promise this server implements.  A request is pending from the      *)
(* moment it has a permit, so the one the accept thread is about to submit *)
(* stands last in line, and executing until its worker gives the permit    *)
(* back.                                                                   *)
Admission == INSTANCE AdmissionControl WITH
    pending <- queue \o (IF apc \in PermitPcs THEN <<areq>> ELSE <<>>),
    executing <- {job[w] : w \in Busy},
    finished <- {c \in Conns : outcome[c] \in Served /\ \A w \in Busy : job[w] # c},
    turnedAway <- {c \in Conns : outcome[c] \in {"overload", "refused", "dropped"}}
                    \cup (IF apc \in TurningAwayPcs THEN {areq} ELSE {}),
    closing <- execShut,
    mayRefuse <- ~Blocking

(* Threads, semaphore and counters implement the promise of                *)
(* AdmissionControl, step by step, as long as a thread can be started      *)
(* whenever the executor wants one.                                        *)
ImplementsAdmission == Admission!Spec

-----------------------------------------------------------------------------
(* Liveness, of FairSpec.  Deadlocked is the way out of each property; by  *)
(* the deadlock check of the runs there is no other.                       *)

(* An accepted connection is eventually closed. *)
AcceptedIsClosed ==
    \A c \in Conns : sock[c] = "open" ~> sock[c] = "closed" \/ Deadlocked

(* A connection in the backlog is eventually accepted, or reset. *)
BacklogIsTaken ==
    \A c \in Conns : sock[c] = "backlog" ~> sock[c] # "backlog" \/ Deadlocked

(* What was queued is served, also when the executor is shut down          *)
(* meanwhile: futures are not cancelled.                                   *)
QueuedIsServed ==
    \A c \in Conns :
        (\E i \in DOMAIN queue : queue[i] = c) ~> outcome[c] \in Served \/ Deadlocked

(* shutdown, shutdown_executor and server_close return, to a method that   *)
(* calls them as well, with whatever result (453-465).                     *)
CallsReturn ==
    \A k \in Closers :
        /\ kpc[k] # "ready" ~> kpc[k] = "ready" \/ Deadlocked
        /\ k \notin Workers => <>(todo[k] = <<>> \/ Deadlocked)

(* All the permits come back whenever the clients pause. *)
PermitsComeBack == []<>(capacity = TotalCapacity \/ Deadlocked)

-----------------------------------------------------------------------------
(* What the documentation says of the server, and the code does not keep.  *)

(* queued: "Requests submitted to the thread pool but not yet started".    *)
QueuedMeansWaiting ==
    apc = "select" =>
        stats.submitted = Len(queue) + Cardinality({w \in Workers : wpc[w] = "start"})

(* With connection_timeout set "a slow or stalled sender cannot hold a     *)
(* worker thread indefinitely".                                            *)
SlowSenderIsCutOff == \A w \in Workers : wpc[w] = "handle" ~> wpc[w] # "handle"
=============================================================================
