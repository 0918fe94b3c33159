------------------------------ MODULE AsgiApp ------------------------------
(***************************************************************************)
(* XMLRPCASGIApp (asgi.py): one event loop runs the tasks of the HTTP      *)
(* requests and of the lifespan, a pool of threads runs the synchronous    *)
(* functions, and close() may be called in other threads.                  *)
(*                                                                         *)
(* A task runs until it has to wait; `loop` names the task that is in the  *)
(* middle of such a stretch where another thread can see the difference.   *)
(* The ASGI server, the clients, asyncio and the ThreadPoolExecutor are    *)
(* outside this repository.                                                *)
(***************************************************************************)
EXTENDS Integers, FiniteSets

CONSTANTS
    Requests,     \* the HTTP requests
    Sessions,     \* the lifespans the ASGI server may run, one at a time
    Closers,      \* the threads that may call close(), again and again
    Casts,        \* which of these take part
    MaxWorkers,   \* max_workers
    Targets,      \* what a method name may turn out to be
    None          \* nobody

Kinds == {"function", "coroutine", "dispatch"}

(* What __init__ accepts, and who may take part. *)
ASSUME AsgiAssumption ==
    /\ MaxWorkers \in Nat \ {0}
    /\ IsFiniteSet(Requests)
    /\ Targets \subseteq Kinds
    /\ None \notin Requests \cup Sessions
    /\ Requests \cap Sessions = {} /\ Closers \cap Sessions = {}
    /\ Casts \subseteq SUBSET (Sessions \cup Closers)

Parties == Sessions \cup Closers

VARIABLES
    cast,      \* the parties that take part
    loop,      \* the task in the middle of a stretch (None: the loop is free)
    executor,  \* _executor: the number of a pool, NoPool for Python's None
    made,      \* how many pools were made; they are numbered from 1
    shut,      \* the pools on which shutdown was called
    task,      \* where the task of each request is
    place,     \* the pool it was given (NoPool: the default one of the loop)
    job,       \* its call in that pool
    reply,     \* what it answers
    pc,        \* where each lifespan and each caller of close() is
    waits      \* the pool each of these is waiting for

taskVars == <<task, place, job, reply>>
partyVars == <<pc, waits>>
poolVars == <<executor, made, shut>>
vars == <<cast, loop, poolVars, taskVars, partyVars>>

NoPool == 0

TaskPcs == {"absent", "read", "get", "return", "submit", "await", "coroutine",
            "send", "done", "cancelled"}
StretchPcs == {"get", "return", "submit"}
JobStates == {"none", "queued", "running", "finished", "cancelled"}

(* error: 404, 405, 413, or the fault for a body that does not parse or a  *)
(* method that is not there; pool_fault: the pool refused the call;        *)
(* result: what the method returned, or the fault for what it raised.      *)
Replies == {"none", "error", "pool_fault", "result"}
PartyPcs == {"off", "running", "idle", "check", "shut", "join", "reset", "done", "failed"}
ClosingPcs == {"check", "shut", "join", "reset"}

(* A pool that was made and not shut down: its threads stay. *)
Live == (1 .. made) \ shut

JobsOf(e) == {r \in Requests : place[r] = e /\ job[r] \in {"queued", "running"}}
RunningIn(e) == {r \in Requests : place[r] = e /\ job[r] = "running"}

TypeOK ==
    /\ cast \in Casts
    /\ loop \in Requests \cup Sessions \cup {None}
    /\ made \in Nat /\ executor \in 0 .. made /\ shut \subseteq 1 .. made
    /\ task \in [Requests -> TaskPcs]
    /\ place \in [Requests -> 0 .. made]
    /\ job \in [Requests -> JobStates]
    /\ reply \in [Requests -> Replies]
    /\ pc \in [Parties -> PartyPcs]
    /\ waits \in [Parties -> 0 .. made]
    /\ \A r \in Requests : task[r] \in StretchPcs <=> loop = r
    /\ \A s \in Sessions : pc[s] \in ClosingPcs <=> loop = s

Init ==
    /\ cast \in Casts
    /\ loop = None
    /\ executor = NoPool /\ made = 0 /\ shut = {}
    /\ task = [r \in Requests |-> "absent"]
    /\ place = [r \in Requests |-> NoPool]
    /\ job = [r \in Requests |-> "none"]
    /\ reply = [r \in Requests |-> "none"]
    /\ pc = [p \in Parties |-> IF p \in Sessions THEN "off" ELSE "idle"]
    /\ waits = [p \in Parties |-> NoPool]

-----------------------------------------------------------------------------
(* _handle_http.                                                           *)

(* A server that runs the lifespan sends requests only while the           *)
(* application has started and was not told to shut down; a request it has *)
(* sent by then goes on.                                                   *)
Serving ==
    cast \cap Sessions = {} \/ \E s \in cast \cap Sessions : pc[s] = "running"

Answer(r, status) ==
    /\ reply' = [reply EXCEPT ![r] = status]
    /\ task' = [task EXCEPT ![r] = "send"]

(* A new request.  A wrong path or method is answered at once; else the    *)
(* body is read, however long.                                             *)
Arrive(r) ==
    /\ task[r] = "absent" /\ loop = None /\ Serving
    /\ \/ Answer(r, "error")
       \/ task' = [task EXCEPT ![r] = "read"] /\ UNCHANGED reply
    /\ UNCHANGED <<cast, loop, poolVars, place, job, partyVars>>

(* The body has ended, or the client has left, which _read_body takes for  *)
(* the end; nothing else sees its chunks come.  It may be too long, or not *)
(* parse.                                                                  *)
Unusable(r) == Answer(r, "error") /\ UNCHANGED <<loop, job>>

(* One that parses may name no method, which is answered at once as well.  *)
(* The others are dispatched by what the name stands for: a coroutine (in  *)
(* the registry, of the instance, or its _dispatch), a synchronous         *)
(* _dispatch, which asyncio.to_thread gives to the loop's default pool, or *)
(* a synchronous function.                                                 *)
EndBody(r) ==
    /\ task[r] = "read" /\ loop = None
    /\ \/ Unusable(r)
       \/ /\ "coroutine" \in Targets
          /\ task' = [task EXCEPT ![r] = "coroutine"]
          /\ UNCHANGED <<loop, job, reply>>
       \/ /\ "dispatch" \in Targets
          /\ task' = [task EXCEPT ![r] = "await"]
          /\ job' = [job EXCEPT ![r] = "queued"]
          /\ UNCHANGED <<loop, reply>>
       \/ /\ "function" \in Targets
          /\ task' = [task EXCEPT ![r] = "get"]
          /\ loop' = r
          /\ UNCHANGED <<job, reply>>
    /\ UNCHANGED <<cast, poolVars, place, partyVars>>

(* A pool of its own for every call. *)
MutMissing == TRUE
Missing == executor = NoPool

(* _get_executor: other threads only ever set _executor to None, so its    *)
(* test and the creation of a pool are one step; the return reads again.   *)
LookForPool(r) ==
    /\ task[r] = "get"
    /\ IF Missing
         THEN made' = made + 1 /\ executor' = made + 1
         ELSE UNCHANGED <<made, executor>>
    /\ task' = [task EXCEPT ![r] = "return"]
    /\ UNCHANGED <<cast, loop, shut, place, job, reply, partyVars>>

TakePool(r) ==
    /\ task[r] = "return"
    /\ place' = [place EXCEPT ![r] = executor]
    /\ task' = [task EXCEPT ![r] = "submit"]
    /\ UNCHANGED <<cast, loop, poolVars, job, reply, partyVars>>

(* run_in_executor: a pool that was shut down refuses the call, and        *)
(* _async_marshaled_dispatch turns the RuntimeError into a fault.          *)
SubmitCall(r) ==
    /\ task[r] = "submit"
    /\ loop' = None
    /\ \/ /\ place[r] \in shut
          /\ Answer(r, "pool_fault")
          /\ UNCHANGED job
       \/ /\ place[r] \notin shut
          /\ job' = [job EXCEPT ![r] = "queued"]
          /\ task' = [task EXCEPT ![r] = "await"]
          /\ UNCHANGED reply
    /\ UNCHANGED <<cast, poolVars, place, partyVars>>

(* The call, or the coroutine, has returned or raised: either is marshalled. *)
Resume(r) ==
    /\ loop = None
    /\ \/ task[r] = "await" /\ job[r] = "finished"
       \/ task[r] = "coroutine"
    /\ Answer(r, "result")
    /\ UNCHANGED <<cast, loop, poolVars, place, job, partyVars>>

Send(r) ==
    /\ task[r] = "send" /\ loop = None
    /\ task' = [task EXCEPT ![r] = "done"]
    /\ UNCHANGED <<cast, loop, poolVars, place, job, reply, partyVars>>

(* The ASGI server may cancel a task that waits (or send may raise); a     *)
(* call that no thread has taken yet is cancelled with it.                 *)
Cancel(r) ==
    /\ task[r] \in {"read", "await", "coroutine", "send"} /\ loop = None
    /\ task' = [task EXCEPT ![r] = "cancelled"]
    /\ job' = [job EXCEPT ![r] = IF @ = "queued" THEN "cancelled" ELSE @]
    /\ UNCHANGED <<cast, loop, poolVars, place, reply, partyVars>>

TaskStep(r) ==
    LookForPool(r) \/ TakePool(r) \/ SubmitCall(r) \/ Resume(r) \/ Send(r)

Request(r) == Arrive(r) \/ EndBody(r) \/ Cancel(r) \/ TaskStep(r)

-----------------------------------------------------------------------------
(* The threads of the pools.                                               *)

RunJob(r) ==
    /\ job[r] = "queued"
    /\ place[r] = NoPool \/ Cardinality(RunningIn(place[r])) < MaxWorkers
    /\ job' = [job EXCEPT ![r] = "running"]
    /\ UNCHANGED <<cast, loop, poolVars, task, place, reply, partyVars>>

EndJob(r) ==
    /\ job[r] = "running"
    /\ job' = [job EXCEPT ![r] = "finished"]
    /\ UNCHANGED <<cast, loop, poolVars, task, place, reply, partyVars>>

Job(r) == RunJob(r) \/ EndJob(r)

-----------------------------------------------------------------------------
(* The lifespan, and close().                                              *)

Startup(s) ==
    /\ pc[s] = "off" /\ loop = None
    /\ \A t \in cast \cap Sessions : pc[t] \in {"off", "done", "failed"}
    /\ made' = made + 1 /\ executor' = made + 1
    /\ pc' = [pc EXCEPT ![s] = "running"]
    /\ UNCHANGED <<cast, loop, shut, taskVars, waits>>

(* The pool is shut down in a thread, and the loop goes on. *)
MutBeginClose(p) ==
    /\ p \in Sessions /\ pc[p] = "running" /\ loop = None
    /\ pc' = [pc EXCEPT ![p] = "check"]
    /\ UNCHANGED <<cast, loop, poolVars, taskVars, waits>>

(* lifespan.shutdown is handled by the loop, which it blocks until the     *)
(* pool has drained; close() runs in a thread of its own.                  *)
BeginClose(p) ==
    /\ \/ p \in Sessions /\ pc[p] = "running" /\ loop = None /\ loop' = p
       \/ p \in Closers /\ pc[p] = "idle" /\ UNCHANGED loop
    /\ pc' = [pc EXCEPT ![p] = "check"]
    /\ UNCHANGED <<cast, poolVars, taskVars, waits>>

Leave(p, how) ==
    /\ pc' = [pc EXCEPT ![p] = how]
    /\ waits' = [waits EXCEPT ![p] = NoPool]
    /\ loop' = IF p \in Sessions THEN None ELSE loop

Finished(p) == IF p \in Sessions THEN "done" ELSE "idle"

CheckPool(p) ==
    /\ pc[p] = "check"
    /\ \/ executor = NoPool /\ Leave(p, Finished(p))
       \/ executor # NoPool /\ pc' = [pc EXCEPT ![p] = "shut"] /\ UNCHANGED <<loop, waits>>
    /\ UNCHANGED <<cast, poolVars, taskVars>>

(* cancel_futures=True: queued calls are cancelled.  The tasks that await  *)
(* them get a CancelledError, which is no Exception and so is not caught   *)
(* (307): they end without an answer.                                      *)
MutShutCancels(p) ==
    /\ pc[p] = "shut" /\ executor # NoPool
    /\ shut' = shut \cup {executor}
    /\ waits' = [waits EXCEPT ![p] = executor]
    /\ pc' = [pc EXCEPT ![p] = "join"]
    /\ LET lost == {r \in JobsOf(executor) : job[r] = "queued"}
       IN  /\ job' = [r \in Requests |-> IF r \in lost THEN "cancelled" ELSE job[r]]
           /\ task' = [r \in Requests |-> IF r \in lost THEN "done" ELSE task[r]]
    /\ UNCHANGED <<cast, loop, executor, made, place, reply>>

(* _executor is read again: it may be None by now, which has no shutdown. *)
ShutPool(p) ==
    /\ pc[p] = "shut"
    /\ \/ /\ executor = NoPool
          /\ Leave(p, "failed")
          /\ UNCHANGED shut
       \/ /\ executor # NoPool
          /\ shut' = shut \cup {executor}
          /\ waits' = [waits EXCEPT ![p] = executor]
          /\ pc' = [pc EXCEPT ![p] = "join"]
          /\ UNCHANGED loop
    /\ UNCHANGED <<cast, executor, made, taskVars>>

(* wait=False; or it is the tasks that are waited for, not their calls. *)
MutNoWait(e) == TRUE
MutAwaitTasks(e) == \A r \in Requests : place[r] = e => task[r] # "await"
Drained(e) == JobsOf(e) = {}

JoinPool(p) ==
    /\ pc[p] = "join" /\ Drained(waits[p])
    /\ pc' = [pc EXCEPT ![p] = "reset"]
    /\ UNCHANGED <<cast, loop, poolVars, taskVars, waits>>

Forget(p) ==
    /\ pc[p] = "reset"
    /\ executor' = NoPool
    /\ Leave(p, Finished(p))
    /\ UNCHANGED <<cast, made, shut, taskVars>>

CloseStep(p) == CheckPool(p) \/ ShutPool(p) \/ JoinPool(p) \/ Forget(p)

Party(p) == (p \in Sessions /\ Startup(p)) \/ BeginClose(p) \/ CloseStep(p)

-----------------------------------------------------------------------------
(* The system may stop: requests need not come, nor the end of a lifespan. *)
Next ==
    \/ \E r \in Requests : Request(r) \/ Job(r)
    \/ \E p \in cast : Party(p)

(* asyncio runs every task that can go on, the system every thread, and    *)
(* methods return; neither clients nor the ASGI server need do anything.   *)
Fairness ==
    /\ \A r \in Requests : WF_vars(TaskStep(r)) /\ WF_vars(Job(r))
    /\ \A p \in Parties : WF_vars(p \in cast /\ CloseStep(p))

Spec == Init /\ [][Next]_vars
FairSpec == Spec /\ Fairness

-----------------------------------------------------------------------------
(* Properties.                                                             *)

(* At most one lifespan or one thread closes the application. *)
OneCloser == \A p, q \in cast : p = q

(* No pool is forgotten with its threads still there: as long as one party *)
(* closes the application, every pool but the current one was shut down    *)
(* (195, 378).  Nothing but the order of the steps of close() sees to it.  *)
NoPoolIsLost == OneCloser => Live \subseteq {executor}

(* max_workers bounds the synchronous functions at work, also while an old *)
(* pool drains and a new one may be made (202, 392).                       *)
FunctionsBounded ==
    OneCloser =>
        Cardinality({r \in Requests : job[r] = "running" /\ place[r] # NoPool})
          <= MaxWorkers

(* Whoever closes the application: a pool that was shut down has calls     *)
(* left only as long as somebody inside close() waits for them.            *)
ClosedMeansDrained ==
    \A r \in Requests :
        place[r] \in shut /\ r \in JobsOf(place[r]) =>
            \E p \in cast : pc[p] = "join" /\ waits[p] = place[r]

(* The lifespan alone never makes a call fail: it holds the loop from the  *)
(* test of _executor until it is None again (200-203).                     *)
LifespanRefusesNobody ==
    cast \subseteq Sessions => \A r \in Requests : reply[r] # "pool_fault"

(* Where a task, a call or somebody inside close() has to wait for another *)
(* one: for the loop, a thread of the pool, or the calls of a pool.        *)
TaskWaits(r) ==
    \/ task[r] \in {"absent", "read", "done", "cancelled"}
    \/ task[r] \in {"await", "coroutine", "send"} /\ loop # None
    \/ task[r] = "await" /\ job[r] # "finished"

JobWaits(r) ==
    \/ job[r] \notin {"queued", "running"}
    \/ /\ job[r] = "queued" /\ place[r] # NoPool
       /\ Cardinality(RunningIn(place[r])) >= MaxWorkers

PartyWaits(p) ==
    \/ pc[p] \notin ClosingPcs
    \/ pc[p] = "join" /\ ~Drained(waits[p])

AllWait ==
    /\ \A r \in Requests : TaskWaits(r) /\ JobWaits(r)
    /\ \A p \in Parties : PartyWaits(p)

(* All of them wait only when no call is left and nobody is inside         *)
(* close(): the loop that close() blocks, the threads it waits for and the *)
(* tasks that wait for these do not deadlock, whoever closes (195-203).    *)
NothingHangs ==
    AllWait =>
        /\ \A r \in Requests : /\ task[r] \in {"absent", "read", "done", "cancelled"}
                                /\ job[r] \notin {"queued", "running"}
        /\ \A p \in Parties : pc[p] \notin ClosingPcs

(* The promise the application implements: its pools are one pool, which   *)
(* is there as long as _executor is not None.                              *)
Functions(states) == {r \in Requests : place[r] # NoPool /\ job[r] \in states}

Pool == INSTANCE CallPool WITH
    Calls <- Requests,
    pool <- IF executor = NoPool THEN "absent"
            ELSE IF executor \in shut THEN "draining" ELSE "open",
    waiting <- Functions({"queued"}),
    working <- Functions({"running"}),
    left <- Functions({"finished", "cancelled"})

(* As long as one party closes the application, whatever pools follow one  *)
(* another implement CallPool: no function enters a pool that drains, none *)
(* is left in one that is forgotten, and the next one is not made before.  *)
ImplementsPool ==
    /\ OneCloser => Pool!Init
    /\ [][OneCloser => [Pool!Next]_(Pool!vars)]_vars

(* A call is answered once it is dispatched, also when the pool is being   *)
(* closed, unless the server cancels its task: the task does not wait for  *)
(* ever, nor end with nothing to send (294, 307-314, 360-365).             *)
CallsAreAnswered ==
    \A r \in Requests : task[r] \in StretchPcs \cup {"await", "coroutine"}
                          ~> \/ task[r] = "done" /\ reply[r] # "none"
                             \/ task[r] = "cancelled"

(* close() and the shutdown event come to an end. *)
CloseReturns == \A p \in Parties : pc[p] \in ClosingPcs ~> pc[p] \notin ClosingPcs

(* "shutdown - waits for all in-flight sync handlers to complete, then     *)
(* closes the pool" (docs/user-guide/asgi.md:157): not those that          *)
(* asyncio.to_thread runs (344).                                           *)
ShutdownWaitsForAll ==
    \A s \in Sessions : pc[s] = "done" =>
        \A r \in Requests : job[r] \notin {"queued", "running"}
=============================================================================
