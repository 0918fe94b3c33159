-------------------------- MODULE ReusePortCluster --------------------------
(***************************************************************************)
(* Several server processes behind one SO_REUSEPORT address                *)
(* (multiprocess.py), called by users of XMLRPCClient (client.py).         *)
(*                                                                         *)
(* Each process runs a server that answers a request, or turns it away,    *)
(* and closes the connection; what happens inside it is the subject of     *)
(* ThreadPoolServer.                                                       *)
(* The kernel, which hands a new connection to one of the listening        *)
(* sockets, and xmlrpc.client.Transport, which sends a call once more when *)
(* its connection breaks, are outside this repository.                     *)
(***************************************************************************)
EXTENDS Integers, FiniteSets

CONSTANTS
    Procs,      \* the processes to spawn: num_workers of them
    Users,      \* the users, each in a `with XMLRPCClient(...)` of its own
    MaxCalls,   \* how many calls a user makes (a bound)
    MaxDeaths,  \* how many processes may die (a bound)
    None        \* no process

ASSUME ClusterAssumption ==
    /\ MaxCalls \in Nat /\ MaxDeaths \in Nat
    /\ None \notin Procs

Attempts == {0, 1}
Calls == Users \X (1 .. MaxCalls)

VARIABLES
    spc,        \* spawn_workers: spawning, returned or raised
    proc,       \* what each process is doing
    deaths,     \* how many have died
    upc,        \* where each user is
    number,     \* the number of its last call
    attempt,    \* the `i` of Transport.request
    req,        \* each attempt of each call, as the server sees it
    at,         \* the process it was sent to
    ran,        \* history: the attempts that had the method run
    dropped,    \* history: the attempts a full server closed unanswered
    result      \* history: how each call ended

spawnVars == <<spc, proc, deaths>>
userVars == <<upc, number, attempt, result>>
reqVars == <<req, at, ran, dropped>>
vars == <<spawnVars, userVars, reqVars>>

ProcStates == {"unstarted", "starting", "listening", "dead"}
UserPcs == {"outside", "inside", "connect", "wait", "left"}
ReqStates == {"none", "queued", "ran", "partial", "answered", "lost", "cut"}
Results == {"none", "answered", "timeout", "refused", "reset", "cut"}

Listening == {p \in Procs : proc[p] = "listening"}
Call(u) == <<u, number[u]>>
Current(u) == <<Call(u), attempt[u]>>

TypeOK ==
    /\ spc \in {"spawning", "returned", "raised"}
    /\ proc \in [Procs -> ProcStates]
    /\ deaths \in Nat
    /\ upc \in [Users -> UserPcs]
    /\ number \in [Users -> 0 .. MaxCalls]
    /\ attempt \in [Users -> Attempts]
    /\ req \in [Calls \X Attempts -> ReqStates]
    /\ at \in [Calls \X Attempts -> Procs \cup {None}]
    /\ ran \subseteq Calls \X Attempts /\ dropped \subseteq Calls \X Attempts
    /\ result \in [Calls -> Results]
    /\ \A u \in Users : upc[u] \in {"connect", "wait"} => number[u] # 0

Init ==
    /\ spc = "spawning"
    /\ proc = [p \in Procs |-> "unstarted"]
    /\ deaths = 0
    /\ upc = [u \in Users |-> "outside"]
    /\ number = [u \in Users |-> 0]
    /\ attempt = [u \in Users |-> 0]
    /\ req = [x \in Calls \X Attempts |-> "none"]
    /\ at = [x \in Calls \X Attempts |-> None]
    /\ ran = {} /\ dropped = {}
    /\ result = [c \in Calls |-> "none"]

-----------------------------------------------------------------------------
(* The processes.                                                          *)

(* spawn_workers starts one process after the other, and returns when all  *)
(* are started.                                                            *)
StartProc ==
    /\ spc = "spawning"
    /\ \E p \in Procs :
        /\ proc[p] = "unstarted"
        /\ proc' = [proc EXCEPT ![p] = "starting"]
        /\ spc' = IF \A q \in Procs \ {p} : proc[q] # "unstarted" THEN "returned" ELSE spc
    /\ UNCHANGED <<deaths, userVars, reqVars>>

(* A process cannot be started: those started before it go on, and the     *)
(* caller of spawn_workers never sees them.                                *)
StartFails ==
    /\ spc = "spawning"
    /\ spc' = "raised"
    /\ UNCHANGED <<proc, deaths, userVars, reqVars>>

(* create_reuseport_socket binds and listens; nothing is accepted before   *)
(* that.                                                                   *)
Listen(p) ==
    /\ proc[p] = "starting"
    /\ proc' = [proc EXCEPT ![p] = "listening"]
    /\ UNCHANGED <<spc, deaths, userVars, reqVars>>

(* A process dies; its connections, accepted or not, break.  The client    *)
(* has seen nothing of the answer, or a part of it; that part is lost as   *)
(* well if there was something left to read of a request that was turned   *)
(* away, for then the kernel resets the connection.                        *)
Die(p) ==
    /\ proc[p] \in {"starting", "listening"} /\ deaths < MaxDeaths
    /\ proc' = [proc EXCEPT ![p] = "dead"]
    /\ deaths' = deaths + 1
    /\ \E unread \in SUBSET ({x \in Calls \X Attempts : req[x] = "partial"} \ ran) :
         req' = [x \in Calls \X Attempts |->
                   CASE at[x] = p /\ (req[x] \in {"queued", "ran"} \/ x \in unread) -> "lost"
                     [] at[x] = p /\ req[x] = "partial" /\ x \notin unread -> "cut"
                     [] OTHER -> req[x]]
    /\ UNCHANGED <<spc, userVars, at, ran, dropped>>

(* A server that is full turns the request away, with an answer or, under  *)
(* the CLOSE policy, by closing the connection.                            *)
TurnAway(x) ==
    /\ req[x] = "queued"
    /\ \/ req' = [req EXCEPT ![x] = "partial"] /\ UNCHANGED dropped
       \/ req' = [req EXCEPT ![x] = "lost"] /\ dropped' = dropped \cup {x}
    /\ UNCHANGED <<spawnVars, userVars, at, ran>>

(* Else it runs the method and then begins to send what came of it,        *)
(* whether or not the client still waits; a method need not return.        *)
Run(x) ==
    /\ req[x] = "queued"
    /\ req' = [req EXCEPT ![x] = "ran"]
    /\ ran' = ran \cup {x}
    /\ UNCHANGED <<spawnVars, userVars, at, dropped>>

Reply(x) ==
    /\ req[x] = "ran"
    /\ req' = [req EXCEPT ![x] = "partial"]
    /\ UNCHANGED <<spawnVars, userVars, at, ran, dropped>>

(* The answer is sent to its end. *)
SendRest(x) ==
    /\ req[x] = "partial"
    /\ req' = [req EXCEPT ![x] = "answered"]
    /\ UNCHANGED <<spawnVars, userVars, at, ran, dropped>>

-----------------------------------------------------------------------------
(* The users.                                                              *)

(* __enter__ makes a proxy with a transport of its own. *)
Enter(u) ==
    /\ upc[u] = "outside"
    /\ upc' = [upc EXCEPT ![u] = "inside"]
    /\ UNCHANGED <<spawnVars, number, attempt, result, reqVars>>

BeginCall(u) ==
    /\ upc[u] = "inside" /\ number[u] < MaxCalls
    /\ number' = [number EXCEPT ![u] = @ + 1]
    /\ attempt' = [attempt EXCEPT ![u] = 0]
    /\ upc' = [upc EXCEPT ![u] = "connect"]
    /\ UNCHANGED <<spawnVars, result, reqVars>>

Connect(u) ==
    /\ upc[u] = "connect"
    /\ \E p \in Listening :
        /\ at' = [at EXCEPT ![Current(u)] = p]
        /\ req' = [req EXCEPT ![Current(u)] = "queued"]
    /\ upc' = [upc EXCEPT ![u] = "wait"]
    /\ UNCHANGED <<spawnVars, number, attempt, result, ran, dropped>>

(* The call returns or raises; either way its connection is closed. *)
EndCall(u, how) ==
    /\ result' = [result EXCEPT ![Call(u)] = how]
    /\ upc' = [upc EXCEPT ![u] = "inside"]
    /\ UNCHANGED <<number, attempt>>

(* A refused connection is not tried again. *)
Refused(u) ==
    /\ upc[u] = "connect" /\ Listening = {}
    /\ EndCall(u, "refused")
    /\ UNCHANGED <<spawnVars, reqVars>>

Answered(u) ==
    /\ upc[u] = "wait" /\ req[Current(u)] = "answered"
    /\ EndCall(u, "answered")
    /\ UNCHANGED <<spawnVars, reqVars>>

(* One attempt only; or no end of them. *)
MutOneAttempt(u) == FALSE
MutEndless(u) == TRUE
AnotherAttempt(u) == attempt[u] = 0

TryAgain(u) ==
    /\ attempt' = [attempt EXCEPT ![u] = @ + 1]
    /\ upc' = [upc EXCEPT ![u] = "connect"]
    /\ UNCHANGED <<number, result>>

(* Transport.request: a broken connection is tried again, once. *)
Broken(u) ==
    /\ upc[u] = "wait" /\ req[Current(u)] = "lost"
    /\ \/ AnotherAttempt(u) /\ TryAgain(u)
       \/ ~AnotherAttempt(u) /\ EndCall(u, "reset")
    /\ UNCHANGED <<spawnVars, reqVars>>

(* An answer that breaks off is a parse error to the transport, not a      *)
(* broken connection: the call is not tried again.                         *)
CutOff(u) ==
    /\ upc[u] = "wait" /\ req[Current(u)] = "cut"
    /\ EndCall(u, "cut")
    /\ UNCHANGED <<spawnVars, reqVars>>

(* Connecting, or waiting for the rest of an answer. *)
Pending(u) ==
    \/ upc[u] = "connect"
    \/ upc[u] = "wait" /\ req[Current(u)] \in {"queued", "ran", "partial"}

(* The connection is given no timeout; a timeout is tried again. *)
MutNoTimeout(u) == FALSE
MutTimeoutAgain(u) ==
    /\ Pending(u)
    /\ \/ AnotherAttempt(u) /\ TryAgain(u)
       \/ ~AnotherAttempt(u) /\ EndCall(u, "timeout")
    /\ UNCHANGED <<spawnVars, reqVars>>

(* make_connection gives every connection the timeout, for connecting and  *)
(* for waiting; after a TimeoutError the call is not sent again.           *)
Timeout(u) ==
    /\ Pending(u)
    /\ EndCall(u, "timeout")
    /\ UNCHANGED <<spawnVars, reqVars>>

(* __exit__ closes the proxy. *)
Exit(u) ==
    /\ upc[u] = "inside"
    /\ upc' = [upc EXCEPT ![u] = "left"]
    /\ UNCHANGED <<spawnVars, number, attempt, result, reqVars>>

InCall(u) ==
    Connect(u) \/ Refused(u) \/ Answered(u) \/ Broken(u) \/ CutOff(u) \/ Timeout(u)

Next ==
    \/ StartProc \/ StartFails
    \/ \E p \in Procs : Listen(p) \/ Die(p)
    \/ \E x \in Calls \X Attempts : TurnAway(x) \/ Run(x) \/ Reply(x) \/ SendRest(x)
    \/ \E u \in Users : Enter(u) \/ BeginCall(u) \/ InCall(u) \/ Exit(u)

(* A user that is in a call goes on, and its timer runs.  Nothing is       *)
(* promised of the processes.                                              *)
Spec == Init /\ [][Next]_vars
FairSpec == Spec /\ \A u \in Users : WF_vars(InCall(u))

-----------------------------------------------------------------------------
(* Properties.                                                             *)

(* A call of which an attempt has had the method run. *)
Runs(c) == {i \in Attempts : <<c, i>> \in ran}

(* As long as one process has died, and no more, and none has closed a     *)
(* connection on its own, no call ends with a broken connection: it is     *)
(* sent again, and the kernel no longer knows the process that died.  (A   *)
(* death in the middle of an answer does end its call: "cut".)             *)
OneDeathIsHidden ==
    deaths <= 1 /\ dropped = {} => \A c \in Calls : result[c] # "reset"

(* A call has its method run twice only if the process that ran it first   *)
(* has died, and then by another one: neither a timeout nor a refusal nor  *)
(* half an answer makes the client send it again, and a connection that a  *)
(* full server closed (the CLOSE policy), which does, was closed before    *)
(* the method ran.                                                         *)
TwiceOnlyAfterDeath ==
    \A c \in Calls : Runs(c) = Attempts =>
        proc[at[<<c, 0>>]] = "dead" /\ at[<<c, 1>>] # at[<<c, 0>>]

(* Hung servers do not block their callers indefinitely (client.py:43-44). *)
CallsEnd == \A u \in Users : upc[u] \in {"connect", "wait"} ~> upc[u] = "inside"

Count(condition) == IF condition THEN 1 ELSE 0

(* What a call looks like from outside, whatever became of its attempts. *)
Status ==
    [c \in Calls |->
        IF result[c] # "none" THEN result[c]
        ELSE IF c[2] <= number[c[1]] THEN "open" ELSE "idle"]

TimesRun == [c \in Calls |-> Count(<<c, 0>> \in ran) + Count(<<c, 1>> \in ran)]

Orphaned == {c \in Calls : <<c, 0>> \in ran /\ req[<<c, 0>>] = "lost"}

Remote == INSTANCE RemoteCall WITH
    status <- Status, runs <- TimesRun, orphaned <- Orphaned

(* Processes, attempts and timers implement RemoteCall: each call ends     *)
(* once; no request that is still on its way runs after its caller was     *)
(* told anything but a timeout; and a run is repeated only if a crash has  *)
(* left no answer of the first (client.py 24-36, 78-95).                   *)
ImplementsCalls == Remote!Spec

(* "XMLRPCClient does not retry automatically", since methods are not      *)
(* necessarily idempotent (docs/user-guide/client-helpers.md:57-58).       *)
CallsRunOnce == \A c \in Calls : Runs(c) # Attempts
=============================================================================
