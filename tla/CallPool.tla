------------------------------ MODULE CallPool ------------------------------
(***************************************************************************)
(* What an XMLRPCASGIApp promises about its synchronous functions, without *)
(* tasks, threads or executors that follow one another: there is one pool, *)
(* of MaxWorkers places.  It takes calls while it is open, none while it   *)
(* drains, and is opened again only when it has drained.                   *)
(***************************************************************************)
EXTENDS Integers, FiniteSets

CONSTANTS Calls, MaxWorkers

VARIABLES
    pool,               \* "absent", "open" or "draining"
    waiting, working,   \* the calls it holds
    left                \* the calls that are through with it
vars == <<pool, waiting, working, left>>

Init ==
    /\ pool = "absent"
    /\ waiting = {} /\ working = {} /\ left = {}

Open ==
    /\ pool = "absent" /\ pool' = "open"
    /\ UNCHANGED <<waiting, working, left>>

Take(c) ==
    /\ pool = "open"
    /\ c \notin waiting \cup working \cup left
    /\ waiting' = waiting \cup {c}
    /\ UNCHANGED <<pool, working, left>>

Run(c) ==
    /\ c \in waiting
    /\ Cardinality(working) < MaxWorkers
    /\ waiting' = waiting \ {c} /\ working' = working \cup {c}
    /\ UNCHANGED <<pool, left>>

(* A function returns, or its call is cancelled before it has begun. *)
Return(c) ==
    /\ c \in working
    /\ working' = working \ {c} /\ left' = left \cup {c}
    /\ UNCHANGED <<pool, waiting>>

Withdraw(c) ==
    /\ c \in waiting
    /\ waiting' = waiting \ {c} /\ left' = left \cup {c}
    /\ UNCHANGED <<pool, working>>

Close ==
    /\ pool = "open" /\ pool' = "draining"
    /\ UNCHANGED <<waiting, working, left>>

Drained ==
    /\ pool = "draining" /\ pool' = "absent"
    /\ waiting = {} /\ working = {}
    /\ UNCHANGED <<waiting, working, left>>

Next ==
    \/ \E c \in Calls : Take(c) \/ Run(c) \/ Return(c) \/ Withdraw(c)
    \/ Open \/ Close \/ Drained

Spec == Init /\ [][Next]_vars
=============================================================================
