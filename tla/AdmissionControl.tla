-------------------------- MODULE AdmissionControl --------------------------
(***************************************************************************)
(* What a ThreadPoolXMLRPCServer promises about the connections it takes,  *)
(* without threads, sockets or the semaphore: at most MaxWorkers requests  *)
(* execute and at most MaxWorkers + MaxPending are in its hands, they      *)
(* start in the order they came, one is turned away only when the server   *)
(* is full and its policy says so, or once the server is closing.          *)
(***************************************************************************)
EXTENDS Integers, Sequences, FiniteSets

CONSTANTS Conns, MaxWorkers, MaxPending

VARIABLES
    mayRefuse,   \* the overload policy is not BLOCK
    pending,     \* admitted and waiting, in order of admission
    executing, finished, turnedAway,
    closing
vars == <<mayRefuse, pending, executing, finished, turnedAway, closing>>

Waiting == {pending[i] : i \in DOMAIN pending}
Known == Waiting \cup executing \cup finished \cup turnedAway
Outstanding == Len(pending) + Cardinality(executing)
Capacity == MaxWorkers + MaxPending

Init ==
    /\ mayRefuse \in BOOLEAN
    /\ pending = <<>>
    /\ executing = {} /\ finished = {} /\ turnedAway = {}
    /\ closing = FALSE

HasRoom == Outstanding < Capacity

Admit(c) ==
    /\ c \notin Known
    /\ HasRoom
    /\ pending' = Append(pending, c)
    /\ UNCHANGED <<executing, finished, turnedAway, closing>>

Refuse(c) ==
    /\ mayRefuse
    /\ c \notin Known
    /\ Outstanding = Capacity
    /\ turnedAway' = turnedAway \cup {c}
    /\ UNCHANGED <<pending, executing, finished, closing>>

Start ==
    /\ pending # <<>>
    /\ Cardinality(executing) < MaxWorkers
    /\ executing' = executing \cup {Head(pending)}
    /\ pending' = Tail(pending)
    /\ UNCHANGED <<finished, turnedAway, closing>>

Finish(c) ==
    /\ c \in executing
    /\ executing' = executing \ {c}
    /\ finished' = finished \cup {c}
    /\ UNCHANGED <<pending, turnedAway, closing>>

(* A closing pool does not take over the request admitted last. *)
GiveUp ==
    /\ closing /\ pending # <<>>
    /\ turnedAway' = turnedAway \cup {pending[Len(pending)]}
    /\ pending' = SubSeq(pending, 1, Len(pending) - 1)
    /\ UNCHANGED <<executing, finished, closing>>

Close ==
    /\ closing' = TRUE
    /\ UNCHANGED <<pending, executing, finished, turnedAway>>

Next ==
    /\ \/ \E c \in Conns : Admit(c) \/ Refuse(c) \/ Finish(c)
       \/ Start \/ GiveUp \/ Close
    /\ UNCHANGED mayRefuse

Spec == Init /\ [][Next]_vars

TypeOK ==
    /\ mayRefuse \in BOOLEAN
    /\ pending \in Seq(Conns)
    /\ executing \in SUBSET Conns
    /\ finished \in SUBSET Conns
    /\ turnedAway \in SUBSET Conns
    /\ closing \in BOOLEAN

(* The two documented bounds, "Maximum requests executing concurrently"    *)
(* and "total outstanding capacity = max_workers + max_pending"            *)
(* (docs/user-guide/overload-policies.md 12-18).                           *)
WithinCapacity ==
    /\ Cardinality(executing) <= MaxWorkers
    /\ Outstanding <= Capacity

(* A connection has one fate: it waits once, and never while it executes,  *)
(* nor after it has finished or was turned away.                           *)
OneFate ==
    /\ \A i, j \in DOMAIN pending : pending[i] = pending[j] => i = j
    /\ Waiting \cap (executing \cup finished \cup turnedAway) = {}
    /\ executing \cap (finished \cup turnedAway) = {}
    /\ finished \cap turnedAway = {}
=============================================================================
