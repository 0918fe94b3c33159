----------------------------- MODULE RemoteCall -----------------------------
(***************************************************************************)
(* What a caller of XMLRPCClient may rely on, without processes,           *)
(* connections or attempts: a call is begun and ends in one way; its       *)
(* method is run while the caller waits, or after it has timed out, and    *)
(* once, or once more if a crash took the whole of the first run's answer. *)
(***************************************************************************)
EXTENDS Integers

CONSTANT Calls

VARIABLES
    status,     \* of each call: "idle", "open", or how it ended
    runs,       \* how often its method was run
    orphaned    \* the calls of whose first run a crash has left no answer
vars == <<status, runs, orphaned>>

Ends == {"answered", "timeout", "refused", "reset", "cut"}

Init ==
    /\ status = [c \in Calls |-> "idle"]
    /\ runs = [c \in Calls |-> 0]
    /\ orphaned = {}

Begin(c) ==
    /\ status[c] = "idle"
    /\ status' = [status EXCEPT ![c] = "open"]
    /\ UNCHANGED <<runs, orphaned>>

Execute(c) ==
    /\ status[c] \in {"open", "timeout"}
    /\ runs[c] = 0 \/ (runs[c] = 1 /\ c \in orphaned)
    /\ runs' = [runs EXCEPT ![c] = @ + 1]
    /\ UNCHANGED <<status, orphaned>>

Crash(cut) ==
    /\ \A c \in cut : runs[c] = 1
    /\ orphaned' = orphaned \cup cut
    /\ UNCHANGED <<status, runs>>

End(c, how) ==
    /\ status[c] = "open"
    /\ status' = [status EXCEPT ![c] = how]
    /\ UNCHANGED <<runs, orphaned>>

Next ==
    \/ \E c \in Calls : Begin(c) \/ Execute(c) \/ \E how \in Ends : End(c, how)
    \/ \E cut \in SUBSET Calls : Crash(cut)

Spec == Init /\ [][Next]_vars
=============================================================================
