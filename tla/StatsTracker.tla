---------------------------- MODULE StatsTracker ----------------------------
(***************************************************************************)
(* The activity counters of a ThreadPoolXMLRPCServer (_StatsTracker in     *)
(* server.py).  Every record_* method runs under the tracker's own lock,   *)
(* so each one is a single atomic change: an operator on the record of     *)
(* counters.                                                               *)
(***************************************************************************)
EXTENDS Integers

Policies == {"block", "close", "fault", "http_503"}

(* Counters are Python integers: only the order of the calls keeps the two *)
(* gauges, submitted and active, from going below zero.                    *)
TrackerState ==
    [submitted : Int, active : Int, completed : Int, errored : Int,
     rejected_close : Int, rejected_fault : Int, rejected_503 : Int]

ZeroStats ==
    [submitted |-> 0, active |-> 0, completed |-> 0, errored |-> 0,
     rejected_close |-> 0, rejected_fault |-> 0, rejected_503 |-> 0]

RecordSubmitted(s) == [s EXCEPT !.submitted = @ + 1]

(* The request leaves the waiting gauge without entering the active one. *)
MutRecordStarted(s) == [s EXCEPT !.submitted = @ - 1]
RecordStarted(s) == [s EXCEPT !.submitted = @ - 1, !.active = @ + 1]

(* The active gauge is not lowered. *)
MutRecordCompleted(s) == [s EXCEPT !.completed = @ + 1]
RecordCompleted(s) == [s EXCEPT !.active = @ - 1, !.completed = @ + 1]

(* The wrong gauge is lowered. *)
MutRecordErrored(s) == [s EXCEPT !.submitted = @ - 1, !.errored = @ + 1]
RecordErrored(s) == [s EXCEPT !.active = @ - 1, !.errored = @ + 1]

RecordRejectedClose(s) == [s EXCEPT !.rejected_close = @ + 1]
RecordRejectedFault(s) == [s EXCEPT !.rejected_fault = @ + 1]
RecordRejected503(s) == [s EXCEPT !.rejected_503 = @ + 1]

(* A rejection is not counted. *)
MutRecordRejected(s, policy) == s

(* The counter _reject_request picks under each policy. *)
RecordRejected(s, policy) ==
    CASE policy = "fault"    -> RecordRejectedFault(s)
      [] policy = "http_503" -> RecordRejected503(s)
      [] OTHER               -> RecordRejectedClose(s)

(* Everything the tracker has been told of, whatever became of it. *)
Recorded(s) ==
    s.submitted + s.active + s.completed + s.errored
      + s.rejected_close + s.rejected_fault + s.rejected_503
=============================================================================
