----------------------- MODULE ThreadPoolCountingProofs -----------------------
(***************************************************************************)
(* What the counters of ThreadPoolServer say of its connections: the       *)
(* ledger, whatever fails, and the two gauges, as long as nothing but the  *)
(* clients and the pool's closing makes requests fail.                     *)
(***************************************************************************)
EXTENDS ThreadPoolOwnershipProofs

(* What each method of the tracker does to the sum of all counters. *)
LEMMA LedgerSteps ==
    ASSUME NEW s \in TrackerState, NEW p
    PROVE  /\ Recorded(s) \in Int
           /\ Recorded(RecordSubmitted(s)) = Recorded(s) + 1
           /\ Recorded(RecordRejected(s, p)) = Recorded(s) + 1
           /\ Recorded(RecordStarted(s)) = Recorded(s)
           /\ Recorded(RecordCompleted(s)) = Recorded(s)
           /\ Recorded(RecordErrored(s)) = Recorded(s)
  <1>1. Recorded(s) \in Int
    BY DEF TrackerState, Recorded
  <1>2. Recorded(RecordSubmitted(s)) = Recorded(s) + 1
    BY DEF TrackerState, Recorded, RecordSubmitted
  <1>3. /\ Recorded(RecordRejectedClose(s)) = Recorded(s) + 1
        /\ Recorded(RecordRejectedFault(s)) = Recorded(s) + 1
        /\ Recorded(RecordRejected503(s)) = Recorded(s) + 1
    BY DEF TrackerState, Recorded, RecordRejectedClose, RecordRejectedFault, RecordRejected503
  <1>4. Recorded(RecordRejected(s, p)) = Recorded(s) + 1
    BY <1>3 DEF RecordRejected
  <1>5. Recorded(RecordStarted(s)) = Recorded(s)
    BY DEF TrackerState, Recorded, RecordStarted
  <1>6. Recorded(RecordCompleted(s)) = Recorded(s)
    BY DEF TrackerState, Recorded, RecordCompleted
  <1>7. Recorded(RecordErrored(s)) = Recorded(s)
    BY DEF TrackerState, Recorded, RecordErrored
  <1>8. QED
    BY <1>1, <1>2, <1>4, <1>5, <1>6, <1>7

(* What they do to the two gauges. *)
LEMMA GaugeSteps ==
    ASSUME NEW s \in TrackerState, NEW p
    PROVE  /\ RecordSubmitted(s).submitted = s.submitted + 1
           /\ RecordSubmitted(s).active = s.active
           /\ RecordStarted(s).submitted = s.submitted - 1
           /\ RecordStarted(s).active = s.active + 1
           /\ RecordCompleted(s).submitted = s.submitted
           /\ RecordCompleted(s).active = s.active - 1
           /\ RecordErrored(s).submitted = s.submitted
           /\ RecordErrored(s).active = s.active - 1
           /\ RecordRejected(s, p).submitted = s.submitted
           /\ RecordRejected(s, p).active = s.active
  <1>1. /\ RecordSubmitted(s).submitted = s.submitted + 1
        /\ RecordSubmitted(s).active = s.active
    BY DEF TrackerState, RecordSubmitted
  <1>2. /\ RecordStarted(s).submitted = s.submitted - 1
        /\ RecordStarted(s).active = s.active + 1
    BY DEF TrackerState, RecordStarted
  <1>3. /\ RecordCompleted(s).submitted = s.submitted
        /\ RecordCompleted(s).active = s.active - 1
    BY DEF TrackerState, RecordCompleted
  <1>4. /\ RecordErrored(s).submitted = s.submitted
        /\ RecordErrored(s).active = s.active - 1
    BY DEF TrackerState, RecordErrored
  <1>5. /\ RecordRejected(s, p).submitted = s.submitted
        /\ RecordRejected(s, p).active = s.active
    BY DEF TrackerState, RecordRejected, RecordRejectedClose, RecordRejectedFault,
           RecordRejected503
  <1>6. QED
    BY <1>1, <1>2, <1>3, <1>4, <1>5

-----------------------------------------------------------------------------
(* The ledger.                                                             *)

(* Whoever holds a connection holds an accepted one, and the kernel has    *)
(* reset none that may still be accepted.                                  *)
Known ==
    /\ apc \notin {"select", "stopped"} => areq \in Accepted
    /\ \A c \in Conns : IsQueued(c) => c \in Accepted
    /\ \A w \in Busy : job[w] \in Accepted
    /\ \A c \in Conns : sock[c] \in {"none", "backlog"} => outcome[c] # "reset"

LedgerInv == TypeOK /\ Known /\ EveryConnectionCounted

LEMMA AcceptedType == IsFiniteSet(Accepted) /\ Cardinality(Accepted) \in Nat
  BY EnvironmentAssumption, FS_Subset, FS_CardinalityType DEF Accepted

LEMMA InitLedger == Init => LedgerInv
  <1> SUFFICES ASSUME Init PROVE LedgerInv
    OBVIOUS
  <1>1. Accepted = {} /\ Busy = {}
    BY DEF Init, Accepted, Busy, BusyPcs
  <1>2. Cardinality(Accepted) = 0
    BY <1>1, FS_EmptySet
  <1>3. Recorded(stats) = 0
    BY DEF Init, ZeroStats, Recorded
  <1>4. EveryConnectionCounted
    BY <1>2, <1>3 DEF Init, EveryConnectionCounted, Count
  <1>5. \A c : ~IsQueued(c)
    BY DEF Init, IsQueued
  <1>6. QED
    BY <1>1, <1>4, <1>5, InitTypeOK DEF Init, LedgerInv, Known

(* Accepting apart, what happens to a held connection leaves it accepted,  *)
(* and to another one not.                                                 *)
LEMMA AcceptedKept ==
    ASSUME TypeOK, Known,
           \A c \in Conns :
              \/ sock'[c] = sock[c] /\ outcome'[c] = outcome[c]
              \/ /\ c \in Accepted
                 /\ sock'[c] \in {"open", "closed"} /\ outcome'[c] # "reset"
              \/ sock[c] = "none" /\ sock'[c] = "backlog" /\ outcome'[c] = outcome[c]
              \/ sock[c] = "backlog" /\ outcome'[c] = "reset" /\ sock'[c] = "closed"
    PROVE  /\ Accepted' = Accepted
           /\ \A c \in Conns : sock'[c] \in {"none", "backlog"} => outcome'[c] # "reset"
  BY DEF Known, Accepted

LEMMA OthersLedger ==
    ASSUME LedgerInv,
           \/ \E c \in Conns : Client(c)
           \/ \E k \in Closers : Closer(k)
           \/ UNCHANGED vars
    PROVE  Known' /\ EveryConnectionCounted'
  <1> USE DEF LedgerInv
  <1>1. UNCHANGED <<apc, areq, queue, wpc, job, stats>>
    BY DEF Client, Connect, PeerStep, Closer, CallShutdown, LoopStopped, CallShutdownExecutor,
           TakeLock, ExecutorShutdown, QueueKept, JoinWorkers, JoinItself, DropLock, Unlisten,
           vars, acceptVars, poolVars, closeVars
  <1>2. \A c \in Conns :
           \/ sock'[c] = sock[c] /\ outcome'[c] = outcome[c]
           \/ sock[c] = "none" /\ sock'[c] = "backlog" /\ outcome'[c] = outcome[c]
           \/ sock[c] = "backlog" /\ outcome'[c] = "reset" /\ sock'[c] = "closed"
    BY DEF Client, Connect, PeerStep, Closer, CallShutdown, LoopStopped, CallShutdownExecutor,
           TakeLock, ExecutorShutdown, JoinWorkers, JoinItself, DropLock, Unlisten,
           vars, connVars, TypeOK, ConnTypes
  <1>3. /\ Accepted' = Accepted
        /\ \A c \in Conns : sock'[c] \in {"none", "backlog"} => outcome'[c] # "reset"
    BY <1>2, AcceptedKept
  <1>4. Busy' = Busy /\ \A c : IsQueued(c)' = IsQueued(c)
    BY <1>1 DEF Busy, IsQueued
  <1>5. QED
    BY <1>1, <1>3, <1>4 DEF Known, EveryConnectionCounted

LEMMA WorkerLedger ==
    ASSUME LedgerInv, NEW w \in Workers, Worker(w)
    PROVE  Known' /\ EveryConnectionCounted'
  <1> USE DEF LedgerInv
  <1>1. UNCHANGED <<apc, areq>>
    BY DEF Worker, Get, Exit, Start, HandleReturns, HandleRaises, CloseServed,
           Complete, Fail, CountFailure, Release, Loop, acceptVars
  <1>2. w \in Busy => job[w] \in Accepted
    BY DEF Known
  <1>3. \A c \in Conns :
           \/ sock'[c] = sock[c] /\ outcome'[c] = outcome[c]
           \/ /\ c \in Accepted
              /\ sock'[c] \in {"open", "closed"} /\ outcome'[c] # "reset"
    <2>1. CASE HandleReturns(w) \/ HandleRaises(w)
      BY <1>2, <2>1 DEF HandleReturns, HandleRaises, Busy, BusyPcs, Accepted, TypeOK, ConnTypes
    <2>2. CASE CloseServed(w) \/ Fail(w)
      BY <1>2, <2>2 DEF CloseServed, Fail, Busy, BusyPcs, Accepted, TypeOK, ConnTypes
    <2>3. CASE ~(HandleReturns(w) \/ HandleRaises(w) \/ CloseServed(w) \/ Fail(w))
      BY <2>3 DEF Worker, Get, Exit, Start, Complete, CountFailure, Release, Loop, connVars
    <2>4. QED
      BY <2>1, <2>2, <2>3
  <1>4. /\ Accepted' = Accepted
        /\ \A c \in Conns : sock'[c] \in {"none", "backlog"} => outcome'[c] # "reset"
    BY <1>3, AcceptedKept
  <1>5. /\ \A c \in Conns : IsQueued(c)' => c \in Accepted
        /\ \A v \in Busy' : job'[v] \in Accepted
    <2>1. CASE Get(w)
      <3>1. /\ queue # <<>> /\ queue' = Tail(queue) /\ queue \in Seq(Conns)
            /\ Busy' = Busy \cup {w} /\ job' = [job EXCEPT ![w] = Head(queue)]
        BY <2>1 DEF Get, Busy, BusyPcs, TypeOK, PoolTypes
      <3>2. /\ Len(queue) \in Nat /\ Len(queue') = Len(queue) - 1
            /\ DOMAIN queue = 1 .. Len(queue) /\ DOMAIN queue' = 1 .. Len(queue')
            /\ \A i \in 1 .. Len(queue') : queue'[i] = queue[i + 1]
            /\ 1 \in DOMAIN queue /\ Head(queue) = queue[1] /\ Head(queue) \in Conns
        BY <3>1, HeadTailProperties, LenProperties, EmptySeq
      <3>3. \A i \in DOMAIN queue' : i + 1 \in DOMAIN queue /\ queue'[i] = queue[i + 1]
        BY <3>2
      <3>4. IsQueued(Head(queue)) /\ \A c : IsQueued(c)' => IsQueued(c)
        BY <3>2, <3>3 DEF IsQueued
      <3>5. QED
        BY <3>1, <3>2, <3>4 DEF Known, TypeOK, PoolTypes
    <2>2. CASE Release(w)
      <3>1. /\ queue' = queue /\ Busy' = Busy \ {w}
            /\ \A v \in Busy' : job'[v] = job[v]
        BY <2>2 DEF Release, Busy, BusyPcs, TypeOK, PoolTypes
      <3>2. QED
        BY <3>1 DEF Known, IsQueued
    <2>3. CASE ~Get(w) /\ ~Release(w)
      <3>1. UNCHANGED <<Busy, job, queue>>
        BY <2>3, WorkerMoves
      <3>2. QED
        BY <3>1 DEF Known, IsQueued
    <2>4. QED
      BY <2>1, <2>2, <2>3
  <1>6. Recorded(stats') = Recorded(stats)
    BY LedgerSteps
    DEF Worker, Get, Exit, Start, HandleReturns, HandleRaises, CloseServed,
        Complete, Fail, CountFailure, Release, Loop, TypeOK
  <1>7. QED
    BY <1>1, <1>4, <1>5, <1>6 DEF Known, EveryConnectionCounted

LEMMA AcceptLedger ==
    ASSUME LedgerInv, AcceptThread
    PROVE  Known' /\ EveryConnectionCounted'
  <1> USE DEF LedgerInv
  <1>1. /\ Recorded(stats) \in Int /\ Cardinality(Accepted) \in Nat
        /\ IsFiniteSet(Accepted)
    BY LedgerSteps, AcceptedType DEF TypeOK
  <1>2. Busy' = Busy /\ \A w \in Busy : job'[w] = job[w]
    <2>1. CASE Adjust
      BY <2>1 DEF Adjust, Busy, Started, BusyPcs, TypeOK, PoolTypes
    <2>2. CASE ~Adjust
      BY <2>2 DEF AcceptThread, AcceptConn, StopServing, Admit, Refuse, Record, Submit, Undo,
           Abandon, Reject, Respond, Drain, CloseRejected, poolVars, Busy
    <2>3. QED
      BY <2>1, <2>2
  <1>3. ASSUME NEW c \in Conns, AcceptConn(c) PROVE Known' /\ EveryConnectionCounted'
    <2>1. Accepted' = Accepted \cup {c} /\ c \notin Accepted
      BY <1>3 DEF AcceptConn, Known, Accepted, TypeOK, ConnTypes
    <2>2. Cardinality(Accepted)' = Cardinality(Accepted) + 1
      <3>1. Cardinality(Accepted \cup {c}) = Cardinality(Accepted) + 1
        BY <1>1, <2>1, FS_AddElement
      <3>2. QED
        BY <2>1, <3>1
    <2>3. EveryConnectionCounted'
      BY <1>1, <1>3, <2>2 DEF AcceptConn, EveryConnectionCounted, Count
    <2>4. queue' = queue /\ \A d : IsQueued(d)' = IsQueued(d)
      BY <1>3 DEF AcceptConn, poolVars, IsQueued
    <2>5. QED
      BY <1>2, <1>3, <2>1, <2>3, <2>4 DEF AcceptConn, Known, TypeOK, ConnTypes
  <1>4. ASSUME \A c \in Conns : ~AcceptConn(c) PROVE Known' /\ EveryConnectionCounted'
    <2>1. \A c \in Conns :
             \/ sock'[c] = sock[c] /\ outcome'[c] = outcome[c]
             \/ /\ c \in Accepted
                /\ sock'[c] \in {"open", "closed"} /\ outcome'[c] # "reset"
      <3>1. apc \in {"abandon", "respond", "close"} => areq \in Accepted
        BY DEF Known
      <3>2. QED
        BY <1>4, <3>1
        DEF AcceptThread, StopServing, Admit, Refuse, Record, Submit, Adjust, Undo, Abandon,
            Reject, Respond, Drain, CloseRejected, connVars, Accepted, TypeOK, ConnTypes
    <2>2. /\ Accepted' = Accepted
          /\ \A c \in Conns : sock'[c] \in {"none", "backlog"} => outcome'[c] # "reset"
      BY <2>1, AcceptedKept
    <2>3. \A c \in Conns : IsQueued(c)' => c \in Accepted
      <3>1. CASE Submit /\ ~execShut
        <4>1. areq \in Accepted
          BY <3>1 DEF Submit, Known
        <4>2. \A x : IsQueued(x)' => IsQueued(x) \/ x = areq
          BY <3>1, Queueing DEF IsQueued, Submit, TypeOK, AcceptTypes, PoolTypes
        <4>3. QED
          BY <4>1, <4>2 DEF Known
      <3>2. CASE ~(Submit /\ ~execShut)
        <4>1. queue' = queue
          BY <1>4, <3>2 DEF AcceptThread, StopServing, Admit, Refuse, Record, Submit,
             Adjust, Undo, Abandon, Reject, Respond, Drain, CloseRejected, poolVars
        <4>2. QED
          BY <4>1 DEF Known, IsQueued
      <3>3. QED
        BY <3>1, <3>2
    <2>4. apc' \notin {"select", "stopped"} => areq' = areq /\ apc \notin {"select", "stopped"}
      BY <1>4 DEF AcceptThread, StopServing, Admit, Refuse, Record, Submit, Adjust, Undo,
         Abandon, Reject, Respond, Drain, CloseRejected
    <2>5. Known'
      BY <1>2, <2>2, <2>3, <2>4 DEF Known
    <2>6. Recorded(stats') + Count(apc' \in {"acquire", "record", "reject"})
            = Recorded(stats) + Count(apc \in {"acquire", "record", "reject"})
      <3>1. CASE Record \/ Reject
        BY <1>1, <3>1, LedgerSteps DEF Record, Reject, Count, TypeOK
      <3>2. CASE ~(Record \/ Reject)
        BY <1>4, <3>2 DEF AcceptThread, StopServing, Admit, Refuse, Submit, Adjust, Undo,
           Abandon, Respond, Drain, CloseRejected, Count
      <3>3. QED
        BY <3>1, <3>2
    <2>7. QED
      BY <2>2, <2>5, <2>6 DEF EveryConnectionCounted
  <1>5. QED
    BY <1>3, <1>4

(* Every accepted connection is in the ledger once, from the moment        *)
(* process_request has decided on it, whatever fails.                      *)
THEOREM LedgerIsComplete == Spec => []EveryConnectionCounted
  <1>1. LedgerInv /\ [Next]_vars => Known' /\ EveryConnectionCounted'
    BY OthersLedger, WorkerLedger, AcceptLedger DEF Next, StandStill
  <1>2. QED
    BY <1>1, InitLedger, TypeCorrect, PTL DEF Spec, LedgerInv

-----------------------------------------------------------------------------
(* The gauges.                                                             *)

Starting == {w \in Workers : wpc[w] = "start"}

(* The queued gauge is exact; the active one is off by this much. *)
QueuedExact ==
    stats.submitted = Count(apc \in {"submit", "undo", "abandon"}) + Len(queue)
                        + Cardinality(Starting) + Cardinality(Having("dropped"))

Surplus == stats.active - Cardinality(Active)

GaugeInv == TypeOK /\ Owned /\ Staged /\ QueuedExact

LEMMA GaugeTypes ==
    ASSUME TypeOK
    PROVE  /\ stats \in TrackerState /\ stats.submitted \in Int /\ stats.active \in Int
           /\ Len(queue) \in Nat
           /\ Cardinality(Active) \in Nat /\ Cardinality(Starting) \in Nat
           /\ Cardinality(Having("dropped")) \in Nat
  <1>1. IsFiniteSet(Active) /\ IsFiniteSet(Starting) /\ IsFiniteSet(Having("dropped"))
    BY PoolAssumption, EnvironmentAssumption, FS_Subset DEF Active, Starting, Having
  <1>2. QED
    BY <1>1, FS_CardinalityType, LenProperties DEF TypeOK, TrackerState, PoolTypes

LEMMA GaugeTypesNext ==
    ASSUME TypeOK'
    PROVE  stats' \in TrackerState /\ stats'.active \in Int /\ Cardinality(Active)' \in Nat
  <1>1. IsFiniteSet(Active')
    BY PoolAssumption, FS_Subset DEF Active
  <1>2. Cardinality(Active') \in Nat
    BY <1>1, FS_CardinalityType
  <1>3. QED
    BY <1>2 DEF TypeOK, TrackerState

LEMMA GaugesDefinition == TypeOK => (GaugesAgree <=> QueuedExact /\ Surplus = 0)
  BY GaugeTypes DEF GaugesAgree, QueuedExact, Surplus, Starting

LEMMA InitGauges == Init => QueuedExact /\ Surplus = 0
  <1> SUFFICES ASSUME Init PROVE QueuedExact /\ Surplus = 0
    OBVIOUS
  <1>1. Active = {} /\ Having("dropped") = {} /\ Starting = {}
    BY DEF Init, Active, ActivePcs, Having, Starting
  <1>2. Cardinality({}) = 0 /\ Len(queue) = 0
    BY FS_EmptySet DEF Init
  <1>3. stats.active = 0 /\ stats.submitted = 0 /\ apc = "select"
    BY DEF Init, ZeroStats
  <1>4. Count(apc \in {"submit", "undo", "abandon"}) = 0
    BY <1>3 DEF Count
  <1>5. Cardinality(Active) = 0 /\ Cardinality(Having("dropped")) = 0 /\ Cardinality(Starting) = 0
    BY <1>1, <1>2
  <1>6. QED
    BY <1>2, <1>3, <1>4, <1>5 DEF QueuedExact, Surplus

(* What a worker's step from one place to another does to the two sets.    *)
LEMMA PlaceCounts ==
    ASSUME TypeOK, NEW w \in Workers, NEW p, wpc' = [wpc EXCEPT ![w] = p]
    PROVE  /\ Cardinality(Active)' =
                CASE wpc[w] \notin ActivePcs /\ p \in ActivePcs -> Cardinality(Active) + 1
                  [] wpc[w] \in ActivePcs /\ p \notin ActivePcs -> Cardinality(Active) - 1
                  [] OTHER -> Cardinality(Active)
           /\ Cardinality(Starting)' =
                CASE wpc[w] # "start" /\ p = "start" -> Cardinality(Starting) + 1
                  [] wpc[w] = "start" /\ p # "start" -> Cardinality(Starting) - 1
                  [] OTHER -> Cardinality(Starting)
  <1>1. /\ Active = Into(Workers, wpc, ActivePcs) /\ Active' = Into(Workers, wpc', ActivePcs)
        /\ Starting = Into(Workers, wpc, {"start"}) /\ Starting' = Into(Workers, wpc', {"start"})
    BY DEF Active, Starting, Into
  <1>2. IsFiniteSet(Workers)
    BY PoolAssumption
  <1>3. wpc'[w] = p /\ \A v \in Workers \ {w} : wpc'[v] = wpc[v]
    BY DEF TypeOK, PoolTypes
  <1> DEFINE N(S) == Cardinality(Into(Workers, wpc, S))
             M(S) == Cardinality(Into(Workers, wpc', S))
  <1>4. ASSUME NEW S
        PROVE  /\ (wpc[w] \in S <=> wpc'[w] \in S) => M(S) = N(S)
               /\ wpc[w] \notin S /\ wpc'[w] \in S => M(S) = N(S) + 1
               /\ wpc[w] \in S /\ wpc'[w] \notin S => M(S) = N(S) - 1
    BY <1>2, <1>3, CountUpdate
  <1> HIDE DEF N, M
  <1>5. /\ Cardinality(Active) = N(ActivePcs) /\ Cardinality(Active)' = M(ActivePcs)
        /\ Cardinality(Starting) = N({"start"}) /\ Cardinality(Starting)' = M({"start"})
    BY <1>1 DEF N, M
  <1>6. Cardinality(Active)' =
          CASE wpc[w] \notin ActivePcs /\ p \in ActivePcs -> Cardinality(Active) + 1
            [] wpc[w] \in ActivePcs /\ p \notin ActivePcs -> Cardinality(Active) - 1
            [] OTHER -> Cardinality(Active)
    BY <1>3, <1>4, <1>5
  <1>7. Cardinality(Starting)' =
          CASE wpc[w] # "start" /\ p = "start" -> Cardinality(Starting) + 1
            [] wpc[w] = "start" /\ p # "start" -> Cardinality(Starting) - 1
            [] OTHER -> Cardinality(Starting)
    BY <1>3, <1>4, <1>5
  <1>8. QED
    BY <1>6, <1>7

(* A worker whose handle_error raises stays in the active gauge for good;  *)
(* no other step moves the gauge apart from the workers it counts.         *)
LEMMA WorkerSurplus ==
    ASSUME TypeOK, NEW w \in Workers, Worker(w)
    PROVE  /\ Surplus \in Int
           /\ Surplus' = IF Fail(w) /\ wpc'[w] # "fail" THEN Surplus + 1 ELSE Surplus
  <1> DEFINE a == Cardinality(Active)
  <1>1. stats \in TrackerState /\ stats.active \in Int /\ a \in Nat
    BY GaugeTypes
  <1>2. CASE Fail(w) /\ wpc'[w] # "fail"
    <2>1. /\ stats' = stats
          /\ wpc[w] = "error" /\ wpc' = [wpc EXCEPT ![w] = "release"]
      BY <1>2 DEF Fail, TypeOK, PoolTypes
    <2>2. "error" \in ActivePcs /\ "release" \notin ActivePcs
      BY DEF ActivePcs
    <2>3. a' = a - 1
      BY <2>1, <2>2, PlaceCounts
    <2>4. QED
      BY <1>1, <1>2, <2>1, <2>3 DEF Surplus
  <1>3. CASE Start(w)
    <2>1. a' = a + 1
      BY <1>3, PlaceCounts DEF Start, ActivePcs
    <2>2. stats' = RecordStarted(stats) /\ ~Fail(w)
      BY <1>3 DEF Start, Fail
    <2>3. stats'.active = stats.active + 1
      BY <1>1, <2>2, GaugeSteps
    <2>4. QED
      BY <1>1, <2>1, <2>2, <2>3 DEF Surplus
  <1>4. CASE Complete(w) \/ CountFailure(w)
    <2>1. a' = a - 1
      BY <1>4, PlaceCounts DEF Complete, CountFailure, ActivePcs
    <2>2. stats'.active = stats.active - 1 /\ ~Fail(w)
      BY <1>1, <1>4, GaugeSteps DEF Complete, CountFailure, Fail
    <2>3. QED
      BY <1>1, <2>1, <2>2 DEF Surplus
  <1>5. CASE \/ Get(w) \/ Exit(w) \/ HandleReturns(w) \/ HandleRaises(w) \/ CloseServed(w)
             \/ (Fail(w) /\ wpc'[w] = "fail") \/ Release(w) \/ Loop(w)
    <2>1. stats' = stats /\ ~(Fail(w) /\ wpc'[w] # "fail")
      BY <1>5 DEF Get, Exit, HandleReturns, HandleRaises, CloseServed, Fail, Release, Loop
    <2>2. PICK p : wpc' = [wpc EXCEPT ![w] = p] /\ (wpc[w] \in ActivePcs <=> p \in ActivePcs)
      BY <1>5 DEF Get, Exit, HandleReturns, HandleRaises, CloseServed, Fail, Release, Loop,
                  ActivePcs, TypeOK, PoolTypes
    <2>3. a' = a
      BY <2>2, PlaceCounts
    <2>4. QED
      BY <1>1, <2>1, <2>3 DEF Surplus
  <1>6. QED
    BY <1>2, <1>3, <1>4, <1>5 DEF Worker

(* Nor does the accept thread, which counts and starts threads. *)
LEMMA AcceptCounts ==
    ASSUME TypeOK, AcceptThread
    PROVE  /\ Cardinality(Active)' = Cardinality(Active)
           /\ Cardinality(Starting)' = Cardinality(Starting)
           /\ Surplus' = Surplus
  <1> DEFINE a == Cardinality(Active)
             b == Cardinality(Starting)
  <1>1. a' = a /\ b' = b
    <2>1. CASE wpc' = wpc
      BY <2>1 DEF Active, Starting
    <2>2. ASSUME NEW w \in Workers \ Started, wpc' = [wpc EXCEPT ![w] = "get"]
          PROVE  a' = a /\ b' = b
      <3>1. w \in Workers /\ wpc[w] = "unstarted"
        BY <2>2 DEF Started
      <3>2. "unstarted" \notin ActivePcs /\ "get" \notin ActivePcs
        BY DEF ActivePcs
      <3>3. /\ wpc[w] \notin ActivePcs /\ wpc[w] # "start"
            /\ wpc' = [wpc EXCEPT ![w] = "get"]
        BY <2>2, <3>1, <3>2
      <3>4. QED
        BY <3>1, <3>2, <3>3, PlaceCounts
    <2>3. QED
      BY <2>1, <2>2
      DEF AcceptThread, AcceptConn, StopServing, Admit, Refuse, Record, Submit, Adjust, Undo,
          Abandon, Reject, Respond, Drain, CloseRejected, poolVars
  <1>2. stats \in TrackerState
    BY GaugeTypes
  <1>3. stats'.active = stats.active
    <2>1. CASE Record \/ Reject
      BY <1>2, <2>1, GaugeSteps DEF Record, Reject
    <2>2. CASE ~(Record \/ Reject)
      BY <2>2 DEF AcceptThread, AcceptConn, StopServing, Admit, Refuse, Submit, Adjust, Undo,
         Abandon, Respond, Drain, CloseRejected
    <2>3. QED
      BY <2>1, <2>2
  <1>4. QED
    BY <1>1, <1>3 DEF Surplus

(* A step that gives no connection up, nor takes one back. *)
LEMMA NoneDropped ==
    ASSUME \A c \in Conns : outcome'[c] = "dropped" <=> outcome[c] = "dropped"
    PROVE  Having("dropped")' = Having("dropped")
  BY DEF Having

LEMMA OthersGauges ==
    ASSUME GaugeInv,
           \/ \E c \in Conns : Client(c)
           \/ \E k \in Closers : Closer(k)
           \/ UNCHANGED vars
    PROVE  QueuedExact' /\ Surplus' = Surplus
  <1> USE DEF GaugeInv
  <1>1. UNCHANGED <<apc, queue, wpc, stats>>
    BY DEF Client, Connect, PeerStep, Closer, CallShutdown, LoopStopped, CallShutdownExecutor,
           TakeLock, ExecutorShutdown, QueueKept, JoinWorkers, JoinItself, DropLock, Unlisten,
           vars, acceptVars, poolVars, closeVars
  <1>2. \A c \in Conns : outcome'[c] = outcome[c] \/ (sock[c] = "backlog" /\ outcome'[c] = "reset")
    BY DEF Client, Connect, PeerStep, Closer, CallShutdown, LoopStopped, CallShutdownExecutor,
           TakeLock, ExecutorShutdown, JoinWorkers, JoinItself, DropLock, Unlisten,
           vars, connVars, TypeOK, ConnTypes
  <1>3. Having("dropped")' = Having("dropped")
    BY <1>2, NoneDropped DEF Owned, Unheld
  <1>4. Active' = Active /\ Starting' = Starting
    BY <1>1 DEF Active, Starting
  <1>5. QED
    BY <1>1, <1>3, <1>4 DEF QueuedExact, Surplus

LEMMA WorkerGauges ==
    ASSUME GaugeInv, NEW w \in Workers, Worker(w)
    PROVE  /\ QueuedExact'
           /\ Surplus' >= Surplus
           /\ "handle_error" \notin Faults => Surplus' = Surplus
  <1> USE DEF GaugeInv
  <1>1. UNCHANGED apc
    BY DEF Worker, Get, Exit, Start, HandleReturns, HandleRaises, CloseServed,
           Complete, Fail, CountFailure, Release, Loop, acceptVars
  <1>2. Having("dropped")' = Having("dropped")
    <2>1. CASE HandleReturns(w) \/ HandleRaises(w)
      <3>1. job[w] \in Conns /\ outcome[job[w]] = "none"
        BY <2>1 DEF HandleReturns, HandleRaises, Staged, Busy, BusyPcs, TypeOK, PoolTypes
      <3>2. /\ outcome'[job[w]] # "dropped"
            /\ \A c \in Conns : c # job[w] => outcome'[c] = outcome[c]
        BY <2>1, <3>1 DEF HandleReturns, HandleRaises, TypeOK, ConnTypes
      <3>3. QED
        BY <3>1, <3>2, NoneDropped
    <2>2. CASE ~(HandleReturns(w) \/ HandleRaises(w))
      <3>1. outcome' = outcome
        BY <2>2 DEF Worker, Get, Exit, Start, CloseServed, Complete, Fail, CountFailure, Release,
           Loop, connVars
      <3>2. QED
        BY <3>1 DEF Having
    <2>3. QED
      BY <2>1, <2>2
  <1> DEFINE b == Cardinality(Starting)
             d == Cardinality(Having("dropped"))
             n == Count(apc \in {"submit", "undo", "abandon"})
  <1>3. /\ stats \in TrackerState /\ stats.submitted \in Int
        /\ Len(queue) \in Nat /\ b \in Nat /\ d \in Nat
    BY GaugeTypes
  <1>4. stats.submitted = n + Len(queue) + b + d
    BY DEF QueuedExact
  <1>5. n \in Int
    BY DEF Count
  <1>6. n' = n /\ d' = d
    BY <1>1, <1>2
  <1>7. /\ Surplus' >= Surplus
        /\ "handle_error" \notin Faults => Surplus' = Surplus
    <2>1. /\ Surplus \in Int
          /\ Surplus' = IF Fail(w) /\ wpc'[w] # "fail" THEN Surplus + 1 ELSE Surplus
      BY WorkerSurplus
    <2>2. Fail(w) /\ wpc'[w] # "fail" => "handle_error" \in Faults
      BY DEF Fail, TypeOK, PoolTypes
    <2>3. QED
      BY <2>1, <2>2
  <1>8. SUFFICES stats'.submitted = n + Len(queue') + b' + d
    BY <1>6, <1>7 DEF QueuedExact
  <1>9. CASE Get(w)
    <2>1. Len(queue') = Len(queue) - 1 /\ stats' = stats
      BY <1>9, HeadTailProperties DEF Get, TypeOK, PoolTypes
    <2>2. b' = b + 1
      BY <1>9, PlaceCounts DEF Get
    <2>3. QED
      BY <1>3, <1>4, <1>5, <2>1, <2>2
  <1>10. CASE Start(w)
    <2>1. b' = b - 1
      <3>1. wpc[w] = "start" /\ wpc' = [wpc EXCEPT ![w] = "handle"]
        BY <1>10 DEF Start
      <3>2. QED
        BY <3>1, PlaceCounts DEF ActivePcs
    <2>2. stats' = RecordStarted(stats) /\ queue' = queue
      BY <1>10 DEF Start
    <2>3. stats'.submitted = stats.submitted - 1
      BY <1>3, <2>2, GaugeSteps
    <2>4. QED
      BY <1>3, <1>4, <1>5, <2>1, <2>2, <2>3
  <1>11. CASE Complete(w) \/ CountFailure(w)
    <2>1. b' = b
      BY <1>11, PlaceCounts DEF Complete, CountFailure
    <2>2. stats'.submitted = stats.submitted /\ queue' = queue
      BY <1>3, <1>11, GaugeSteps DEF Complete, CountFailure
    <2>3. QED
      BY <1>3, <1>4, <1>5, <2>1, <2>2
  <1>12. CASE \/ Exit(w) \/ HandleReturns(w) \/ HandleRaises(w) \/ CloseServed(w)
              \/ Fail(w) \/ Release(w) \/ Loop(w)
    <2>1. queue' = queue /\ stats' = stats
      BY <1>12 DEF Exit, HandleReturns, HandleRaises, CloseServed, Fail, Release, Loop
    <2>2. PICK p : wpc' = [wpc EXCEPT ![w] = p] /\ p # "start" /\ wpc[w] # "start"
      BY <1>12 DEF Exit, HandleReturns, HandleRaises, CloseServed, Fail, Release, Loop,
                   TypeOK, PoolTypes
    <2>3. b' = b
      BY <2>2, PlaceCounts
    <2>4. QED
      BY <1>3, <1>4, <1>5, <2>1, <2>3
  <1>13. QED
    BY <1>9, <1>10, <1>11, <1>12 DEF Worker

LEMMA AcceptGauges ==
    ASSUME GaugeInv, AcceptThread, "thread_start" \notin Faults
    PROVE  QueuedExact' /\ Surplus' = Surplus
  <1> USE DEF GaugeInv
  <1> DEFINE b == Cardinality(Starting)
             d == Cardinality(Having("dropped"))
             n == Count(apc \in {"submit", "undo", "abandon"})
  <1>1. /\ stats \in TrackerState /\ stats.submitted \in Int
        /\ Len(queue) \in Nat /\ b \in Nat /\ d \in Nat
    BY GaugeTypes
  <1>2. stats.submitted = n + Len(queue) + b + d
    BY DEF QueuedExact
  <1>3. n \in Int /\ n' \in Int
    BY DEF Count
  <1>4. Surplus' = Surplus /\ b' = b
    BY AcceptCounts
  <1>5. SUFFICES stats'.submitted = n' + Len(queue') + b + d'
    BY <1>4 DEF QueuedExact
  <1>6. CASE Record
    <2>1. n' = n + 1
      BY <1>6 DEF Record, Count
    <2>2. d' = d /\ queue' = queue
      BY <1>6 DEF Record, connVars, poolVars, Having
    <2>3. stats'.submitted = stats.submitted + 1
      BY <1>1, <1>6, GaugeSteps DEF Record
    <2>4. QED
      BY <1>1, <1>2, <1>3, <2>1, <2>2, <2>3
  <1>7. CASE Reject
    <2>1. n' = n /\ n = 0
      BY <1>7 DEF Reject, Count
    <2>2. d' = d /\ queue' = queue
      BY <1>7 DEF Reject, connVars, poolVars, Having
    <2>3. stats'.submitted = stats.submitted
      BY <1>1, <1>7, GaugeSteps DEF Reject
    <2>4. QED
      BY <1>1, <1>2, <1>3, <2>1, <2>2, <2>3
  <1>8. CASE Abandon
    <2>1. n' = n - 1
      BY <1>8 DEF Abandon, Count
    <2>2. d' = d + 1
      <3>1. areq \in Conns /\ outcome[areq] = "none"
        BY <1>8 DEF Abandon, Owned, Decided, TypeOK, AcceptTypes
      <3>2. outcome'[areq] = "dropped" /\ \A c \in Conns \ {areq} : outcome'[c] = outcome[c]
        BY <1>8, <3>1 DEF Abandon, TypeOK, ConnTypes
      <3>3. Having("dropped")' = Having("dropped") \cup {areq} /\ areq \notin Having("dropped")
        BY <3>1, <3>2 DEF Having
      <3>4. IsFiniteSet(Having("dropped"))
        BY EnvironmentAssumption, FS_Subset DEF Having
      <3>5. Cardinality(Having("dropped") \cup {areq}) = d + 1
        BY <3>3, <3>4, FS_AddElement
      <3>6. QED
        BY <3>3, <3>5
    <2>3. queue' = queue /\ stats' = stats
      BY <1>8 DEF Abandon, poolVars
    <2>4. QED
      BY <1>1, <1>2, <1>3, <2>1, <2>2, <2>3
  <1>9. CASE Submit /\ ~execShut
    <2>1. n' = n - 1
      BY <1>9 DEF Submit, Count
    <2>2. d' = d /\ stats' = stats
      BY <1>9 DEF Submit, connVars, Having
    <2>3. Len(queue') = Len(queue) + 1
      BY <1>9, AppendProperties DEF Submit, TypeOK, PoolTypes, AcceptTypes
    <2>4. QED
      BY <1>1, <1>2, <1>3, <2>1, <2>2, <2>3
  <1>10. CASE Respond \/ CloseRejected
    <2>1. n' = n
      BY <1>10 DEF Respond, CloseRejected, Count
    <2>2. queue' = queue /\ stats' = stats
      BY <1>10 DEF Respond, CloseRejected, poolVars
    <2>3. areq \in Conns /\ outcome[areq] # "dropped"
      BY <1>10 DEF Respond, CloseRejected, Owned, Decided, Staged, TypeOK, AcceptTypes
    <2>4. d' = d
      <3>1. /\ outcome'[areq] # "dropped"
            /\ \A c \in Conns : c # areq => outcome'[c] = outcome[c]
        BY <1>10, <2>3 DEF Respond, CloseRejected, TypeOK, ConnTypes
      <3>2. QED
        BY <2>3, <3>1, NoneDropped
    <2>5. QED
      BY <1>1, <1>2, <1>3, <2>1, <2>2, <2>4
  <1>11. CASE \/ \E c \in Conns : AcceptConn(c)
              \/ StopServing \/ Admit \/ Refuse \/ (Submit /\ execShut)
              \/ Adjust \/ Undo \/ Drain
    <2>1. n' = n
      BY <1>11 DEF AcceptConn, StopServing, Admit, Refuse, Submit, Adjust, Undo, Drain, Count
    <2>2. queue' = queue /\ stats' = stats /\ outcome' = outcome
      BY <1>11 DEF AcceptConn, StopServing, Admit, Refuse, Submit, Adjust, Undo, Drain, poolVars,
                   connVars
    <2>3. d' = d
      BY <2>2 DEF Having
    <2>4. QED
      BY <1>1, <1>2, <1>3, <2>1, <2>2, <2>3
  <1>12. QED
    BY <1>6, <1>7, <1>8, <1>9, <1>10, <1>11 DEF AcceptThread

(* Also when handle_error raises, queued stays exact, and active never     *)
(* reports less than the requests being served (370-380).                  *)
THEOREM GaugesOutliveErrors ==
    ASSUME "thread_start" \notin Faults
    PROVE  Spec => [](QueuedExact /\ stats.active >= Cardinality(Active))
  <1>1. Init => QueuedExact /\ Surplus \in Nat
    BY InitGauges
  <1>2. ASSUME GaugeInv, Surplus \in Nat, TypeOK', [Next]_vars
        PROVE  QueuedExact' /\ (Surplus \in Nat)'
    <2>1. QueuedExact' /\ Surplus' >= Surplus
      BY <1>2, OthersGauges, WorkerGauges, AcceptGauges DEF Next, StandStill
    <2>2. Surplus' \in Int
      BY <1>2, GaugeTypesNext DEF Surplus
    <2>3. QED
      BY <1>2, <2>1, <2>2
  <1>3. Spec => [](TypeOK /\ Owned /\ Staged)
    BY StageInvariant
  <1>4. TypeOK /\ Surplus \in Nat => stats.active >= Cardinality(Active)
    BY GaugeTypes DEF Surplus
  <1>5. QED
    BY <1>1, <1>2, <1>3, <1>4, PTL DEF Spec, GaugeInv

(* active is the number of requests being served and queued that of the    *)
(* requests waiting, plus those the closed executor refused after they     *)
(* were counted.                                                           *)
THEOREM GaugesAreRight ==
    ASSUME Faults = {}
    PROVE  Spec => []GaugesAgree
  <1>1. GaugeInv /\ Surplus = 0 /\ [Next]_vars => QueuedExact' /\ (Surplus = 0)'
    BY OthersGauges, WorkerGauges, AcceptGauges DEF Next, StandStill
  <1>2. Spec => [](TypeOK /\ Owned /\ Staged)
    BY StageInvariant
  <1>3. QED
    BY <1>1, <1>2, InitGauges, GaugesDefinition, PTL DEF Spec, GaugeInv

(* "Requests submitted to the thread pool but not yet started": what the   *)
(* documentation says of queued is true until the executor is shut down.   *)
THEOREM QueuedIsExactUntilClosed ==
    ASSUME Faults = {}
    PROVE  Spec => [](~execShut => QueuedMeansWaiting)
  <1>1. ASSUME TypeOK, Owned, GaugesAgree, ~execShut, apc = "select"
        PROVE  stats.submitted = Len(queue) + Cardinality({w \in Workers : wpc[w] = "start"})
    <2>1. Having("dropped") = {}
      BY <1>1 DEF Owned, Reasons, Having
    <2>2. Cardinality(Having("dropped")) = 0
      BY <2>1, FS_EmptySet
    <2>3. Count(apc \in {"submit", "undo", "abandon"}) = 0
      BY <1>1 DEF Count
    <2>4. Len(queue) \in Nat /\ Cardinality(Starting) \in Nat
      BY <1>1, GaugeTypes
    <2>5. stats.submitted = Count(apc \in {"submit", "undo", "abandon"}) + Len(queue)
                              + Cardinality(Starting) + Cardinality(Having("dropped"))
      BY <1>1 DEF GaugesAgree, Starting
    <2>6. stats.submitted = Len(queue) + Cardinality(Starting)
      BY <2>2, <2>3, <2>4, <2>5
    <2>7. QED
      BY <2>6 DEF Starting
  <1>2. TypeOK /\ Owned /\ GaugesAgree => (~execShut => QueuedMeansWaiting)
    BY <1>1 DEF QueuedMeansWaiting
  <1>3. Spec => [](TypeOK /\ Owned)
    BY OwnershipInvariant
  <1>4. QED
    BY <1>2, <1>3, GaugesAreRight, PTL
-----------------------------------------------------------------------------
(* Sockets that are left open.                                             *)

(* An open socket in nobody's hands but those of workers that are through  *)
(* with it.                                                                *)
Lost ==
    {c \in Conns :
        /\ sock[c] = "open" /\ ~InHand(c) /\ ~IsQueued(c)
        /\ \A w \in Busy : job[w] = c => wpc[w] = "release"}

(* The accept thread has nothing in hand between two requests, and a       *)
(* worker counts a request as served or failed when it has closed it.      *)
Tidy ==
    /\ apc \in {"select", "stopped"} => areq = None
    /\ \A w \in Busy : wpc[w] \in {"complete", "fail"} => sock[job[w]] = "closed"

LeakInv == TypeOK /\ Tidy /\ Cardinality(Lost) <= Surplus

LEMMA LostType == IsFiniteSet(Lost) /\ Cardinality(Lost) \in Nat
  BY EnvironmentAssumption, FS_Subset, FS_CardinalityType DEF Lost

(* A step that loses no socket. *)
LEMMA NothingLost ==
    ASSUME LeakInv, Lost' \subseteq Lost, Surplus' = Surplus
    PROVE  Cardinality(Lost)' <= Surplus'
  <1>1. Cardinality(Lost') \in Nat /\ Cardinality(Lost') <= Cardinality(Lost)
    BY LostType, FS_Subset, FS_CardinalityType
  <1>2. Surplus \in Int
    BY GaugeTypes DEF LeakInv, Surplus
  <1>3. QED
    BY <1>1, <1>2, LostType DEF LeakInv

LEMMA InitLeak == Init => LeakInv
  <1> SUFFICES ASSUME Init PROVE LeakInv
    OBVIOUS
  <1>1. Lost = {} /\ Busy = {}
    BY DEF Init, Lost, Busy, BusyPcs
  <1>2. Cardinality(Lost) = 0 /\ Surplus = 0
    BY <1>1, FS_EmptySet, InitGauges
  <1>3. QED
    BY <1>1, <1>2, InitTypeOK DEF Init, LeakInv, Tidy

LEMMA OthersLeak ==
    ASSUME LeakInv,
           \/ \E c \in Conns : Client(c)
           \/ \E k \in Closers : Closer(k)
           \/ UNCHANGED vars
    PROVE  Tidy' /\ Cardinality(Lost)' <= Surplus'
  <1> USE DEF LeakInv
  <1>1. UNCHANGED <<apc, areq, queue, wpc, job, stats>>
    BY DEF Client, Connect, PeerStep, Closer, CallShutdown, LoopStopped, CallShutdownExecutor,
           TakeLock, ExecutorShutdown, QueueKept, JoinWorkers, JoinItself, DropLock, Unlisten,
           vars, acceptVars, poolVars, closeVars
  <1>2. \A c \in Conns : /\ sock'[c] = "open" => sock[c] = "open"
                         /\ sock[c] = "closed" => sock'[c] = "closed"
    BY DEF Client, Connect, PeerStep, Closer, CallShutdown, LoopStopped, CallShutdownExecutor,
           TakeLock, ExecutorShutdown, JoinWorkers, JoinItself, DropLock, Unlisten,
           vars, connVars, TypeOK, ConnTypes
  <1>3. /\ Busy' = Busy /\ Active' = Active
        /\ \A c \in Conns : IsQueued(c)' = IsQueued(c) /\ InHand(c)' = InHand(c)
        /\ \A w \in Busy : job[w] \in Conns
    BY <1>1 DEF Busy, Active, IsQueued, InHand, TypeOK, PoolTypes
  <1>4. Lost' \subseteq Lost
    BY <1>1, <1>2, <1>3 DEF Lost
  <1>5. Surplus' = Surplus
    BY <1>1, <1>3 DEF Surplus
  <1>6. QED
    BY <1>1, <1>2, <1>3, <1>4, <1>5, NothingLost DEF Tidy

(* Only a handle_error that raises makes a worker leave a socket open, and *)
(* that shows in the gauge.                                                *)
LEMMA WorkerLeak ==
    ASSUME LeakInv, NEW w \in Workers, Worker(w)
    PROVE  Tidy' /\ Cardinality(Lost)' <= Surplus'
  <1> USE DEF LeakInv
  <1>1. UNCHANGED <<apc, areq>> /\ \A c \in Conns : InHand(c)' = InHand(c)
    BY DEF Worker, Get, Exit, Start, HandleReturns, HandleRaises, CloseServed,
           Complete, Fail, CountFailure, Release, Loop, acceptVars, InHand
  <1>2. \A v \in Workers \ {w} : wpc'[v] = wpc[v] /\ job'[v] = job[v]
    BY DEF Worker, Get, Exit, Start, HandleReturns, HandleRaises, CloseServed,
           Complete, Fail, CountFailure, Release, Loop, TypeOK, PoolTypes
  <1>3. \A c \in Conns : /\ sock'[c] = "open" => sock[c] = "open"
                         /\ sock[c] = "closed" => sock'[c] = "closed"
    BY DEF Worker, Get, Exit, Start, HandleReturns, HandleRaises, CloseServed, connVars,
           Complete, Fail, CountFailure, Release, Loop, TypeOK, PoolTypes, ConnTypes
  <1>4. \A v \in Busy : job[v] \in Conns
    BY DEF Busy, TypeOK, PoolTypes
  <1>5. Tidy'
    <2>1. w \in Busy' /\ wpc'[w] \in {"complete", "fail"} => sock'[job'[w]] = "closed"
      BY <1>4 DEF Worker, Get, Exit, Start, HandleReturns, HandleRaises, CloseServed,
         Complete, Fail, CountFailure, Release, Loop, Busy, BusyPcs, TypeOK, PoolTypes, ConnTypes
    <2>2. \A v \in Busy' \ {w} : v \in Busy
      BY <1>2 DEF Busy
    <2>3. QED
      BY <1>1, <1>2, <1>3, <1>4, <2>1, <2>2 DEF Tidy, Busy
  <1>6. /\ Surplus \in Int
        /\ Surplus' = IF Fail(w) /\ wpc'[w] # "fail" THEN Surplus + 1 ELSE Surplus
    BY WorkerSurplus
  <1>7. CASE Fail(w) /\ wpc'[w] # "fail"
    <2>1. UNCHANGED <<Busy, job, queue>>
      BY <1>7, WorkerMoves DEF Get, Release, Fail
    <2>2. Lost' \subseteq Lost \cup {job[w]}
      BY <1>1, <1>2, <1>3, <2>1 DEF Lost, IsQueued, Busy
    <2>3. /\ IsFiniteSet(Lost \cup {job[w]})
          /\ Cardinality(Lost \cup {job[w]}) <= Cardinality(Lost) + 1
          /\ Cardinality(Lost \cup {job[w]}) \in Nat
      <3>1. /\ IsFiniteSet(Lost \cup {job[w]})
            /\ Cardinality(Lost \cup {job[w]}) = Cardinality(Lost)
                 \/ Cardinality(Lost \cup {job[w]}) = Cardinality(Lost) + 1
        BY LostType, FS_AddElement
      <3>2. QED
        BY <3>1, LostType
    <2>4. Cardinality(Lost') \in Nat /\ Cardinality(Lost') <= Cardinality(Lost \cup {job[w]})
      BY <2>2, <2>3, FS_Subset, FS_CardinalityType
    <2>5. QED
      BY <1>5, <1>6, <1>7, <2>3, <2>4, LostType
  <1>8. CASE ~(Fail(w) /\ wpc'[w] # "fail")
    <2>1. CASE Get(w)
      <3>1. /\ queue # <<>> /\ queue' = Tail(queue) /\ queue \in Seq(Conns)
            /\ w \notin Busy /\ Busy' = Busy \cup {w}
            /\ job'[w] = Head(queue) /\ wpc'[w] = "start"
        BY <2>1 DEF Get, Busy, BusyPcs, TypeOK, PoolTypes
      <3>2. /\ Len(queue) \in Nat /\ Len(queue') = Len(queue) - 1
            /\ DOMAIN queue = 1 .. Len(queue) /\ DOMAIN queue' = 1 .. Len(queue')
            /\ \A i \in 1 .. Len(queue') : queue'[i] = queue[i + 1]
            /\ Head(queue) = queue[1]
        BY <3>1, HeadTailProperties, LenProperties, EmptySeq
      <3>3. \A i \in DOMAIN queue : i # 1 => i - 1 \in DOMAIN queue' /\ queue'[i - 1] = queue[i]
        BY <3>2
      <3>4. \A c : IsQueued(c) => c = Head(queue) \/ IsQueued(c)'
        BY <3>2, <3>3 DEF IsQueued
      <3>5. Lost' \subseteq Lost
        BY <1>1, <1>2, <1>3, <3>1, <3>4 DEF Lost, Busy
      <3>6. QED
        BY <1>5, <1>6, <1>8, <3>5, NothingLost
    <2>2. CASE Release(w)
      <3>1. queue' = queue /\ Busy' = Busy \ {w} /\ wpc[w] = "release"
        BY <2>2 DEF Release, Busy, BusyPcs, TypeOK, PoolTypes
      <3>2. Lost' \subseteq Lost
        BY <1>1, <1>2, <1>3, <3>1 DEF Lost, IsQueued, Busy
      <3>3. QED
        BY <1>5, <1>6, <1>8, <3>2, NothingLost
    <2>3. CASE ~Get(w) /\ ~Release(w)
      <3>1. UNCHANGED <<Busy, job, queue>>
        BY <2>3, WorkerMoves
      <3>2. w \in Busy /\ wpc'[w] = "release" => wpc[w] = "release" \/ sock[job[w]] = "closed"
        BY <1>8, <2>3 DEF Worker, Get, Exit, Start, HandleReturns, HandleRaises, CloseServed,
           Complete, Fail, CountFailure, Release, Loop, Busy, BusyPcs, Tidy, TypeOK, PoolTypes
      <3>3. Lost' \subseteq Lost
        BY <1>1, <1>2, <1>3, <3>1, <3>2 DEF Lost, IsQueued, Busy
      <3>4. QED
        BY <1>5, <1>6, <1>8, <3>3, NothingLost
    <2>4. QED
      BY <2>1, <2>2, <2>3
  <1>9. QED
    BY <1>7, <1>8

LEMMA AcceptLeak ==
    ASSUME LeakInv, AcceptThread
    PROVE  Tidy' /\ Cardinality(Lost)' <= Surplus'
  <1> USE DEF LeakInv
  <1>1. Busy' = Busy /\ \A w \in Busy : job'[w] = job[w] /\ wpc'[w] = wpc[w]
    <2>1. CASE Adjust
      BY <2>1 DEF Adjust, Busy, Started, BusyPcs, TypeOK, PoolTypes
    <2>2. CASE ~Adjust
      BY <2>2 DEF AcceptThread, AcceptConn, StopServing, Admit, Refuse, Record, Submit, Undo,
           Abandon, Reject, Respond, Drain, CloseRejected, poolVars, Busy
    <2>3. QED
      BY <2>1, <2>2
  <1>2. \A c \in Conns : IsQueued(c) => IsQueued(c)'
    <2>1. CASE Submit /\ ~execShut
      BY <2>1, Queueing DEF IsQueued, Submit, TypeOK, AcceptTypes, PoolTypes
    <2>2. CASE ~(Submit /\ ~execShut)
      <3>1. queue' = queue
        BY <2>2 DEF AcceptThread, AcceptConn, StopServing, Admit, Refuse, Record, Submit, Adjust,
           Undo, Abandon, Reject, Respond, Drain, CloseRejected, poolVars
      <3>2. QED
        BY <3>1 DEF IsQueued
    <2>3. QED
      BY <2>1, <2>2
  <1>3. \A c \in Conns : InHand(c) => InHand(c)' \/ sock'[c] # "open" \/ IsQueued(c)'
    <2>1. CASE Submit /\ ~execShut
      BY <2>1, Queueing DEF IsQueued, Submit, TypeOK, AcceptTypes, PoolTypes, InHand
    <2>2. CASE apc \in {"select", "adjust"}
      BY <2>2, EnvironmentAssumption DEF InHand, Tidy
    <2>3. CASE Abandon \/ CloseRejected
      BY <2>3 DEF Abandon, CloseRejected, InHand, TypeOK, ConnTypes, AcceptTypes
    <2>4. CASE \/ Submit /\ execShut
               \/ Admit \/ Refuse \/ Record \/ Undo \/ Reject \/ Respond \/ Drain
      BY <2>4 DEF Admit, Refuse, Record, Submit, Undo, Reject, Respond, Drain, InHand
    <2>5. QED
      BY <2>1, <2>2, <2>3, <2>4 DEF AcceptThread, AcceptConn, StopServing, Adjust
  <1>4. \A c \in Conns : /\ sock'[c] = "open" => sock[c] = "open" \/ InHand(c)'
                         /\ sock[c] = "closed" => sock'[c] = "closed"
    BY DEF AcceptThread, AcceptConn, StopServing, Admit, Refuse, Record, Submit, Adjust, Undo,
           Abandon, Reject, Respond, Drain, CloseRejected, connVars, InHand,
           TypeOK, ConnTypes, AcceptTypes
  <1>5. Lost' \subseteq Lost
    BY <1>1, <1>2, <1>3, <1>4 DEF Lost
  <1>6. apc' \in {"select", "stopped"} => areq' = None
    BY DEF AcceptThread, AcceptConn, StopServing, Admit, Refuse, Record, Submit, Adjust, Undo,
           Abandon, Reject, Respond, Drain, CloseRejected, Tidy
  <1>7. \A w \in Busy : job[w] \in Conns
    BY DEF Busy, TypeOK, PoolTypes
  <1>8. QED
    BY <1>1, <1>4, <1>5, <1>6, <1>7, AcceptCounts, NothingLost DEF Tidy

(* Whatever fails, the start of a thread included: each open socket that   *)
(* nobody is left to close shows in the active gauge.                      *)
THEOREM LeaksAreCounted == Spec => []LeaksShow
  <1>1. LeakInv /\ [Next]_vars => Tidy' /\ (Cardinality(Lost) <= Surplus)'
    BY OthersLeak, WorkerLeak, AcceptLeak DEF Next, StandStill
  <1>2. ASSUME LeakInv PROVE LeaksShow
    <2>1. \A c \in Conns : Holders(c) = 0 => ~InHand(c) /\ ~IsQueued(c) /\ ~IsRun(c)
      <3> SUFFICES ASSUME NEW c \in Conns, Holders(c) = 0
                   PROVE  ~InHand(c) /\ ~IsQueued(c) /\ ~IsRun(c)
        OBVIOUS
      <3> DEFINE Q == {i \in DOMAIN queue : queue[i] = c}
                 R == {w \in Busy : job[w] = c}
      <3>1. IsFiniteSet(Q) /\ IsFiniteSet(R)
        <4>1. Len(queue) \in Nat /\ DOMAIN queue = 1 .. Len(queue)
          BY <1>2, LenProperties DEF LeakInv, TypeOK, PoolTypes
        <4>2. IsFiniteSet(DOMAIN queue)
          BY <4>1, FS_Interval
        <4>3. QED
          BY <4>2, BusyType, FS_Subset
      <3>2. Count(InHand(c)) \in {0, 1} /\ (Count(InHand(c)) = 0 => ~InHand(c))
        BY DEF Count
      <3>3. Holders(c) = Count(InHand(c)) + Cardinality(Q) + Cardinality(R)
        BY DEF Holders, InHand
      <3>4. (Q = {} => ~IsQueued(c)) /\ (R = {} => ~IsRun(c))
        BY DEF IsQueued, IsRun
      <3> HIDE DEF Q, R
      <3>5. Cardinality(Q) \in Nat /\ Cardinality(R) \in Nat
        BY <3>1, FS_CardinalityType
      <3>6. Count(InHand(c)) = 0 /\ Cardinality(Q) = 0 /\ Cardinality(R) = 0
        BY <3>2, <3>3, <3>5
      <3>7. Q = {} /\ R = {}
        BY <3>1, <3>6, FS_EmptySet
      <3>8. QED
        BY <3>2, <3>4, <3>6, <3>7
    <2>2. Forgotten \subseteq Lost
      BY <2>1 DEF Forgotten, Lost, IsRun
    <2>3. Cardinality(Forgotten) \in Nat /\ Cardinality(Forgotten) <= Cardinality(Lost)
      BY <2>2, LostType, FS_Subset, FS_CardinalityType
    <2>4. Surplus \in Int
      BY <1>2, GaugeTypes DEF LeakInv, Surplus
    <2>5. QED
      BY <1>2, <2>3, <2>4, LostType DEF LeakInv, LeaksShow, Surplus
  <1>3. QED
    BY <1>1, <1>2, InitLeak, TypeCorrect, PTL DEF Spec, LeakInv
=============================================================================
