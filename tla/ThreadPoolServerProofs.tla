----------------------- MODULE ThreadPoolServerProofs -----------------------
(***************************************************************************)
(* Theorems about ThreadPoolServer, for any number of connections,         *)
(* workers and closers, every policy and every shutdown script.            *)
(***************************************************************************)
EXTENDS ThreadPoolServer, FiniteSetTheorems, SequenceTheorems, TLAPS

(* max_workers is a positive number, and so is the semaphore's value.      *)
LEMMA CapacityType ==
    /\ MaxWorkers \in Nat \ {0}
    /\ TotalCapacity \in Nat
  <1>1. MaxWorkers \in Nat
    BY PoolAssumption, FS_CardinalityType DEF MaxWorkers
  <1>2. MaxWorkers # 0
    BY PoolAssumption, FS_EmptySet DEF MaxWorkers
  <1>3. QED
    BY <1>1, <1>2, PoolAssumption DEF TotalCapacity

(* Every method of the tracker maps a record of counters to another.       *)
LEMMA TrackerType ==
    ASSUME NEW s \in TrackerState, NEW p
    PROVE  /\ RecordSubmitted(s) \in TrackerState
           /\ RecordStarted(s) \in TrackerState
           /\ RecordCompleted(s) \in TrackerState
           /\ RecordErrored(s) \in TrackerState
           /\ RecordRejected(s, p) \in TrackerState
  <1>1. /\ RecordRejectedClose(s) \in TrackerState
        /\ RecordRejectedFault(s) \in TrackerState
        /\ RecordRejected503(s) \in TrackerState
    BY DEF TrackerState, RecordRejectedClose, RecordRejectedFault, RecordRejected503
  <1>2. RecordRejected(s, p) \in TrackerState
    BY <1>1 DEF RecordRejected
  <1>3. RecordSubmitted(s) \in TrackerState
    BY DEF TrackerState, RecordSubmitted
  <1>4. /\ RecordStarted(s) \in TrackerState
        /\ RecordCompleted(s) \in TrackerState
        /\ RecordErrored(s) \in TrackerState
    <2> DEFINE t == [s EXCEPT !.submitted = @ - 1]
               u == [s EXCEPT !.active = @ - 1]
    <2>1. t \in TrackerState /\ u \in TrackerState
      BY DEF TrackerState
    <2>2. /\ RecordStarted(s) = [t EXCEPT !.active = @ + 1]
          /\ RecordCompleted(s) = [u EXCEPT !.completed = @ + 1]
          /\ RecordErrored(s) = [u EXCEPT !.errored = @ + 1]
      BY DEF TrackerState, RecordStarted, RecordCompleted, RecordErrored
    <2> HIDE DEF t, u
    <2>3. QED
      BY <2>1, <2>2 DEF TrackerState
  <1>5. QED
    BY <1>2, <1>3, <1>4

LEMMA InitTypeOK == Init => TypeOK
  <1>1. SUFFICES ASSUME Init PROVE TypeOK
    OBVIOUS
  <1>2. ConnTypes
    BY <1>1 DEF Init, ConnTypes, PeerStates, SockStates, Outcomes
  <1>3. AcceptTypes
    BY <1>1 DEF Init, AcceptTypes, AcceptPcs
  <1>4. PoolTypes
    BY <1>1 DEF Init, PoolTypes, WorkerPcs, BusyPcs
  <1>5. CloseTypes
    BY <1>1, EnvironmentAssumption DEF Init, CloseTypes, CloserPcs
  <1>6. policy \in Policies /\ capacity \in Nat /\ stats \in TrackerState
    BY <1>1, CapacityType DEF Init, ZeroStats, TrackerState
  <1>7. QED
    BY <1>2, <1>3, <1>4, <1>5, <1>6 DEF TypeOK

(* Clients only touch their own end and the backlog. *)
LEMMA ClientTypeOK ==
    ASSUME TypeOK, NEW c \in Conns, Client(c)
    PROVE  TypeOK'
  <1>1. ConnTypes'
    <2>1. CASE Connect(c)
      BY <2>1, EnvironmentAssumption
      DEF TypeOK, ConnTypes, Connect, PeerStates, SockStates
    <2>2. CASE PeerStep(c)
      BY <2>2 DEF TypeOK, ConnTypes, PeerStep, PeerStates
    <2>3. QED
      BY <2>1, <2>2 DEF Client
  <1>2. UNCHANGED <<policy, acceptVars, poolVars, closeVars, capacity, stats>>
    BY DEF Client, Connect, PeerStep
  <1>3. AcceptTypes' /\ PoolTypes' /\ CloseTypes'
    BY <1>2 DEF TypeOK, AcceptTypes, PoolTypes, CloseTypes,
                acceptVars, poolVars, closeVars
  <1>4. QED
    BY <1>1, <1>2, <1>3 DEF TypeOK

(* The accept thread has a request in hand at every point where it uses one. *)
LEMMA AcceptTypeOK ==
    ASSUME TypeOK, AcceptThread
    PROVE  TypeOK'
  <1> USE DEF TypeOK, ConnTypes, AcceptTypes, AcceptPcs, acceptVars, connVars
  <1> DEFINE Frame == PoolTypes' /\ CloseTypes'
  <1>0. ASSUME UNCHANGED <<poolVars, closeVars>> PROVE Frame
    BY <1>0 DEF PoolTypes, CloseTypes, poolVars, closeVars
  <1>p. policy' \in Policies
    BY DEF AcceptThread
  <1>1. ASSUME NEW c \in Conns, AcceptConn(c) PROVE TypeOK'
    BY <1>0, <1>p, <1>1 DEF AcceptConn, SockStates
  <1>2. CASE StopServing
    BY <1>0, <1>p, <1>2 DEF StopServing
  <1>3. CASE Admit
    BY <1>0, <1>p, <1>3 DEF Admit, PermitLeft
  <1>4. CASE Refuse
    BY <1>0, <1>p, <1>4 DEF Refuse
  <1>5. CASE Record
    BY <1>0, <1>p, <1>5, TrackerType DEF Record
  <1>6. CASE Submit
    <2>1. queue' \in Seq(Conns)
      <3>1. queue \in Seq(Conns) /\ areq \in Conns
        BY <1>6 DEF Submit, PoolTypes
      <3>2. queue' = queue \/ queue' = Append(queue, areq)
        BY <1>6 DEF Submit
      <3>3. QED
        BY <3>1, <3>2, AppendProperties
    <2>2. PoolTypes' /\ CloseTypes'
      BY <1>6, <2>1 DEF Submit, PoolTypes, CloseTypes, closeVars
    <2>3. QED
      BY <1>p, <1>6, <2>2 DEF Submit
  <1>7. CASE Adjust
    <2>1. PoolTypes'
      BY <1>7 DEF Adjust, PoolTypes, WorkerPcs, BusyPcs
    <2>2. CloseTypes'
      BY <1>7 DEF Adjust, CloseTypes, closeVars
    <2>3. QED
      BY <1>p, <1>7, <2>1, <2>2 DEF Adjust
  <1>8. CASE Undo
    BY <1>0, <1>p, <1>8 DEF Undo
  <1>9. CASE Abandon
    BY <1>0, <1>p, <1>9 DEF Abandon, SockStates, Outcomes
  <1>10. CASE Reject
    BY <1>0, <1>p, <1>10, TrackerType DEF Reject
  <1>11. CASE Respond
    BY <1>0, <1>p, <1>11 DEF Respond, Outcomes
  <1>12. CASE Drain
    BY <1>0, <1>p, <1>12 DEF Drain
  <1>13. CASE CloseRejected
    BY <1>0, <1>p, <1>13 DEF CloseRejected, SockStates, Outcomes
  <1>14. QED
    BY <1>1, <1>2, <1>3, <1>4, <1>5, <1>6, <1>7, <1>8, <1>9, <1>10, <1>11, <1>12,
       <1>13 DEF AcceptThread

(* A worker's request is a connection from the time it takes an item to    *)
(* the time it gives the permit back.                                      *)
LEMMA WorkerTypeOK ==
    ASSUME TypeOK, NEW w \in Workers, Worker(w)
    PROVE  TypeOK'
  <1> USE DEF TypeOK, ConnTypes, PoolTypes, WorkerPcs, BusyPcs, acceptVars, connVars
  <1> DEFINE Frame == policy' \in Policies /\ AcceptTypes' /\ CloseTypes'
  <1>0. Frame
    BY DEF Worker, Get, Exit, Start, HandleReturns, HandleRaises, CloseServed,
           Complete, Fail, CountFailure, Release, Loop, AcceptTypes, CloseTypes,
           closeVars
  <1>1. CASE Get(w)
    <2>1. Head(queue) \in Conns /\ Tail(queue) \in Seq(Conns)
      BY <1>1, HeadTailProperties DEF Get
    <2>2. PoolTypes'
      BY <1>1, <2>1 DEF Get
    <2>3. QED
      BY <1>0, <1>1, <2>2 DEF Get
  <1>2. CASE Exit(w)
    BY <1>0, <1>2 DEF Exit
  <1>3. CASE Start(w)
    BY <1>0, <1>3, TrackerType DEF Start
  <1>4. CASE HandleReturns(w)
    <2>1. outcome' \in [Conns -> Outcomes]
      BY <1>4 DEF HandleReturns, Outcomes, Served
    <2>2. PoolTypes'
      BY <1>4 DEF HandleReturns
    <2>3. QED
      BY <1>0, <1>4, <2>1, <2>2 DEF HandleReturns
  <1>5. CASE HandleRaises(w)
    <2>1. outcome' \in [Conns -> Outcomes]
      BY <1>5 DEF HandleRaises, Outcomes, Served
    <2>2. PoolTypes'
      BY <1>5 DEF HandleRaises
    <2>3. QED
      BY <1>0, <1>5, <2>1, <2>2 DEF HandleRaises
  <1>6. CASE CloseServed(w)
    BY <1>0, <1>6 DEF CloseServed, SockStates
  <1>7. CASE Complete(w)
    BY <1>0, <1>7, TrackerType DEF Complete
  <1>8. CASE Fail(w)
    BY <1>0, <1>8 DEF Fail, SockStates
  <1>9. CASE CountFailure(w)
    BY <1>0, <1>9, TrackerType DEF CountFailure
  <1>10. CASE Release(w)
    BY <1>0, <1>10 DEF Release
  <1>11. CASE Loop(w)
    BY <1>0, <1>11 DEF Loop
  <1>12. QED
    BY <1>1, <1>2, <1>3, <1>4, <1>5, <1>6, <1>7, <1>8, <1>9, <1>10, <1>11 DEF Worker

(* A closer that is inside a call still has that call at the head of todo. *)
LEMMA CloserTypeOK ==
    ASSUME TypeOK, NEW k \in Closers, Closer(k)
    PROVE  TypeOK'
  <1> USE DEF TypeOK, CloseTypes, CloserPcs
  <1>1. /\ policy' \in Policies /\ capacity' \in Nat /\ stats' \in TrackerState
        /\ AcceptTypes' /\ PoolTypes'
    BY DEF Closer, CallShutdown, LoopStopped, CallShutdownExecutor, TakeLock,
           ExecutorShutdown, QueueKept, JoinWorkers, JoinItself, DropLock, Unlisten,
           AcceptTypes, PoolTypes, acceptVars, poolVars
  <1>2. ConnTypes'
    <2>1. CASE Unlisten(k)
      BY <2>1 DEF Unlisten, ConnTypes, SockStates, Outcomes
    <2>2. CASE ~Unlisten(k)
      BY <2>2 DEF Closer, CallShutdown, LoopStopped, CallShutdownExecutor, TakeLock,
           ExecutorShutdown, JoinWorkers, JoinItself, DropLock, ConnTypes, connVars
    <2>3. QED
      BY <2>1, <2>2
  <1>3. ASSUME todo[k] # <<>>, Return(k)
        PROVE  /\ kpc' \in [Closers -> CloserPcs]
               /\ todo' \in [Closers -> Seq(Calls)]
               /\ \A j \in Closers : kpc'[j] # "ready" => todo'[j] # <<>>
    <2>1. Tail(todo[k]) \in Seq(Calls)
      BY <1>3, HeadTailProperties
    <2>2. QED
      BY <1>3, <2>1 DEF Return
  <1>4. CloseTypes'
    <2>1. CASE CallShutdown(k)
      BY <2>1 DEF CallShutdown, MayCall
    <2>2. CASE LoopStopped(k)
      BY <1>3, <2>2 DEF LoopStopped
    <2>3. CASE CallShutdownExecutor(k)
      BY <2>3 DEF CallShutdownExecutor, MayCall
    <2>4. CASE TakeLock(k)
      BY <2>4 DEF TakeLock
    <2>5. CASE ExecutorShutdown(k)
      <3>1. \A J \in Ahead(k) : J \subseteq Workers
        BY DEF Ahead, Started
      <3>2. ahead' \in [Closers -> SUBSET Workers]
        BY <2>5, <3>1 DEF ExecutorShutdown
      <3>3. QED
        BY <2>5, <3>2 DEF ExecutorShutdown, ClosedBeforeJoin, Waits
    <2>6. CASE JoinWorkers(k)
      BY <2>6 DEF JoinWorkers, Joined
    <2>10. CASE JoinItself(k)
      BY <2>10 DEF JoinItself, Joined
    <2>7. CASE DropLock(k)
      <3>1. CASE Head(todo[k]) = "server_close"
        BY <2>7, <3>1 DEF DropLock
      <3>2. CASE Head(todo[k]) # "server_close"
        BY <1>3, <2>7, <3>2 DEF DropLock
      <3>3. QED
        BY <3>1, <3>2
    <2>8. CASE Unlisten(k)
      BY <1>3, <2>8 DEF Unlisten
    <2>9. QED
      BY <2>1, <2>2, <2>3, <2>4, <2>5, <2>6, <2>7, <2>8, <2>10 DEF Closer
  <1>5. QED
    BY <1>1, <1>2, <1>4

(* Type correctness: the variables of the model keep their types, the      *)
(* semaphore never goes below zero, and a thread that is about to use its  *)
(* request has one.                                                        *)
THEOREM TypeCorrect == Spec => []TypeOK
  <1>1. Init => TypeOK
    BY InitTypeOK
  <1>2. TypeOK /\ [Next]_vars => TypeOK'
    <2>1. SUFFICES ASSUME TypeOK, [Next]_vars PROVE TypeOK'
      OBVIOUS
    <2>2. CASE UNCHANGED vars
      BY <2>1, <2>2 DEF vars, TypeOK, ConnTypes, AcceptTypes, PoolTypes, CloseTypes,
         connVars, acceptVars, poolVars, closeVars
    <2>3. CASE StandStill
      BY <2>2, <2>3 DEF StandStill
    <2>4. QED
      BY <2>1, <2>2, <2>3, ClientTypeOK, AcceptTypeOK, WorkerTypeOK, CloserTypeOK
      DEF Next
  <1>3. QED
    BY <1>1, <1>2, PTL DEF Spec

-----------------------------------------------------------------------------
(* Counting.                                                               *)

(* The elements of D a function maps into P. *)
Into(D, f, P) == {x \in D : f[x] \in P}

(* Changing one value moves the count by what that value counted for. *)
LEMMA CountUpdate ==
    ASSUME NEW D, IsFiniteSet(D), NEW P, NEW f, NEW g, NEW d \in D,
           \A x \in D \ {d} : g[x] = f[x]
    PROVE  /\ Cardinality(Into(D, f, P)) \in Nat
           /\ (f[d] \in P <=> g[d] \in P) =>
                 Cardinality(Into(D, g, P)) = Cardinality(Into(D, f, P))
           /\ f[d] \notin P /\ g[d] \in P =>
                 Cardinality(Into(D, g, P)) = Cardinality(Into(D, f, P)) + 1
           /\ f[d] \in P /\ g[d] \notin P =>
                 Cardinality(Into(D, g, P)) = Cardinality(Into(D, f, P)) - 1
  <1>1. IsFiniteSet(Into(D, f, P))
    BY FS_Subset DEF Into
  <1>2. Cardinality(Into(D, f, P)) \in Nat
    BY <1>1, FS_CardinalityType
  <1>3. CASE f[d] \in P <=> g[d] \in P
    <2>1. Into(D, g, P) = Into(D, f, P)
      BY <1>3 DEF Into
    <2>2. QED
      BY <1>2, <1>3, <2>1
  <1>4. CASE f[d] \notin P /\ g[d] \in P
    <2>1. Into(D, g, P) = Into(D, f, P) \cup {d} /\ d \notin Into(D, f, P)
      BY <1>4 DEF Into
    <2>2. QED
      BY <1>1, <1>2, <1>4, <2>1, FS_AddElement
  <1>5. CASE f[d] \in P /\ g[d] \notin P
    <2>1. Into(D, g, P) = Into(D, f, P) \ {d} /\ d \in Into(D, f, P)
      BY <1>5 DEF Into
    <2>2. QED
      BY <1>1, <1>2, <1>5, <2>1, FS_RemoveElement
  <1>6. QED
    BY <1>3, <1>4, <1>5

LEMMA BusyType == IsFiniteSet(Busy) /\ Cardinality(Busy) \in Nat
  BY PoolAssumption, FS_Subset, FS_CardinalityType DEF Busy

(* What a worker's step from one place to another does to the number of    *)
(* workers that are in one of the places P, and to that of busy ones.      *)
LEMMA PlaceCount ==
    ASSUME TypeOK, NEW P, NEW w \in Workers, NEW p, wpc' = [wpc EXCEPT ![w] = p]
    PROVE  Cardinality(Into(Workers, wpc', P)) =
              CASE wpc[w] \notin P /\ p \in P -> Cardinality(Into(Workers, wpc, P)) + 1
                [] wpc[w] \in P /\ p \notin P -> Cardinality(Into(Workers, wpc, P)) - 1
                [] OTHER -> Cardinality(Into(Workers, wpc, P))
  <1>1. IsFiniteSet(Workers)
    BY PoolAssumption
  <1>2. wpc'[w] = p /\ \A v \in Workers \ {w} : wpc'[v] = wpc[v]
    BY DEF TypeOK, PoolTypes
  <1> DEFINE n == Cardinality(Into(Workers, wpc, P))
             m == Cardinality(Into(Workers, wpc', P))
  <1>3. /\ (wpc[w] \in P <=> wpc'[w] \in P) => m = n
        /\ wpc[w] \notin P /\ wpc'[w] \in P => m = n + 1
        /\ wpc[w] \in P /\ wpc'[w] \notin P => m = n - 1
    BY <1>1, <1>2, CountUpdate
  <1>4. QED
    BY <1>2, <1>3

LEMMA BusyCount ==
    ASSUME TypeOK, NEW w \in Workers, NEW p, wpc' = [wpc EXCEPT ![w] = p]
    PROVE  Cardinality(Busy)' =
              CASE wpc[w] \notin BusyPcs /\ p \in BusyPcs -> Cardinality(Busy) + 1
                [] wpc[w] \in BusyPcs /\ p \notin BusyPcs -> Cardinality(Busy) - 1
                [] OTHER -> Cardinality(Busy)
  <1>1. Busy = Into(Workers, wpc, BusyPcs) /\ Busy' = Into(Workers, wpc', BusyPcs)
    BY DEF Busy, Into
  <1>2. QED
    BY <1>1, PlaceCount

-----------------------------------------------------------------------------
(* Permits.                                                                *)

LEMMA InitPermits == Init => PermitsConserved
  <1>1. SUFFICES ASSUME Init PROVE PermitsConserved
    OBVIOUS
  <1>2. Busy = {}
    BY <1>1 DEF Init, Busy, BusyPcs
  <1>3. Cardinality(Busy) = 0 /\ Len(queue) = 0
    BY <1>1, <1>2, FS_EmptySet DEF Init
  <1>4. QED
    BY <1>1, <1>3, CapacityType DEF Init, PermitsConserved, Permits, PermitPcs, Count

LEMMA PermitsType == ASSUME TypeOK PROVE Permits \in Nat
  <1>1. capacity \in Nat /\ Len(queue) \in Nat /\ Cardinality(Busy) \in Nat
    BY BusyType, LenProperties DEF TypeOK, PoolTypes
  <1>2. QED
    BY <1>1 DEF Permits, Count

(* A thread that cannot be started leaves a permit with the accept thread  *)
(* and one with the item it has queued.                                    *)
Doubled == "thread_start" \in Faults /\ Permits' = Permits + 1

(* Otherwise the accept thread passes the permit it took to the item it    *)
(* queues, or gives it back.                                               *)
LEMMA AcceptPermits ==
    ASSUME TypeOK, AcceptThread
    PROVE  Permits' = Permits \/ Doubled
  <1>1. /\ capacity \in Nat /\ Len(queue) \in Nat
        /\ Cardinality(Busy) \in Nat
    BY BusyType, LenProperties DEF TypeOK, PoolTypes
  <1> USE DEF Permits, PermitPcs, Count
  <1>2. ASSUME wpc' = wpc PROVE Cardinality(Busy)' = Cardinality(Busy)
    BY <1>2 DEF Busy
  <1>3. ASSUME UNCHANGED poolVars PROVE Cardinality(Busy)' = Cardinality(Busy)
    BY <1>2, <1>3 DEF poolVars
  <1>4. ASSUME UNCHANGED <<capacity, poolVars>>,
               apc \in PermitPcs <=> apc' \in PermitPcs
        PROVE  Permits' = Permits
    BY <1>3, <1>4 DEF poolVars
  <1>5. ASSUME NEW c \in Conns, AcceptConn(c) PROVE Permits' = Permits
    BY <1>4, <1>5 DEF AcceptConn
  <1>6. CASE StopServing \/ Refuse \/ Record \/ Abandon
    BY <1>4, <1>6 DEF StopServing, Refuse, Record, Abandon
  <1>7. CASE Reject \/ Respond \/ Drain \/ CloseRejected
    BY <1>4, <1>7 DEF Reject, Respond, Drain, CloseRejected
  <1>8. CASE Admit
    BY <1>1, <1>3, <1>8 DEF Admit, PermitLeft, poolVars
  <1>9. CASE Undo
    BY <1>1, <1>3, <1>9 DEF Undo, poolVars
  <1>10. CASE Submit
    <2>1. CASE execShut
      BY <1>2, <1>10, <2>1 DEF Submit
    <2>2. CASE ~execShut
      <3>1. Len(queue') = Len(queue) + 1
        BY <1>10, <2>2, AppendProperties DEF Submit, TypeOK, PoolTypes, AcceptTypes
      <3>2. QED
        BY <1>1, <1>2, <1>10, <2>2, <3>1 DEF Submit
    <2>3. QED
      BY <2>1, <2>2
  <1>11. CASE Adjust
    <2>1. Cardinality(Busy)' = Cardinality(Busy)
      <3>1. CASE wpc' = wpc
        BY <1>2, <3>1
      <3>2. ASSUME NEW w \in Workers \ Started, wpc' = [wpc EXCEPT ![w] = "get"]
            PROVE  Cardinality(Busy)' = Cardinality(Busy)
        <4>1. w \in Workers /\ wpc[w] \notin BusyPcs /\ "get" \notin BusyPcs
          BY <3>2 DEF Started, BusyPcs
        <4>2. QED
          BY <3>2, <4>1, BusyCount
      <3>3. QED
        BY <1>11, <3>1, <3>2 DEF Adjust
    <2>2. CASE apc' = "select"
      BY <1>1, <1>11, <2>1, <2>2 DEF Adjust
    <2>3. CASE apc' = "undo"
      BY <1>1, <1>11, <2>1, <2>3 DEF Adjust, Doubled
    <2>4. QED
      BY <1>11, <2>2, <2>3 DEF Adjust
  <1>12. QED
    BY <1>5, <1>6, <1>7, <1>8, <1>9, <1>10, <1>11 DEF AcceptThread

(* A worker takes over the permit of the item it takes, and its finally    *)
(* branch gives it back.                                                   *)
LEMMA WorkerPermits ==
    ASSUME TypeOK, NEW w \in Workers, Worker(w)
    PROVE  Permits' = Permits
  <1>1. /\ capacity \in Nat /\ Len(queue) \in Nat
        /\ Cardinality(Busy) \in Nat
    BY BusyType, LenProperties DEF TypeOK, PoolTypes
  <1>2. UNCHANGED apc
    BY DEF Worker, Get, Exit, Start, HandleReturns, HandleRaises, CloseServed,
           Complete, Fail, CountFailure, Release, Loop, acceptVars
  <1> USE DEF Permits, Count
  <1>3. CASE Get(w)
    <2>1. Len(queue') = Len(queue) - 1
      BY <1>3, HeadTailProperties DEF Get, TypeOK, PoolTypes
    <2>2. Cardinality(Busy)' = Cardinality(Busy) + 1
      <3>1. wpc[w] \notin BusyPcs /\ "start" \in BusyPcs
        BY <1>3 DEF Get, BusyPcs
      <3>2. QED
        BY <1>3, <3>1, BusyCount DEF Get
    <2>3. capacity' = capacity
      BY <1>3 DEF Get
    <2>4. QED
      BY <1>1, <1>2, <2>1, <2>2, <2>3
  <1>4. CASE Release(w)
    <2>1. Cardinality(Busy)' = Cardinality(Busy) - 1
      <3>1. wpc[w] \in BusyPcs /\ "tail" \notin BusyPcs
        BY <1>4 DEF Release, BusyPcs
      <3>2. QED
        BY <1>4, <3>1, BusyCount DEF Release
    <2>2. capacity' = capacity + 1 /\ queue' = queue
      BY <1>4 DEF Release
    <2>3. QED
      BY <1>1, <1>2, <2>1, <2>2
  <1>5. CASE Exit(w) \/ Loop(w)
    <2>1. Cardinality(Busy)' = Cardinality(Busy)
      <3>1. /\ wpc[w] \notin BusyPcs
            /\ \E p : p \notin BusyPcs /\ wpc' = [wpc EXCEPT ![w] = p]
        BY <1>5 DEF Exit, Loop, BusyPcs
      <3>2. QED
        BY <3>1, BusyCount
    <2>2. QED
      BY <1>2, <1>5, <2>1 DEF Exit, Loop
  <1>6. CASE ~(Get(w) \/ Release(w) \/ Exit(w) \/ Loop(w))
    <2>1. /\ wpc[w] \in BusyPcs
          /\ \E p \in BusyPcs : wpc' = [wpc EXCEPT ![w] = p]
          /\ UNCHANGED <<capacity, queue>>
      BY <1>6 DEF Worker, Start, HandleReturns, HandleRaises, CloseServed, Complete,
                  Fail, CountFailure, BusyPcs
    <2>2. Cardinality(Busy)' = Cardinality(Busy)
      BY <2>1, BusyCount
    <2>3. QED
      BY <1>2, <2>1, <2>2
  <1>7. QED
    BY <1>3, <1>4, <1>5, <1>6

LEMMA OtherPermits ==
    ASSUME \/ \E c \in Conns : Client(c)
           \/ \E k \in Closers : Closer(k)
           \/ UNCHANGED vars
    PROVE  Permits' = Permits
  <1>1. UNCHANGED <<apc, capacity, queue, wpc>>
    BY DEF Client, Connect, PeerStep, Closer, CallShutdown, LoopStopped, CallShutdownExecutor,
           TakeLock, ExecutorShutdown, QueueKept, JoinWorkers, JoinItself, DropLock, Unlisten,
           vars, acceptVars, poolVars
  <1>2. QED
    BY <1>1 DEF Permits, Busy, PermitPcs, Count

LEMMA NextPermits ==
    ASSUME TypeOK, [Next]_vars
    PROVE  Permits' = Permits \/ Doubled
  BY AcceptPermits, WorkerPermits, OtherPermits DEF Next, StandStill

(* No permit of the semaphore is lost or given back twice, on any path of  *)
(* process_request and _process_request_worker and whatever handle_error   *)
(* does, as long as the executor can start its threads.                    *)
THEOREM PermitsAreConserved ==
    ASSUME "thread_start" \notin Faults
    PROVE  Spec => []PermitsConserved
  <1>1. Init => PermitsConserved
    BY InitPermits
  <1>2. TypeOK /\ PermitsConserved /\ [Next]_vars => PermitsConserved'
    BY NextPermits DEF Doubled, PermitsConserved, TotalCapacity, MaxWorkers
  <1>3. QED
    BY <1>1, <1>2, TypeCorrect, PTL DEF Spec

(* Also when the executor fails to start a thread, no permit is lost: what *)
(* may happen is that one is given back twice (360, 380).                  *)
THEOREM PermitsAreNotLost == Spec => []NoPermitIsLost
  <1>1. Init => NoPermitIsLost
    BY InitPermits, CapacityType DEF PermitsConserved, NoPermitIsLost
  <1>2. TypeOK /\ NoPermitIsLost /\ [Next]_vars => NoPermitIsLost'
    <2>1. SUFFICES ASSUME TypeOK, NoPermitIsLost, [Next]_vars PROVE NoPermitIsLost'
      OBVIOUS
    <2>2. Permits' = Permits \/ Permits' = Permits + 1
      BY <2>1, NextPermits DEF Doubled
    <2>3. Permits \in Nat /\ TotalCapacity \in Nat /\ TotalCapacity' = TotalCapacity
      BY <2>1, PermitsType, CapacityType DEF TotalCapacity, MaxWorkers
    <2>4. QED
      BY <2>1, <2>2, <2>3 DEF NoPermitIsLost
  <1>3. QED
    BY <1>1, <1>2, TypeCorrect, PTL DEF Spec

(* A connection is rejected only while max_workers + max_pending others    *)
(* hold the permits.                                                       *)
THEOREM RejectsOnlyWhenFull ==
    ASSUME "thread_start" \notin Faults
    PROVE  Spec => RefusedOnlyWhenFull
  <1>1. ASSUME TypeOK, PermitsConserved, [Next]_vars
        PROVE  [apc = "acquire" /\ apc' = "reject" =>
                   Len(queue) + Cardinality(Busy) = TotalCapacity]_vars
    <2>1. SUFFICES ASSUME apc = "acquire", apc' = "reject"
                   PROVE  Len(queue) + Cardinality(Busy) = TotalCapacity
      OBVIOUS
    <2>2. capacity = 0
      <3>1. AcceptThread
        BY <1>1, <2>1 DEF Next, StandStill, Client, Connect, PeerStep, Worker, Get, Exit, Start,
           HandleReturns, HandleRaises, CloseServed, Complete, Fail, CountFailure,
           Release, Loop, Closer, CallShutdown, LoopStopped, CallShutdownExecutor,
           TakeLock, ExecutorShutdown, JoinWorkers, JoinItself, DropLock, Unlisten, vars, acceptVars
      <3>2. Refuse
        BY <2>1, <3>1 DEF AcceptThread, AcceptConn, StopServing, Admit, Record, Submit,
           Adjust, Undo, Abandon, Reject, Respond, Drain, CloseRejected
      <3>3. QED
        BY <1>1, <3>2 DEF Refuse, PermitLeft, TypeOK
    <2>3. Len(queue) \in Nat /\ Cardinality(Busy) \in Nat
      BY <1>1, BusyType, LenProperties DEF TypeOK, PoolTypes
    <2>4. QED
      BY <1>1, <2>1, <2>2, <2>3 DEF PermitsConserved, Permits, PermitPcs, Count
  <1>2. QED
    BY <1>1, TypeCorrect, PermitsAreConserved, PTL DEF Spec, RefusedOnlyWhenFull

-----------------------------------------------------------------------------
(* Draining.                                                               *)

(* Every call waits for the pool, and nothing keeps a thread from starting. *)
AlwaysWaits ==
    /\ "thread_start" \notin Faults
    /\ Scripts \subseteq [Closers -> Seq(Calls \ {"executor_nowait"})]

DrainedNow ==
    /\ queue = <<>>
    /\ \A w \in Workers : wpc[w] \in {"unstarted", "exited"}

(* What is queued has a thread to take it, or is about to get one. *)
Manned ==
    Started = {} => /\ idle = 0
                    /\ queue = <<>> \/ apc = "adjust"

(* Threads end, and the pool is marked closed, only after the executor was *)
(* shut down, from when on nothing is queued and no thread is started.     *)
ShutFirst ==
    /\ execShut => apc # "adjust"
    /\ execClosed => execShut /\ DrainedNow
    /\ \A w \in Workers : wpc[w] = "exited" => execShut /\ queue = <<>>

(* Who joins the workers joins all of them, and who is past the join or    *)
(* has closed the listening socket has found the pool closed; one at a     *)
(* time, and only while it is not closed yet.                              *)
JoinsAll ==
    /\ todo \in [Closers -> Seq(Calls \ {"executor_nowait"})]
    /\ \A k \in Closers :
          /\ kpc[k] = "join" => execShut /\ (k \notin Workers => ahead[k] = Started)
          /\ kpc[k] \in {"unlock", "unlisten"} => execClosed
          /\ kpc[k] \in {"executor", "join", "unlock"} => execLock = k
          /\ kpc[k] \in {"executor", "join"} => ~execClosed
    /\ ~listening => execClosed

DrainInv == Manned /\ ShutFirst /\ JoinsAll

LEMMA InitDrain == ASSUME AlwaysWaits, Init PROVE DrainInv
  <1>1. Started = {}
    BY DEF Init, Started
  <1>2. QED
    BY <1>1 DEF Init, AlwaysWaits, DrainInv, Manned, ShutFirst, JoinsAll

(* Steps that leave the pool and its closing alone. *)
LEMMA DrainKept ==
    ASSUME DrainInv, UNCHANGED <<queue, idle, wpc, closeVars>>,
           apc = "adjust" <=> apc' = "adjust"
    PROVE  DrainInv'
  <1>1. Started' = Started
    BY DEF Started
  <1>2. QED
    BY <1>1 DEF DrainInv, Manned, ShutFirst, JoinsAll, DrainedNow, closeVars

LEMMA AcceptDrain ==
    ASSUME TypeOK, AlwaysWaits, DrainInv, AcceptThread
    PROVE  DrainInv'
  <1>1. CASE ~Submit /\ ~Adjust
    BY <1>1, DrainKept
    DEF AcceptThread, AcceptConn, StopServing, Admit, Refuse, Record, Undo, Abandon,
        Reject, Respond, Drain, CloseRejected, poolVars
  <1>2. CASE Submit
    <2>1. UNCHANGED <<wpc, idle, closeVars>> /\ Started' = Started
      BY <1>2 DEF Submit, Started
    <2>2. \/ execShut /\ UNCHANGED queue /\ apc' = "undo" /\ apc = "submit"
          \/ ~execShut /\ apc' = "adjust"
      BY <1>2 DEF Submit
    <2>3. QED
      BY <2>1, <2>2 DEF DrainInv, Manned, ShutFirst, JoinsAll, DrainedNow, closeVars
  <1>3. CASE Adjust
    <2>1. /\ apc = "adjust" /\ apc' = "select"
          /\ UNCHANGED <<queue, closeVars>>
          /\ ~execShut /\ ~execClosed /\ listening
      BY <1>3 DEF Adjust, AlwaysWaits, DrainInv, ShutFirst, JoinsAll
    <2>2. Started' # {} /\ Started \subseteq Started'
      <3>1. CASE idle > 0
        BY <1>3, <3>1 DEF Adjust, Started, DrainInv, Manned
      <3>2. CASE Started = Workers
        BY <1>3, <3>2, PoolAssumption DEF Adjust, Started
      <3>3. ASSUME NEW w \in Workers \ Started, wpc' = [wpc EXCEPT ![w] = "get"]
            PROVE  Started' # {} /\ Started \subseteq Started'
        BY <3>3 DEF Started, TypeOK, PoolTypes
      <3>4. QED
        BY <1>3, <3>1, <3>2, <3>3 DEF Adjust, AlwaysWaits
    <2>3. \A w \in Workers : wpc'[w] # "exited"
      BY <1>3, <2>1 DEF Adjust, DrainInv, ShutFirst, TypeOK, PoolTypes
    <2>4. \A k \in Closers : kpc[k] \notin {"join", "unlock", "unlisten"}
      BY <2>1 DEF DrainInv, JoinsAll
    <2>5. QED
      BY <2>1, <2>2, <2>3, <2>4 DEF DrainInv, Manned, ShutFirst, JoinsAll, closeVars
  <1>4. QED
    BY <1>1, <1>2, <1>3

LEMMA WorkerDrain ==
    ASSUME TypeOK, DrainInv, NEW w \in Workers, Worker(w)
    PROVE  DrainInv'
  <1>1. /\ UNCHANGED <<apc, closeVars>>
        /\ wpc[w] \notin {"unstarted", "exited"}
        /\ wpc'[w] # "unstarted"
        /\ \A v \in Workers \ {w} : wpc'[v] = wpc[v]
    BY DEF Worker, Get, Exit, Start, HandleReturns, HandleRaises, CloseServed, Complete, Fail,
       CountFailure, Release, Loop, acceptVars, TypeOK, PoolTypes
  <1>2. Started' = Started /\ Started # {}
    BY <1>1 DEF Started
  <1>3. ~execClosed
    BY <1>1 DEF DrainInv, ShutFirst, DrainedNow
  <1>4. /\ queue = <<>> => queue' = <<>>
        /\ wpc'[w] = "exited" => execShut /\ queue = <<>>
    BY DEF Worker, Get, Exit, Start, HandleReturns, HandleRaises, CloseServed, Complete, Fail,
       CountFailure, Release, Loop, TypeOK, PoolTypes
  <1>5. ShutFirst'
    BY <1>1, <1>3, <1>4 DEF DrainInv, ShutFirst, closeVars
  <1>6. JoinsAll' /\ Manned'
    BY <1>1, <1>2, <1>3 DEF DrainInv, JoinsAll, Manned, closeVars
  <1>7. QED
    BY <1>5, <1>6 DEF DrainInv

LEMMA CloserDrain ==
    ASSUME TypeOK, DrainInv, NEW k \in Closers, Closer(k)
    PROVE  DrainInv'
  <1> USE DEF DrainInv
  <1>1. /\ UNCHANGED <<queue, idle, wpc, apc>>
        /\ Started' = Started /\ (execShut => execShut')
    BY DEF Closer, CallShutdown, LoopStopped, CallShutdownExecutor, TakeLock,
           ExecutorShutdown, QueueKept, JoinWorkers, JoinItself, DropLock, Unlisten,
           acceptVars, poolVars, Started
  <1>2. Manned'
    BY <1>1 DEF Manned
  <1> DEFINE Todos == todo' \in [Closers -> Seq(Calls \ {"executor_nowait"})]
             Others == \A j \in Closers \ {k} : kpc'[j] = kpc[j] /\ ahead'[j] = ahead[j]
  <1>3. Others
    BY DEF Closer, CallShutdown, LoopStopped, CallShutdownExecutor, TakeLock, Return,
           ExecutorShutdown, JoinWorkers, JoinItself, DropLock, Unlisten, Joined,
           TypeOK, CloseTypes
  <1>4. Todos
    <2>1. ASSUME todo[k] # <<>>, Return(k) PROVE Todos
      <3>1. Tail(todo[k]) \in Seq(Calls \ {"executor_nowait"})
        BY <2>1, HeadTailProperties DEF JoinsAll
      <3>2. QED
        BY <2>1, <3>1 DEF Return, JoinsAll
    <2>2. CASE LoopStopped(k) \/ DropLock(k) \/ Unlisten(k)
      BY <2>1, <2>2 DEF LoopStopped, DropLock, Unlisten, JoinsAll, TypeOK, CloseTypes
    <2>3. CASE JoinItself(k)
      BY <2>3 DEF JoinItself, JoinsAll
    <2>4. CASE ~(LoopStopped(k) \/ DropLock(k) \/ Unlisten(k) \/ JoinItself(k))
      BY <2>4 DEF Closer, CallShutdown, CallShutdownExecutor, TakeLock, ExecutorShutdown,
                  JoinWorkers, JoinsAll
    <2>5. QED
      BY <2>2, <2>3, <2>4
  <1>5. CASE ExecutorShutdown(k)
    <2>1. Waits(k)
      <3>1. todo[k] # <<>> /\ todo[k] \in Seq(Calls \ {"executor_nowait"})
        BY <1>5 DEF ExecutorShutdown, JoinsAll, TypeOK, CloseTypes
      <3>2. QED
        BY <3>1, HeadTailProperties DEF Waits
    <2>2. /\ execShut' = TRUE /\ execClosed' = FALSE /\ apc # "adjust"
          /\ listening' = listening /\ kpc'[k] = "join"
          /\ k \notin Workers => ahead'[k] = Started
      BY <1>5, <2>1 DEF ExecutorShutdown, ClosedBeforeJoin, Ahead, TypeOK, CloseTypes
    <2>3. ~execClosed /\ execLock' = execLock /\ execLock = k
      BY <1>5 DEF ExecutorShutdown, JoinsAll
    <2>4. QED
      BY <1>1, <1>2, <1>3, <1>4, <2>2, <2>3 DEF ShutFirst, JoinsAll
  <1>6. CASE JoinWorkers(k)
    <2>1. /\ execShut /\ k \notin Workers /\ execClosed' = TRUE
          /\ \A w \in Started : wpc[w] = "exited"
          /\ UNCHANGED <<execShut, execLock, listening>> /\ kpc'[k] = "unlock"
          /\ execLock = k
      BY <1>6 DEF JoinWorkers, Joined, JoinsAll, TypeOK, CloseTypes
    <2>2. queue = <<>>
      <3>1. CASE Started = {}
        BY <2>1, <3>1 DEF Manned, ShutFirst
      <3>2. CASE Started # {}
        BY <2>1, <3>2 DEF ShutFirst, Started
      <3>3. QED
        BY <3>1, <3>2
    <2>3. DrainedNow
      BY <2>1, <2>2 DEF DrainedNow, Started
    <2>4. QED
      BY <1>1, <1>2, <1>3, <1>4, <2>1, <2>3 DEF ShutFirst, JoinsAll, DrainedNow
  <1>7. CASE ~ExecutorShutdown(k) /\ ~JoinWorkers(k)
    <2>1. UNCHANGED <<execShut, execClosed>>
      BY <1>7 DEF Closer, CallShutdown, LoopStopped, CallShutdownExecutor, TakeLock,
                  JoinItself, DropLock, Unlisten
    <2>2. /\ kpc'[k] # "join"
          /\ kpc'[k] \in {"unlock", "unlisten"} => execClosed
          /\ kpc'[k] \in {"executor", "unlock"} => execLock' = k
          /\ kpc'[k] = "executor" => ~execClosed
          /\ ~listening' => execClosed
      BY <1>7 DEF Closer, CallShutdown, LoopStopped, CallShutdownExecutor, TakeLock, Return,
                  JoinItself, DropLock, Unlisten, JoinsAll, TypeOK, CloseTypes
    <2>3. execLock' = execLock \/ execLock \in {k, None}
      BY <1>7, EnvironmentAssumption
      DEF Closer, CallShutdown, LoopStopped, CallShutdownExecutor, TakeLock,
          JoinItself, Joined, DropLock, Unlisten, JoinsAll
    <2>4. QED
      BY <1>1, <1>2, <1>3, <1>4, <2>1, <2>2, <2>3, EnvironmentAssumption
      DEF ShutFirst, JoinsAll, DrainedNow
  <1>8. QED
    BY <1>5, <1>6, <1>7

(* Once server_close has closed the listening socket, nothing is running   *)
(* or waiting in the pool, whichever threads and methods call it, as long  *)
(* as nobody calls shutdown_executor(wait=False).                          *)
THEOREM CloseLeavesNothing ==
    ASSUME AlwaysWaits
    PROVE  Spec => []CloseDrains
  <1>1. Init => DrainInv
    BY InitDrain
  <1>2. TypeOK /\ DrainInv /\ [Next]_vars => DrainInv'
    <2>1. SUFFICES ASSUME TypeOK, DrainInv, [Next]_vars PROVE DrainInv'
      OBVIOUS
    <2>2. CASE (\E c \in Conns : Client(c)) \/ UNCHANGED vars
      BY <2>1, <2>2, DrainKept DEF Client, Connect, PeerStep, vars, acceptVars, poolVars
    <2>3. QED
      BY <2>1, <2>2, AcceptDrain, WorkerDrain, CloserDrain DEF Next, StandStill
  <1>3. DrainInv => CloseDrains
    BY DEF DrainInv, ShutFirst, JoinsAll, DrainedNow, CloseDrains
  <1>4. QED
    BY <1>1, <1>2, <1>3, TypeCorrect, PTL DEF Spec

-----------------------------------------------------------------------------
(* Standing still.                                                         *)

(* The lock is held by whoever is inside shutdown_executor's `with`.       *)
LockHeld ==
    \A k \in Closers : execLock = k <=> kpc[k] \in {"executor", "join", "unlock"}

(* Who waits for the loop has asked it to stop, who joins has shut the     *)
(* executor down and waits for threads other than itself.                  *)
WaitsAreAnnounced ==
    \A k \in Closers :
        /\ kpc[k] = "await_loop" => stopReq
        /\ kpc[k] = "join" => execShut /\ ahead[k] \subseteq Started \ {k}

EndsEmpty ==
    /\ execShut => apc # "adjust"
    /\ \A w \in Workers : wpc[w] = "exited" => execShut /\ queue = <<>>

MethodsCall ==
    \A w \in Workers \cap Closers : kpc[w] # "ready" => wpc[w] = "handle"

(* Until all threads are started, each queued item has one that is free to *)
(* take it, and the semaphore counts the free ones beyond these.           *)
FreePcs == {"get", "exited"}
Free == {w \in Workers : wpc[w] \in FreePcs}

Manning ==
    Started # Workers =>
        Len(queue) + idle = Cardinality(Free) + Count(apc = "adjust")

Lively == LockHeld /\ WaitsAreAnnounced /\ EndsEmpty /\ MethodsCall /\ Manning

LEMMA FreeType == IsFiniteSet(Free) /\ Cardinality(Free) \in Nat
  BY PoolAssumption, FS_Subset, FS_CardinalityType DEF Free

LEMMA FreeCount ==
    ASSUME TypeOK, NEW w \in Workers, NEW p, wpc' = [wpc EXCEPT ![w] = p]
    PROVE  Cardinality(Free)' =
              CASE wpc[w] \notin FreePcs /\ p \in FreePcs -> Cardinality(Free) + 1
                [] wpc[w] \in FreePcs /\ p \notin FreePcs -> Cardinality(Free) - 1
                [] OTHER -> Cardinality(Free)
  <1>1. Free = Into(Workers, wpc, FreePcs) /\ Free' = Into(Workers, wpc', FreePcs)
    BY DEF Free, Into
  <1>2. QED
    BY <1>1, PlaceCount

LEMMA InitLively == Init => Lively
  <1> SUFFICES ASSUME Init PROVE Lively
    OBVIOUS
  <1>1. Free = {} /\ Cardinality(Free) = 0 /\ Len(queue) = 0
    BY FS_EmptySet DEF Init, Free, FreePcs
  <1>2. Manning
    BY <1>1 DEF Init, Manning, Count
  <1>3. LockHeld
    BY EnvironmentAssumption DEF Init, LockHeld
  <1>4. QED
    BY <1>2, <1>3 DEF Init, Lively, WaitsAreAnnounced, EndsEmpty, MethodsCall

LEMMA AcceptLively ==
    ASSUME TypeOK, Lively, AcceptThread, "thread_start" \notin Faults
    PROVE  Lively'
  <1>1. /\ UNCHANGED closeVars
        /\ Started \subseteq Started'
        /\ \A w \in Workers : wpc'[w] \in {wpc[w], "get"}
        /\ \A w \in Workers : wpc[w] # "unstarted" => wpc'[w] = wpc[w]
    BY DEF AcceptThread, AcceptConn, StopServing, Admit, Refuse, Record, Submit, Adjust,
           Undo, Abandon, Reject, Respond, Drain, CloseRejected, poolVars, Started,
           TypeOK, PoolTypes
  <1>2. LockHeld' /\ WaitsAreAnnounced' /\ MethodsCall'
    BY <1>1 DEF Lively, LockHeld, WaitsAreAnnounced, MethodsCall, closeVars
  <1>3. execShut => UNCHANGED queue /\ apc' # "adjust"
    BY DEF Lively, EndsEmpty, AcceptThread, AcceptConn, StopServing, Admit, Refuse, Record,
           Submit, Adjust, Undo, Abandon, Reject, Respond, Drain, CloseRejected, poolVars
  <1>4. EndsEmpty'
    BY <1>1, <1>3 DEF Lively, EndsEmpty, closeVars
  <1>5. Manning'
    <2>1. /\ Len(queue) \in Nat /\ idle \in Nat /\ Cardinality(Free) \in Nat
      BY FreeType, LenProperties DEF TypeOK, PoolTypes
    <2>2. ASSUME wpc' = wpc PROVE Started' = Started /\ Cardinality(Free)' = Cardinality(Free)
      BY <2>2 DEF Started, Free
    <2>3. CASE ~Submit /\ ~Adjust
      <3>1. UNCHANGED poolVars /\ apc # "adjust" /\ apc' # "adjust"
        BY <2>3 DEF AcceptThread, AcceptConn, StopServing, Admit, Refuse, Record, Undo,
                    Abandon, Reject, Respond, Drain, CloseRejected
      <3>2. QED
        BY <2>2, <3>1 DEF Lively, Manning, poolVars, Count
    <2>4. CASE Submit
      <3>1. UNCHANGED <<wpc, idle>> /\ apc = "submit"
        BY <2>4 DEF Submit
      <3>2. \/ apc' = "undo" /\ Len(queue') = Len(queue)
            \/ apc' = "adjust" /\ Len(queue') = Len(queue) + 1
        BY <2>4, AppendProperties DEF Submit, TypeOK, PoolTypes, AcceptTypes
      <3>3. QED
        BY <2>1, <2>2, <3>1, <3>2 DEF Lively, Manning, Count
    <2>5. CASE Adjust
      <3>1. apc = "adjust" /\ apc' = "select" /\ queue' = queue
        BY <2>5 DEF Adjust
      <3>2. CASE wpc' = wpc
        <4>1. Started = Workers \/ idle' = idle - 1
          BY <2>5, <3>2 DEF Adjust, Started, TypeOK, PoolTypes
        <4>2. QED
          BY <2>1, <2>2, <3>1, <3>2, <4>1 DEF Lively, Manning, Count
      <3>3. ASSUME NEW w \in Workers \ Started, wpc' = [wpc EXCEPT ![w] = "get"],
                   idle' = idle
            PROVE  Manning'
        <4>1. wpc[w] \notin FreePcs /\ "get" \in FreePcs
          BY <3>3 DEF Started, FreePcs
        <4>2. Cardinality(Free)' = Cardinality(Free) + 1
          BY <3>3, <4>1, FreeCount
        <4>3. QED
          BY <2>1, <3>1, <3>3, <4>2 DEF Lively, Manning, Count
      <3>4. QED
        BY <2>5, <3>2, <3>3 DEF Adjust
    <2>6. QED
      BY <2>3, <2>4, <2>5
  <1>6. QED
    BY <1>2, <1>4, <1>5 DEF Lively

LEMMA WorkerLively ==
    ASSUME TypeOK, Lively, NEW w \in Workers, Worker(w)
    PROVE  Lively'
  <1>1. /\ UNCHANGED <<apc, closeVars>>
        /\ wpc[w] \notin {"unstarted", "exited"}
        /\ wpc'[w] # "unstarted"
        /\ \A v \in Workers \ {w} : wpc'[v] = wpc[v]
        /\ queue = <<>> => queue' = <<>>
        /\ wpc'[w] = "exited" => execShut /\ queue = <<>>
        /\ wpc[w] = "handle" => MethodDone(w)
    BY DEF Worker, Get, Exit, Start, HandleReturns, HandleRaises, CloseServed, Complete, Fail,
       CountFailure, Release, Loop, acceptVars, TypeOK, PoolTypes
  <1>2. Started' = Started
    BY <1>1 DEF Started
  <1>3. LockHeld' /\ WaitsAreAnnounced'
    BY <1>1, <1>2 DEF Lively, LockHeld, WaitsAreAnnounced, closeVars
  <1>4. EndsEmpty'
    BY <1>1 DEF Lively, EndsEmpty, closeVars
  <1>5. MethodsCall'
    BY <1>1 DEF Lively, MethodsCall, MethodDone, closeVars
  <1>6. Manning'
    <2>1. Len(queue) \in Nat /\ idle \in Nat /\ Cardinality(Free) \in Nat
      BY FreeType, LenProperties DEF TypeOK, PoolTypes
    <2>2. CASE Get(w)
      <3>1. Len(queue') = Len(queue) - 1 /\ idle' = idle
        BY <2>2, HeadTailProperties DEF Get, TypeOK, PoolTypes
      <3>2. wpc[w] \in FreePcs /\ "start" \notin FreePcs
        BY <2>2 DEF Get, FreePcs
      <3>3. Cardinality(Free)' = Cardinality(Free) - 1
        BY <2>2, <3>2, FreeCount DEF Get
      <3>4. QED
        BY <1>1, <1>2, <2>1, <3>1, <3>3 DEF Lively, Manning, Count
    <2>3. CASE Loop(w)
      <3>1. wpc[w] \notin FreePcs /\ "get" \in FreePcs
        BY <2>3 DEF Loop, FreePcs
      <3>2. Cardinality(Free)' = Cardinality(Free) + 1
        BY <2>3, <3>1, FreeCount DEF Loop
      <3>3. idle' = idle + 1 /\ queue' = queue
        BY <2>3 DEF Loop
      <3>4. QED
        BY <1>1, <1>2, <2>1, <3>2, <3>3 DEF Lively, Manning, Count
    <2>4. CASE ~Get(w) /\ ~Loop(w)
      <3>1. UNCHANGED <<queue, idle>>
        BY <2>4 DEF Worker, Exit, Start, HandleReturns, HandleRaises, CloseServed, Complete,
                    Fail, CountFailure, Release
      <3>2. wpc[w] \in FreePcs <=> wpc'[w] \in FreePcs
        BY <2>4 DEF Worker, Exit, Start, HandleReturns, HandleRaises, CloseServed, Complete,
                    Fail, CountFailure, Release, FreePcs, TypeOK, PoolTypes
      <3>3. Free' = Free
        BY <1>1, <3>2 DEF Free
      <3>4. QED
        BY <1>1, <1>2, <3>1, <3>3 DEF Lively, Manning
    <2>5. QED
      BY <2>2, <2>3, <2>4
  <1>7. QED
    BY <1>3, <1>4, <1>5, <1>6 DEF Lively

LEMMA CloserLively ==
    ASSUME TypeOK, Lively, NEW k \in Closers, Closer(k)
    PROVE  Lively'
  <1>1. UNCHANGED <<queue, idle, wpc, apc>> /\ Started' = Started /\ Free' = Free
    BY DEF Closer, CallShutdown, LoopStopped, CallShutdownExecutor, TakeLock,
           ExecutorShutdown, QueueKept, JoinWorkers, JoinItself, DropLock, Unlisten,
           acceptVars, poolVars, Started, Free
  <1>2. /\ execShut => execShut'
        /\ stopReq => stopReq'
        /\ execShut' => execShut \/ apc # "adjust"
    BY DEF Closer, CallShutdown, LoopStopped, CallShutdownExecutor, TakeLock,
           ExecutorShutdown, JoinWorkers, JoinItself, DropLock, Unlisten
  <1>3. Manning' /\ EndsEmpty'
    BY <1>1, <1>2 DEF Lively, Manning, EndsEmpty
  <1>4. \A j \in Closers \ {k} : kpc'[j] = kpc[j] /\ ahead'[j] = ahead[j]
    BY DEF Closer, CallShutdown, LoopStopped, CallShutdownExecutor, TakeLock, Return,
           ExecutorShutdown, JoinWorkers, JoinItself, DropLock, Unlisten, Joined,
           TypeOK, CloseTypes
  <1>5. LockHeld'
    <2>1. CASE TakeLock(k)
      BY <1>4, <2>1, EnvironmentAssumption DEF TakeLock, Lively, LockHeld, TypeOK, CloseTypes
    <2>2. CASE DropLock(k) \/ JoinItself(k)
      BY <1>4, <2>2, EnvironmentAssumption
      DEF DropLock, JoinItself, Joined, Return, Lively, LockHeld, TypeOK, CloseTypes
    <2>3. CASE ~(TakeLock(k) \/ DropLock(k) \/ JoinItself(k))
      <3>1. execLock' = execLock
        BY <2>3 DEF Closer, CallShutdown, LoopStopped, CallShutdownExecutor,
                    ExecutorShutdown, JoinWorkers, Unlisten
      <3>2. kpc[k] \in {"executor", "join", "unlock"}
              <=> kpc'[k] \in {"executor", "join", "unlock"}
        BY <2>3 DEF Closer, CallShutdown, LoopStopped, CallShutdownExecutor, Return, MayCall,
                    ExecutorShutdown, JoinWorkers, Joined, Unlisten, TypeOK, CloseTypes
      <3>3. QED
        BY <1>4, <3>1, <3>2 DEF Lively, LockHeld
    <2>4. QED
      BY <2>1, <2>2, <2>3
  <1>6. WaitsAreAnnounced'
    <2>1. kpc'[k] = "await_loop" => stopReq'
      BY DEF Closer, CallShutdown, LoopStopped, CallShutdownExecutor, TakeLock, Return,
             ExecutorShutdown, JoinWorkers, JoinItself, DropLock, Unlisten,
             TypeOK, CloseTypes
    <2>2. kpc'[k] = "join" => execShut' /\ ahead'[k] \subseteq Started \ {k}
      <3>1. CASE ExecutorShutdown(k)
        BY <3>1 DEF ExecutorShutdown, Ahead, Started, TypeOK, CloseTypes
      <3>2. CASE ~ExecutorShutdown(k)
        BY <3>2 DEF Closer, CallShutdown, LoopStopped, CallShutdownExecutor, TakeLock, Return,
                    JoinWorkers, JoinItself, DropLock, Unlisten, TypeOK, CloseTypes
      <3>3. QED
        BY <3>1, <3>2
    <2>3. QED
      BY <1>1, <1>2, <1>4, <2>1, <2>2 DEF Lively, WaitsAreAnnounced
  <1>7. MethodsCall'
    <2>1. k \in Workers /\ kpc'[k] # "ready" => wpc[k] = "handle"
      BY DEF Lively, MethodsCall, Closer, CallShutdown, LoopStopped, CallShutdownExecutor,
             TakeLock, Return, MayCall, ExecutorShutdown, JoinWorkers, JoinItself, DropLock,
             Joined, Unlisten, TypeOK, CloseTypes
    <2>2. QED
      BY <1>1, <1>4, <2>1 DEF Lively, MethodsCall
  <1>8. QED
    BY <1>3, <1>5, <1>6, <1>7 DEF Lively

LEMMA OtherLively ==
    ASSUME Lively, (\E c \in Conns : Client(c)) \/ UNCHANGED vars
    PROVE  Lively'
  <1>1. UNCHANGED <<apc, queue, idle, wpc, closeVars>>
    BY DEF Client, Connect, PeerStep, vars, acceptVars, poolVars
  <1>2. Started' = Started /\ Free' = Free
    BY <1>1 DEF Started, Free
  <1>3. QED
    BY <1>1, <1>2
    DEF Lively, LockHeld, WaitsAreAnnounced, EndsEmpty, MethodsCall, Manning, closeVars

(* Which threads hold the lock, are marked as ended, or are there for the  *)
(* queued items: what a thread that waits may rely on (336-358, 453-461).  *)
THEOREM LivelyInvariant ==
    ASSUME "thread_start" \notin Faults
    PROVE  Spec => []Lively
  <1>1. TypeOK /\ Lively /\ [Next]_vars => Lively'
    BY AcceptLively, WorkerLively, CloserLively, OtherLively DEF Next, StandStill
  <1>2. QED
    BY InitLively, TypeCorrect, <1>1, PTL DEF Spec

(* The workers whose method is inside a call to the server. *)
Calling == {w \in Workers : wpc[w] = "handle" /\ ~MethodDone(w)}

(* All others that were started have ended or wait on an empty queue.      *)
LEMMA OthersAreFree ==
    ASSUME TypeOK, Lively, AllWait, NEW w \in Started \ Calling
    PROVE  w \in Free /\ w \notin Busy /\ queue = <<>> /\ (execShut => wpc[w] = "exited")
  BY DEF AllWait, WorkerWaits, Calling, Started, Lively, EndsEmpty, Free, FreePcs, Busy, BusyPcs

(* A join that does not end waits for one of these workers. *)
LEMMA JoinWaitsForACall ==
    ASSUME TypeOK, Lively, AllWait, NEW k \in Closers, kpc[k] = "join"
    PROVE  ahead[k] \cap Calling # {}
  <1>1. PICK w \in ahead[k] : wpc[w] # "exited"
    BY DEF AllWait, CloserWaits
  <1>2. execShut /\ w \in Started
    BY DEF Lively, WaitsAreAnnounced
  <1>3. QED
    BY <1>1, <1>2, OthersAreFree

(* Who waits for the lock waits for such a join. *)
LEMMA LockWaitsForJoin ==
    ASSUME TypeOK, Lively, AllWait, NEW k \in Closers, kpc[k] = "lock"
    PROVE  execLock \in Closers /\ kpc[execLock] = "join"
  <1>1. execLock \in Closers
    BY DEF AllWait, CloserWaits, TypeOK, CloseTypes
  <1>2. kpc[execLock] \in {"executor", "join", "unlock"}
    BY <1>1 DEF Lively, LockHeld
  <1>3. CloserWaits(execLock) /\ apc # "adjust"
    BY <1>1 DEF AllWait, AcceptWaits
  <1>4. QED
    BY <1>1, <1>2, <1>3 DEF CloserWaits

(* Who waits for the loop waits for an accept thread without a permit. *)
LEMMA LoopWaitsForPermit ==
    ASSUME TypeOK, Lively, AllWait, NEW k \in Closers, kpc[k] = "await_loop"
    PROVE  apc = "acquire" /\ capacity = 0 /\ Blocking
  BY DEF AllWait, CloserWaits, AcceptWaits, Lively, WaitsAreAnnounced, PermitLeft, TypeOK

(* Without a permit to give, every worker is held up. *)
LEMMA NoPermitMeansAllCall ==
    ASSUME TypeOK, Lively, PermitsConserved, AllWait, apc = "acquire", capacity = 0
    PROVE  Calling = Workers
  <1>1. Len(queue) + Cardinality(Busy) = MaxWorkers + MaxPending
    BY BusyType, LenProperties
    DEF PermitsConserved, Permits, TotalCapacity, Count, PermitPcs, TypeOK, PoolTypes
  <1>2. /\ Len(queue) \in Nat /\ Cardinality(Busy) \in Nat /\ Cardinality(Free) \in Nat
        /\ idle \in Nat /\ MaxWorkers \in Nat /\ MaxPending \in Nat
    BY BusyType, FreeType, CapacityType, LenProperties, PoolAssumption
    DEF TypeOK, PoolTypes
  <1>3. Started = Workers
    <2> SUFFICES ASSUME Started # Workers PROVE FALSE
      OBVIOUS
    <2>1. Len(queue) + idle = Cardinality(Free)
      BY FreeType DEF Lively, Manning, Count
    <2>2. Busy \cap Free = {} /\ Busy \cup Free \subseteq Started
      BY DEF Busy, Free, Started, BusyPcs, FreePcs
    <2>3. Started \subseteq Workers /\ Busy \cup Free # Workers
      BY <2>2 DEF Started
    <2>4. /\ Cardinality(Busy \cup Free) = Cardinality(Busy) + Cardinality(Free)
          /\ Cardinality(Busy \cup Free) \in Nat
      <3>1. Cardinality(Busy \cup Free)
              = Cardinality(Busy) + Cardinality(Free) - Cardinality(Busy \cap Free)
        BY BusyType, FreeType, FS_Union
      <3>2. Cardinality(Busy \cap Free) = 0
        BY <2>2, FS_EmptySet
      <3>3. QED
        BY <1>2, <3>1, <3>2
    <2>5. Cardinality(Busy \cup Free) < MaxWorkers
      <3>1. Busy \cup Free \subseteq Workers
        BY <2>2, <2>3
      <3>2. /\ Cardinality(Busy \cup Free) <= Cardinality(Workers)
            /\ Cardinality(Busy \cup Free) # Cardinality(Workers)
        BY <2>3, <3>1, PoolAssumption, FS_Subset
      <3>3. QED
        BY <1>2, <2>4, <3>2 DEF MaxWorkers
    <2>6. QED
      BY <1>1, <1>2, <2>1, <2>4, <2>5
  <1>4. Calling \subseteq Workers
    BY DEF Calling
  <1>5. ASSUME NEW w \in Workers \ Calling PROVE FALSE
    <2>1. w \notin Busy /\ queue = <<>>
      BY <1>3, <1>5, OthersAreFree
    <2>2. Busy \subseteq Workers /\ Busy # Workers /\ Len(queue) = 0
      BY <2>1 DEF Busy
    <2>3. /\ Cardinality(Busy) <= Cardinality(Workers)
          /\ Cardinality(Busy) # Cardinality(Workers)
      BY <2>2, PoolAssumption, FS_Subset
    <2>4. QED
      BY <1>1, <1>2, <2>2, <2>3 DEF MaxWorkers
  <1>6. QED
    BY <1>4, <1>5

LEMMA NobodyCallsIsQuiescent ==
    ASSUME TypeOK, Lively, PermitsConserved, AllWait, Calling = {}
    PROVE  Quiescent
  <1>1. queue = <<>>
    <2>1. CASE Started = {}
      <3>1. Started # Workers /\ Free = {} /\ Cardinality(Free) = 0
        BY <2>1, PoolAssumption, FS_EmptySet DEF Started, Free, FreePcs
      <3>2. Len(queue) + idle = 0
        BY <3>1 DEF Lively, Manning, AllWait, AcceptWaits, Count
      <3>3. Len(queue) = 0
        BY <3>2, LenProperties DEF TypeOK, PoolTypes
      <3>4. QED
        BY <3>3, EmptySeq DEF TypeOK, PoolTypes
    <2>2. CASE Started # {}
      BY <2>2, OthersAreFree
    <2>3. QED
      BY <2>1, <2>2
  <1>2. \A w \in Workers : wpc[w] \in {"unstarted", "get", "exited"}
    BY OthersAreFree DEF Started, Free, FreePcs
  <1>3. apc # "acquire"
    <2> SUFFICES ASSUME apc = "acquire" PROVE FALSE
      OBVIOUS
    <2>1. capacity = 0
      BY DEF AllWait, AcceptWaits, PermitLeft, TypeOK
    <2>2. QED
      BY <2>1, NoPermitMeansAllCall, PoolAssumption
  <1>4. ASSUME NEW k \in Closers
        PROVE  kpc[k] = "ready" /\ (k \in Workers \/ todo[k] = <<>>)
    <2>1. kpc[k] # "join"
      BY JoinWaitsForACall
    <2>2. kpc[k] # "lock"
      BY LockWaitsForJoin, JoinWaitsForACall
    <2>3. kpc[k] # "await_loop"
      BY <1>3, LoopWaitsForPermit
    <2>4. QED
      BY <2>1, <2>2, <2>3 DEF AllWait, AcceptWaits, CloserWaits, MayCall
  <1>5. QED
    BY <1>1, <1>2, <1>3, <1>4 DEF Quiescent, AllWait, AcceptWaits

LEMMA CallersAreHeldUp ==
    ASSUME TypeOK, Lively, PermitsConserved, AllWait
    PROVE  HeldUp(Calling)
  <1>1. Calling \subseteq Closers
    BY DEF Calling, MethodDone
  <1>2. ASSUME NEW w \in Calling
        PROVE  \/ /\ kpc[w] = "lock" /\ execLock # None
                  /\ kpc[execLock] = "join" /\ ahead[execLock] \cap Calling # {}
               \/ kpc[w] = "join" /\ ahead[w] \cap Calling # {}
               \/ /\ kpc[w] = "await_loop" /\ Calling = Workers
                  /\ Blocking /\ apc = "acquire" /\ capacity = 0
    <2>1. w \in Closers /\ kpc[w] # "ready"
      BY DEF Calling, MethodDone
    <2>2. CASE kpc[w] = "lock"
      <3>1. execLock \in Closers /\ kpc[execLock] = "join"
        BY <2>1, <2>2, LockWaitsForJoin
      <3>2. QED
        BY <2>2, <3>1, JoinWaitsForACall, EnvironmentAssumption
    <2>3. CASE kpc[w] = "join"
      BY <2>1, <2>3, JoinWaitsForACall
    <2>4. CASE kpc[w] = "await_loop"
      BY <2>1, <2>4, LoopWaitsForPermit, NoPermitMeansAllCall
    <2>5. QED
      BY <2>1, <2>2, <2>3, <2>4 DEF AllWait, AcceptWaits, CloserWaits
  <1>3. QED
    BY <1>1, <1>2 DEF HeldUp

(* The threads wait for one another only when they have nothing to do, or  *)
(* in the ways in which a method can hold its own server up; whatever the  *)
(* scripts, the policy and the sizes (336-358, 453-465).                   *)
THEOREM NobodyGetsStuck ==
    ASSUME "thread_start" \notin Faults
    PROVE  Spec => []NobodyIsStuck
  <1>1. TypeOK /\ Lively /\ PermitsConserved => NobodyIsStuck
    <2> SUFFICES ASSUME TypeOK, Lively, PermitsConserved, AllWait
                 PROVE  Quiescent \/ Deadlocked
      BY DEF NobodyIsStuck
    <2>1. CASE Calling = {}
      BY <2>1, NobodyCallsIsQuiescent
    <2>2. CASE Calling # {}
      BY <2>2, CallersAreHeldUp DEF Calling, Deadlocked
    <2>3. QED
      BY <2>1, <2>2
  <1>2. QED
    BY TypeCorrect, LivelyInvariant, PermitsAreConserved, <1>1, PTL

(* As long as no method shuts its own server down, the threads of the      *)
(* server and those that shut it down never deadlock at all.               *)
THEOREM OutsidersDoNotDeadlock ==
    ASSUME "thread_start" \notin Faults, Closers \cap Workers = {}
    PROVE  Spec => [](AllWait => Quiescent)
  <1>1. ~Deadlocked
    BY DEF Deadlocked, HeldUp
  <1>2. NobodyIsStuck => (AllWait => Quiescent)
    BY <1>1 DEF NobodyIsStuck
  <1>3. QED
    BY NobodyGetsStuck, <1>2, PTL

=============================================================================
