--------------------- MODULE ThreadPoolRefinementProofs ---------------------
(***************************************************************************)
(* ThreadPoolServer implements AdmissionControl: every step of a thread is *)
(* a step of the promise, or changes nothing that it speaks of.            *)
(***************************************************************************)
EXTENDS ThreadPoolOwnershipProofs

(* The state of the promise, as ThreadPoolServer's Admission maps it.      *)
Line == queue \o (IF apc \in PermitPcs THEN <<areq>> ELSE <<>>)
Executing == {job[w] : w \in Busy}
Finished == {c \in Conns : outcome[c] \in Served /\ \A w \in Busy : job[w] # c}
TurnedAway == {c \in Conns : outcome[c] \in Turned}
                \cup (IF apc \in TurningAwayPcs THEN {areq} ELSE {})

(* The instance has a Cardinality of its own, with the same definition. *)
LEMMA SameCardinality == \A S : Admission!Cardinality(S) = Cardinality(S)
  BY DEF Admission!Cardinality, Cardinality

LEMMA Mapping ==
    /\ Admission!vars = <<~Blocking, Line, Executing, Finished, TurnedAway, execShut>>
    /\ Admission!Outstanding = Len(Line) + Cardinality(Executing)
    /\ Admission!Capacity = TotalCapacity
    /\ Admission!Known = {Line[i] : i \in DOMAIN Line} \cup Executing \cup Finished \cup TurnedAway
  <1>1. Admission!vars = <<~Blocking, Line, Executing, Finished, TurnedAway, execShut>>
    BY DEF Admission!vars, Line, Executing, Finished, TurnedAway, Turned
  <1>2. Admission!Outstanding = Len(Line) + Cardinality(Executing)
    BY SameCardinality DEF Admission!Outstanding, Line, Executing
  <1>3. Admission!Capacity = TotalCapacity
    BY DEF Admission!Capacity, TotalCapacity
  <1>4. Admission!Known = {Line[i] : i \in DOMAIN Line} \cup Executing \cup Finished \cup TurnedAway
    BY DEF Admission!Known, Admission!Waiting, Line, Executing, Finished, TurnedAway, Turned
  <1>5. QED
    BY <1>1, <1>2, <1>3, <1>4

(* A line that gets longer or shorter at its end, or shorter at its front. *)
LEMMA LineEnds ==
    ASSUME NEW q \in Seq(Conns), NEW c \in Conns
    PROVE  /\ q \o <<>> = q
           /\ q \o <<c>> = Append(q, c)
           /\ LET p == q \o <<c>> IN
                /\ p # <<>> /\ Len(p) = Len(q) + 1 /\ p[Len(p)] = c
                /\ SubSeq(p, 1, Len(p) - 1) = q
                /\ p \in Seq(Conns)
  <1> DEFINE p == q \o <<c>>
  <1>1. <<c>> \in Seq(Conns) /\ Len(<<c>>) = 1 /\ <<c>>[1] = c
    OBVIOUS
  <1>2. q \o <<>> = q
    BY ConcatEmptySeq
  <1>3. /\ p \in Seq(Conns) /\ Len(p) = Len(q) + 1 /\ Len(q) \in Nat
        /\ \A i \in 1 .. Len(q) : p[i] = q[i]
        /\ p[Len(q) + 1] = c
    BY <1>1, ConcatProperties, LenProperties
  <1> HIDE DEF p
  <1>4. p = Append(q, c)
    <2>1. /\ Append(q, c) \in Seq(Conns) /\ Len(Append(q, c)) = Len(q) + 1
          /\ \A i \in 1 .. Len(q) : Append(q, c)[i] = q[i]
          /\ Append(q, c)[Len(q) + 1] = c
      BY AppendProperties
    <2>2. \A i \in 1 .. Len(p) : p[i] = Append(q, c)[i]
      BY <1>3, <2>1
    <2>3. QED
      BY <1>3, <2>1, <2>2, SeqEqual
  <1>5. p # <<>>
    BY <1>3, EmptySeq
  <1>6. SubSeq(p, 1, Len(p) - 1) = q
    <2>1. Len(p) - 1 = Len(q) /\ 1 \in Int /\ Len(q) \in Int
      BY <1>3
    <2>2. \A i \in 1 .. Len(q) : p[i] \in Conns
      BY <1>3, ElementOfSeq
    <2>3. /\ SubSeq(p, 1, Len(q)) \in Seq(Conns)
          /\ Len(SubSeq(p, 1, Len(q))) = IF 1 <= Len(q) THEN Len(q) - 1 + 1 ELSE 0
          /\ \A i \in 1 .. Len(q) - 1 + 1 : SubSeq(p, 1, Len(q))[i] = p[1 + i - 1]
      BY <2>1, <2>2, SubSeqProperties
    <2>4. Len(SubSeq(p, 1, Len(q))) = Len(q)
      BY <1>3, <2>3
    <2>5. \A i \in 1 .. Len(q) : SubSeq(p, 1, Len(q))[i] = q[i]
      BY <1>3, <2>3
    <2>6. SubSeq(p, 1, Len(q)) = q
      BY <2>3, <2>4, <2>5, SeqEqual
    <2>7. QED
      BY <2>1, <2>6
  <1>7. QED
    BY <1>2, <1>3, <1>4, <1>5, <1>6 DEF p

LEMMA LineFront ==
    ASSUME NEW q \in Seq(Conns), q # <<>>, NEW s \in Seq(Conns)
    PROVE  /\ q \o s # <<>>
           /\ Head(q \o s) = Head(q)
           /\ Tail(q \o s) = Tail(q) \o s
  <1>1. /\ q \o s \in Seq(Conns) /\ Len(q \o s) = Len(q) + Len(s)
        /\ Len(q) \in Nat \ {0} /\ Len(s) \in Nat
        /\ \A i \in 1 .. Len(q) + Len(s) :
              (q \o s)[i] = IF i <= Len(q) THEN q[i] ELSE s[i - Len(q)]
    BY ConcatProperties, EmptySeq, LenProperties
  <1>2. q \o s # <<>>
    BY <1>1, EmptySeq
  <1>3. Head(q \o s) = (q \o s)[1] /\ Head(q) = q[1]
    OBVIOUS
  <1>4. Head(q \o s) = Head(q)
    BY <1>1, <1>3
  <1>5. /\ Tail(q) \in Seq(Conns) /\ Len(Tail(q)) = Len(q) - 1
        /\ \A i \in 1 .. Len(Tail(q)) : Tail(q)[i] = q[i + 1]
    BY HeadTailProperties
  <1>6. /\ Tail(q \o s) \in Seq(Conns) /\ Len(Tail(q \o s)) = Len(q \o s) - 1
        /\ \A i \in 1 .. Len(Tail(q \o s)) : Tail(q \o s)[i] = (q \o s)[i + 1]
    BY <1>1, <1>2, HeadTailProperties
  <1>7. /\ Tail(q) \o s \in Seq(Conns) /\ Len(Tail(q) \o s) = Len(Tail(q)) + Len(s)
        /\ \A i \in 1 .. Len(Tail(q)) + Len(s) :
              (Tail(q) \o s)[i] = IF i <= Len(Tail(q)) THEN Tail(q)[i] ELSE s[i - Len(Tail(q))]
    BY <1>5, ConcatProperties
  <1>8. Len(Tail(q \o s)) = Len(Tail(q) \o s)
    BY <1>1, <1>5, <1>6, <1>7
  <1>9. \A i \in 1 .. Len(Tail(q \o s)) : Tail(q \o s)[i] = (Tail(q) \o s)[i]
    <2> SUFFICES ASSUME NEW i \in 1 .. Len(Tail(q \o s))
                 PROVE  Tail(q \o s)[i] = (Tail(q) \o s)[i]
      OBVIOUS
    <2>1. i \in Nat /\ 1 <= i /\ i <= Len(q) + Len(s) - 1
      BY <1>1, <1>6
    <2>2. Tail(q \o s)[i] = IF i + 1 <= Len(q) THEN q[i + 1] ELSE s[i + 1 - Len(q)]
      BY <1>1, <1>6, <2>1
    <2>3. (Tail(q) \o s)[i] = IF i <= Len(q) - 1 THEN Tail(q)[i] ELSE s[i - (Len(q) - 1)]
      BY <1>1, <1>5, <1>7, <2>1
    <2>4. i + 1 - Len(q) = i - (Len(q) - 1)
      BY <1>1, <2>1
    <2>5. QED
      BY <1>1, <1>5, <2>1, <2>2, <2>3, <2>4
  <1>10. Tail(q \o s) = Tail(q) \o s
    BY <1>6, <1>7, <1>8, <1>9, SeqEqual
  <1>11. QED
    BY <1>2, <1>4, <1>10

(* Different busy workers execute different requests. *)
LEMMA ExecutingCount ==
    ASSUME TypeOK, Owned
    PROVE  Cardinality(Executing) = Cardinality(Busy)
  <1> DEFINE f == [w \in Busy |-> job[w]]
  <1>1. f \in Bijection(Busy, Executing)
    <2>1. f \in [Busy -> Executing] /\ \A e \in Executing : \E w \in Busy : f[w] = e
      BY DEF Executing
    <2>2. \A v, w \in Busy : f[v] = f[w] => v = w
      BY DEF Owned, Apart
    <2>3. QED
      BY <2>1, <2>2 DEF Bijection, Injection, IsInjective, Surjection
  <1>2. QED
    BY <1>1, BusyType, FS_Bijection DEF ExistsBijection

(* The permits that are taken are the requests outstanding. *)
LEMMA OutstandingPermits ==
    ASSUME TypeOK, Owned, PermitsConserved
    PROVE  /\ Line \in Seq(Conns)
           /\ Admission!Outstanding + capacity = Admission!Capacity
           /\ Admission!Outstanding \in Nat /\ Admission!Capacity \in Nat
  <1>1. /\ queue \in Seq(Conns) /\ Len(queue) \in Nat /\ capacity \in Nat
        /\ Cardinality(Busy) \in Nat /\ TotalCapacity \in Nat
    BY BusyType, CapacityType, LenProperties DEF TypeOK, PoolTypes
  <1>2. Line \in Seq(Conns) /\ Len(Line) = Len(queue) + Count(apc \in PermitPcs)
    <2>1. CASE apc \in PermitPcs
      <3>1. areq \in Conns
        BY <2>1 DEF PermitPcs, TypeOK, AcceptTypes
      <3>2. Line = queue \o <<areq>>
        BY <2>1 DEF Line
      <3>3. QED
        BY <1>1, <2>1, <3>1, <3>2, LineEnds DEF Count
    <2>2. CASE apc \notin PermitPcs
      <3>1. Line = queue
        BY <1>1, <2>2, ConcatEmptySeq DEF Line
      <3>2. QED
        BY <1>1, <2>2, <3>1 DEF Count
    <2>3. QED
      BY <2>1, <2>2
  <1>3. Count(apc \in PermitPcs) \in Nat
    BY DEF Count
  <1>4. Admission!Outstanding = Len(queue) + Count(apc \in PermitPcs) + Cardinality(Busy)
    BY <1>2, ExecutingCount, Mapping
  <1>5. Admission!Capacity = TotalCapacity
    BY Mapping
  <1>6. QED
    BY <1>1, <1>2, <1>3, <1>4, <1>5 DEF PermitsConserved, Permits

-----------------------------------------------------------------------------
(* The steps of the promise, in terms of its mapped state.                 *)

LEMMA AdmitStep ==
    ASSUME NEW c \in Conns, c \notin Admission!Known,
           Admission!Outstanding < Admission!Capacity,
           Line' = Append(Line, c),
           UNCHANGED <<policy, Executing, Finished, TurnedAway, execShut>>
    PROVE  Admission!Next
  BY DEF Admission!Next, Admission!Admit, Admission!HasRoom,
         Line, Executing, Finished, TurnedAway, Turned, Blocking

LEMMA RefuseStep ==
    ASSUME NEW c \in Conns, c \notin Admission!Known, ~Blocking,
           Admission!Outstanding = Admission!Capacity,
           TurnedAway' = TurnedAway \cup {c},
           UNCHANGED <<policy, Line, Executing, Finished, execShut>>
    PROVE  Admission!Next
  BY DEF Admission!Next, Admission!Refuse,
         Line, Executing, Finished, TurnedAway, Turned, Blocking

LEMMA StartStep ==
    ASSUME Line # <<>>, Cardinality(Executing) < MaxWorkers,
           Executing' = Executing \cup {Head(Line)}, Line' = Tail(Line),
           UNCHANGED <<policy, Finished, TurnedAway, execShut>>
    PROVE  Admission!Next
  BY SameCardinality
  DEF Admission!Next, Admission!Start,
      Line, Executing, Finished, TurnedAway, Turned, Blocking

LEMMA FinishStep ==
    ASSUME NEW c \in Conns, c \in Executing,
           Executing' = Executing \ {c}, Finished' = Finished \cup {c},
           UNCHANGED <<policy, Line, TurnedAway, execShut>>
    PROVE  Admission!Next
  BY DEF Admission!Next, Admission!Finish,
         Line, Executing, Finished, TurnedAway, Turned, Blocking

LEMMA GiveUpStep ==
    ASSUME execShut, Line # <<>>,
           TurnedAway' = TurnedAway \cup {Line[Len(Line)]},
           Line' = SubSeq(Line, 1, Len(Line) - 1),
           UNCHANGED <<policy, Executing, Finished, execShut>>
    PROVE  Admission!Next
  BY DEF Admission!Next, Admission!GiveUp,
         Line, Executing, Finished, TurnedAway, Turned, Blocking

LEMMA CloseStep ==
    ASSUME execShut' = TRUE,
           UNCHANGED <<policy, Line, Executing, Finished, TurnedAway>>
    PROVE  Admission!Next
  BY DEF Admission!Next, Admission!Close,
         Line, Executing, Finished, TurnedAway, Turned, Blocking

LEMMA StutterStep ==
    ASSUME UNCHANGED <<policy, Line, Executing, Finished, TurnedAway, execShut>>
    PROVE  UNCHANGED Admission!vars
  BY DEF Admission!vars, Line, Executing, Finished, TurnedAway, Turned, Blocking

-----------------------------------------------------------------------------
(* Each step of the server is one of these.                                *)

Inv == TypeOK /\ Owned /\ Staged /\ PermitsConserved
Abstractly == Admission!Next \/ UNCHANGED Admission!vars

LEMMA InitRefines == Init => Admission!Init
  <1> SUFFICES ASSUME Init PROVE Admission!Init
    OBVIOUS
  <1>1. Busy = {}
    BY DEF Init, Busy, BusyPcs
  <1>2. apc \notin PermitPcs /\ apc \notin TurningAwayPcs
    BY DEF Init, PermitPcs, TurningAwayPcs
  <1>3. Line = <<>>
    BY <1>2, EmptySeq, ConcatEmptySeq DEF Init, Line
  <1>4. Executing = {} /\ Finished = {} /\ TurnedAway = {}
    BY <1>1, <1>2 DEF Init, Executing, Finished, TurnedAway, Served, Turned
  <1>5. execShut = FALSE
    BY DEF Init
  <1>6. (~Blocking) \in BOOLEAN
    BY DEF Blocking
  <1>7. QED
    BY <1>3, <1>4, <1>5, <1>6
    DEF Admission!Init, Line, Executing, Finished, TurnedAway, Turned, Blocking

(* Nothing is known yet of the request the accept thread has just accepted. *)
LEMMA NewRequest ==
    ASSUME Inv, apc = "acquire"
    PROVE  areq \in Conns /\ areq \notin Admission!Known
  <1>1. areq \in Conns /\ InHand(areq) /\ outcome[areq] = "none"
    BY DEF Inv, TypeOK, AcceptTypes, InHand, Owned, Decided
  <1>2. ~IsQueued(areq) /\ ~IsRun(areq)
    BY <1>1 DEF Inv, Owned, Apart
  <1>3. Line = queue
    BY ConcatEmptySeq DEF Inv, TypeOK, PoolTypes, Line, PermitPcs
  <1>4. /\ areq \notin {Line[i] : i \in DOMAIN Line}
        /\ areq \notin Executing
    BY <1>2, <1>3 DEF IsQueued, IsRun, Executing
  <1>5. areq \notin Finished /\ areq \notin TurnedAway
    BY <1>1 DEF Finished, TurnedAway, Served, Turned, TurningAwayPcs
  <1>6. QED
    BY <1>1, <1>4, <1>5, Mapping

(* Clients, and the closers but for the shutdown of the executor, do       *)
(* nothing the promise speaks of.                                          *)
LEMMA OthersRefine ==
    ASSUME Inv,
           \/ \E c \in Conns : Client(c)
           \/ \E k \in Closers : Closer(k)
           \/ UNCHANGED vars
    PROVE  Abstractly
  <1>1. UNCHANGED <<policy, apc, areq, queue, wpc, job>>
    BY DEF Client, Connect, PeerStep, Closer, CallShutdown, LoopStopped, CallShutdownExecutor,
           TakeLock, ExecutorShutdown, QueueKept, JoinWorkers, JoinItself, DropLock, Unlisten,
           vars, acceptVars, poolVars, closeVars
  <1>2. Busy' = Busy /\ Line' = Line /\ Executing' = Executing
    BY <1>1 DEF Busy, Line, Executing
  <1>3. \A c \in Conns : \/ outcome'[c] = outcome[c]
                         \/ outcome[c] = "none" /\ outcome'[c] = "reset"
    BY DEF Client, Connect, PeerStep, Closer, CallShutdown, LoopStopped, CallShutdownExecutor,
           TakeLock, ExecutorShutdown, JoinWorkers, JoinItself, DropLock, Unlisten,
           vars, connVars, Inv, TypeOK, ConnTypes, Owned, Unheld
  <1>4. Finished' = Finished /\ TurnedAway' = TurnedAway
    BY <1>1, <1>2, <1>3 DEF Finished, TurnedAway, Served, Turned
  <1>5. execShut' = execShut \/ execShut' = TRUE
    BY DEF Client, Connect, PeerStep, Closer, CallShutdown, LoopStopped, CallShutdownExecutor,
           TakeLock, ExecutorShutdown, JoinWorkers, JoinItself, DropLock, Unlisten,
           vars, closeVars
  <1>6. QED
    BY <1>1, <1>2, <1>4, <1>5, CloseStep, StutterStep DEF Abstractly

LEMMA WorkerRefines ==
    ASSUME Inv, NEW w \in Workers, Worker(w)
    PROVE  Abstractly
  <1> USE DEF Inv
  <1>1. UNCHANGED <<policy, apc, areq, execShut>>
    BY DEF Worker, Get, Exit, Start, HandleReturns, HandleRaises, CloseServed,
           Complete, Fail, CountFailure, Release, Loop, acceptVars, closeVars
  <1>2. CASE Get(w)
    <2>1. /\ queue # <<>> /\ queue' = Tail(queue) /\ queue \in Seq(Conns)
          /\ outcome' = outcome
          /\ w \notin Busy /\ Busy' = Busy \cup {w} /\ job'[w] = Head(queue)
          /\ \A v \in Busy : job'[v] = job[v]
      BY <1>2 DEF Get, connVars, Busy, BusyPcs, TypeOK, PoolTypes
    <2> DEFINE s == IF apc \in PermitPcs THEN <<areq>> ELSE <<>>
    <2>2. s \in Seq(Conns)
      <3>1. apc \in PermitPcs => areq \in Conns
        BY DEF PermitPcs, TypeOK, AcceptTypes
      <3>2. <<>> \in Seq(Conns)
        BY EmptySeq
      <3>3. QED
        BY <3>1, <3>2
    <2>3. Line = queue \o s /\ Line' = Tail(queue) \o s
      BY <1>1, <2>1 DEF Line
    <2> HIDE DEF s
    <2>4. Line # <<>> /\ Head(Line) = Head(queue) /\ Line' = Tail(Line)
      BY <2>1, <2>2, <2>3, LineFront
    <2>5. Executing' = Executing \cup {Head(Line)}
      BY <2>1, <2>4 DEF Executing
    <2>6. Cardinality(Executing) < MaxWorkers
      <3>1. Cardinality(Executing) = Cardinality(Busy)
        BY ExecutingCount
      <3>2. IsFiniteSet(Workers) /\ Busy \subseteq Workers /\ Busy # Workers
        BY <2>1, PoolAssumption DEF Busy
      <3>3. Cardinality(Busy) < Cardinality(Workers)
        BY <3>2, FS_Subset, FS_CardinalityType
      <3>4. QED
        BY <3>1, <3>3 DEF MaxWorkers
    <2>7. Finished' = Finished
      <3>1. IsQueued(Head(queue)) /\ Head(queue) \in Conns
        BY <2>1, Taking, HeadTailProperties DEF IsQueued, Owned, Apart
      <3>2. outcome[Head(queue)] \notin Served
        BY <3>1 DEF Staged, Served
      <3>3. QED
        BY <2>1, <3>2 DEF Finished
    <2>8. TurnedAway' = TurnedAway
      BY <1>1, <2>1 DEF TurnedAway
    <2>9. QED
      BY <1>1, <2>4, <2>5, <2>6, <2>7, <2>8, StartStep DEF Abstractly
  <1>3. CASE Release(w)
    <2>1. /\ UNCHANGED <<queue, outcome>>
          /\ w \in Busy /\ Busy' = Busy \ {w} /\ job[w] \in Conns
          /\ \A v \in Busy' : job'[v] = job[v]
          /\ outcome[job[w]] \in Served
      BY <1>3 DEF Release, connVars, Busy, BusyPcs, Staged, TypeOK, PoolTypes
    <2>2. \A v \in Busy' : job[v] # job[w]
      BY <2>1 DEF Owned, Apart
    <2>3. job[w] \in Executing /\ Executing' = Executing \ {job[w]}
      BY <2>1, <2>2 DEF Executing
    <2>4. Finished' = Finished \cup {job[w]}
      BY <2>1, <2>2 DEF Finished
    <2>5. Line' = Line /\ TurnedAway' = TurnedAway
      BY <1>1, <2>1 DEF Line, TurnedAway
    <2>6. QED
      BY <1>1, <2>1, <2>3, <2>4, <2>5, FinishStep DEF Abstractly
  <1>4. CASE ~Get(w) /\ ~Release(w)
    <2>1. UNCHANGED <<Busy, job, queue>>
      BY <1>4, WorkerMoves
    <2>2. \A c \in Conns : \/ outcome'[c] = outcome[c]
                           \/ /\ w \in Busy /\ c = job[w]
                              /\ outcome[c] \notin Turned /\ outcome'[c] \notin Turned
      <3>1. w \in Busy => IsRun(job[w]) /\ job[w] \in Conns
        BY DEF IsRun, Busy, TypeOK, PoolTypes
      <3>2. w \in Busy => outcome[job[w]] \notin Turned
        BY <3>1 DEF Owned, Decided
      <3>3. QED
        BY <1>4, <3>2
        DEF Worker, Exit, Start, HandleReturns, HandleRaises, CloseServed, connVars, Turned,
            Complete, Fail, CountFailure, Loop, Busy, BusyPcs, TypeOK, ConnTypes
    <2>3. Finished' = Finished
      BY <2>1, <2>2 DEF Finished
    <2>4. TurnedAway' = TurnedAway
      BY <1>1, <2>2 DEF TurnedAway
    <2>5. Line' = Line /\ Executing' = Executing
      BY <1>1, <2>1 DEF Line, Executing
    <2>6. QED
      BY <1>1, <2>3, <2>4, <2>5, StutterStep DEF Abstractly
  <1>5. QED
    BY <1>2, <1>3, <1>4

LEMMA AcceptRefines ==
    ASSUME Inv, AcceptThread, "thread_start" \notin Faults
    PROVE  Abstractly
  <1> USE DEF Inv
  <1>1. policy' = policy /\ execShut' = execShut
    BY DEF AcceptThread, AcceptConn, StopServing, Admit, Refuse, Record, Submit, Adjust, Undo,
           Abandon, Reject, Respond, Drain, CloseRejected, closeVars
  <1>2. Busy' = Busy /\ Executing' = Executing
    <2>1. Busy' = Busy /\ \A w \in Busy : job'[w] = job[w]
      <3>1. CASE Adjust
        BY <3>1 DEF Adjust, Busy, Started, BusyPcs, TypeOK, PoolTypes
      <3>2. CASE ~Adjust
        BY <3>2 DEF AcceptThread, AcceptConn, StopServing, Admit, Refuse, Record, Submit, Undo,
           Abandon, Reject, Respond, Drain, CloseRejected, poolVars, Busy
      <3>3. QED
        BY <3>1, <3>2
    <2>2. QED
      BY <2>1 DEF Executing
  <1>3. job' = job
    BY DEF AcceptThread, AcceptConn, StopServing, Admit, Refuse, Record, Submit, Adjust, Undo,
           Abandon, Reject, Respond, Drain, CloseRejected, poolVars
  <1>4. \A c \in Conns : \/ outcome'[c] = outcome[c]
                         \/ /\ c = areq /\ apc \in TurningAwayPcs
                            /\ outcome[c] \notin Served /\ outcome'[c] \in Turned
    BY DEF AcceptThread, AcceptConn, StopServing, Admit, Refuse, Record, Submit, Adjust, Undo,
           Abandon, Reject, Respond, Drain, CloseRejected, connVars, TurningAwayPcs, Turned,
           Served, TypeOK, AcceptTypes, ConnTypes, Owned, Decided, Staged
  <1>5. Finished' = Finished
    BY <1>2, <1>3, <1>4 DEF Finished, Served, Turned
  <1>6. queue \in Seq(Conns)
    BY DEF TypeOK, PoolTypes
  <1>7. CASE Admit
    <2>1. /\ apc = "acquire" /\ apc' = "record" /\ capacity > 0
          /\ UNCHANGED <<queue, areq, outcome>>
      BY <1>7 DEF Admit, PermitLeft, poolVars, connVars
    <2>2. areq \in Conns /\ areq \notin Admission!Known
      BY <2>1, NewRequest
    <2>3. Line = queue /\ Line' = Append(queue, areq)
      BY <1>6, <2>1, <2>2, LineEnds, ConcatEmptySeq DEF Line, PermitPcs
    <2>4. Admission!Outstanding < Admission!Capacity
      BY <2>1, OutstandingPermits DEF TypeOK
    <2>5. TurnedAway' = TurnedAway
      BY <2>1 DEF TurnedAway, TurningAwayPcs
    <2>6. QED
      BY <1>1, <1>2, <1>5, <2>2, <2>3, <2>4, <2>5, AdmitStep DEF Abstractly
  <1>8. CASE Refuse
    <2>1. /\ apc = "acquire" /\ apc' = "reject" /\ capacity = 0 /\ ~Blocking
          /\ UNCHANGED <<queue, areq, outcome>>
      BY <1>8 DEF Refuse, PermitLeft, poolVars, connVars, TypeOK
    <2>2. areq \in Conns /\ areq \notin Admission!Known
      BY <2>1, NewRequest
    <2>3. Line' = Line
      BY <2>1 DEF Line, PermitPcs
    <2>4. Admission!Outstanding = Admission!Capacity
      BY <2>1, OutstandingPermits
    <2>5. TurnedAway' = TurnedAway \cup {areq}
      BY <2>1 DEF TurnedAway, TurningAwayPcs
    <2>6. QED
      BY <1>1, <1>2, <1>5, <2>1, <2>2, <2>3, <2>4, <2>5, RefuseStep DEF Abstractly
  <1>9. CASE Undo
    <2>1. /\ apc = "undo" /\ apc' = "abandon" /\ execShut /\ areq \in Conns
          /\ UNCHANGED <<queue, areq, outcome>>
      BY <1>9 DEF Undo, poolVars, connVars, Owned, Reasons, TypeOK, AcceptTypes
    <2>2. Line = queue \o <<areq>> /\ Line' = queue \o <<>>
      BY <2>1 DEF Line, PermitPcs
    <2>3. /\ Line # <<>> /\ Line[Len(Line)] = areq
          /\ Line' = SubSeq(Line, 1, Len(Line) - 1)
      BY <1>6, <2>1, <2>2, LineEnds
    <2>4. TurnedAway' = TurnedAway \cup {Line[Len(Line)]}
      BY <2>1, <2>3 DEF TurnedAway, TurningAwayPcs
    <2>5. QED
      BY <1>1, <1>2, <1>5, <2>1, <2>3, <2>4, GiveUpStep DEF Abstractly
  <1>10. CASE ~Admit /\ ~Refuse /\ ~Undo
    <2>1. Line' = Line
      <3>1. CASE Submit /\ ~execShut
        <4>1. /\ queue' = Append(queue, areq) /\ apc = "submit" /\ apc' = "adjust"
              /\ areq \in Conns
          BY <3>1 DEF Submit, TypeOK, AcceptTypes
        <4>2. Line = queue \o <<areq>> /\ Line' = Append(queue, areq) \o <<>>
          BY <4>1 DEF Line, PermitPcs
        <4>3. Append(queue, areq) \in Seq(Conns)
          BY <1>6, <4>1, AppendProperties
        <4>4. QED
          BY <1>6, <4>1, <4>2, <4>3, LineEnds, ConcatEmptySeq
      <3>2. CASE ~(Submit /\ ~execShut)
        <4>1. /\ queue' = queue
              /\ apc \in PermitPcs <=> apc' \in PermitPcs
              /\ apc \in PermitPcs => areq' = areq
          BY <1>10, <3>2
          DEF AcceptThread, AcceptConn, StopServing, Record, Submit, Adjust,
              Abandon, Reject, Respond, Drain, CloseRejected, poolVars, PermitPcs
        <4>2. QED
          BY <4>1 DEF Line
      <3>3. QED
        BY <3>1, <3>2
    <2>2. TurnedAway' = TurnedAway
      <3>1. CASE Abandon \/ CloseRejected
        <4>1. /\ apc \in TurningAwayPcs /\ apc' \notin TurningAwayPcs
              /\ areq \in Conns /\ outcome'[areq] \in Turned
          BY <3>1 DEF Abandon, CloseRejected, TurningAwayPcs, Turned, Owned, Decided, Staged,
                      TypeOK, AcceptTypes, ConnTypes
        <4>2. QED
          BY <1>4, <4>1 DEF TurnedAway, Served
      <3>2. CASE Reject \/ Respond \/ Drain
        <4>1. /\ apc \in TurningAwayPcs /\ apc' \in TurningAwayPcs
              /\ areq \in Conns /\ areq' = areq
          BY <3>2 DEF Reject, Respond, Drain, TurningAwayPcs, TypeOK, AcceptTypes
        <4>2. QED
          BY <1>4, <4>1 DEF TurnedAway, Served, Turned
      <3>3. CASE ~(Abandon \/ CloseRejected \/ Reject \/ Respond \/ Drain)
        <4>1. /\ apc \notin TurningAwayPcs /\ apc' \notin TurningAwayPcs
              /\ outcome' = outcome
          BY <1>10, <3>3
          DEF AcceptThread, AcceptConn, StopServing, Record, Submit, Adjust, connVars,
              TurningAwayPcs
        <4>2. QED
          BY <4>1 DEF TurnedAway
      <3>4. QED
        BY <3>1, <3>2, <3>3
    <2>3. QED
      BY <1>1, <1>2, <1>5, <2>1, <2>2, StutterStep DEF Abstractly
  <1>11. QED
    BY <1>7, <1>8, <1>9, <1>10

(* Threads, semaphore, executor and counters implement AdmissionControl,   *)
(* step by step, under every policy, shutdown script and failure of        *)
(* handle_error, as long as the executor can start its threads.            *)
THEOREM ServerImplementsAdmission ==
    ASSUME "thread_start" \notin Faults
    PROVE  Spec => ImplementsAdmission
  <1>1. Inv /\ [Next]_vars => Abstractly
    BY OthersRefine, WorkerRefines, AcceptRefines DEF Next, StandStill
  <1>2. Inv /\ [Next]_vars => [Admission!Next]_(Admission!vars)
    BY <1>1 DEF Abstractly
  <1>3. Spec => [](TypeOK /\ Owned /\ Staged)
    BY StageInvariant
  <1>4. Spec => []PermitsConserved
    BY PermitsAreConserved
  <1>5. QED
    BY <1>2, <1>3, <1>4, InitRefines, PTL DEF Spec, Inv, ImplementsAdmission, Admission!Spec
=============================================================================
