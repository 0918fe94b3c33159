---------------------- MODULE ThreadPoolOwnershipProofs ----------------------
(***************************************************************************)
(* Who holds a connection of ThreadPoolServer: the accept thread, the      *)
(* queue or a worker.  Never two of them, as long as threads can be        *)
(* started, and never none while its socket is open, as long as            *)
(* handle_error does not raise.                                            *)
(***************************************************************************)
EXTENDS ThreadPoolServerProofs

InHand(c) == areq = c /\ apc # "adjust"
IsQueued(c) == \E i \in DOMAIN queue : queue[i] = c
IsRun(c) == \E w \in Busy : job[w] = c

Turned == {"overload", "refused", "dropped"}

Apart ==
    /\ \A c \in Conns : InHand(c) => ~IsQueued(c) /\ ~IsRun(c)
    /\ \A c \in Conns : IsQueued(c) => ~IsRun(c)
    /\ \A i, j \in DOMAIN queue : queue[i] = queue[j] => i = j
    /\ \A v, w \in Busy : job[v] = job[w] => v = w

(* Nobody holds a connection that was not accepted, nor has decided on it. *)
Unheld ==
    \A c \in Conns : sock[c] \in {"none", "backlog"} =>
        /\ areq # c /\ ~IsQueued(c) /\ ~IsRun(c)
        /\ outcome[c] = "none"

(* Nothing was decided about the request in hand until it is answered, and *)
(* one that was turned away is in nobody's hands but the accept thread's.  *)
Decided ==
    /\ apc \in {"select", "stopped"} => areq = None
    /\ apc \in {"acquire", "record", "submit", "undo", "abandon", "reject", "respond"} =>
          outcome[areq] = "none"
    /\ \A c \in Conns : outcome[c] \in Turned => ~IsQueued(c) /\ ~IsRun(c)

(* Only a closed pool gives a request up, and BLOCK rejects none. *)
Reasons ==
    /\ apc \in {"undo", "abandon"} => execShut
    /\ \A c \in Conns : outcome[c] = "dropped" => execShut
    /\ policy = "block" => apc \notin {"reject", "respond", "drain", "close"}
    /\ policy = "block" => \A c \in Conns : outcome[c] \notin {"overload", "refused"}

Owned == Apart /\ Unheld /\ Decided /\ Reasons

(* What queueing a connection does to the queue. *)
LEMMA Queueing ==
    ASSUME NEW q \in Seq(Conns), NEW c \in Conns, NEW p, p = Append(q, c)
    PROVE  /\ \A x : (\E i \in DOMAIN p : p[i] = x) => x = c \/ \E i \in DOMAIN q : q[i] = x
           /\ \A x : (\E i \in DOMAIN q : q[i] = x) => \E i \in DOMAIN p : p[i] = x
           /\ \E i \in DOMAIN p : p[i] = c
           /\ (\A i \in DOMAIN q : q[i] # c) /\ (\A i, j \in DOMAIN q : q[i] = q[j] => i = j)
                => \A i, j \in DOMAIN p : p[i] = p[j] => i = j
  <1>1. /\ Len(q) \in Nat /\ DOMAIN q = 1 .. Len(q)
        /\ Len(p) = Len(q) + 1 /\ DOMAIN p = 1 .. Len(p)
        /\ p[Len(q) + 1] = c
        /\ \A i \in 1 .. Len(q) : p[i] = q[i]
    BY AppendProperties, LenProperties
  <1>2. DOMAIN p = DOMAIN q \cup {Len(q) + 1} /\ Len(q) + 1 \notin DOMAIN q
    BY <1>1
  <1>3. QED
    BY <1>1, <1>2

(* What taking the first item does to it. *)
LEMMA Taking ==
    ASSUME NEW q \in Seq(Conns), q # <<>>,
           \A i, j \in DOMAIN q : q[i] = q[j] => i = j
    PROVE  LET p == Tail(q) IN
           /\ \A x : (\E i \in DOMAIN p : p[i] = x) => x # Head(q) /\ \E i \in DOMAIN q : q[i] = x
           /\ \A x : (\E i \in DOMAIN q : q[i] = x) => x = Head(q) \/ \E i \in DOMAIN p : p[i] = x
           /\ \A i, j \in DOMAIN p : p[i] = p[j] => i = j
           /\ \E i \in DOMAIN q : q[i] = Head(q)
  <1> DEFINE p == Tail(q)
  <1>1. /\ Len(q) \in Nat \ {0} /\ DOMAIN q = 1 .. Len(q) /\ Head(q) = q[1]
        /\ Len(p) = Len(q) - 1 /\ DOMAIN p = 1 .. Len(p)
        /\ \A i \in 1 .. Len(p) : p[i] = q[i + 1]
    BY HeadTailProperties, LenProperties, EmptySeq
  <1> HIDE DEF p
  <1>2. \A i \in DOMAIN p : i + 1 \in DOMAIN q /\ i + 1 # 1 /\ p[i] = q[i + 1]
    BY <1>1
  <1>3. \A i \in DOMAIN q : i # 1 => i - 1 \in DOMAIN p /\ p[i - 1] = q[i]
    BY <1>1
  <1>4. 1 \in DOMAIN q
    BY <1>1
  <1>5. \A i, j \in DOMAIN p : p[i] = p[j] => i = j
    <2> SUFFICES ASSUME NEW i \in DOMAIN p, NEW j \in DOMAIN p, p[i] = p[j] PROVE i = j
      OBVIOUS
    <2>1. i + 1 = j + 1
      BY <1>2
    <2>2. QED
      BY <1>1, <2>1
  <1>6. QED
    BY <1>1, <1>2, <1>3, <1>4, <1>5 DEF p

LEMMA InitOwned == Init => Owned
  <1> SUFFICES ASSUME Init PROVE Owned
    OBVIOUS
  <1>1. Busy = {} /\ queue = <<>>
    BY DEF Init, Busy, BusyPcs
  <1>2. \A c \in Conns : ~IsQueued(c) /\ ~IsRun(c)
    BY <1>1 DEF IsQueued, IsRun
  <1>3. QED
    BY <1>1, <1>2, EnvironmentAssumption
    DEF Init, Owned, Apart, Unheld, Decided, Reasons, InHand, Turned

(* A step that moves no request keeps them apart. *)
LEMMA ApartKept ==
    ASSUME Apart, UNCHANGED queue, Busy' \subseteq Busy,
           \A w \in Busy' : job'[w] = job[w],
           \A c \in Conns : InHand(c)' => InHand(c)
    PROVE  /\ Apart'
           /\ \A c \in Conns : IsQueued(c)' => IsQueued(c)
           /\ \A c \in Conns : IsRun(c)' => IsRun(c)
  <1>1. \A c \in Conns : (IsQueued(c)' => IsQueued(c)) /\ (IsRun(c)' => IsRun(c))
    BY DEF IsQueued, IsRun
  <1>2. QED
    BY <1>1 DEF Apart

(* The steps of the other threads and of the clients move none. *)
LEMMA OthersOwned ==
    ASSUME TypeOK, Owned,
           \/ \E c \in Conns : Client(c)
           \/ \E k \in Closers : Closer(k)
           \/ UNCHANGED vars
    PROVE  Owned'
  <1> USE DEF Owned
  <1>1. UNCHANGED <<policy, apc, areq, queue, wpc, job>> /\ (execShut => execShut')
    BY DEF Client, Connect, PeerStep, Closer, CallShutdown, LoopStopped, CallShutdownExecutor,
           TakeLock, ExecutorShutdown, QueueKept, JoinWorkers, JoinItself, DropLock, Unlisten,
           vars, acceptVars, poolVars, closeVars
  <1>2. UNCHANGED Busy
    BY <1>1 DEF Busy
  <1>3. /\ Apart'
        /\ \A c \in Conns : (IsQueued(c)' => IsQueued(c)) /\ (IsRun(c)' => IsRun(c))
    BY <1>1, <1>2, ApartKept DEF InHand
  <1>4. \A c \in Conns :
           /\ sock'[c] \in {"none", "backlog"} => sock[c] \in {"none", "backlog"}
           /\ outcome'[c] = outcome[c] \/ (sock[c] = "backlog" /\ outcome'[c] = "reset"
                                             /\ sock'[c] = "closed")
    BY DEF Client, Connect, PeerStep, Closer, CallShutdown, LoopStopped, CallShutdownExecutor,
           TakeLock, ExecutorShutdown, JoinWorkers, JoinItself, DropLock, Unlisten,
           vars, connVars, TypeOK, ConnTypes
  <1>5. Unheld'
    BY <1>1, <1>3, <1>4 DEF Unheld
  <1>6. Decided'
    BY <1>1, <1>3, <1>4 DEF Decided, Turned, Unheld, TypeOK, AcceptTypes
  <1>7. Reasons'
    BY <1>1, <1>4 DEF Reasons
  <1>8. QED
    BY <1>3, <1>5, <1>6, <1>7

(* Apart from Get and Release, a worker's step leaves it busy or not busy, *)
(* with the same request.                                                  *)
LEMMA WorkerMoves ==
    ASSUME TypeOK, NEW w \in Workers, Worker(w), ~Get(w), ~Release(w)
    PROVE  UNCHANGED <<Busy, job, queue>>
  <1>1. UNCHANGED <<job, queue>>
    BY DEF Worker, Exit, Start, HandleReturns, HandleRaises, CloseServed, Complete, Fail,
           CountFailure, Loop
  <1>2. Busy' = Busy
    <2>1. CASE Exit(w) \/ Loop(w)
      <3>1. /\ wpc[w] \in {"get", "tail"}
            /\ wpc' = [wpc EXCEPT ![w] = "get"] \/ wpc' = [wpc EXCEPT ![w] = "exited"]
        BY <2>1 DEF Exit, Loop
      <3>2. QED
        BY <3>1 DEF Busy, BusyPcs, TypeOK, PoolTypes
    <2>2. CASE ~(Exit(w) \/ Loop(w))
      <3>1. /\ wpc[w] \in BusyPcs
            /\ wpc' = [wpc EXCEPT ![w] = wpc'[w]] /\ wpc'[w] \in BusyPcs
        BY <2>2 DEF Worker, Start, HandleReturns, HandleRaises, CloseServed, Complete, Fail,
           CountFailure, BusyPcs, TypeOK, PoolTypes
      <3>2. QED
        BY <3>1 DEF Busy, TypeOK, PoolTypes
    <2>3. QED
      BY <2>1, <2>2
  <1>3. QED
    BY <1>1, <1>2

LEMMA WorkerOwned ==
    ASSUME TypeOK, Owned, NEW w \in Workers, Worker(w)
    PROVE  Owned'
  <1> USE DEF Owned
  <1>1. UNCHANGED <<policy, apc, areq, execShut>>
    BY DEF Worker, Get, Exit, Start, HandleReturns, HandleRaises, CloseServed,
           Complete, Fail, CountFailure, Release, Loop, acceptVars, closeVars
  <1>2. \A c \in Conns :
           /\ sock'[c] \in {"none", "backlog"} => sock[c] \in {"none", "backlog"}
           /\ outcome'[c] = outcome[c] \/ (IsRun(c) /\ outcome'[c] \in Served)
    <2>1. w \in Busy => IsRun(job[w])
      BY DEF IsRun
    <2>2. wpc[w] \in BusyPcs => w \in Busy
      BY DEF Busy
    <2>3. CASE HandleReturns(w) \/ HandleRaises(w)
      BY <2>1, <2>2, <2>3
      DEF HandleReturns, HandleRaises, BusyPcs, Served, TypeOK, ConnTypes
    <2>4. CASE CloseServed(w) \/ Fail(w)
      BY <2>4 DEF CloseServed, Fail, TypeOK, ConnTypes
    <2>5. CASE ~(HandleReturns(w) \/ HandleRaises(w) \/ CloseServed(w) \/ Fail(w))
      BY <2>5 DEF Worker, Get, Exit, Start, Complete, CountFailure, Release, Loop, connVars
    <2>6. QED
      BY <2>3, <2>4, <2>5
  <1>3. /\ Apart'
        /\ \A c \in Conns : IsQueued(c)' => IsQueued(c)
        /\ \A c \in Conns : IsRun(c)' => IsRun(c) \/ IsQueued(c)
    <2>1. CASE Get(w)
      <3>1. /\ queue # <<>> /\ queue' = Tail(queue) /\ wpc[w] = "get"
            /\ job' = [job EXCEPT ![w] = Head(queue)]
            /\ wpc' = [wpc EXCEPT ![w] = "start"]
        BY <2>1 DEF Get
      <3>2. Busy' = Busy \cup {w} /\ w \notin Busy
        BY <3>1 DEF Busy, BusyPcs, TypeOK, PoolTypes
      <3>3. job'[w] = Head(queue) /\ \A v \in Busy : job'[v] = job[v]
        BY <3>1, <3>2 DEF Busy, TypeOK, PoolTypes
      <3>4. /\ \A c : IsQueued(c)' => c # Head(queue) /\ IsQueued(c)
            /\ \A i, j \in DOMAIN queue' : queue'[i] = queue'[j] => i = j
            /\ IsQueued(Head(queue)) /\ Head(queue) \in Conns
        BY <3>1, Taking, HeadTailProperties DEF IsQueued, Apart, TypeOK, PoolTypes
      <3>5. \A c : IsRun(c)' => IsRun(c) \/ c = Head(queue)
        BY <3>2, <3>3 DEF IsRun
      <3>6. \A v \in Busy : job[v] # Head(queue)
        BY <3>4 DEF Apart, IsRun
      <3>7. \A u, v \in Busy' : job'[u] = job'[v] => u = v
        BY <3>2, <3>3, <3>6 DEF Apart
      <3>8. \A c \in Conns : InHand(c)' = InHand(c)
        BY <1>1 DEF InHand
      <3>9. QED
        BY <3>4, <3>5, <3>7, <3>8 DEF Apart
    <2>2. CASE Release(w)
      <3>1. Busy' = Busy \ {w} /\ \A v \in Busy' : job'[v] = job[v]
        BY <2>2 DEF Release, Busy, BusyPcs, TypeOK, PoolTypes
      <3>2. UNCHANGED queue
        BY <2>2 DEF Release
      <3>3. QED
        BY <1>1, <3>1, <3>2, ApartKept DEF InHand
    <2>3. CASE ~Get(w) /\ ~Release(w)
      BY <1>1, <2>3, WorkerMoves, ApartKept DEF InHand
    <2>4. QED
      BY <2>1, <2>2, <2>3
  <1>4. Unheld'
    BY <1>1, <1>2, <1>3 DEF Unheld
  <1>5. Decided'
    <2>1. \A c \in Conns : outcome'[c] \in Turned => outcome'[c] = outcome[c]
      BY <1>2 DEF Turned, Served
    <2>2. \A c \in Conns : InHand(c) => outcome'[c] = outcome[c]
      BY <1>2 DEF Apart
    <2>3. areq \in Conns /\ apc # "adjust" => outcome'[areq] = outcome[areq]
      BY <2>2 DEF InHand
    <2>4. QED
      BY <1>1, <1>3, <2>1, <2>3 DEF Decided, TypeOK, AcceptTypes
  <1>6. Reasons'
    BY <1>1, <1>2 DEF Reasons, Served
  <1>7. QED
    BY <1>3, <1>4, <1>5, <1>6

(* The accept thread's steps other than those that change who holds what.  *)
LEMMA AcceptOwned ==
    ASSUME TypeOK, Owned, AcceptThread, "thread_start" \notin Faults
    PROVE  Owned'
  <1> USE DEF Owned
  <1>1. policy' = policy /\ execShut' = execShut
    BY DEF AcceptThread, AcceptConn, StopServing, Admit, Refuse, Record, Submit, Adjust, Undo,
           Abandon, Reject, Respond, Drain, CloseRejected, closeVars
  <1>2. ASSUME UNCHANGED <<queue, wpc, job>>, \A c \in Conns : InHand(c)' => InHand(c)
        PROVE  /\ Apart'
               /\ \A c \in Conns : IsQueued(c)' => IsQueued(c)
               /\ \A c \in Conns : IsRun(c)' => IsRun(c)
    <2>1. Busy' = Busy
      BY <1>2 DEF Busy
    <2>2. QED
      BY <1>2, <2>1, ApartKept
  <1>3. CASE StopServing \/ Admit \/ Refuse \/ Record \/ Undo \/ Reject \/ Drain
    <2>1. UNCHANGED <<queue, wpc, job, areq, sock, outcome>> /\ apc # "adjust"
      BY <1>3 DEF StopServing, Admit, Refuse, Record, Undo, Reject, Drain, poolVars,
                  acceptVars, connVars
    <2>2. \A c \in Conns : InHand(c)' => InHand(c)
      BY <2>1 DEF InHand
    <2>3. Apart' /\ Unheld'
      BY <1>2, <2>1, <2>2 DEF Unheld
    <2>4. Decided'
      BY <1>2, <1>3, <2>1, <2>2
      DEF StopServing, Admit, Refuse, Record, Undo, Reject, Drain, Decided
    <2>5. Reasons'
      BY <1>1, <1>3, <2>1
      DEF StopServing, Admit, Refuse, Record, Undo, Reject, Drain, Reasons, Blocking
    <2>6. QED
      BY <2>3, <2>4, <2>5
  <1>4. ASSUME NEW c \in Conns, AcceptConn(c) PROVE Owned'
    <2>1. /\ sock[c] = "backlog" /\ sock' = [sock EXCEPT ![c] = "open"]
          /\ areq' = c /\ apc' = "acquire" /\ apc = "select"
          /\ UNCHANGED <<queue, wpc, job, outcome, execShut>>
      BY <1>4 DEF AcceptConn, poolVars, closeVars
    <2>2. ~IsQueued(c) /\ ~IsRun(c) /\ outcome[c] = "none"
      BY <2>1 DEF Unheld
    <2>3. Busy' = Busy
      BY <2>1 DEF Busy
    <2>4. \A x \in Conns : IsQueued(x)' = IsQueued(x) /\ IsRun(x)' = IsRun(x)
      BY <2>1, <2>3 DEF IsQueued, IsRun
    <2>5. Apart'
      BY <2>1, <2>2, <2>3, <2>4 DEF Apart, InHand
    <2>6. Unheld'
      BY <2>1, <2>4 DEF Unheld, TypeOK, ConnTypes
    <2>7. Decided' /\ Reasons'
      BY <1>1, <2>1, <2>2, <2>4 DEF Decided, Reasons
    <2>8. QED
      BY <2>5, <2>6, <2>7
  <1>5. CASE Submit
    <2>1. CASE execShut
      <3>1. /\ UNCHANGED <<queue, wpc, job, areq, sock, outcome>>
            /\ apc = "submit" /\ apc' = "undo"
        BY <1>5, <2>1 DEF Submit, connVars
      <3>2. QED
        BY <1>1, <1>2, <2>1, <3>1 DEF InHand, Unheld, Decided, Reasons
    <2>2. CASE ~execShut
      <3>1. /\ queue' = Append(queue, areq) /\ apc = "submit" /\ apc' = "adjust"
            /\ UNCHANGED <<wpc, job, areq, sock, outcome>>
            /\ areq \in Conns /\ queue \in Seq(Conns) /\ InHand(areq)
        BY <1>5, <2>2 DEF Submit, connVars, TypeOK, AcceptTypes, PoolTypes, InHand
      <3>2. Busy' = Busy
        BY <3>1 DEF Busy
      <3>3. \A x : /\ IsQueued(x)' => IsQueued(x) \/ x = areq
                   /\ IsRun(x)' = IsRun(x)
        BY <3>1, <3>2, Queueing DEF IsQueued, IsRun
      <3>4. \A i, j \in DOMAIN queue' : queue'[i] = queue'[j] => i = j
        <4>1. \A i \in DOMAIN queue : queue[i] # areq
          BY <3>1 DEF Apart, IsQueued
        <4>2. QED
          BY <3>1, <4>1, Queueing DEF Apart
      <3>5. Apart'
        BY <3>1, <3>2, <3>3, <3>4 DEF Apart, InHand
      <3>6. Unheld'
        BY <3>1, <3>3 DEF Unheld
      <3>7. Decided'
        BY <3>1, <3>3 DEF Decided, Turned
      <3>8. Reasons'
        BY <1>1, <3>1 DEF Reasons
      <3>9. QED
        BY <3>5, <3>6, <3>7, <3>8
    <2>3. QED
      BY <2>1, <2>2
  <1>6. CASE Adjust
    <2>1. /\ apc = "adjust" /\ apc' = "select" /\ areq' = None
          /\ UNCHANGED <<queue, job, sock, outcome>>
      BY <1>6 DEF Adjust, connVars
    <2>2. Busy' = Busy
      BY <1>6 DEF Adjust, Busy, Started, BusyPcs, TypeOK, PoolTypes
    <2>3. \A c \in Conns : ~InHand(c)'
      BY <2>1, EnvironmentAssumption DEF InHand
    <2>4. /\ Apart'
          /\ \A c \in Conns : (IsQueued(c)' => IsQueued(c)) /\ (IsRun(c)' => IsRun(c))
      BY <2>1, <2>2, <2>3, ApartKept
    <2>5. QED
      BY <1>1, <2>1, <2>4, EnvironmentAssumption DEF Unheld, Decided, Reasons
  <1>7. CASE Respond \/ CloseRejected \/ Abandon
    <2>1. /\ UNCHANGED <<queue, wpc, job>>
          /\ apc \in {"respond", "close", "abandon"} /\ areq' \in {areq, None}
          /\ areq \in Conns /\ InHand(areq)
      BY <1>7 DEF Respond, CloseRejected, Abandon, poolVars, TypeOK, AcceptTypes, InHand
    <2>2. \A c \in Conns : InHand(c)' => InHand(c)
      BY <2>1, EnvironmentAssumption DEF InHand
    <2>3. /\ Apart'
          /\ \A c \in Conns : (IsQueued(c)' => IsQueued(c)) /\ (IsRun(c)' => IsRun(c))
      BY <1>2, <2>1, <2>2
    <2>4. \A c \in Conns :
             /\ sock'[c] \in {"none", "backlog"} => sock[c] \in {"none", "backlog"}
             /\ c # areq => outcome'[c] = outcome[c]
      BY <1>7 DEF Respond, CloseRejected, Abandon, TypeOK, ConnTypes
    <2>5. sock[areq] \notin {"none", "backlog"} /\ ~IsQueued(areq) /\ ~IsRun(areq)
      BY <2>1 DEF Unheld, Apart
    <2>6. Unheld'
      BY <2>1, <2>3, <2>4, <2>5, EnvironmentAssumption DEF Unheld
    <2>7. Decided'
      <3>1. \A c \in Conns : outcome'[c] \in Turned => ~IsQueued(c)' /\ ~IsRun(c)'
        BY <2>3, <2>4, <2>5 DEF Decided
      <3>2. apc' \in {"drain", "close"} \/ (apc' \in {"select", "stopped"} /\ areq' = None)
        BY <1>7 DEF Respond, CloseRejected, Abandon
      <3>3. QED
        BY <3>1, <3>2 DEF Decided
    <2>8. Reasons'
      <3>1. CASE Abandon
        <4>1. /\ execShut /\ apc' \in {"select", "stopped"}
              /\ outcome'[areq] \in {"dropped", outcome[areq]}
          BY <2>1, <3>1 DEF Abandon, Reasons, TypeOK, ConnTypes
        <4>2. QED
          BY <1>1, <2>4, <4>1 DEF Reasons
      <3>2. CASE Respond \/ CloseRejected
        <4>1. /\ policy # "block" /\ apc' \in {"drain", "close", "select"}
              /\ outcome'[areq] # "dropped" \/ outcome'[areq] = outcome[areq]
          BY <2>1, <3>2 DEF Respond, CloseRejected, Reasons, TypeOK, ConnTypes
        <4>2. QED
          BY <1>1, <2>4, <4>1 DEF Reasons
      <3>3. QED
        BY <1>7, <3>1, <3>2
    <2>9. QED
      BY <2>3, <2>6, <2>7, <2>8
  <1>8. QED
    BY <1>3, <1>4, <1>5, <1>6, <1>7 DEF AcceptThread

(* Accept thread, queue and workers hold different connections, of which   *)
(* none was decided on, in every reachable state (350-380).                *)
THEOREM OwnershipInvariant ==
    ASSUME "thread_start" \notin Faults
    PROVE  Spec => [](TypeOK /\ Owned)
  <1>1. Init => Owned
    BY InitOwned
  <1>2. TypeOK /\ Owned /\ [Next]_vars => Owned'
    BY OthersOwned, WorkerOwned, AcceptOwned DEF Next, StandStill
  <1>3. QED
    BY <1>1, <1>2, TypeCorrect, PTL DEF Spec

(* A connection that was turned away, by policy or because the executor    *)
(* raised, is never run by the pool as well.                               *)
THEOREM TurnedAwayIsNotRun ==
    ASSUME "thread_start" \notin Faults
    PROVE  Spec => []TurnedAwayNeverRuns
  <1>1. Owned => TurnedAwayNeverRuns
    BY DEF Owned, Decided, Turned, TurnedAwayNeverRuns, IsQueued, IsRun
  <1>2. QED
    BY <1>1, OwnershipInvariant, PTL

(* Under BLOCK no request is rejected; only a closed pool drops one.       *)
THEOREM BlockRejectsNobody ==
    ASSUME "thread_start" \notin Faults
    PROVE  Spec => []BlockTurnsNobodyAway
  <1>1. Owned => BlockTurnsNobodyAway
    BY DEF Owned, Reasons, BlockTurnsNobodyAway
  <1>2. QED
    BY <1>1, OwnershipInvariant, PTL

-----------------------------------------------------------------------------
(* How far a request has come.                                             *)

(* What is known of the outcome of a request where it stands.              *)
Staged ==
    /\ \A c \in Conns : IsQueued(c) => outcome[c] = "none"
    /\ \A w \in Busy : outcome[job[w]] \in IF wpc[w] \in {"start", "handle"} THEN {"none"}
                                                                             ELSE Served
    /\ apc \in {"drain", "close"} => outcome[areq] \in {"none", "overload"}

LEMMA InitStaged == Init => Staged
  <1>1. Init => Busy = {} /\ queue = <<>>
    BY DEF Init, Busy, BusyPcs
  <1>2. QED
    BY <1>1 DEF Init, Staged, IsQueued

LEMMA OthersStaged ==
    ASSUME TypeOK, Owned, Staged,
           \/ \E c \in Conns : Client(c)
           \/ \E k \in Closers : Closer(k)
           \/ UNCHANGED vars
    PROVE  Staged'
  <1>1. UNCHANGED <<policy, apc, areq, queue, wpc, job>>
    BY DEF Client, Connect, PeerStep, Closer, CallShutdown, LoopStopped, CallShutdownExecutor,
           TakeLock, ExecutorShutdown, QueueKept, JoinWorkers, JoinItself, DropLock, Unlisten,
           vars, acceptVars, poolVars, closeVars
  <1>2. Busy' = Busy
    BY <1>1 DEF Busy
  <1>3. \A c \in Conns : outcome'[c] = outcome[c] \/ sock[c] = "backlog"
    BY DEF Client, Connect, PeerStep, Closer, CallShutdown, LoopStopped, CallShutdownExecutor,
           TakeLock, ExecutorShutdown, JoinWorkers, JoinItself, DropLock, Unlisten,
           vars, connVars, TypeOK, ConnTypes
  <1>4. \A c \in Conns : outcome'[c] = outcome[c] \/ (areq # c /\ ~IsQueued(c) /\ ~IsRun(c))
    BY <1>3 DEF Owned, Unheld
  <1>5. \A w \in Busy : job[w] \in Conns /\ IsRun(job[w])
    BY DEF Busy, IsRun, TypeOK, PoolTypes
  <1>6. apc \in {"drain", "close"} => areq \in Conns
    BY DEF TypeOK, AcceptTypes
  <1>7. \A c : IsQueued(c)' = IsQueued(c)
    BY <1>1 DEF IsQueued
  <1>8. QED
    BY <1>1, <1>2, <1>4, <1>5, <1>6, <1>7 DEF Staged

LEMMA WorkerStaged ==
    ASSUME TypeOK, Owned, Staged, NEW w \in Workers, Worker(w)
    PROVE  Staged'
  <1>1. UNCHANGED <<apc, areq>>
    BY DEF Worker, Get, Exit, Start, HandleReturns, HandleRaises, CloseServed,
           Complete, Fail, CountFailure, Release, Loop, acceptVars
  <1>2. w \in Busy => IsRun(job[w]) /\ job[w] \in Conns
    BY DEF IsRun, Busy, TypeOK, PoolTypes
  <1>3. \A v \in Busy : v # w => job[v] # job[w] \/ w \notin Busy
    BY DEF Owned, Apart
  <1>4. \A v \in Workers \ {w} : wpc'[v] = wpc[v] /\ job'[v] = job[v]
    BY DEF Worker, Get, Exit, Start, HandleReturns, HandleRaises, CloseServed,
           Complete, Fail, CountFailure, Release, Loop, TypeOK, PoolTypes
  <1>5. CASE Get(w)
    <2>1. /\ queue # <<>> /\ queue' = Tail(queue) /\ outcome' = outcome
          /\ job'[w] = Head(queue) /\ wpc'[w] = "start"
      BY <1>5 DEF Get, connVars, TypeOK, PoolTypes
    <2>2. /\ \A c : IsQueued(c)' => IsQueued(c)
          /\ IsQueued(Head(queue)) /\ Head(queue) \in Conns
      BY <2>1, Taking, HeadTailProperties DEF IsQueued, Owned, Apart, TypeOK, PoolTypes
    <2>3. outcome'[job'[w]] = "none"
      BY <2>1, <2>2 DEF Staged
    <2>4. \A v \in Busy' : v # w => v \in Busy
      BY <1>4 DEF Busy
    <2>5. QED
      BY <1>1, <1>4, <2>1, <2>2, <2>3, <2>4 DEF Staged, Busy
  <1>6. CASE ~Get(w)
    <2>1. queue' = queue /\ \A c : IsQueued(c)' = IsQueued(c)
      <3>1. queue' = queue
        BY <1>6 DEF Worker, Exit, Start, HandleReturns, HandleRaises, CloseServed,
           Complete, Fail, CountFailure, Release, Loop
      <3>2. QED
        BY <3>1 DEF IsQueued
    <2>2. \A v \in Busy' : v \in Busy
      BY <1>4, <1>6
      DEF Worker, Exit, Start, HandleReturns, HandleRaises, CloseServed,
          Complete, Fail, CountFailure, Release, Loop, Busy, BusyPcs, TypeOK, PoolTypes
    <2>3. \A c \in Conns : outcome'[c] = outcome[c] \/ (w \in Busy /\ c = job[w])
      BY <1>6
      DEF Worker, Exit, Start, HandleReturns, HandleRaises, CloseServed, connVars,
          Complete, Fail, CountFailure, Release, Loop, Busy, BusyPcs, TypeOK, ConnTypes
    <2>4. w \in Busy' => /\ job'[w] = job[w]
                         /\ outcome'[job'[w]] \in IF wpc'[w] \in {"start", "handle"} THEN {"none"}
                                                                                     ELSE Served
      <3>1. CASE HandleReturns(w) \/ HandleRaises(w)
        BY <1>2, <3>1
        DEF HandleReturns, HandleRaises, Staged, Busy, BusyPcs, Served, TypeOK, PoolTypes, ConnTypes
      <3>2. CASE Start(w) \/ CloseServed(w) \/ Complete(w) \/ Fail(w) \/ CountFailure(w)
        BY <1>2, <3>2
        DEF Start, CloseServed, Complete, Fail, CountFailure, connVars, Staged, Busy, BusyPcs,
            TypeOK, PoolTypes
      <3>3. CASE Exit(w) \/ Release(w) \/ Loop(w)
        BY <3>3 DEF Exit, Release, Loop, Busy, BusyPcs, TypeOK, PoolTypes
      <3>4. QED
        BY <1>6, <3>1, <3>2, <3>3 DEF Worker
    <2>5. \A v \in Busy' : v # w => outcome'[job'[v]] = outcome[job[v]]
      BY <1>3, <1>4, <2>2, <2>3 DEF Busy, TypeOK, PoolTypes
    <2>6. \A c \in Conns : IsQueued(c) => outcome'[c] = outcome[c]
      BY <1>2, <2>3 DEF Owned, Apart
    <2>7. apc \in {"drain", "close"} => outcome'[areq] = outcome[areq]
      BY <1>2, <2>3 DEF Owned, Apart, InHand, TypeOK, AcceptTypes
    <2>8. QED
      BY <1>1, <1>4, <2>1, <2>2, <2>4, <2>5, <2>6, <2>7 DEF Staged, Busy
  <1>7. QED
    BY <1>5, <1>6

LEMMA AcceptStaged ==
    ASSUME TypeOK, Owned, Staged, AcceptThread, "thread_start" \notin Faults
    PROVE  Staged'
  <1>1. Busy' = Busy /\ \A w \in Busy : job'[w] = job[w] /\ wpc'[w] = wpc[w]
    <2>1. CASE Adjust
      BY <2>1 DEF Adjust, Busy, Started, BusyPcs, TypeOK, PoolTypes
    <2>2. CASE ~Adjust
      BY <2>2 DEF AcceptThread, AcceptConn, StopServing, Admit, Refuse, Record, Submit, Undo,
           Abandon, Reject, Respond, Drain, CloseRejected, poolVars, Busy
    <2>3. QED
      BY <2>1, <2>2
  <1>2. \A c \in Conns : outcome'[c] = outcome[c] \/ (InHand(c) /\ c = areq)
    BY DEF AcceptThread, AcceptConn, StopServing, Admit, Refuse, Record, Submit, Adjust, Undo,
           Abandon, Reject, Respond, Drain, CloseRejected, connVars, InHand,
           TypeOK, AcceptTypes, ConnTypes
  <1>3. \A w \in Busy : outcome'[job[w]] = outcome[job[w]]
    BY <1>2 DEF Owned, Apart, IsRun, Busy, TypeOK, PoolTypes
  <1>4. \A c \in Conns : IsQueued(c)' => outcome'[c] = "none"
    <2>1. CASE Submit /\ ~execShut
      <3>1. queue' = Append(queue, areq) /\ outcome' = outcome /\ outcome[areq] = "none"
        BY <2>1 DEF Submit, connVars, Owned, Decided
      <3>2. \A x : IsQueued(x)' => IsQueued(x) \/ x = areq
        BY <2>1, <3>1, Queueing DEF IsQueued, Submit, TypeOK, AcceptTypes, PoolTypes
      <3>3. QED
        BY <3>1, <3>2 DEF Staged
    <2>2. CASE ~(Submit /\ ~execShut)
      <3>1. queue' = queue
        BY <2>2 DEF AcceptThread, AcceptConn, StopServing, Admit, Refuse, Record, Submit, Adjust,
           Undo, Abandon, Reject, Respond, Drain, CloseRejected, poolVars
      <3>2. \A c : IsQueued(c)' = IsQueued(c)
        BY <3>1 DEF IsQueued
      <3>3. QED
        BY <1>2, <3>2 DEF Owned, Apart, Staged
    <2>3. QED
      BY <2>1, <2>2
  <1>5. apc' \in {"drain", "close"} => outcome'[areq'] \in {"none", "overload"}
    <2>1. CASE Reject \/ Respond \/ Drain
      BY <2>1 DEF Reject, Respond, Drain, connVars, Owned, Decided, Staged,
                  TypeOK, ConnTypes, AcceptTypes
    <2>2. CASE ~(Reject \/ Respond \/ Drain)
      BY <2>2 DEF AcceptThread, AcceptConn, StopServing, Admit, Refuse, Record, Submit, Adjust,
           Undo, Abandon, CloseRejected
    <2>3. QED
      BY <2>1, <2>2
  <1>6. QED
    BY <1>1, <1>3, <1>4, <1>5 DEF Staged

(* How far a request has come and what became of it go together, in every  *)
(* reachable state (353-380).                                              *)
THEOREM StageInvariant ==
    ASSUME "thread_start" \notin Faults
    PROVE  Spec => [](TypeOK /\ Owned /\ Staged)
  <1>1. Init => Staged
    BY InitStaged
  <1>2. TypeOK /\ Owned /\ Staged /\ [Next]_vars => Staged'
    BY OthersStaged, WorkerStaged, AcceptStaged DEF Next, StandStill
  <1>3. QED
    BY <1>1, <1>2, OwnershipInvariant, PTL DEF Spec

-----------------------------------------------------------------------------
(* An open socket has somebody who will close it.                          *)

Held(c) == InHand(c) \/ IsQueued(c) \/ IsRun(c)

(* A worker closes its socket before it gives the permit back. *)
Attended ==
    /\ \A c \in Conns : sock[c] = "open" => Held(c)
    /\ \A w \in Busy : wpc[w] \in {"complete", "fail", "release"} => sock[job[w]] # "open"

LEMMA InitAttended == Init => Attended
  <1>1. Init => Busy = {}
    BY DEF Init, Busy, BusyPcs
  <1>2. QED
    BY <1>1 DEF Init, Attended

LEMMA OthersAttended ==
    ASSUME TypeOK, Attended,
           \/ \E c \in Conns : Client(c)
           \/ \E k \in Closers : Closer(k)
           \/ UNCHANGED vars
    PROVE  Attended'
  <1>1. UNCHANGED <<apc, areq, queue, wpc, job>>
    BY DEF Client, Connect, PeerStep, Closer, CallShutdown, LoopStopped, CallShutdownExecutor,
           TakeLock, ExecutorShutdown, QueueKept, JoinWorkers, JoinItself, DropLock, Unlisten,
           vars, acceptVars, poolVars, closeVars
  <1>2. Busy' = Busy
    BY <1>1 DEF Busy
  <1>3. \A c \in Conns : Held(c)' = Held(c)
    BY <1>1, <1>2 DEF Held, InHand, IsQueued, IsRun
  <1>4. \A c \in Conns : sock'[c] = "open" => sock[c] = "open"
    BY DEF Client, Connect, PeerStep, Closer, CallShutdown, LoopStopped, CallShutdownExecutor,
           TakeLock, ExecutorShutdown, JoinWorkers, JoinItself, DropLock, Unlisten,
           vars, connVars, TypeOK, ConnTypes
  <1>5. \A w \in Busy : job[w] \in Conns
    BY DEF Busy, TypeOK, PoolTypes
  <1>6. QED
    BY <1>1, <1>2, <1>3, <1>4, <1>5 DEF Attended

LEMMA WorkerAttended ==
    ASSUME TypeOK, Owned, Attended, NEW w \in Workers, Worker(w), "handle_error" \notin Faults
    PROVE  Attended'
  <1>1. UNCHANGED <<apc, areq>>
    BY DEF Worker, Get, Exit, Start, HandleReturns, HandleRaises, CloseServed,
           Complete, Fail, CountFailure, Release, Loop, acceptVars
  <1>2. \A v \in Workers \ {w} : wpc'[v] = wpc[v] /\ job'[v] = job[v]
    BY DEF Worker, Get, Exit, Start, HandleReturns, HandleRaises, CloseServed,
           Complete, Fail, CountFailure, Release, Loop, TypeOK, PoolTypes
  <1>3. \A c \in Conns : sock'[c] = "open" => sock[c] = "open"
    BY DEF Worker, Get, Exit, Start, HandleReturns, HandleRaises, CloseServed, connVars,
           Complete, Fail, CountFailure, Release, Loop, TypeOK, PoolTypes, ConnTypes
  <1>4. \A v \in Busy : job[v] \in Conns
    BY DEF Busy, TypeOK, PoolTypes
  <1>5. w \in Busy' /\ wpc'[w] \in {"complete", "fail", "release"} => sock'[job'[w]] # "open"
    <2>1. CASE CloseServed(w) \/ Fail(w)
      BY <1>4, <2>1 DEF CloseServed, Fail, Busy, BusyPcs, TypeOK, PoolTypes, ConnTypes
    <2>2. CASE Complete(w) \/ CountFailure(w)
      BY <1>4, <2>2 DEF Complete, CountFailure, connVars, Attended, Busy, BusyPcs, TypeOK, PoolTypes
    <2>3. CASE Get(w) \/ Exit(w) \/ Start(w) \/ HandleReturns(w) \/ HandleRaises(w)
                 \/ Release(w) \/ Loop(w)
      BY <2>3 DEF Get, Exit, Start, HandleReturns, HandleRaises, Release, Loop, TypeOK, PoolTypes
    <2>4. QED
      BY <2>1, <2>2, <2>3 DEF Worker
  <1>6. \A v \in Busy' : wpc'[v] \in {"complete", "fail", "release"} => sock'[job'[v]] # "open"
    BY <1>2, <1>3, <1>4, <1>5 DEF Attended, Busy
  <1>7. \A c \in Conns : sock[c] = "open" /\ sock'[c] = "open" => Held(c)'
    <2>1. CASE Get(w)
      <3>1. /\ queue # <<>> /\ queue' = Tail(queue) /\ queue \in Seq(Conns)
            /\ w \notin Busy /\ Busy' = Busy \cup {w} /\ job'[w] = Head(queue)
        BY <2>1 DEF Get, Busy, BusyPcs, TypeOK, PoolTypes
      <3>2. \A c : IsQueued(c) => c = Head(queue) \/ IsQueued(c)'
        BY <3>1, Taking DEF Owned, Apart, IsQueued
      <3>3. \A c \in Conns : Held(c) => Held(c)'
        BY <1>1, <1>2, <3>1, <3>2 DEF Held, InHand, IsRun, Busy
      <3>4. QED
        BY <3>3 DEF Attended
    <2>2. CASE Release(w)
      <3>1. /\ queue' = queue /\ Busy' = Busy \ {w}
            /\ w \in Busy /\ sock[job[w]] # "open"
        BY <2>2 DEF Release, Attended, Busy, BusyPcs, TypeOK, PoolTypes
      <3>2. \A c \in Conns : Held(c) /\ c # job[w] => Held(c)'
        BY <1>1, <1>2, <3>1 DEF Held, InHand, IsQueued, IsRun, Busy
      <3>3. QED
        BY <3>1, <3>2 DEF Attended
    <2>3. CASE ~Get(w) /\ ~Release(w)
      <3>1. UNCHANGED <<Busy, job, queue>>
        BY <2>3, WorkerMoves
      <3>2. \A c : Held(c)' = Held(c)
        BY <1>1, <3>1 DEF Held, InHand, IsQueued, IsRun
      <3>3. QED
        BY <3>2 DEF Attended
    <2>4. QED
      BY <2>1, <2>2, <2>3
  <1>8. QED
    BY <1>3, <1>6, <1>7 DEF Attended

LEMMA AcceptAttended ==
    ASSUME TypeOK, Owned, Attended, AcceptThread, "thread_start" \notin Faults
    PROVE  Attended'
  <1>1. Busy' = Busy /\ \A w \in Busy : job'[w] = job[w] /\ wpc'[w] = wpc[w]
    <2>1. CASE Adjust
      BY <2>1 DEF Adjust, Busy, Started, BusyPcs, TypeOK, PoolTypes
    <2>2. CASE ~Adjust
      BY <2>2 DEF AcceptThread, AcceptConn, StopServing, Admit, Refuse, Record, Submit, Undo,
           Abandon, Reject, Respond, Drain, CloseRejected, poolVars, Busy
    <2>3. QED
      BY <2>1, <2>2
  <1>2. \A c \in Conns : IsRun(c)' = IsRun(c)
    BY <1>1 DEF IsRun
  <1>3. \A c \in Conns : IsQueued(c) => IsQueued(c)'
    <2>1. CASE Submit /\ ~execShut
      BY <2>1, Queueing DEF IsQueued, Submit, TypeOK, AcceptTypes, PoolTypes
    <2>2. CASE ~(Submit /\ ~execShut)
      <3>1. queue' = queue
        BY <2>2 DEF AcceptThread, AcceptConn, StopServing, Admit, Refuse, Record, Submit, Adjust,
           Undo, Abandon, Reject, Respond, Drain, CloseRejected, poolVars
      <3>2. QED
        BY <3>1 DEF IsQueued
    <2>3. QED
      BY <2>1, <2>2
  <1>4. \A c \in Conns : InHand(c) => InHand(c)' \/ sock'[c] # "open" \/ IsQueued(c)'
    <2>1. CASE Submit /\ ~execShut
      BY <2>1, Queueing DEF IsQueued, Submit, TypeOK, AcceptTypes, PoolTypes, InHand
    <2>2. CASE apc \in {"select", "adjust"}
      BY <2>2, EnvironmentAssumption DEF InHand, Owned, Decided
    <2>3. CASE Abandon \/ CloseRejected
      BY <2>3 DEF Abandon, CloseRejected, InHand, TypeOK, ConnTypes, AcceptTypes
    <2>4. CASE \/ Submit /\ execShut
               \/ Admit \/ Refuse \/ Record \/ Undo \/ Reject \/ Respond \/ Drain
      BY <2>4 DEF Admit, Refuse, Record, Submit, Undo, Reject, Respond, Drain, InHand
    <2>5. QED
      BY <2>1, <2>2, <2>3, <2>4 DEF AcceptThread, AcceptConn, StopServing, Adjust
  <1>5. \A c \in Conns : sock'[c] = "open" => sock[c] = "open" \/ (InHand(c)' /\ sock[c] = "backlog")
    BY DEF AcceptThread, AcceptConn, StopServing, Admit, Refuse, Record, Submit, Adjust, Undo,
           Abandon, Reject, Respond, Drain, CloseRejected, connVars, InHand,
           TypeOK, ConnTypes, AcceptTypes
  <1>6. \A w \in Busy : job[w] \in Conns /\ sock[job[w]] # "backlog"
    BY DEF Owned, Unheld, IsRun, Busy, TypeOK, PoolTypes
  <1>7. QED
    BY <1>1, <1>2, <1>3, <1>4, <1>5, <1>6 DEF Attended, Held

(* A set all of whose elements are equal has at most one.                  *)
LEMMA AtMostOne ==
    ASSUME NEW S, \A x, y \in S : x = y
    PROVE  /\ Cardinality(S) = 0 \/ Cardinality(S) = 1
           /\ Cardinality(S) = 0 <=> S = {}
  <1>1. CASE S = {}
    BY <1>1, FS_EmptySet
  <1>2. ASSUME NEW x \in S PROVE S = {x} /\ Cardinality(S) = 1
    <2>1. S = {x}
      BY <1>2
    <2>2. QED
      BY <2>1, FS_Singleton
  <1>3. QED
    BY <1>1, <1>2

(* As the connection is held, so are its holders counted. *)
LEMMA HoldersCount ==
    ASSUME TypeOK, Owned, NEW c \in Conns
    PROVE  Holders(c) = Count(Held(c))
  <1> DEFINE Q == {i \in DOMAIN queue : queue[i] = c}
             R == {w \in Busy : job[w] = c}
  <1>1. (\A i, j \in Q : i = j) /\ (\A v, w \in R : v = w)
    BY DEF Owned, Apart
  <1>2. (Q # {} <=> IsQueued(c)) /\ (R # {} <=> IsRun(c))
    BY DEF IsQueued, IsRun
  <1>3. Holders(c) = Count(InHand(c)) + Cardinality(Q) + Cardinality(R)
    BY DEF Holders, InHand
  <1> HIDE DEF Q, R
  <1>4. /\ Cardinality(Q) \in {0, 1} /\ (Cardinality(Q) = 0 <=> ~IsQueued(c))
        /\ Cardinality(R) \in {0, 1} /\ (Cardinality(R) = 0 <=> ~IsRun(c))
    BY <1>1, <1>2, AtMostOne
  <1>5. /\ InHand(c) => ~IsQueued(c) /\ ~IsRun(c)
        /\ IsQueued(c) => ~IsRun(c)
    BY DEF Owned, Apart
  <1>6. /\ Count(InHand(c)) = IF InHand(c) THEN 1 ELSE 0
        /\ Count(Held(c)) = IF InHand(c) \/ IsQueued(c) \/ IsRun(c) THEN 1 ELSE 0
    BY DEF Count, Held
  <1>7. QED
    BY <1>3, <1>4, <1>5, <1>6

(* No socket has two owners, also when handle_error raises: a request is   *)
(* never served twice, nor closed by one thread under another one.         *)
THEOREM NoSocketHasTwoOwners ==
    ASSUME "thread_start" \notin Faults
    PROVE  Spec => [](\A c \in Conns : Holders(c) <= 1)
  <1>1. TypeOK /\ Owned => \A c \in Conns : Holders(c) <= 1
    BY HoldersCount DEF Count
  <1>2. QED
    BY <1>1, OwnershipInvariant, PTL

(* A socket belongs to one thread at a time, and an open one to somebody   *)
(* who will close it, as long as nothing but the clients and the pool's    *)
(* closing makes requests fail.                                            *)
THEOREM EverySocketHasOneOwner ==
    ASSUME Faults = {}
    PROVE  Spec => []OneOwner
  <1>1. TypeOK /\ Owned /\ Attended /\ [Next]_vars => Attended'
    BY OthersAttended, WorkerAttended, AcceptAttended DEF Next, StandStill
  <1>2. TypeOK /\ Owned /\ Attended => OneOwner
    BY HoldersCount DEF OneOwner, Attended, Count
  <1>3. Spec => [](TypeOK /\ Owned)
    BY OwnershipInvariant
  <1>4. QED
    BY <1>1, <1>2, <1>3, InitAttended, PTL DEF Spec

-----------------------------------------------------------------------------
(* How many connections are held.                                          *)

(* The request of a submit in progress is in the queue or with a worker,   *)
(* or has already been served and its permit given back.                   *)
SubmittedIsKnown ==
    apc = "adjust" => IsQueued(areq) \/ IsRun(areq) \/ capacity > 0

LEMMA NextSubmitted ==
    ASSUME TypeOK, SubmittedIsKnown, [Next]_vars
    PROVE  SubmittedIsKnown'
  <1> SUFFICES ASSUME apc' = "adjust" PROVE (IsQueued(areq) \/ IsRun(areq) \/ capacity > 0)'
    BY DEF SubmittedIsKnown
  <1>1. CASE AcceptThread
    <2>1. Submit
      BY <1>1 DEF AcceptThread, AcceptConn, StopServing, Admit, Refuse, Record, Submit,
                  Adjust, Undo, Abandon, Reject, Respond, Drain, CloseRejected
    <2>2. queue' = Append(queue, areq) /\ areq' = areq /\ areq \in Conns
      BY <2>1 DEF Submit, TypeOK, AcceptTypes
    <2>3. QED
      BY <2>2, Queueing DEF IsQueued, TypeOK, PoolTypes
  <1>2. ASSUME NEW w \in Workers, Worker(w)
        PROVE  (IsQueued(areq) \/ IsRun(areq) \/ capacity > 0)'
    <2>1. apc = "adjust" /\ areq' = areq
      BY <1>2 DEF Worker, Get, Exit, Start, HandleReturns, HandleRaises, CloseServed,
                  Complete, Fail, CountFailure, Release, Loop, acceptVars
    <2>2. CASE Get(w)
      <3>1. /\ queue \in Seq(Conns) /\ queue # <<>> /\ queue' = Tail(queue)
            /\ w \in Busy' /\ job'[w] = Head(queue) /\ capacity' = capacity
            /\ wpc[w] = "get" /\ \A v \in Workers \ {w} : wpc'[v] = wpc[v] /\ job'[v] = job[v]
        BY <2>2 DEF Get, Busy, BusyPcs, TypeOK, PoolTypes
      <3>2. IsQueued(areq) => IsQueued(areq)' \/ areq = Head(queue)
        <4>1. /\ Len(queue) \in Nat \ {0} /\ DOMAIN queue = 1 .. Len(queue)
              /\ Head(queue) = queue[1]
              /\ Len(queue') = Len(queue) - 1 /\ DOMAIN queue' = 1 .. Len(queue')
              /\ \A i \in 1 .. Len(queue') : queue'[i] = queue[i + 1]
          BY <3>1, HeadTailProperties, LenProperties, EmptySeq
        <4>2. \A i \in DOMAIN queue : i # 1 => i - 1 \in DOMAIN queue' /\ queue'[i - 1] = queue[i]
          BY <4>1
        <4>3. QED
          BY <2>1, <4>1, <4>2 DEF IsQueued
      <3>3. \A v \in Busy : v \in Busy' /\ job'[v] = job[v]
        BY <3>1 DEF Busy, BusyPcs
      <3>4. QED
        BY <2>1, <3>1, <3>2, <3>3 DEF SubmittedIsKnown, IsRun
    <2>3. CASE Release(w)
      BY <2>3 DEF Release, TypeOK
    <2>4. CASE ~Get(w) /\ ~Release(w)
      <3>1. UNCHANGED <<queue, job, capacity>>
        BY <1>2, <2>4 DEF Worker, Exit, Start, HandleReturns, HandleRaises, CloseServed,
                          Complete, Fail, CountFailure, Loop
      <3>2. Busy' = Busy
        BY <1>2, <2>4 DEF Worker, Exit, Start, HandleReturns, HandleRaises, CloseServed,
                          Complete, Fail, CountFailure, Loop, Busy, BusyPcs, TypeOK, PoolTypes
      <3>3. QED
        BY <2>1, <3>1, <3>2 DEF SubmittedIsKnown, IsQueued, IsRun
    <2>5. QED
      BY <2>2, <2>3, <2>4
  <1>3. CASE \/ \E c \in Conns : Client(c)
             \/ \E k \in Closers : Closer(k)
             \/ UNCHANGED vars
    <2>1. UNCHANGED <<apc, areq, queue, wpc, job, capacity>>
      BY <1>3 DEF Client, Connect, PeerStep, Closer, CallShutdown, LoopStopped,
             CallShutdownExecutor, TakeLock, ExecutorShutdown, QueueKept, JoinWorkers,
             JoinItself, DropLock, Unlisten, vars, acceptVars, poolVars, closeVars
    <2>2. QED
      BY <2>1 DEF SubmittedIsKnown, IsQueued, IsRun, Busy
  <1>4. QED
    BY <1>1, <1>2, <1>3 DEF Next, StandStill

(* A sequence has no more items than places. *)
LEMMA ItemCount ==
    ASSUME NEW q \in Seq(Conns), NEW Q, Q = {c \in Conns : \E i \in DOMAIN q : q[i] = c}
    PROVE  IsFiniteSet(Q) /\ Cardinality(Q) <= Len(q)
  <1>1. Len(q) \in Nat /\ DOMAIN q = 1 .. Len(q) /\ \A i \in DOMAIN q : q[i] \in Conns
    BY LenProperties, ElementOfSeq
  <1> DEFINE f == [i \in 1 .. Len(q) |-> q[i]]
  <1>2. f \in Surjection(1 .. Len(q), Q)
    BY <1>1 DEF Surjection
  <1>3. IsFiniteSet(1 .. Len(q)) /\ Cardinality(1 .. Len(q)) = Len(q)
    BY <1>1, FS_Interval
  <1>4. QED
    BY <1>2, <1>3, FS_Surjection

(* Busy workers run no more requests than they are. *)
LEMMA JobCount ==
    ASSUME TypeOK, NEW R, R = {c \in Conns : IsRun(c)}
    PROVE  IsFiniteSet(R) /\ Cardinality(R) <= Cardinality(Busy)
  <1> DEFINE f == [w \in Busy |-> job[w]]
  <1>1. f \in Surjection(Busy, R)
    <2>1. \A w \in Busy : job[w] \in R
      BY DEF IsRun, Busy, TypeOK, PoolTypes
    <2>2. \A c \in R : \E w \in Busy : f[w] = c
      BY DEF IsRun
    <2>3. QED
      BY <2>1, <2>2 DEF Surjection
  <1>2. QED
    BY <1>1, BusyType, FS_Surjection

LEMMA SmallUnion ==
    ASSUME NEW A, NEW B, IsFiniteSet(A), IsFiniteSet(B)
    PROVE  IsFiniteSet(A \cup B) /\ Cardinality(A \cup B) <= Cardinality(A) + Cardinality(B)
  <1>1. /\ IsFiniteSet(A \cup B)
        /\ Cardinality(A \cup B) = Cardinality(A) + Cardinality(B) - Cardinality(A \cap B)
    BY FS_Union
  <1>2. /\ Cardinality(A) \in Nat /\ Cardinality(B) \in Nat
        /\ Cardinality(A \cap B) \in Nat
    BY FS_Intersection, FS_CardinalityType
  <1>3. QED
    BY <1>1, <1>2

(* "total outstanding capacity = max_workers + max_pending": true as long  *)
(* as a thread can be started whenever the executor wants one.             *)
THEOREM OutstandingIsBounded ==
    ASSUME "thread_start" \notin Faults
    PROVE  Spec => []OutstandingWithinCapacity
  <1>1. Init => SubmittedIsKnown
    BY DEF Init, SubmittedIsKnown
  <1>2. ASSUME TypeOK, SubmittedIsKnown, PermitsConserved
        PROVE  OutstandingWithinCapacity
    <2> DEFINE H == IF apc \in PermitPcs \cup {"adjust"} THEN {areq} ELSE {}
               Q == {c \in Conns : \E i \in DOMAIN queue : queue[i] = c}
               R == {c \in Conns : IsRun(c)}
    <2>1. Outstanding = H \cup (Q \cup R)
      BY <1>2 DEF Outstanding, IsRun, PermitPcs, TypeOK, AcceptTypes
    <2>2. /\ IsFiniteSet(Q) /\ Cardinality(Q) <= Len(queue) /\ Len(queue) \in Nat
          /\ IsFiniteSet(R) /\ Cardinality(R) <= Cardinality(Busy) /\ Cardinality(Busy) \in Nat
      BY <1>2, ItemCount, JobCount, BusyType, LenProperties DEF TypeOK, PoolTypes
    <2>3. /\ IsFiniteSet(H)
          /\ Cardinality(H) = IF apc \in PermitPcs \cup {"adjust"} THEN 1 ELSE 0
      BY FS_EmptySet, FS_Singleton
    <2>4. apc = "adjust" => areq \in Q \cup R \/ capacity > 0
      BY <1>2 DEF SubmittedIsKnown, IsQueued, TypeOK, AcceptTypes
    <2>5. capacity + Count(apc \in PermitPcs) + Len(queue) + Cardinality(Busy) = TotalCapacity
      BY <1>2 DEF PermitsConserved, Permits
    <2> HIDE DEF H, Q, R
    <2>6. /\ IsFiniteSet(Q \cup R)
          /\ Cardinality(Q \cup R) <= Cardinality(Q) + Cardinality(R)
          /\ Cardinality(H \cup (Q \cup R)) <= Cardinality(H) + Cardinality(Q \cup R)
      BY <2>2, <2>3, SmallUnion
    <2>7. /\ Cardinality(Q) \in Nat /\ Cardinality(R) \in Nat /\ Cardinality(Q \cup R) \in Nat
          /\ Cardinality(H) \in Nat /\ Cardinality(Outstanding) \in Nat
          /\ capacity \in Nat
      BY <1>2, <2>1, <2>2, <2>3, <2>6, SmallUnion, FS_CardinalityType DEF TypeOK
    <2>8. CASE apc \in PermitPcs
      BY <2>1, <2>2, <2>3, <2>5, <2>6, <2>7, <2>8 DEF OutstandingWithinCapacity, Count
    <2>9. CASE apc = "adjust" /\ areq \in Q \cup R
      <3>1. Outstanding = Q \cup R
        BY <2>1, <2>9 DEF H
      <3>2. QED
        BY <2>2, <2>5, <2>6, <2>7, <3>1 DEF OutstandingWithinCapacity, Count
    <2>10. CASE apc = "adjust" /\ capacity > 0
      BY <2>1, <2>2, <2>3, <2>5, <2>6, <2>7, <2>10
      DEF OutstandingWithinCapacity, Count
    <2>11. CASE apc \notin PermitPcs \cup {"adjust"}
      BY <2>1, <2>2, <2>3, <2>5, <2>6, <2>7, <2>11 DEF OutstandingWithinCapacity, Count
    <2>12. QED
      BY <2>4, <2>8, <2>9, <2>10, <2>11
  <1>3. Spec => []SubmittedIsKnown
    BY <1>1, NextSubmitted, TypeCorrect, PTL DEF Spec
  <1>4. QED
    BY <1>2, <1>3, TypeCorrect, PermitsAreConserved, PTL
=============================================================================
