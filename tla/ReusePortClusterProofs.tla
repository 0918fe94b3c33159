---------------------- MODULE ReusePortClusterProofs ----------------------
(***************************************************************************)
(* Theorems about ReusePortCluster, for any processes, users and numbers   *)
(* of calls and deaths.                                                    *)
(***************************************************************************)
EXTENDS ReusePortCluster, TLAPS

(* The number of a user in a call names a call. *)
LEMMA CallType ==
    ASSUME TypeOK, NEW u \in Users, upc[u] \in {"connect", "wait"}
    PROVE  Call(u) \in Calls /\ Current(u) \in Calls \X Attempts
  <1>1. number[u] \in 1 .. MaxCalls
    BY ClusterAssumption DEF TypeOK
  <1>2. QED
    BY <1>1 DEF TypeOK, Call, Current, Calls

LEMMA InitTypeOK == Init => TypeOK
  BY ClusterAssumption
  DEF Init, TypeOK, ProcStates, UserPcs, ReqStates, Results, Attempts

LEMMA ProcTypeOK ==
    ASSUME TypeOK, StartProc \/ StartFails \/ \E p \in Procs : Listen(p) \/ Die(p)
    PROVE  TypeOK'
  <1> USE DEF TypeOK, ProcStates, ReqStates, userVars, reqVars
  <1>1. CASE StartProc
    BY <1>1 DEF StartProc
  <1>2. CASE StartFails
    BY <1>2 DEF StartFails
  <1>3. ASSUME NEW p \in Procs, Listen(p) PROVE TypeOK'
    BY <1>3 DEF Listen
  <1>4. ASSUME NEW p \in Procs, Die(p) PROVE TypeOK'
    BY <1>4 DEF Die
  <1>5. QED
    BY <1>1, <1>2, <1>3, <1>4

LEMMA ServeTypeOK ==
    ASSUME TypeOK, NEW x \in Calls \X Attempts,
           TurnAway(x) \/ Run(x) \/ Reply(x) \/ SendRest(x)
    PROVE  TypeOK'
  BY DEF TypeOK, ReqStates, TurnAway, Run, Reply, SendRest, spawnVars, userVars

LEMMA UserTypeOK ==
    ASSUME TypeOK, NEW u \in Users, Enter(u) \/ BeginCall(u) \/ InCall(u) \/ Exit(u)
    PROVE  TypeOK'
  <1> USE DEF TypeOK, UserPcs, Results, ReqStates, Attempts, spawnVars, reqVars
  <1>1. CASE Enter(u)
    BY <1>1 DEF Enter
  <1>2. CASE BeginCall(u)
    BY <1>2, ClusterAssumption DEF BeginCall
  <1>3. CASE Connect(u)
    <2>1. Current(u) \in Calls \X Attempts
      BY <1>3, CallType DEF Connect
    <2>2. QED
      BY <1>3, <2>1 DEF Connect, Listening
  <1>4. ASSUME NEW how \in Results, EndCall(u, how), UNCHANGED spawnVars, UNCHANGED reqVars,
               upc[u] \in {"connect", "wait"}
        PROVE  TypeOK'
    BY <1>4, CallType DEF EndCall
  <1>5. CASE Refused(u) \/ Answered(u) \/ CutOff(u) \/ Timeout(u)
    BY <1>4, <1>5 DEF Refused, Answered, CutOff, Timeout, Pending
  <1>6. CASE Broken(u)
    <2>1. CASE AnotherAttempt(u) /\ TryAgain(u)
      BY <1>6, <2>1 DEF Broken, AnotherAttempt, TryAgain
    <2>2. CASE EndCall(u, "reset")
      BY <1>4, <1>6, <2>2 DEF Broken
    <2>3. QED
      BY <1>6, <2>1, <2>2 DEF Broken
  <1>7. CASE Exit(u)
    BY <1>7 DEF Exit
  <1>8. QED
    BY <1>1, <1>2, <1>3, <1>5, <1>6, <1>7 DEF InCall

(* Every variable keeps its type; a call is attempted at most twice.       *)
THEOREM TypeCorrect == Spec => []TypeOK
  <1>1. TypeOK /\ UNCHANGED vars => TypeOK'
    BY DEF TypeOK, vars, spawnVars, userVars, reqVars
  <1>2. TypeOK /\ [Next]_vars => TypeOK'
    BY <1>1, ProcTypeOK, ServeTypeOK, UserTypeOK DEF Next
  <1>3. QED
    BY <1>2, InitTypeOK, PTL DEF Spec

-----------------------------------------------------------------------------
(* Second attempts.                                                        *)

(* Attempts are made in order: each once, the second when the first broke. *)
Order ==
    /\ \A u \in Users : upc[u] = "connect" => req[Current(u)] = "none"
    /\ \A u \in Users, n \in 1 .. MaxCalls :
          n > number[u] => \A i \in Attempts : req[<<<<u, n>>, i>>] = "none"
    /\ \A u \in Users : upc[u] \in {"connect", "wait"} =>
          /\ attempt[u] = 0 => req[<<Call(u), 1>>] = "none"
          /\ attempt[u] = 1 => req[<<Call(u), 0>>] = "lost"
    /\ \A c \in Calls : req[<<c, 1>>] # "none" => req[<<c, 0>>] = "lost"

(* What ran did so before its connection broke. *)
RanBefore == \A x \in ran : req[x] \in {"ran", "partial", "answered", "lost", "cut"}

(* A request is at a process, which serves it while it listens; what ran   *)
(* and was lost died with its process, and was sent again to another.      *)
Placed ==
    /\ \A x \in Calls \X Attempts :
          /\ req[x] # "none" => at[x] \in Procs
          /\ req[x] \in {"queued", "ran", "partial"} => proc[at[x]] = "listening"
    /\ \A x \in ran : req[x] = "lost" => proc[at[x]] = "dead"
    /\ \A c \in Calls :
          <<c, 0>> \in ran /\ req[<<c, 1>>] # "none" => at[<<c, 1>>] # at[<<c, 0>>]

(* Unless a server closes a connection, it takes a death to break an       *)
(* attempt, and two to break a call.                                       *)
Breaks ==
    /\ deaths = 0 /\ dropped = {} => \A x \in Calls \X Attempts : req[x] # "lost"
    /\ deaths <= 1 /\ dropped = {} =>
          \A c \in Calls : req[<<c, 1>>] # "lost" /\ result[c] # "reset"

LEMMA AttemptType == \A c \in Calls, i \in {0, 1} : <<c, i>> \in Calls \X Attempts
  BY DEF Attempts

(* A step of a process or of the network keeps the order if it neither     *)
(* makes nor mends an attempt.                                             *)
LEMMA OrderKept ==
    ASSUME TypeOK, Order, UNCHANGED userVars,
           \A x \in Calls \X Attempts :
              /\ req[x] = "none" <=> req'[x] = "none"
              /\ req[x] = "lost" => req'[x] = "lost"
    PROVE  Order'
  <1>1. /\ \A u \in Users : Call(u)' = Call(u) /\ Current(u)' = Current(u)
        /\ UNCHANGED <<upc, number, attempt>>
    BY DEF userVars, Call, Current
  <1>2. \A u \in Users : upc'[u] = "connect" => req'[Current(u)'] = "none"
    BY <1>1, CallType DEF Order
  <1>3. \A u \in Users, n \in 1 .. MaxCalls :
          n > number'[u] => \A i \in Attempts : req'[<<<<u, n>>, i>>] = "none"
    BY <1>1 DEF Order, Calls
  <1>4. \A u \in Users : upc'[u] \in {"connect", "wait"} =>
          /\ attempt'[u] = 0 => req'[<<Call(u)', 1>>] = "none"
          /\ attempt'[u] = 1 => req'[<<Call(u)', 0>>] = "lost"
    BY <1>1, CallType, AttemptType DEF Order
  <1>5. \A c \in Calls : req'[<<c, 1>>] # "none" => req'[<<c, 0>>] = "lost"
    BY AttemptType DEF Order
  <1>6. QED
    BY <1>2, <1>3, <1>4, <1>5 DEF Order

(* So does a step in which a user is through with its call, or not in one. *)
LEMMA OrderOutside ==
    ASSUME TypeOK, Order, NEW u \in Users, UNCHANGED <<number, attempt, req>>,
           NEW where \in {"inside", "left"}, upc' = [upc EXCEPT ![u] = where]
    PROVE  Order'
  <1>1. \A v \in Users : upc'[v] \in {"connect", "wait"} => upc'[v] = upc[v]
    BY DEF TypeOK
  <1>2. \A v \in Users : Call(v)' = Call(v) /\ Current(v)' = Current(v)
    BY DEF Call, Current
  <1>3. QED
    BY <1>1, <1>2 DEF Order

LEMMA OrderBegin == ASSUME TypeOK, Order, NEW u \in Users, BeginCall(u) PROVE Order'
  <1> DEFINE n == number[u] + 1
  <1>1. /\ n \in 1 .. MaxCalls /\ n > number[u]
        /\ number' = [number EXCEPT ![u] = n] /\ attempt' = [attempt EXCEPT ![u] = 0]
        /\ upc' = [upc EXCEPT ![u] = "connect"] /\ UNCHANGED req
    BY ClusterAssumption DEF BeginCall, TypeOK, reqVars
  <1>2. \A i \in Attempts : req[<<<<u, n>>, i>>] = "none"
    BY <1>1 DEF Order
  <1>3. Call(u)' = <<u, n>> /\ Current(u)' = <<<<u, n>>, 0>>
    BY <1>1 DEF TypeOK, Call, Current
  <1>4. \A v \in Users \ {u} :
          /\ Call(v)' = Call(v) /\ Current(v)' = Current(v)
          /\ upc'[v] = upc[v] /\ attempt'[v] = attempt[v] /\ number'[v] = number[v]
    BY <1>1 DEF TypeOK, Call, Current
  <1>5. \A v \in Users : upc'[v] = "connect" => req'[Current(v)'] = "none"
    BY <1>1, <1>2, <1>3, <1>4 DEF Order, Attempts
  <1>6. \A v \in Users, k \in 1 .. MaxCalls :
          k > number'[v] => \A i \in Attempts : req'[<<<<v, k>>, i>>] = "none"
    <2>1. \A v \in Users, k \in 1 .. MaxCalls : k > number'[v] => k > number[v]
      BY <1>1 DEF TypeOK
    <2>2. QED
      BY <1>1, <2>1 DEF Order
  <1>7. \A v \in Users : upc'[v] \in {"connect", "wait"} =>
          /\ attempt'[v] = 0 => req'[<<Call(v)', 1>>] = "none"
          /\ attempt'[v] = 1 => req'[<<Call(v)', 0>>] = "lost"
    <2>1. attempt'[u] = 0
      BY <1>1 DEF TypeOK
    <2>2. QED
      BY <1>1, <1>2, <1>3, <1>4, <2>1 DEF Order, Attempts
  <1>8. QED
    BY <1>1, <1>5, <1>6, <1>7 DEF Order

LEMMA OrderConnect == ASSUME TypeOK, Order, NEW u \in Users, Connect(u) PROVE Order'
  <1>1. /\ Current(u) \in Calls \X Attempts /\ Call(u) \in Calls
        /\ req[Current(u)] = "none" /\ upc[u] = "connect"
    BY CallType DEF Connect, Order
  <1>2. /\ upc' = [upc EXCEPT ![u] = "wait"]
        /\ req' = [req EXCEPT ![Current(u)] = "queued"]
        /\ UNCHANGED <<number, attempt>>
    BY DEF Connect
  <1>3. /\ \A x \in Calls \X Attempts : x # Current(u) => req'[x] = req[x]
        /\ \A v \in Users : Call(v)' = Call(v) /\ Current(v)' = Current(v)
        /\ \A v \in Users : upc'[v] \in {"connect", "wait"} => upc[v] \in {"connect", "wait"}
        /\ \A v \in Users : upc'[v] = "connect" => upc[v] = "connect" /\ v # u
    BY <1>1, <1>2 DEF TypeOK, Call, Current
  <1>4. Current(u) = <<Call(u), attempt[u]>> /\ attempt[u] \in {0, 1}
    BY DEF Current, TypeOK, Attempts
  <1>5. \A v \in Users : upc'[v] = "connect" => req'[Current(v)'] = "none"
    <2>1. \A v \in Users \ {u} : Current(v) # Current(u)
      BY DEF Current, Call
    <2>2. QED
      BY <1>3, <2>1, CallType DEF Order
  <1>6. \A v \in Users, n \in 1 .. MaxCalls :
          n > number'[v] => \A i \in Attempts : req'[<<<<v, n>>, i>>] = "none"
    <2>1. \A v \in Users, n \in 1 .. MaxCalls, i \in Attempts :
            n > number[v] => <<<<v, n>>, i>> # Current(u)
      BY DEF Current, Call, TypeOK
    <2>2. QED
      BY <1>2, <1>3, <2>1 DEF Order, Calls
  <1>7. \A c \in Calls : <<c, 1>> # Current(u) => req'[<<c, 1>>] = req[<<c, 1>>]
    BY <1>3, AttemptType
  <1>8. \A c \in Calls : req[<<c, 0>>] = "lost" => req'[<<c, 0>>] = "lost"
    BY <1>1, <1>3, AttemptType
  <1>9. \A v \in Users : upc'[v] \in {"connect", "wait"} =>
          /\ attempt'[v] = 0 => req'[<<Call(v)', 1>>] = "none"
          /\ attempt'[v] = 1 => req'[<<Call(v)', 0>>] = "lost"
    <2> SUFFICES ASSUME NEW v \in Users, upc[v] \in {"connect", "wait"}
                 PROVE  /\ attempt[v] = 0 => req'[<<Call(v), 1>>] = "none"
                        /\ attempt[v] = 1 => req'[<<Call(v), 0>>] = "lost"
      BY <1>2, <1>3
    <2>1. Call(v) \in Calls
      BY CallType
    <2>2. attempt[v] = 0 => <<Call(v), 1>> # Current(u)
      BY <1>4 DEF Call
    <2>3. QED
      BY <1>7, <1>8, <2>1, <2>2 DEF Order
  <1>10. \A c \in Calls : req'[<<c, 1>>] # "none" => req'[<<c, 0>>] = "lost"
    <2> SUFFICES ASSUME NEW c \in Calls, req'[<<c, 1>>] # "none"
                 PROVE  req'[<<c, 0>>] = "lost"
      OBVIOUS
    <2>1. CASE <<c, 1>> = Current(u)
      <3>1. attempt[u] = 1 /\ c = Call(u)
        BY <1>4, <2>1
      <3>2. QED
        BY <1>1, <1>8, <3>1 DEF Order
    <2>2. CASE <<c, 1>> # Current(u)
      BY <1>7, <1>8, <2>2 DEF Order
    <2>3. QED
      BY <2>1, <2>2
  <1>11. QED
    BY <1>5, <1>6, <1>9, <1>10 DEF Order

LEMMA OrderAgain ==
    ASSUME TypeOK, Order, NEW u \in Users, Broken(u), AnotherAttempt(u), TryAgain(u)
    PROVE  Order'
  <1>1. /\ attempt[u] = 0 /\ upc[u] = "wait" /\ UNCHANGED <<number, req>>
        /\ attempt' = [attempt EXCEPT ![u] = 1]
        /\ upc' = [upc EXCEPT ![u] = "connect"]
    BY DEF Broken, AnotherAttempt, TryAgain, TypeOK, Attempts, reqVars
  <1>2. req[<<Call(u), 0>>] = "lost" /\ req[<<Call(u), 1>>] = "none"
    BY <1>1 DEF Broken, Current, Order
  <1>3. Call(u)' = Call(u) /\ Current(u)' = <<Call(u), 1>> /\ attempt'[u] = 1
    BY <1>1 DEF TypeOK, Call, Current
  <1>4. \A v \in Users \ {u} :
          /\ Call(v)' = Call(v) /\ Current(v)' = Current(v)
          /\ upc'[v] = upc[v] /\ attempt'[v] = attempt[v]
    BY <1>1 DEF TypeOK, Call, Current
  <1>5. \A v \in Users : upc'[v] = "connect" => req'[Current(v)'] = "none"
    BY <1>1, <1>2, <1>3, <1>4 DEF Order
  <1>6. \A v \in Users : upc'[v] \in {"connect", "wait"} =>
          /\ attempt'[v] = 0 => req'[<<Call(v)', 1>>] = "none"
          /\ attempt'[v] = 1 => req'[<<Call(v)', 0>>] = "lost"
    BY <1>1, <1>2, <1>3, <1>4 DEF Order
  <1>7. QED
    BY <1>1, <1>5, <1>6 DEF Order

LEMMA OrderNext == TypeOK /\ Order /\ [Next]_vars => Order'
  <1> SUFFICES ASSUME TypeOK, Order, [Next]_vars PROVE Order'
    OBVIOUS
  <1>1. CASE StartProc \/ StartFails \/ \E p \in Procs : Listen(p)
    BY <1>1, OrderKept DEF StartProc, StartFails, Listen, reqVars
  <1>2. ASSUME NEW p \in Procs, Die(p) PROVE Order'
    <2>1. \A x \in Calls \X Attempts :
            /\ req[x] = "none" <=> req'[x] = "none"
            /\ req[x] = "lost" => req'[x] = "lost"
      BY <1>2 DEF Die
    <2>2. QED
      BY <1>2, <2>1, OrderKept DEF Die
  <1>3. ASSUME NEW x \in Calls \X Attempts,
               TurnAway(x) \/ Run(x) \/ Reply(x) \/ SendRest(x)
        PROVE  Order'
    <2>1. \A y \in Calls \X Attempts :
            /\ req[y] = "none" <=> req'[y] = "none"
            /\ req[y] = "lost" => req'[y] = "lost"
      BY <1>3 DEF TurnAway, Run, Reply, SendRest, TypeOK
    <2>2. QED
      BY <1>3, <2>1, OrderKept DEF TurnAway, Run, Reply, SendRest
  <1>4. ASSUME NEW u \in Users, Enter(u) \/ Exit(u) PROVE Order'
    BY <1>4, OrderOutside DEF Enter, Exit, reqVars
  <1>5. ASSUME NEW u \in Users, BeginCall(u) PROVE Order'
    BY <1>5, OrderBegin
  <1>6. ASSUME NEW u \in Users, NEW how, EndCall(u, how), UNCHANGED reqVars PROVE Order'
    BY <1>6, OrderOutside DEF EndCall, reqVars
  <1>7. ASSUME NEW u \in Users, InCall(u) PROVE Order'
    <2>1. CASE Connect(u)
      BY <2>1, OrderConnect
    <2>2. CASE Refused(u) \/ Answered(u) \/ CutOff(u) \/ Timeout(u)
      BY <1>6, <2>2 DEF Refused, Answered, CutOff, Timeout
    <2>3. CASE Broken(u)
      BY <1>6, <2>3, OrderAgain DEF Broken
    <2>4. QED
      BY <1>7, <2>1, <2>2, <2>3 DEF InCall
  <1>8. CASE UNCHANGED vars
    BY <1>8, OrderKept DEF vars, reqVars
  <1>9. QED
    BY <1>1, <1>2, <1>3, <1>4, <1>5, <1>7, <1>8 DEF Next

LEMMA InOrder == Spec => []Order
  <1>1. Init => Order
    BY DEF Init, Order, Attempts, Calls
  <1>2. QED
    BY <1>1, OrderNext, TypeCorrect, PTL DEF Spec

(* A step that runs nothing and breaks nothing new keeps what ran. *)
LEMMA RanKept ==
    ASSUME TypeOK, RanBefore, UNCHANGED ran,
           \A x \in ran : req'[x] = req[x]
    PROVE  RanBefore'
  BY DEF RanBefore

LEMMA RanNext == TypeOK /\ Order /\ RanBefore /\ [Next]_vars => RanBefore'
  <1> SUFFICES ASSUME TypeOK, Order, RanBefore, [Next]_vars PROVE RanBefore'
    OBVIOUS
  <1>1. CASE StartProc \/ StartFails \/ \E p \in Procs : Listen(p)
    BY <1>1, RanKept DEF StartProc, StartFails, Listen, reqVars
  <1>2. ASSUME NEW p \in Procs, Die(p) PROVE RanBefore'
    <2>1. UNCHANGED ran
      BY <1>2 DEF Die
    <2>2. \A x \in Calls \X Attempts : req'[x] = req[x] \/ req'[x] \in {"lost", "cut"}
      BY <1>2 DEF Die
    <2>3. QED
      BY <2>1, <2>2 DEF RanBefore, TypeOK
  <1>3. ASSUME NEW x \in Calls \X Attempts, TurnAway(x) PROVE RanBefore'
    <2>1. x \notin ran
      BY <1>3 DEF TurnAway, RanBefore
    <2>2. \A y \in ran : req'[y] = req[y]
      BY <1>3, <2>1 DEF TurnAway, TypeOK
    <2>3. QED
      BY <1>3, <2>2, RanKept DEF TurnAway, spawnVars
  <1>4. ASSUME NEW x \in Calls \X Attempts, Run(x) \/ Reply(x) \/ SendRest(x)
        PROVE  RanBefore'
    <2>1. /\ ran' \subseteq ran \cup {x}
          /\ req'[x] \in {"ran", "partial", "answered"}
      BY <1>4 DEF Run, Reply, SendRest, TypeOK
    <2>2. \A y \in ran : y # x => req'[y] = req[y]
      BY <1>4 DEF Run, Reply, SendRest, TypeOK
    <2>3. QED
      BY <2>1, <2>2 DEF RanBefore
  <1>5. ASSUME NEW u \in Users, InCall(u) \/ Enter(u) \/ BeginCall(u) \/ Exit(u)
        PROVE  RanBefore'
    <2>1. CASE Connect(u)
      <3>1. req[Current(u)] = "none" /\ UNCHANGED ran
        BY <2>1 DEF Connect, Order
      <3>2. Current(u) \notin ran
        BY <3>1 DEF RanBefore
      <3>3. \A y \in ran : req'[y] = req[y]
        BY <2>1, <3>2 DEF Connect, TypeOK
      <3>4. QED
        BY <3>1, <3>3, RanKept
    <2>2. CASE ~Connect(u)
      <3>1. UNCHANGED <<req, ran>>
        BY <1>5, <2>2 DEF InCall, Refused, Answered, CutOff, Timeout, Broken, Enter,
                          BeginCall, Exit, reqVars
      <3>2. QED
        BY <3>1, RanKept
    <2>3. QED
      BY <2>1, <2>2
  <1>6. CASE UNCHANGED vars
    BY <1>6, RanKept DEF vars, reqVars
  <1>7. QED
    BY <1>1, <1>2, <1>3, <1>4, <1>5, <1>6 DEF Next

LEMMA WhatRan == Spec => []RanBefore
  <1>1. Init => RanBefore
    BY DEF Init, RanBefore
  <1>2. QED
    BY <1>1, RanNext, TypeCorrect, InOrder, PTL DEF Spec

(* A step that sends no request and runs none, and breaks what it breaks   *)
(* by the death of its process, keeps the requests where they are.         *)
LEMMA PlacedKept ==
    ASSUME Placed, UNCHANGED <<at, ran>>,
           \A x \in Calls \X Attempts :
              /\ req'[x] # "none" => req[x] # "none"
              /\ req'[x] \in {"queued", "ran", "partial"} =>
                    req[x] \in {"queued", "ran", "partial"} /\ proc'[at[x]] = "listening",
           \A x \in ran :
              req'[x] = "lost" => req[x] = "lost" \/ proc'[at[x]] = "dead",
           \A p \in Procs : proc[p] = "dead" => proc'[p] = "dead",
           ran \subseteq Calls \X Attempts
    PROVE  Placed'
  <1>1. \A x \in ran : req'[x] = "lost" => proc'[at[x]] = "dead"
    <2> SUFFICES ASSUME NEW x \in ran, req'[x] = "lost", req[x] = "lost"
                 PROVE  proc'[at[x]] = "dead"
      OBVIOUS
    <2>1. at[x] \in Procs /\ proc[at[x]] = "dead"
      BY DEF Placed
    <2>2. QED
      BY <2>1
  <1>2. QED
    BY <1>1, AttemptType DEF Placed

LEMMA PlacedProc ==
    ASSUME TypeOK, Placed, StartProc \/ StartFails \/ \E p \in Procs : Listen(p) \/ Die(p)
    PROVE  Placed'
  <1>1. ASSUME UNCHANGED reqVars,
               \A q \in Procs : proc[q] \in {"listening", "dead"} => proc'[q] = proc[q]
        PROVE  Placed'
    BY <1>1, PlacedKept DEF TypeOK, Placed, reqVars
  <1>2. CASE StartProc
    BY <1>1, <1>2 DEF StartProc, TypeOK
  <1>3. CASE StartFails
    BY <1>1, <1>3 DEF StartFails
  <1>4. ASSUME NEW p \in Procs, Listen(p) PROVE Placed'
    BY <1>1, <1>4 DEF Listen, TypeOK
  <1>5. ASSUME NEW p \in Procs, Die(p) PROVE Placed'
    <2>1. /\ proc' = [proc EXCEPT ![p] = "dead"] /\ UNCHANGED <<at, ran>>
          /\ \A x \in Calls \X Attempts :
                /\ req'[x] = req[x] \/ (at[x] = p /\ req'[x] \in {"lost", "cut"} /\ req[x] # "none")
                /\ at[x] = p => req'[x] \notin {"queued", "ran", "partial"}
      BY <1>5 DEF Die
    <2>2. \A q \in Procs : proc'[q] = IF q = p THEN "dead" ELSE proc[q]
      BY <2>1 DEF TypeOK
    <2>3. QED
      BY <2>1, <2>2, PlacedKept DEF TypeOK, Placed
  <1>6. QED
    BY <1>2, <1>3, <1>4, <1>5

LEMMA PlacedServe ==
    ASSUME TypeOK, Order, RanBefore, Placed, NEW x \in Calls \X Attempts,
           TurnAway(x) \/ Run(x) \/ Reply(x) \/ SendRest(x)
    PROVE  Placed'
  <1>1. /\ UNCHANGED <<at, proc>> /\ \A y \in Calls \X Attempts : y # x => req'[y] = req[y]
        /\ req[x] \in {"queued", "ran", "partial"} /\ req'[x] # "none"
    BY DEF TurnAway, Run, Reply, SendRest, TypeOK, spawnVars
  <1>2. CASE ~Run(x)
    <2>1. UNCHANGED ran /\ (req'[x] = "lost" => x \notin ran)
      BY <1>2 DEF TurnAway, Reply, SendRest, TypeOK, RanBefore
    <2>2. QED
      BY <1>1, <2>1, PlacedKept DEF TypeOK, Placed
  <1>3. CASE Run(x)
    <2>1. ran' = ran \cup {x} /\ req'[x] = "ran" /\ req[x] = "queued"
      BY <1>3 DEF Run, TypeOK
    <2>2. ASSUME NEW c \in Calls, <<c, 0>> \in ran', req'[<<c, 1>>] # "none"
          PROVE  at'[<<c, 1>>] # at'[<<c, 0>>]
      <3>1. req[<<c, 1>>] # "none"
        BY <1>1, <2>1, <2>2, AttemptType
      <3>2. <<c, 0>> # x
        BY <2>1, <3>1 DEF Order
      <3>3. QED
        BY <1>1, <2>1, <2>2, <3>1, <3>2 DEF Placed
    <2>3. QED
      BY <1>1, <2>1, <2>2 DEF Placed, TypeOK
  <1>4. QED
    BY <1>2, <1>3

(* The kernel hands a new connection to a process that listens: to one     *)
(* that has not died.                                                      *)
LEMMA PlacedConnect ==
    ASSUME TypeOK, Order, RanBefore, Placed, NEW u \in Users, Connect(u)
    PROVE  Placed'
  <1> DEFINE y == Current(u)
  <1>1. /\ y \in Calls \X Attempts /\ req[y] = "none" /\ upc[u] = "connect"
        /\ Call(u) \in Calls /\ UNCHANGED <<proc, ran>>
    BY CallType DEF Connect, Order, spawnVars
  <1>2. PICK p \in Listening : /\ at' = [at EXCEPT ![y] = p]
                               /\ req' = [req EXCEPT ![y] = "queued"]
    BY DEF Connect
  <1>3. /\ \A x \in Calls \X Attempts : x # y => at'[x] = at[x] /\ req'[x] = req[x]
        /\ at'[y] = p /\ req'[y] = "queued" /\ p \in Procs /\ proc[p] = "listening"
        /\ y \notin ran
    BY <1>1, <1>2 DEF TypeOK, Listening, RanBefore
  <1>4. ASSUME NEW c \in Calls, <<c, 0>> \in ran, req'[<<c, 1>>] # "none"
        PROVE  at'[<<c, 1>>] # at'[<<c, 0>>]
    <2>1. at'[<<c, 0>>] = at[<<c, 0>>]
      BY <1>3, <1>4, AttemptType
    <2>2. CASE <<c, 1>> = y
      <3>1. c = Call(u) /\ attempt[u] = 1
        BY <2>2 DEF Current
      <3>2. req[<<c, 0>>] = "lost"
        BY <1>1, <3>1 DEF Order
      <3>3. proc[at[<<c, 0>>]] = "dead"
        BY <1>4, <3>2 DEF Placed
      <3>4. QED
        BY <1>3, <2>1, <2>2, <3>3
    <2>3. CASE <<c, 1>> # y
      BY <1>3, <1>4, <2>1, <2>3, AttemptType DEF Placed
    <2>4. QED
      BY <2>2, <2>3
  <1>5. \A x \in Calls \X Attempts :
          /\ req'[x] # "none" => at'[x] \in Procs
          /\ req'[x] \in {"queued", "ran", "partial"} => proc'[at'[x]] = "listening"
    BY <1>1, <1>3 DEF Placed
  <1>6. \A x \in ran' : req'[x] = "lost" => proc'[at'[x]] = "dead"
    BY <1>1, <1>3 DEF Placed, TypeOK
  <1>7. QED
    BY <1>1, <1>4, <1>5, <1>6 DEF Placed

LEMMA PlacedNext == TypeOK /\ Order /\ RanBefore /\ Placed /\ [Next]_vars => Placed'
  <1> SUFFICES ASSUME TypeOK, Order, RanBefore, Placed, [Next]_vars PROVE Placed'
    OBVIOUS
  <1>1. ASSUME UNCHANGED <<proc, req, at, ran>> PROVE Placed'
    BY <1>1, PlacedKept DEF TypeOK, Placed
  <1>2. ASSUME NEW u \in Users, Enter(u) \/ BeginCall(u) \/ InCall(u) \/ Exit(u), ~Connect(u)
        PROVE  Placed'
    BY <1>1, <1>2 DEF InCall, Refused, Answered, CutOff, Timeout, Broken, Enter,
                      BeginCall, Exit, spawnVars, reqVars
  <1>3. CASE UNCHANGED vars
    BY <1>1, <1>3 DEF vars, spawnVars, reqVars
  <1>4. QED
    BY <1>2, <1>3, PlacedProc, PlacedServe, PlacedConnect DEF Next

LEMMA RequestsPlaced == Spec => []Placed
  <1>1. Init => Placed
    BY AttemptType DEF Init, Placed
  <1>2. QED
    BY <1>1, PlacedNext, TypeCorrect, InOrder, WhatRan, PTL DEF Spec

(* A call has its method run twice only when the process that ran it first *)
(* has died, and then by another one.                                      *)
THEOREM RunTwiceOnlyAfterDeath == Spec => []TwiceOnlyAfterDeath
  <1>1. TypeOK /\ Order /\ RanBefore /\ Placed => TwiceOnlyAfterDeath
    <2> SUFFICES ASSUME TypeOK, Order, RanBefore, Placed,
                        NEW c \in Calls, Runs(c) = Attempts
                 PROVE  proc[at[<<c, 0>>]] = "dead" /\ at[<<c, 1>>] # at[<<c, 0>>]
      BY DEF TwiceOnlyAfterDeath
    <2>1. 0 \in Runs(c) /\ 1 \in Runs(c)
      BY DEF Attempts
    <2>2. <<c, 0>> \in ran /\ <<c, 1>> \in ran
      BY <2>1 DEF Runs
    <2>3. req[<<c, 1>>] # "none" /\ req[<<c, 0>>] = "lost"
      BY <2>2 DEF Order, RanBefore
    <2>4. QED
      BY <2>2, <2>3 DEF Placed
  <1>2. QED
    BY <1>1, WhatRan, InOrder, TypeCorrect, RequestsPlaced, PTL

-----------------------------------------------------------------------------
(* Broken calls.                                                           *)

(* A step that breaks nothing keeps Breaks. *)
LEMMA BreaksKept ==
    ASSUME TypeOK, Breaks, UNCHANGED <<deaths, dropped>>,
           \A x \in Calls \X Attempts : req'[x] = "lost" => req[x] = "lost",
           \A c \in Calls : result'[c] = "reset" => result[c] = "reset"
    PROVE  Breaks'
  BY AttemptType DEF Breaks

LEMMA BreaksNext == TypeOK /\ Order /\ Breaks /\ [Next]_vars => Breaks'
  <1> SUFFICES ASSUME TypeOK, Order, Breaks, [Next]_vars PROVE Breaks'
    OBVIOUS
  <1>1. CASE StartProc \/ StartFails \/ \E p \in Procs : Listen(p)
    BY <1>1, BreaksKept DEF StartProc, StartFails, Listen, userVars, reqVars
  <1>2. ASSUME NEW p \in Procs, Die(p) PROVE Breaks'
    <2>1. deaths' = deaths + 1 /\ deaths \in Nat /\ UNCHANGED <<result, dropped>>
      BY <1>2 DEF Die, TypeOK, userVars
    <2>2. CASE deaths = 0 /\ dropped = {}
      <3>1. \A c \in Calls : req[<<c, 1>>] = "none"
        BY <2>2, AttemptType DEF Order, Breaks
      <3>2. \A x \in Calls \X Attempts : req[x] = "none" => req'[x] = "none"
        BY <1>2 DEF Die
      <3>3. \A c \in Calls : req'[<<c, 1>>] # "lost"
        BY <3>1, <3>2, AttemptType
      <3>4. \A c \in Calls : result'[c] # "reset"
        <4>1. deaths <= 1
          BY <2>2
        <4>2. QED
          BY <2>1, <2>2, <4>1 DEF Breaks
      <3>5. QED
        BY <2>1, <2>2, <3>3, <3>4 DEF Breaks
    <2>3. CASE ~(deaths = 0 /\ dropped = {})
      BY <2>1, <2>3 DEF Breaks
    <2>4. QED
      BY <2>2, <2>3
  <1>3. ASSUME NEW x \in Calls \X Attempts,
               TurnAway(x) \/ Run(x) \/ Reply(x) \/ SendRest(x)
        PROVE  Breaks'
    <2>1. UNCHANGED <<deaths, result>>
      BY <1>3 DEF TurnAway, Run, Reply, SendRest, spawnVars, userVars
    <2>2. CASE dropped' = {}
      <3>1. /\ dropped' = dropped
            /\ \A y \in Calls \X Attempts : req'[y] = "lost" => req[y] = "lost"
        BY <1>3, <2>2 DEF TurnAway, Run, Reply, SendRest, TypeOK
      <3>2. QED
        BY <2>1, <3>1, BreaksKept
    <2>3. CASE dropped' # {}
      BY <2>3 DEF Breaks
    <2>4. QED
      BY <2>2, <2>3
  <1>4. ASSUME NEW u \in Users, Enter(u) \/ BeginCall(u) \/ Exit(u) PROVE Breaks'
    BY <1>4, BreaksKept DEF Enter, BeginCall, Exit, spawnVars, reqVars
  <1>5. ASSUME NEW u \in Users, NEW how \in Results \ {"reset"}, EndCall(u, how),
               UNCHANGED spawnVars, UNCHANGED reqVars
        PROVE  Breaks'
    BY <1>5, BreaksKept DEF TypeOK, EndCall, spawnVars, reqVars
  <1>6. ASSUME NEW u \in Users, InCall(u) PROVE Breaks'
    <2>1. CASE Connect(u)
      <3>1. UNCHANGED <<deaths, dropped, result>>
        BY <2>1 DEF Connect, spawnVars
      <3>2. \A x \in Calls \X Attempts : req'[x] = "lost" => req[x] = "lost"
        BY <2>1 DEF Connect, TypeOK
      <3>3. QED
        BY <3>1, <3>2, BreaksKept
    <2>2. CASE Refused(u)
      BY <1>5, <2>2 DEF Refused, Results
    <2>3. CASE Answered(u)
      BY <1>5, <2>3 DEF Answered, Results
    <2>4. CASE CutOff(u) \/ Timeout(u)
      BY <1>5, <2>4 DEF CutOff, Timeout, Results
    <2>5. CASE Broken(u)
      <3>1. /\ Current(u) \in Calls \X Attempts /\ Call(u) \in Calls
            /\ req[Current(u)] = "lost"
            /\ UNCHANGED <<deaths, dropped, req>>
        BY <2>5, CallType DEF Broken, spawnVars, reqVars
      <3>2. CASE AnotherAttempt(u) /\ TryAgain(u)
        BY <3>1, <3>2, BreaksKept DEF TryAgain
      <3>3. CASE ~AnotherAttempt(u)
        <4>1. Current(u) = <<Call(u), 1>>
          BY <3>3 DEF AnotherAttempt, TypeOK, Attempts, Current
        <4>2. ~(deaths <= 1 /\ dropped = {})
          BY <3>1, <4>1 DEF Breaks
        <4>3. deaths # 0 \/ dropped # {}
          BY <3>1 DEF Breaks
        <4>4. QED
          BY <3>1, <4>2, <4>3 DEF Breaks
      <3>4. QED
        BY <2>5, <3>2, <3>3 DEF Broken
    <2>6. QED
      BY <1>6, <2>1, <2>2, <2>3, <2>4, <2>5 DEF InCall
  <1>7. CASE UNCHANGED vars
    BY <1>7, BreaksKept DEF vars, spawnVars, userVars, reqVars
  <1>8. QED
    BY <1>1, <1>2, <1>3, <1>4, <1>6, <1>7 DEF Next

(* Without a server that closes connections, one death breaks no call. *)
THEOREM FirstDeathIsHidden == Spec => []OneDeathIsHidden
  <1>1. Init => Breaks
    BY AttemptType DEF Init, Breaks
  <1>2. Breaks => OneDeathIsHidden
    BY DEF Breaks, OneDeathIsHidden
  <1>3. QED
    BY <1>1, <1>2, BreaksNext, TypeCorrect, InOrder, PTL DEF Spec

-----------------------------------------------------------------------------
(* Refinement.                                                             *)

(* A call ends while its user is in it, and a request that is still queued *)
(* then was one whose user had timed out.                                  *)
Settled ==
    /\ \A u \in Users, n \in 1 .. MaxCalls : n > number[u] => result[<<u, n>>] = "none"
    /\ \A u \in Users : upc[u] \in {"connect", "wait"} => result[Call(u)] = "none"
    /\ \A c \in Calls, i \in Attempts :
          req[<<c, i>>] = "queued" => result[c] \in {"none", "timeout"}

(* A step that begins, ends and sends no call. *)
LEMMA SettledKept ==
    ASSUME Settled, UNCHANGED <<number, result>>,
           \A c \in Calls, i \in Attempts :
              req'[<<c, i>>] = "queued" => req[<<c, i>>] = "queued",
           \A u \in Users : upc'[u] \in {"connect", "wait"} => upc[u] \in {"connect", "wait"}
    PROVE  Settled'
  BY DEF Settled, Call

LEMMA SettledBegin ==
    ASSUME TypeOK, Settled, NEW u \in Users, BeginCall(u)
    PROVE  Settled'
  <1> DEFINE n == number[u] + 1
  <1>1. /\ n \in 1 .. MaxCalls /\ n > number[u]
        /\ number' = [number EXCEPT ![u] = n] /\ upc' = [upc EXCEPT ![u] = "connect"]
        /\ UNCHANGED <<result, req>>
    BY ClusterAssumption DEF BeginCall, TypeOK, reqVars
  <1>2. Call(u)' = <<u, n>> /\ result[<<u, n>>] = "none"
    BY <1>1 DEF Settled, Call, TypeOK
  <1>3. \A v \in Users \ {u} : Call(v)' = Call(v) /\ upc'[v] = upc[v]
    BY <1>1 DEF Call, TypeOK
  <1>4. \A v \in Users, k \in 1 .. MaxCalls : k > number'[v] => k > number[v]
    BY <1>1 DEF TypeOK
  <1>5. QED
    BY <1>1, <1>2, <1>3, <1>4 DEF Settled

LEMMA SettledConnect ==
    ASSUME TypeOK, Settled, NEW u \in Users, Connect(u)
    PROVE  Settled'
  <1>1. /\ upc' = [upc EXCEPT ![u] = "wait"] /\ upc[u] = "connect"
        /\ req' = [req EXCEPT ![Current(u)] = "queued"]
        /\ UNCHANGED <<number, result>>
    BY DEF Connect
  <1>2. \A v \in Users : /\ Call(v)' = Call(v)
                         /\ upc'[v] \in {"connect", "wait"} => upc[v] \in {"connect", "wait"}
    BY <1>1 DEF Call, TypeOK
  <1>3. \A c \in Calls, i \in Attempts :
          req'[<<c, i>>] = "queued" => req[<<c, i>>] = "queued" \/ c = Call(u)
    BY <1>1 DEF TypeOK, Current
  <1>4. QED
    BY <1>1, <1>2, <1>3 DEF Settled

(* Only a call that has timed out leaves a queued request behind. *)
LEMMA SettledEnd ==
    ASSUME TypeOK, Order, Settled, NEW u \in Users, NEW how \in Results, EndCall(u, how),
           upc[u] \in {"connect", "wait"}, UNCHANGED req,
           how = "timeout" \/ req[Current(u)] # "queued"
    PROVE  Settled'
  <1>1. Call(u) \in Calls /\ number[u] \in 1 .. MaxCalls
    BY CallType DEF Call, Calls
  <1>2. /\ result' = [result EXCEPT ![Call(u)] = how]
        /\ upc' = [upc EXCEPT ![u] = "inside"] /\ UNCHANGED number
    BY DEF EndCall
  <1>3. \A c \in Calls : c # Call(u) => result'[c] = result[c]
    BY <1>1, <1>2 DEF TypeOK
  <1>4. \A v \in Users, n \in 1 .. MaxCalls : n > number'[v] => result'[<<v, n>>] = "none"
    <2> SUFFICES ASSUME NEW v \in Users, NEW n \in 1 .. MaxCalls, n > number[v]
                 PROVE  result'[<<v, n>>] = "none"
      BY <1>2
    <2>1. <<v, n>> \in Calls /\ <<v, n>> # Call(u)
      BY DEF Calls, Call, TypeOK
    <2>2. QED
      BY <1>3, <2>1 DEF Settled
  <1>5. \A v \in Users : upc'[v] \in {"connect", "wait"} => result'[Call(v)'] = "none"
    <2> SUFFICES ASSUME NEW v \in Users, upc'[v] \in {"connect", "wait"}
                 PROVE  result'[Call(v)'] = "none"
      OBVIOUS
    <2>1. v # u /\ upc[v] \in {"connect", "wait"}
      BY <1>2 DEF TypeOK
    <2>2. Call(v)' = Call(v) /\ Call(v) \in Calls /\ Call(v) # Call(u)
      BY <1>2, <2>1, CallType DEF Call
    <2>3. QED
      BY <1>3, <2>1, <2>2 DEF Settled
  <1>6. \A i \in Attempts : how = "timeout" \/ req[<<Call(u), i>>] # "queued"
    <2>1. attempt[u] \in {0, 1} /\ Current(u) = <<Call(u), attempt[u]>>
      BY DEF TypeOK, Attempts, Current
    <2>2. QED
      BY <2>1 DEF Order, Attempts
  <1>7. \A c \in Calls, i \in Attempts :
          req'[<<c, i>>] = "queued" => result'[c] \in {"none", "timeout"}
    <2> SUFFICES ASSUME NEW c \in Calls, NEW i \in Attempts, req[<<c, i>>] = "queued"
                 PROVE  result'[c] \in {"none", "timeout"}
      OBVIOUS
    <2>1. CASE c = Call(u)
      BY <1>1, <1>2, <1>6, <2>1 DEF TypeOK
    <2>2. CASE c # Call(u)
      BY <1>3, <2>2 DEF Settled
    <2>3. QED
      BY <2>1, <2>2
  <1>8. QED
    BY <1>4, <1>5, <1>7 DEF Settled

LEMMA SettledNext == TypeOK /\ Order /\ Settled /\ [Next]_vars => Settled'
  <1> SUFFICES ASSUME TypeOK, Order, Settled, [Next]_vars PROVE Settled'
    OBVIOUS
  <1>1. CASE \/ StartProc \/ StartFails \/ \E p \in Procs : Listen(p)
             \/ UNCHANGED vars
    BY <1>1, SettledKept DEF StartProc, StartFails, Listen, vars, userVars, reqVars
  <1>2. ASSUME NEW p \in Procs, Die(p) PROVE Settled'
    <2>1. \A c \in Calls, i \in Attempts : req'[<<c, i>>] = "queued" => req[<<c, i>>] = "queued"
      BY <1>2 DEF Die
    <2>2. QED
      BY <1>2, <2>1, SettledKept DEF Die, userVars
  <1>3. ASSUME NEW x \in Calls \X Attempts,
               TurnAway(x) \/ Run(x) \/ Reply(x) \/ SendRest(x)
        PROVE  Settled'
    <2>1. \A c \in Calls, i \in Attempts : req'[<<c, i>>] = "queued" => req[<<c, i>>] = "queued"
      BY <1>3 DEF TurnAway, Run, Reply, SendRest, TypeOK
    <2>2. QED
      BY <1>3, <2>1, SettledKept DEF TurnAway, Run, Reply, SendRest, userVars
  <1>4. ASSUME NEW u \in Users, Enter(u) \/ Exit(u) PROVE Settled'
    BY <1>4, SettledKept DEF Enter, Exit, reqVars, TypeOK
  <1>5. ASSUME NEW u \in Users, InCall(u) PROVE Settled'
    <2>1. CASE Refused(u)
      <3>1. req[Current(u)] = "none"
        BY <2>1 DEF Refused, Order
      <3>2. QED
        BY <2>1, <3>1, SettledEnd DEF Refused, Results, reqVars
    <2>2. CASE Answered(u)
      BY <2>2, SettledEnd DEF Answered, Results, reqVars
    <2>3. CASE CutOff(u) \/ Timeout(u)
      BY <2>3, SettledEnd DEF CutOff, Timeout, Pending, Results, reqVars
    <2>4. CASE Broken(u) /\ TryAgain(u)
      BY <2>4, SettledKept DEF Broken, TryAgain, reqVars, TypeOK
    <2>5. CASE Broken(u) /\ EndCall(u, "reset")
      BY <2>5, SettledEnd DEF Broken, Results, reqVars
    <2>6. QED
      BY <1>5, <2>1, <2>2, <2>3, <2>4, <2>5, SettledConnect DEF InCall, Broken
  <1>6. QED
    BY <1>1, <1>2, <1>3, <1>4, <1>5, SettledBegin DEF Next

LEMMA CallsSettle == Spec => []Settled
  <1>1. Init => Settled
    BY DEF Init, Settled, Calls
  <1>2. QED
    BY <1>1, SettledNext, TypeCorrect, InOrder, PTL DEF Spec

promised == <<Status, TimesRun, Orphaned>>

(* A step that the callers do not see. *)
LEMMA SameOutside ==
    ASSUME UNCHANGED <<number, result, ran>>,
           \A x \in ran : req'[x] = "lost" <=> req[x] = "lost"
    PROVE  promised' = promised
  <1>1. Status' = Status /\ TimesRun' = TimesRun
    BY DEF Status, TimesRun
  <1>2. Orphaned' = Orphaned
    BY DEF Orphaned
  <1>3. QED
    BY <1>1, <1>2 DEF promised

LEMMA DiePromised ==
    ASSUME TypeOK, Order, RanBefore, NEW p \in Procs, Die(p)
    PROVE  Remote!Next
  <1>1. UNCHANGED <<number, result, ran>>
    BY DEF Die, userVars
  <1>2. Status' = Status /\ TimesRun' = TimesRun
    BY <1>1 DEF Status, TimesRun
  <1> DEFINE cut == Orphaned' \ Orphaned
  <1>3. \A x \in Calls \X Attempts : req[x] = "lost" => req'[x] = "lost"
    BY DEF Die
  <1>4. Orphaned' = Orphaned \cup cut /\ cut \in SUBSET Calls
    BY <1>1, <1>3, AttemptType DEF Orphaned
  <1>5. ASSUME NEW c \in cut PROVE TimesRun[c] = 1
    <2>1. c \in Calls /\ <<c, 0>> \in ran /\ req[<<c, 0>>] # "lost"
      BY <1>1 DEF Orphaned
    <2>2. <<c, 1>> \notin ran
      BY <2>1 DEF Order, RanBefore
    <2>3. QED
      BY <2>1, <2>2 DEF TimesRun, Count
  <1>6. Remote!Crash(cut)
    BY <1>2, <1>4, <1>5 DEF Remote!Crash
  <1>7. QED
    BY <1>4, <1>6 DEF Remote!Next

LEMMA RunPromised ==
    ASSUME TypeOK, Order, RanBefore, Settled, NEW c \in Calls, NEW i \in Attempts,
           Run(<<c, i>>)
    PROVE  Remote!Next
  <1>1. /\ req[<<c, i>>] = "queued" /\ ran' = ran \cup {<<c, i>>}
        /\ req' = [req EXCEPT ![<<c, i>>] = "ran"]
        /\ UNCHANGED <<number, result>>
    BY DEF Run, userVars
  <1>2. <<c, i>> \notin ran
    BY <1>1 DEF RanBefore
  <1>3. Status' = Status
    BY <1>1 DEF Status
  <1>4. Orphaned' = Orphaned
    <2>1. \A d \in Calls : <<d, 0>> # <<c, i>> => req'[<<d, 0>>] = req[<<d, 0>>]
      BY <1>1, AttemptType DEF TypeOK
    <2>2. req'[<<c, i>>] = "ran"
      BY <1>1 DEF TypeOK
    <2>3. QED
      BY <1>1, <2>1, <2>2 DEF Orphaned
  <1>5. Status[c] \in {"open", "timeout"}
    <2>1. PICK u \in Users, n \in 1 .. MaxCalls : c = <<u, n>>
      BY DEF Calls
    <2>2. n <= number[u]
      BY <1>1, <2>1 DEF Order, TypeOK
    <2>3. result[c] \in {"none", "timeout"}
      BY <1>1 DEF Settled
    <2>4. QED
      BY <2>1, <2>2, <2>3 DEF Status
  <1>6. TimesRun[c] = 0 \/ (TimesRun[c] = 1 /\ c \in Orphaned)
    <2>1. CASE i = 0
      <3>1. <<c, 1>> \notin ran
        BY <1>1, <2>1 DEF Order, RanBefore
      <3>2. QED
        BY <1>2, <2>1, <3>1 DEF TimesRun, Count
    <2>2. CASE i = 1
      <3>1. req[<<c, 0>>] = "lost"
        BY <1>1, <2>2 DEF Order
      <3>2. QED
        BY <1>2, <2>2, <3>1 DEF TimesRun, Count, Orphaned
    <2>3. QED
      BY <2>1, <2>2 DEF Attempts
  <1>7. TimesRun' = [TimesRun EXCEPT ![c] = @ + 1]
    <2>1. \A d \in Calls, j \in {0, 1} :
            <<d, j>> \in ran' <=> <<d, j>> \in ran \/ (d = c /\ j = i)
      BY <1>1
    <2>2. ASSUME NEW d \in Calls, d # c PROVE TimesRun'[d] = TimesRun[d]
      BY <2>1, <2>2 DEF TimesRun
    <2>3. TimesRun'[c] = TimesRun[c] + 1
      BY <1>2, <2>1 DEF TimesRun, Count, Attempts
    <2>4. QED
      BY <2>2, <2>3 DEF TimesRun
  <1>8. Remote!Execute(c)
    BY <1>3, <1>4, <1>5, <1>6, <1>7 DEF Remote!Execute
  <1>9. QED
    BY <1>8 DEF Remote!Next

LEMMA BeginPromised ==
    ASSUME TypeOK, Settled, NEW u \in Users, BeginCall(u)
    PROVE  Remote!Next
  <1> DEFINE n == number[u] + 1
             c == <<u, n>>
  <1>1. /\ n \in 1 .. MaxCalls /\ n > number[u] /\ number[u] \in Nat
        /\ number' = [number EXCEPT ![u] = n] /\ UNCHANGED <<result, ran, req>>
    BY ClusterAssumption DEF BeginCall, TypeOK, reqVars
  <1>2. c \in Calls /\ result[c] = "none"
    BY <1>1 DEF Calls, Settled
  <1>3. TimesRun' = TimesRun /\ Orphaned' = Orphaned
    BY <1>1 DEF TimesRun, Orphaned
  <1>4. Status[c] = "idle" /\ Status'[c] = "open"
    BY <1>1, <1>2 DEF Status, TypeOK
  <1>5. ASSUME NEW d \in Calls, d # c PROVE Status'[d] = Status[d]
    <2>1. PICK v \in Users, m \in 1 .. MaxCalls : d = <<v, m>>
      BY DEF Calls
    <2>2. m <= number'[v] <=> m <= number[v]
      BY <1>1, <1>5, <2>1 DEF TypeOK
    <2>3. QED
      BY <1>1, <2>1, <2>2 DEF Status
  <1>6. Status' = [Status EXCEPT ![c] = "open"]
    BY <1>4, <1>5 DEF Status
  <1>7. Remote!Begin(c)
    BY <1>3, <1>4, <1>6 DEF Remote!Begin
  <1>8. QED
    BY <1>2, <1>7 DEF Remote!Next

LEMMA EndPromised ==
    ASSUME TypeOK, Settled, NEW u \in Users, NEW how \in Results \ {"none"}, EndCall(u, how),
           upc[u] \in {"connect", "wait"}, UNCHANGED reqVars
    PROVE  Remote!Next
  <1> DEFINE c == Call(u)
  <1>1. c \in Calls /\ c = <<u, number[u]>> /\ number[u] \in Nat /\ result[c] = "none"
    BY CallType DEF Settled, TypeOK, Call
  <1>2. result' = [result EXCEPT ![c] = how] /\ UNCHANGED <<number, ran, req>>
    BY DEF EndCall, reqVars
  <1>3. TimesRun' = TimesRun /\ Orphaned' = Orphaned
    BY <1>2 DEF TimesRun, Orphaned
  <1>4. Status[c] = "open" /\ Status'[c] = how
    BY <1>1, <1>2 DEF Status, TypeOK
  <1>5. ASSUME NEW d \in Calls, d # c PROVE Status'[d] = Status[d]
    BY <1>2, <1>5 DEF Status, TypeOK
  <1>6. Status' = [Status EXCEPT ![c] = how]
    BY <1>4, <1>5 DEF Status
  <1>7. Remote!End(c, how)
    BY <1>3, <1>4, <1>6 DEF Remote!End
  <1>8. QED
    BY <1>1, <1>7 DEF Remote!Next, Remote!Ends, Results

LEMMA UserPromised ==
    ASSUME TypeOK, Order, RanBefore, Settled, NEW u \in Users,
           Enter(u) \/ BeginCall(u) \/ InCall(u) \/ Exit(u)
    PROVE  Remote!Next \/ promised' = promised
  <1>1. CASE Enter(u) \/ Exit(u)
    BY <1>1, SameOutside DEF Enter, Exit, reqVars
  <1>2. CASE Connect(u)
    <2>1. Current(u) \notin ran /\ UNCHANGED <<number, result, ran>>
      BY <1>2 DEF Connect, Order, RanBefore
    <2>2. \A x \in ran : req'[x] = req[x]
      BY <1>2, <2>1 DEF Connect, TypeOK
    <2>3. QED
      BY <2>1, <2>2, SameOutside
  <1>3. CASE Refused(u) \/ Answered(u) \/ CutOff(u) \/ Timeout(u)
    BY <1>3, EndPromised DEF Refused, Answered, CutOff, Timeout, Pending, Results
  <1>4. CASE Broken(u) /\ TryAgain(u)
    BY <1>4, SameOutside DEF Broken, TryAgain, reqVars
  <1>5. CASE Broken(u) /\ EndCall(u, "reset")
    BY <1>5, EndPromised DEF Broken, Results
  <1>6. QED
    BY <1>1, <1>2, <1>3, <1>4, <1>5, BeginPromised DEF InCall, Broken

LEMMA ServerPromised ==
    ASSUME TypeOK, Order, RanBefore, Settled, NEW x \in Calls \X Attempts,
           TurnAway(x) \/ Run(x) \/ Reply(x) \/ SendRest(x)
    PROVE  Remote!Next \/ promised' = promised
  <1>1. CASE Run(x)
    BY <1>1, RunPromised
  <1>2. CASE TurnAway(x)
    <2>1. x \notin ran
      BY <1>2 DEF TurnAway, RanBefore
    <2>2. \A y \in ran : req'[y] = req[y]
      BY <1>2, <2>1 DEF TurnAway, TypeOK
    <2>3. QED
      BY <1>2, <2>2, SameOutside DEF TurnAway, userVars
  <1>3. CASE Reply(x) \/ SendRest(x)
    <2>1. \A y \in ran : req'[y] = "lost" <=> req[y] = "lost"
      BY <1>3 DEF Reply, SendRest, TypeOK
    <2>2. QED
      BY <1>3, <2>1, SameOutside DEF Reply, SendRest, userVars
  <1>4. QED
    BY <1>1, <1>2, <1>3

(* For any number of processes, users and calls, and whatever dies, is     *)
(* full or is slow: the cluster and the client implement RemoteCall.       *)
THEOREM ClusterServesCalls == Spec => ImplementsCalls
  <1>1. Init => Remote!Init
    <2> SUFFICES ASSUME Init PROVE Remote!Init
      OBVIOUS
    <2>1. Status = [c \in Calls |-> "idle"]
      BY DEF Init, Status, Calls
    <2>2. TimesRun = [c \in Calls |-> 0] /\ Orphaned = {}
      BY DEF Init, TimesRun, Count, Orphaned
    <2>3. QED
      BY <2>1, <2>2 DEF Remote!Init
  <1>2. TypeOK /\ Order /\ RanBefore /\ Settled /\ [Next]_vars => [Remote!Next]_(Remote!vars)
    <2> SUFFICES ASSUME TypeOK, Order, RanBefore, Settled, [Next]_vars
                 PROVE  Remote!Next \/ promised' = promised
      BY DEF promised, Remote!vars
    <2>1. CASE \/ StartProc \/ StartFails \/ \E p \in Procs : Listen(p)
               \/ UNCHANGED vars
      BY <2>1, SameOutside DEF StartProc, StartFails, Listen, vars, userVars, reqVars
    <2>2. QED
      BY <2>1, DiePromised, ServerPromised, UserPromised DEF Next
  <1>3. QED
    BY <1>1, <1>2, TypeCorrect, InOrder, WhatRan, CallsSettle, PTL
    DEF Spec, ImplementsCalls, Remote!Spec
=============================================================================
