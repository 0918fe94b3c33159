--------------------------- MODULE AsgiAppProofs ---------------------------
(***************************************************************************)
(* Theorems about AsgiApp, for any requests, lifespans, closing threads    *)
(* and pool size.                                                          *)
(***************************************************************************)
EXTENDS AsgiApp, FiniteSetTheorems, TLAPS

LEMMA InitTypeOK == Init => TypeOK
  BY AsgiAssumption
  DEF Init, TypeOK, NoPool, TaskPcs, StretchPcs, JobStates, Replies, Parties, PartyPcs, ClosingPcs

(* A step of a task keeps the types, and the loop with the task whose      *)
(* stretch it is.                                                          *)
LEMMA RequestTypeOK ==
    ASSUME TypeOK, NEW r \in Requests, Request(r)
    PROVE  TypeOK'
  <1> USE AsgiAssumption DEF TypeOK, TaskPcs, StretchPcs, JobStates, Replies, Answer,
                             poolVars, partyVars
  <1>1. CASE Arrive(r)
    BY <1>1 DEF Arrive
  <1>2. CASE EndBody(r)
    BY <1>2 DEF EndBody, Unusable
  <1>3. CASE Cancel(r)
    BY <1>3 DEF Cancel
  <1>4. CASE LookForPool(r)
    BY <1>4 DEF LookForPool
  <1>5. CASE TakePool(r)
    BY <1>5 DEF TakePool
  <1>6. CASE SubmitCall(r)
    BY <1>6 DEF SubmitCall
  <1>7. CASE Resume(r)
    BY <1>7 DEF Resume
  <1>8. CASE Send(r)
    BY <1>8 DEF Send
  <1>9. QED
    BY <1>1, <1>2, <1>3, <1>4, <1>5, <1>6, <1>7, <1>8 DEF Request, TaskStep

LEMMA JobTypeOK ==
    ASSUME TypeOK, NEW r \in Requests, Job(r)
    PROVE  TypeOK'
  BY DEF TypeOK, JobStates, Job, RunJob, EndJob, poolVars, partyVars

(* A step of a lifespan or of a caller of close().  Only a lifespan holds  *)
(* the loop, from its shutdown event to the end.                           *)
LEMMA PartyTypeOK ==
    ASSUME TypeOK, NEW p \in cast, Party(p)
    PROVE  TypeOK'
  <1>0. p \in Parties /\ cast \subseteq Parties
    BY AsgiAssumption DEF TypeOK, Parties
  <1> USE <1>0, AsgiAssumption DEF TypeOK, PartyPcs, ClosingPcs, taskVars, Parties
  <1>1. CASE p \in Sessions /\ Startup(p)
    BY <1>1 DEF Startup
  <1>2. CASE BeginClose(p)
    BY <1>2 DEF BeginClose, poolVars
  <1>3. CASE CheckPool(p)
    BY <1>3 DEF CheckPool, Leave, Finished, NoPool, poolVars
  <1>4. CASE ShutPool(p)
    <2>1. CASE executor = NoPool
      <3>1. /\ Leave(p, "failed")
            /\ UNCHANGED <<cast, shut, executor, made, taskVars>>
        BY <1>4, <2>1 DEF ShutPool
      <3>2. QED
        BY <1>4, <3>1 DEF ShutPool, Leave, NoPool
    <2>2. CASE executor # NoPool
      <3>1. executor \in 1 .. made
        BY <2>2 DEF NoPool
      <3>2. /\ shut' = shut \cup {executor}
            /\ waits' = [waits EXCEPT ![p] = executor]
            /\ pc' = [pc EXCEPT ![p] = "join"]
            /\ UNCHANGED <<cast, loop, executor, made, taskVars>>
        BY <1>4, <2>2 DEF ShutPool
      <3>3. /\ shut' \subseteq 1 .. made'
            /\ waits' \in [Parties -> 0 .. made']
            /\ pc' \in [Parties -> PartyPcs]
        BY <3>1, <3>2
      <3>4. \A s \in Sessions : pc'[s] \in ClosingPcs <=> pc[s] \in ClosingPcs
        BY <1>4, <3>2 DEF ShutPool
      <3>5. QED
        BY <3>2, <3>3, <3>4
    <2>3. QED
      BY <2>1, <2>2
  <1>5. CASE JoinPool(p)
    BY <1>5 DEF JoinPool, poolVars
  <1>6. CASE Forget(p)
    BY <1>6 DEF Forget, Leave, Finished, NoPool
  <1>7. QED
    BY <1>1, <1>2, <1>3, <1>4, <1>5, <1>6 DEF Party, CloseStep

LEMMA StutterTypeOK == TypeOK /\ UNCHANGED vars => TypeOK'
  BY DEF TypeOK, vars, poolVars, taskVars, partyVars

(* Types, and who holds the event loop, for every instance.                *)
THEOREM TypeCorrect == Spec => []TypeOK
  <1>1. Init => TypeOK
    BY InitTypeOK
  <1>2. TypeOK /\ [Next]_vars => TypeOK'
    BY RequestTypeOK, JobTypeOK, PartyTypeOK, StutterTypeOK DEF Next
  <1>3. QED
    BY <1>1, <1>2, PTL DEF Spec

-----------------------------------------------------------------------------
(* Closing.                                                                *)

(* A task that has not been given a pool has none, and no call in one. *)
GivenNone ==
    \A r \in Requests :
        /\ task[r] \in {"absent", "read", "get", "return"} => place[r] = NoPool
        /\ task[r] \in {"absent", "read", "get", "return", "submit"} => job[r] = "none"

DrainInv == GivenNone /\ ClosedMeansDrained

(* A call enters a pool only while it is open, and whoever shuts it down   *)
(* goes on to wait for it.                                                 *)
LEMMA DrainNext == TypeOK /\ DrainInv /\ [Next]_vars => DrainInv'
  <1> SUFFICES ASSUME TypeOK, DrainInv, [Next]_vars PROVE DrainInv'
    OBVIOUS
  <1> USE DEF TypeOK, DrainInv, GivenNone, ClosedMeansDrained, JobsOf, NoPool
  <1>1. ASSUME NEW r \in Requests, Request(r) PROVE DrainInv'
    <2> USE DEF Answer, poolVars, partyVars
    <2>1. CASE Arrive(r)
      BY <2>1 DEF Arrive
    <2>2. CASE EndBody(r)
      BY <2>2 DEF EndBody, Unusable
    <2>3. CASE Cancel(r)
      BY <2>3 DEF Cancel
    <2>4. CASE LookForPool(r)
      <3>1. /\ task[r] = "get" /\ task' = [task EXCEPT ![r] = "return"]
            /\ UNCHANGED <<cast, shut, place, job, pc, waits>>
        BY <2>4 DEF LookForPool
      <3>2. GivenNone'
        BY <3>1
      <3>3. ClosedMeansDrained'
        BY <3>1
      <3> HIDE DEF GivenNone, ClosedMeansDrained, DrainInv
      <3>4. QED
        BY <3>2, <3>3 DEF DrainInv
    <2>5. CASE TakePool(r)
      BY <2>5 DEF TakePool
    <2>6. CASE SubmitCall(r)
      BY <2>6 DEF SubmitCall
    <2>7. CASE Resume(r)
      BY <2>7 DEF Resume
    <2>8. CASE Send(r)
      BY <2>8 DEF Send
    <2>9. QED
      BY <1>1, <2>1, <2>2, <2>3, <2>4, <2>5, <2>6, <2>7, <2>8 DEF Request, TaskStep
  <1>2. ASSUME NEW r \in Requests, Job(r) PROVE DrainInv'
    BY <1>2 DEF Job, RunJob, EndJob, poolVars, partyVars
  <1>3. ASSUME NEW p \in cast, Party(p) PROVE DrainInv'
    <2>0. p \in Parties /\ cast \subseteq Parties
      BY AsgiAssumption DEF Parties
    <2> USE <2>0 DEF taskVars, poolVars, Leave
    <2>1. CASE p \in Sessions /\ Startup(p)
      BY <2>1 DEF Startup
    <2>2. CASE BeginClose(p)
      BY <2>2 DEF BeginClose
    <2>3. CASE CheckPool(p)
      BY <2>3 DEF CheckPool
    <2>4. CASE ShutPool(p)
      BY <2>4 DEF ShutPool
    <2>5. CASE JoinPool(p)
      BY <2>5 DEF JoinPool, Drained
    <2>6. CASE Forget(p)
      BY <2>6 DEF Forget
    <2>7. QED
      BY <1>3, <2>1, <2>2, <2>3, <2>4, <2>5, <2>6 DEF Party, CloseStep
  <1>4. CASE UNCHANGED vars
    BY <1>4 DEF vars, poolVars, taskVars, partyVars
  <1>5. QED
    BY <1>1, <1>2, <1>3, <1>4 DEF Next

(* A pool that was shut down has calls left only while somebody waits for  *)
(* them, whoever closes the application and however often.                 *)
THEOREM ClosedPoolsAreDrained == Spec => []ClosedMeansDrained
  <1>1. Init => DrainInv
    BY DEF Init, DrainInv, GivenNone, ClosedMeansDrained, JobsOf
  <1>2. QED
    BY <1>1, DrainNext, TypeCorrect, PTL DEF Spec, DrainInv

-----------------------------------------------------------------------------
(* One lifespan or one thread closes the application.                      *)

(* What close() waits for is the current pool, and a lifespan that has not *)
(* begun finds none.                                                       *)
SoloInv ==
    OneCloser =>
        /\ Live \subseteq {executor}
        /\ \A p \in cast : pc[p] \in {"join", "reset"} =>
              executor = waits[p] /\ executor \in shut
        /\ \A s \in cast \cap Sessions : pc[s] = "off" =>
              made = 0 /\ \A r \in Requests : task[r] = "absent"

LEMMA SoloNext == TypeOK /\ SoloInv /\ [Next]_vars => SoloInv'
  <1> SUFFICES ASSUME TypeOK, SoloInv, [Next]_vars, OneCloser
               PROVE  SoloInv'
    BY DEF SoloInv, OneCloser, Next, vars, Request, TaskStep, Job, Party, CloseStep, Arrive,
           EndBody, Unusable, Cancel, LookForPool, TakePool, SubmitCall, Resume, Send, RunJob, EndJob,
           Startup, BeginClose, CheckPool, ShutPool, JoinPool, Forget
  <1> USE DEF TypeOK, SoloInv, OneCloser, Live, NoPool
  <1>1. ASSUME NEW r \in Requests, Request(r) PROVE SoloInv'
    <2> USE DEF Answer, poolVars, partyVars
    <2>1. CASE Arrive(r)
      BY <2>1 DEF Arrive, Serving
    <2>2. CASE EndBody(r)
      BY <2>2 DEF EndBody, Unusable
    <2>3. CASE Cancel(r)
      BY <2>3 DEF Cancel
    <2>4. CASE LookForPool(r)
      BY <2>4 DEF LookForPool, Missing
    <2>5. CASE TakePool(r)
      BY <2>5 DEF TakePool
    <2>6. CASE SubmitCall(r)
      BY <2>6 DEF SubmitCall
    <2>7. CASE Resume(r)
      BY <2>7 DEF Resume
    <2>8. CASE Send(r)
      BY <2>8 DEF Send
    <2>9. QED
      BY <1>1, <2>1, <2>2, <2>3, <2>4, <2>5, <2>6, <2>7, <2>8 DEF Request, TaskStep
  <1>2. ASSUME NEW r \in Requests, Job(r) PROVE SoloInv'
    BY <1>2 DEF Job, RunJob, EndJob, poolVars, partyVars
  <1>3. ASSUME NEW p \in cast, Party(p) PROVE SoloInv'
    <2>0. p \in Parties /\ cast \subseteq Parties
      BY AsgiAssumption DEF Parties
    <2> USE <2>0 DEF taskVars, poolVars, Leave, Finished
    <2>1. CASE p \in Sessions /\ Startup(p)
      BY <2>1 DEF Startup
    <2>2. CASE BeginClose(p)
      BY <2>2 DEF BeginClose
    <2>3. CASE CheckPool(p)
      BY <2>3 DEF CheckPool
    <2>4. CASE ShutPool(p)
      BY <2>4 DEF ShutPool
    <2>5. CASE JoinPool(p)
      BY <2>5 DEF JoinPool
    <2>6. CASE Forget(p)
      BY <2>6 DEF Forget
    <2>7. QED
      BY <1>3, <2>1, <2>2, <2>3, <2>4, <2>5, <2>6 DEF Party, CloseStep
  <1>4. CASE UNCHANGED vars
    BY <1>4 DEF vars, poolVars, taskVars, partyVars
  <1>5. QED
    BY <1>1, <1>2, <1>3, <1>4 DEF Next

LEMMA SoloInvariant == Spec => []SoloInv
  <1>1. Init => SoloInv
    <2> SUFFICES ASSUME Init PROVE SoloInv
      OBVIOUS
    <2>1. cast \subseteq Parties /\ \A p \in Parties : pc[p] \in {"off", "idle"}
      BY AsgiAssumption DEF Init, Parties
    <2>2. made = 0 /\ shut = {} /\ \A r \in Requests : task[r] = "absent"
      BY DEF Init
    <2>3. Live = {}
      BY <2>2 DEF Live
    <2>4. QED
      BY <2>1, <2>2, <2>3 DEF SoloInv
  <1>2. QED
    BY <1>1, SoloNext, TypeCorrect, PTL DEF Spec

(* With one lifespan or one closing thread no pool is ever lost. *)
THEOREM NoPoolGetsLost == Spec => []NoPoolIsLost
  <1>1. SoloInv => NoPoolIsLost
    BY DEF SoloInv, NoPoolIsLost
  <1>2. QED
    BY <1>1, SoloInvariant, PTL

-----------------------------------------------------------------------------
(* Only lifespans close the application.                                   *)

(* The current pool is shut down only while a lifespan holds the loop, so  *)
(* that a task in its stretch always has an open one.                      *)
LifespanInv ==
    cast \subseteq Sessions =>
        /\ executor \in shut => \E s \in cast : pc[s] \in {"join", "reset"}
        /\ \A r \in Requests : task[r] = "submit" => place[r] \notin shut
        /\ \A r \in Requests : reply[r] # "pool_fault"

LEMMA LifespanNext == TypeOK /\ LifespanInv /\ [Next]_vars => LifespanInv'
  <1> SUFFICES ASSUME TypeOK, LifespanInv, [Next]_vars, cast \subseteq Sessions
               PROVE  LifespanInv'
    BY DEF LifespanInv, Next, vars, Request, TaskStep, Job, Party, CloseStep, Arrive,
           EndBody, Unusable, Cancel, LookForPool, TakePool, SubmitCall, Resume, Send, RunJob, EndJob,
           Startup, BeginClose, CheckPool, ShutPool, JoinPool, Forget
  <1> USE AsgiAssumption DEF TypeOK, LifespanInv, NoPool, StretchPcs, ClosingPcs
  <1>1. ASSUME NEW r \in Requests, Request(r) PROVE LifespanInv'
    <2> USE DEF Answer, poolVars, partyVars
    <2>1. CASE Arrive(r)
      BY <2>1 DEF Arrive
    <2>2. CASE EndBody(r)
      BY <2>2 DEF EndBody, Unusable
    <2>3. CASE Cancel(r)
      BY <2>3 DEF Cancel
    <2>4. CASE LookForPool(r)
      BY <2>4 DEF LookForPool
    <2>5. CASE TakePool(r)
      BY <2>5 DEF TakePool
    <2>6. CASE SubmitCall(r)
      BY <2>6 DEF SubmitCall
    <2>7. CASE Resume(r)
      BY <2>7 DEF Resume
    <2>8. CASE Send(r)
      BY <2>8 DEF Send
    <2>9. QED
      BY <1>1, <2>1, <2>2, <2>3, <2>4, <2>5, <2>6, <2>7, <2>8 DEF Request, TaskStep
  <1>2. ASSUME NEW r \in Requests, Job(r) PROVE LifespanInv'
    BY <1>2 DEF Job, RunJob, EndJob, poolVars, partyVars
  <1>3. ASSUME NEW p \in cast, Party(p) PROVE LifespanInv'
    <2>0. p \in Sessions /\ p \in Parties
      BY DEF Parties
    <2> USE <2>0 DEF taskVars, poolVars, Leave, Finished
    <2>1. CASE p \in Sessions /\ Startup(p)
      BY <2>1 DEF Startup
    <2>2. CASE BeginClose(p)
      BY <2>2 DEF BeginClose
    <2>3. CASE CheckPool(p)
      BY <2>3 DEF CheckPool
    <2>4. CASE ShutPool(p)
      BY <2>4 DEF ShutPool
    <2>5. CASE JoinPool(p)
      BY <2>5 DEF JoinPool
    <2>6. CASE Forget(p)
      BY <2>6 DEF Forget
    <2>7. QED
      BY <1>3, <2>1, <2>2, <2>3, <2>4, <2>5, <2>6 DEF Party, CloseStep
  <1>4. CASE UNCHANGED vars
    BY <1>4 DEF vars, poolVars, taskVars, partyVars
  <1>5. QED
    BY <1>1, <1>2, <1>3, <1>4 DEF Next

(* Where only lifespans close it, the application never refuses a call     *)
(* because its pool is closed.                                             *)
THEOREM LifespansRefuseNobody == Spec => []LifespanRefusesNobody
  <1>1. Init => LifespanInv
    BY DEF Init, LifespanInv
  <1>2. LifespanInv => LifespanRefusesNobody
    BY DEF LifespanInv, LifespanRefusesNobody
  <1>3. QED
    BY <1>1, <1>2, LifespanNext, TypeCorrect, PTL DEF Spec

-----------------------------------------------------------------------------
(* How many functions run.                                                 *)

PoolsBounded == \A e \in Nat \ {0} : Cardinality(RunningIn(e)) <= MaxWorkers

LEMMA RunningIsFinite == \A e : IsFiniteSet(RunningIn(e)) /\ Cardinality(RunningIn(e)) \in Nat
  <1>1. \A e : RunningIn(e) \subseteq Requests
    BY DEF RunningIn
  <1>2. QED
    BY <1>1, AsgiAssumption, FS_Subset, FS_CardinalityType

(* Only RunJob makes a call run. *)
LEMMA RunningGrows ==
    ASSUME TypeOK, DrainInv, [Next]_vars, NEW e \in Nat \ {0}
    PROVE  \/ RunningIn(e)' \subseteq RunningIn(e)
           \/ /\ Cardinality(RunningIn(e)) < MaxWorkers
              /\ \E r \in Requests : RunningIn(e)' \subseteq RunningIn(e) \cup {r}
  <1> DEFINE Goal == \/ RunningIn(e)' \subseteq RunningIn(e)
                     \/ /\ Cardinality(RunningIn(e)) < MaxWorkers
                        /\ \E r \in Requests : RunningIn(e)' \subseteq RunningIn(e) \cup {r}
  <1>1. ASSUME NEW r \in Requests, Request(r) PROVE Goal
    <2>1. \A q \in Requests : job'[q] = "running" => job[q] = "running" /\ place'[q] = place[q]
      <3> USE DEF TypeOK, DrainInv, GivenNone, Answer
      <3>1. CASE Arrive(r)
        BY <3>1 DEF Arrive
      <3>2. CASE EndBody(r)
        BY <3>2 DEF EndBody, Unusable
      <3>3. CASE Cancel(r)
        BY <3>3 DEF Cancel
      <3>4. CASE LookForPool(r)
        BY <3>4 DEF LookForPool
      <3>5. CASE TakePool(r)
        BY <3>5 DEF TakePool
      <3>6. CASE SubmitCall(r)
        BY <3>6 DEF SubmitCall
      <3>7. CASE Resume(r)
        BY <3>7 DEF Resume
      <3>8. CASE Send(r)
        BY <3>8 DEF Send
      <3>9. QED
        BY <1>1, <3>1, <3>2, <3>3, <3>4, <3>5, <3>6, <3>7, <3>8 DEF Request, TaskStep
    <2>2. QED
      BY <2>1 DEF RunningIn
  <1>2. ASSUME NEW r \in Requests, RunJob(r) PROVE Goal
    <2>1. RunningIn(e)' \subseteq RunningIn(e) \cup {r}
      BY <1>2 DEF RunJob, RunningIn, TypeOK
    <2>2. place[r] # e => RunningIn(e)' \subseteq RunningIn(e)
      BY <1>2 DEF RunJob, RunningIn, TypeOK
    <2>3. place[r] = e => Cardinality(RunningIn(e)) < MaxWorkers
      BY <1>2 DEF RunJob, NoPool
    <2>4. QED
      BY <2>1, <2>2, <2>3
  <1>3. ASSUME NEW r \in Requests, EndJob(r) PROVE Goal
    BY <1>3 DEF EndJob, RunningIn, TypeOK
  <1>4. ASSUME UNCHANGED taskVars PROVE Goal
    BY <1>4 DEF taskVars, RunningIn
  <1>5. ASSUME NEW p \in cast, Party(p) PROVE UNCHANGED taskVars
    BY <1>5 DEF Party, CloseStep, Startup, BeginClose, CheckPool, ShutPool, JoinPool, Forget
  <1>6. UNCHANGED vars => UNCHANGED taskVars
    BY DEF vars
  <1>7. QED
    BY <1>1, <1>2, <1>3, <1>4, <1>5, <1>6 DEF Next, Job

LEMMA BoundedNext == TypeOK /\ DrainInv /\ PoolsBounded /\ [Next]_vars => PoolsBounded'
  <1> SUFFICES ASSUME TypeOK, DrainInv, PoolsBounded, [Next]_vars, NEW e \in Nat \ {0}
               PROVE  Cardinality(RunningIn(e)') <= MaxWorkers
    BY DEF PoolsBounded
  <1>1. IsFiniteSet(RunningIn(e)) /\ Cardinality(RunningIn(e)) \in Nat
    BY RunningIsFinite
  <1>2. Cardinality(RunningIn(e)) <= MaxWorkers /\ MaxWorkers \in Nat
    BY AsgiAssumption DEF PoolsBounded
  <1>3. CASE RunningIn(e)' \subseteq RunningIn(e)
    <2>1. /\ Cardinality(RunningIn(e)') \in Nat
          /\ Cardinality(RunningIn(e)') <= Cardinality(RunningIn(e))
      BY <1>1, <1>3, FS_Subset, FS_CardinalityType
    <2>2. QED
      BY <1>1, <1>2, <2>1
  <1>4. ASSUME Cardinality(RunningIn(e)) < MaxWorkers,
               NEW r \in Requests, RunningIn(e)' \subseteq RunningIn(e) \cup {r}
        PROVE  Cardinality(RunningIn(e)') <= MaxWorkers
    <2>1. /\ IsFiniteSet(RunningIn(e) \cup {r})
          /\ Cardinality(RunningIn(e) \cup {r}) \in Nat
          /\ Cardinality(RunningIn(e) \cup {r}) <= Cardinality(RunningIn(e)) + 1
      <3> DEFINE S == RunningIn(e)
      <3>1. IsFiniteSet(S) /\ Cardinality(S) \in Nat
        BY <1>1
      <3> HIDE DEF S
      <3>2. /\ IsFiniteSet(S \cup {r})
            /\ Cardinality(S \cup {r}) = IF r \in S THEN Cardinality(S) ELSE Cardinality(S) + 1
        BY <3>1, FS_AddElement
      <3>3. /\ IsFiniteSet(S \cup {r})
            /\ Cardinality(S \cup {r}) \in Nat
            /\ Cardinality(S \cup {r}) <= Cardinality(S) + 1
        BY <3>1, <3>2
      <3>4. QED
        BY <3>3 DEF S
    <2>2. /\ Cardinality(RunningIn(e)') \in Nat
          /\ Cardinality(RunningIn(e)') <= Cardinality(RunningIn(e) \cup {r})
      BY <1>4, <2>1, FS_Subset, FS_CardinalityType
    <2>3. QED
      BY <1>1, <1>2, <1>4, <2>1, <2>2
  <1>5. QED
    BY <1>3, <1>4, RunningGrows

(* With one lifespan or one closing thread, max_workers bounds the         *)
(* functions of the old pool and the new one together: whatever runs, runs *)
(* in the current pool.                                                    *)
THEOREM FunctionsAreBounded == Spec => []FunctionsBounded
  <1>1. Init => PoolsBounded
    <2>1. Init => \A e : RunningIn(e) = {}
      BY DEF Init, RunningIn
    <2>2. QED
      BY <2>1, AsgiAssumption, FS_EmptySet DEF PoolsBounded
  <1>2. Init => DrainInv
    BY DEF Init, DrainInv, GivenNone, ClosedMeansDrained, JobsOf
  <1>3. TypeOK /\ DrainInv /\ SoloInv /\ PoolsBounded => FunctionsBounded
    <2> SUFFICES ASSUME TypeOK, DrainInv, SoloInv, PoolsBounded, OneCloser
                 PROVE  Cardinality({r \in Requests : job[r] = "running" /\ place[r] # NoPool})
                          <= MaxWorkers
      BY DEF FunctionsBounded
    <2> DEFINE AtWork == {r \in Requests : job[r] = "running" /\ place[r] # NoPool}
    <2>1. \A r \in AtWork : place[r] = executor /\ executor \in Nat \ {0}
      <3> SUFFICES ASSUME NEW r \in AtWork PROVE place[r] = executor /\ executor \in Nat \ {0}
        OBVIOUS
      <3>1. place[r] \in 1 .. made
        BY DEF TypeOK, NoPool
      <3>2. CASE place[r] \in Live
        BY <3>1, <3>2 DEF SoloInv, TypeOK
      <3>3. CASE place[r] \in shut
        <4>1. PICK p \in cast : pc[p] = "join" /\ waits[p] = place[r]
          BY <3>3 DEF DrainInv, ClosedMeansDrained, JobsOf
        <4>2. QED
          BY <3>1, <4>1 DEF SoloInv, TypeOK
      <3>4. QED
        BY <3>1, <3>2, <3>3 DEF Live
    <2>2. CASE AtWork = {}
      <3>1. Cardinality(AtWork) = 0
        BY <2>2, FS_EmptySet
      <3>2. QED
        BY <3>1, AsgiAssumption
    <2>3. CASE AtWork # {}
      <3>1. executor \in Nat \ {0} /\ AtWork \subseteq RunningIn(executor)
        BY <2>1, <2>3 DEF RunningIn
      <3>2. Cardinality(AtWork) <= Cardinality(RunningIn(executor))
        BY <3>1, RunningIsFinite, FS_Subset
      <3>3. /\ Cardinality(RunningIn(executor)) \in Nat
            /\ Cardinality(RunningIn(executor)) <= MaxWorkers
        BY <3>1, RunningIsFinite DEF PoolsBounded
      <3>4. Cardinality(AtWork) \in Nat
        BY <3>1, RunningIsFinite, FS_Subset, FS_CardinalityType
      <3>5. QED
        BY <3>2, <3>3, <3>4, AsgiAssumption
    <2>4. QED
      BY <2>2, <2>3
  <1>4. QED
    BY <1>1, <1>2, <1>3, DrainNext, BoundedNext, SoloInvariant, TypeCorrect, PTL DEF Spec

-----------------------------------------------------------------------------
(* The pools that follow one another implement CallPool.                   *)

(* The state of the promise, as AsgiApp's Pool maps it. *)
PoolState ==
    IF executor = NoPool THEN "absent" ELSE IF executor \in shut THEN "draining" ELSE "open"
WaitingCalls == Functions({"queued"})
WorkingCalls == Functions({"running"})
LeftCalls == Functions({"finished", "cancelled"})
promised == <<PoolState, WaitingCalls, WorkingCalls, LeftCalls>>

(* The instance has a Cardinality of its own, with the same definition. *)
LEMMA SameCardinality == \A S : Pool!Cardinality(S) = Cardinality(S)
  BY DEF Pool!Cardinality, Cardinality

(* With one closing party, whatever a pool still holds is in the current   *)
(* one.                                                                    *)
LEMMA CallsAreInThePool ==
    ASSUME TypeOK, DrainInv, SoloInv, OneCloser
    PROVE  /\ \A r \in WaitingCalls \cup WorkingCalls : place[r] = executor /\ executor # NoPool
           /\ \A p \in cast : pc[p] = "reset" => WaitingCalls = {} /\ WorkingCalls = {}
  <1>1. \A r \in WaitingCalls \cup WorkingCalls :
           r \in Requests /\ place[r] \in 1 .. made /\ r \in JobsOf(place[r])
    BY DEF WaitingCalls, WorkingCalls, Functions, JobsOf, TypeOK, NoPool
  <1>2. ASSUME NEW r \in WaitingCalls \cup WorkingCalls, place[r] \in shut
        PROVE  \E p \in cast : pc[p] = "join" /\ waits[p] = place[r]
    BY <1>1, <1>2 DEF DrainInv, ClosedMeansDrained
  <1>3. ASSUME NEW r \in WaitingCalls \cup WorkingCalls
        PROVE  place[r] = executor /\ executor # NoPool
    <2>1. CASE place[r] \in shut
      BY <1>1, <1>2, <1>3, <2>1 DEF SoloInv, NoPool
    <2>2. CASE place[r] \notin shut
      BY <1>1, <1>3, <2>2 DEF SoloInv, Live, NoPool
    <2>3. QED
      BY <2>1, <2>2
  <1>4. ASSUME NEW p \in cast, pc[p] = "reset", NEW r \in WaitingCalls \cup WorkingCalls
        PROVE  FALSE
    <2>1. executor \in shut /\ place[r] = executor
      BY <1>3, <1>4 DEF SoloInv
    <2>2. PICK q \in cast : pc[q] = "join"
      BY <1>2, <2>1
    <2>3. QED
      BY <1>4, <2>2 DEF OneCloser
  <1>5. QED
    BY <1>3, <1>4

(* A step that leaves every call of a pool, and the pool, where they are.  *)
LEMMA NothingPromised ==
    ASSUME PoolState' = PoolState,
           \A q \in Requests :
              \/ place'[q] = place[q] /\ job'[q] = job[q]
              \/ /\ place[q] = NoPool \/ job[q] = "none"
                 /\ place'[q] = NoPool \/ job'[q] = "none"
    PROVE  promised' = promised
  BY DEF promised, WaitingCalls, WorkingCalls, LeftCalls, Functions

LEMMA RequestPromised ==
    ASSUME TypeOK, DrainInv, SoloInv, OneCloser, NEW r \in Requests, Request(r)
    PROVE  Pool!Next \/ promised' = promised
  <1>1. CASE Arrive(r) \/ EndBody(r) \/ Resume(r) \/ Send(r) \/ TakePool(r)
    <2>1. UNCHANGED poolVars
      BY <1>1 DEF Arrive, EndBody, Unusable, Resume, Send, TakePool
    <2>2. PoolState' = PoolState
      BY <2>1 DEF PoolState, poolVars
    <2>3. \A q \in Requests :
              \/ place'[q] = place[q] /\ job'[q] = job[q]
              \/ /\ place[q] = NoPool \/ job[q] = "none"
                 /\ place'[q] = NoPool \/ job'[q] = "none"
      BY <1>1 DEF Arrive, EndBody, Unusable, Resume, Send, TakePool, DrainInv, GivenNone, TypeOK
    <2>4. QED
      BY <2>2, <2>3, NothingPromised
  <1>2. CASE LookForPool(r)
    <2>1. UNCHANGED <<place, job, shut>>
      BY <1>2 DEF LookForPool
    <2>2. UNCHANGED <<WaitingCalls, WorkingCalls, LeftCalls>>
      BY <2>1 DEF WaitingCalls, WorkingCalls, LeftCalls, Functions
    <2>3. CASE executor = NoPool
      <3>1. executor' = made + 1 /\ made \in Nat /\ shut \subseteq 1 .. made
        BY <1>2, <2>3 DEF LookForPool, Missing, TypeOK
      <3>2. executor' # NoPool /\ executor' \notin shut'
        BY <2>1, <3>1 DEF NoPool
      <3>3. PoolState = "absent" /\ PoolState' = "open"
        BY <2>3, <3>2 DEF PoolState
      <3>4. Pool!Open
        BY <2>2, <3>3 DEF Pool!Open, PoolState, WaitingCalls, WorkingCalls, LeftCalls
      <3>5. QED
        BY <3>4 DEF Pool!Next
    <2>4. CASE executor # NoPool
      <3>1. executor' = executor
        BY <1>2, <2>4 DEF LookForPool, Missing
      <3>2. QED
        BY <2>1, <2>2, <3>1 DEF promised, PoolState
    <2>5. QED
      BY <2>3, <2>4
  <1>3. CASE SubmitCall(r)
    <2>1. UNCHANGED <<executor, shut, place>> /\ PoolState' = PoolState
      BY <1>3 DEF SubmitCall, poolVars, PoolState
    <2>2. job[r] = "none"
      BY <1>3 DEF SubmitCall, DrainInv, GivenNone
    <2>3. CASE place[r] \in shut \/ place[r] = NoPool
      <3>1. \A q \in Requests : q # r => job'[q] = job[q]
        BY <1>3 DEF SubmitCall, TypeOK
      <3>2. place[r] = NoPool \/ job'[r] = "none"
        BY <1>3, <2>2, <2>3 DEF SubmitCall, TypeOK, NoPool
      <3>3. QED
        BY <2>1, <2>2, <3>1, <3>2, NothingPromised
    <2>4. CASE place[r] \notin shut /\ place[r] # NoPool
      <3>1. place[r] = executor /\ PoolState = "open"
        BY <2>4 DEF SoloInv, Live, TypeOK, NoPool, PoolState
      <3>2. job' = [job EXCEPT ![r] = "queued"]
        BY <1>3, <2>4 DEF SubmitCall
      <3>3. /\ WaitingCalls' = WaitingCalls \cup {r}
            /\ WorkingCalls' = WorkingCalls /\ LeftCalls' = LeftCalls
            /\ r \notin WaitingCalls \cup WorkingCalls \cup LeftCalls
        BY <2>1, <2>2, <2>4, <3>2
        DEF WaitingCalls, WorkingCalls, LeftCalls, Functions, TypeOK
      <3>4. Pool!Take(r)
        BY <2>1, <3>1, <3>3 DEF Pool!Take, PoolState, WaitingCalls, WorkingCalls, LeftCalls
      <3>5. QED
        BY <3>4 DEF Pool!Next
    <2>5. QED
      BY <2>3, <2>4
  <1>4. CASE Cancel(r)
    <2>1. UNCHANGED <<executor, shut, place>> /\ PoolState' = PoolState
      BY <1>4 DEF Cancel, poolVars, PoolState
    <2>2. job' = [job EXCEPT ![r] = IF job[r] = "queued" THEN "cancelled" ELSE job[r]]
      BY <1>4 DEF Cancel
    <2>3. CASE job[r] # "queued" \/ place[r] = NoPool
      BY <2>1, <2>2, <2>3, NothingPromised DEF TypeOK
    <2>4. CASE job[r] = "queued" /\ place[r] # NoPool
      <3>1. /\ WaitingCalls' = WaitingCalls \ {r} /\ LeftCalls' = LeftCalls \cup {r}
            /\ WorkingCalls' = WorkingCalls
            /\ r \in WaitingCalls
        BY <2>1, <2>2, <2>4 DEF WaitingCalls, WorkingCalls, LeftCalls, Functions, TypeOK
      <3>2. Pool!Withdraw(r)
        BY <2>1, <3>1 DEF Pool!Withdraw, PoolState, WaitingCalls, WorkingCalls, LeftCalls
      <3>3. QED
        BY <3>2 DEF Pool!Next
    <2>5. QED
      BY <2>3, <2>4
  <1>5. QED
    BY <1>1, <1>2, <1>3, <1>4 DEF Request, TaskStep

LEMMA JobPromised ==
    ASSUME TypeOK, DrainInv, SoloInv, PoolsBounded, OneCloser, NEW r \in Requests, Job(r)
    PROVE  Pool!Next \/ promised' = promised
  <1>1. UNCHANGED <<executor, shut, place>> /\ PoolState' = PoolState
    BY DEF Job, RunJob, EndJob, poolVars, PoolState
  <1>2. CASE place[r] = NoPool
    <2>1. \A q \in Requests : q # r => job'[q] = job[q]
      BY DEF Job, RunJob, EndJob, TypeOK
    <2>2. QED
      BY <1>1, <1>2, <2>1, NothingPromised
  <1>3. CASE RunJob(r) /\ place[r] # NoPool
    <2>1. job[r] = "queued" /\ job' = [job EXCEPT ![r] = "running"]
      BY <1>3 DEF RunJob
    <2>2. /\ WaitingCalls' = WaitingCalls \ {r} /\ WorkingCalls' = WorkingCalls \cup {r}
          /\ LeftCalls' = LeftCalls
          /\ r \in WaitingCalls
      BY <1>1, <1>3, <2>1 DEF WaitingCalls, WorkingCalls, LeftCalls, Functions, TypeOK
    <2>3. WorkingCalls = RunningIn(place[r])
      <3>1. place[r] = executor /\ \A q \in WorkingCalls : place[q] = executor
        BY <2>2, CallsAreInThePool
      <3>2. QED
        BY <1>3, <3>1 DEF WorkingCalls, Functions, RunningIn
    <2>4. Cardinality(WorkingCalls) < MaxWorkers
      BY <1>3, <2>3 DEF RunJob
    <2>5. Pool!Run(r)
      BY <1>1, <2>2, <2>4, SameCardinality
      DEF Pool!Run, PoolState, WaitingCalls, WorkingCalls, LeftCalls
    <2>6. QED
      BY <2>5 DEF Pool!Next
  <1>4. CASE EndJob(r) /\ place[r] # NoPool
    <2>1. job[r] = "running" /\ job' = [job EXCEPT ![r] = "finished"]
      BY <1>4 DEF EndJob
    <2>2. /\ WorkingCalls' = WorkingCalls \ {r} /\ LeftCalls' = LeftCalls \cup {r}
          /\ WaitingCalls' = WaitingCalls
          /\ r \in WorkingCalls
      BY <1>1, <1>4, <2>1 DEF WaitingCalls, WorkingCalls, LeftCalls, Functions, TypeOK
    <2>3. Pool!Return(r)
      BY <1>1, <2>2 DEF Pool!Return, PoolState, WaitingCalls, WorkingCalls, LeftCalls
    <2>4. QED
      BY <2>3 DEF Pool!Next
  <1>5. QED
    BY <1>2, <1>3, <1>4 DEF Job

LEMMA PartyPromised ==
    ASSUME TypeOK, DrainInv, SoloInv, OneCloser, NEW p \in cast, Party(p)
    PROVE  Pool!Next \/ promised' = promised
  <1>1. UNCHANGED taskVars
    BY DEF Party, CloseStep, Startup, BeginClose, CheckPool, ShutPool, JoinPool, Forget
  <1>2. UNCHANGED <<WaitingCalls, WorkingCalls, LeftCalls>>
    BY <1>1 DEF taskVars, WaitingCalls, WorkingCalls, LeftCalls, Functions
  <1>3. CASE p \in Sessions /\ Startup(p)
    <2>1. executor = NoPool /\ executor' = 1 /\ 1 \notin shut'
      BY <1>3 DEF Startup, SoloInv, TypeOK, NoPool
    <2>2. PoolState = "absent" /\ PoolState' = "open"
      BY <2>1 DEF PoolState, NoPool
    <2>3. Pool!Open
      BY <1>2, <2>2 DEF Pool!Open, PoolState, WaitingCalls, WorkingCalls, LeftCalls
    <2>4. QED
      BY <2>3 DEF Pool!Next
  <1>4. CASE BeginClose(p) \/ CheckPool(p) \/ JoinPool(p)
    <2>1. PoolState' = PoolState
      BY <1>4 DEF BeginClose, CheckPool, JoinPool, poolVars, PoolState
    <2>2. QED
      BY <1>2, <2>1 DEF promised
  <1>5. CASE ShutPool(p)
    <2>1. executor' = executor
      BY <1>5 DEF ShutPool
    <2>2. CASE executor = NoPool \/ executor \in shut
      <3>1. PoolState' = PoolState
        BY <1>5, <2>1, <2>2 DEF ShutPool, PoolState
      <3>2. QED
        BY <1>2, <3>1 DEF promised
    <2>3. CASE executor # NoPool /\ executor \notin shut
      <3>1. PoolState = "open" /\ PoolState' = "draining"
        BY <1>5, <2>1, <2>3 DEF ShutPool, PoolState
      <3>2. Pool!Close
        BY <1>2, <3>1 DEF Pool!Close, PoolState, WaitingCalls, WorkingCalls, LeftCalls
      <3>3. QED
        BY <3>2 DEF Pool!Next
    <2>4. QED
      BY <2>2, <2>3
  <1>6. CASE Forget(p)
    <2>1. pc[p] = "reset" /\ executor' = NoPool
      BY <1>6 DEF Forget
    <2>2. executor \in shut /\ executor # NoPool
      BY <2>1 DEF SoloInv, TypeOK, NoPool
    <2>3. PoolState = "draining" /\ PoolState' = "absent"
      BY <2>1, <2>2 DEF PoolState
    <2>4. WaitingCalls = {} /\ WorkingCalls = {}
      BY <2>1, CallsAreInThePool
    <2>5. Pool!Drained
      BY <1>2, <2>3, <2>4 DEF Pool!Drained, PoolState, WaitingCalls, WorkingCalls, LeftCalls
    <2>6. QED
      BY <2>5 DEF Pool!Next
  <1>7. QED
    BY <1>3, <1>4, <1>5, <1>6 DEF Party, CloseStep

(* With one lifespan or one closing thread the application implements      *)
(* CallPool: its pools, made, drained and made again, are one pool.        *)
THEOREM PoolsAreOne == Spec => ImplementsPool
  <1>1. Init => (OneCloser => Pool!Init)
    <2>1. Init => PoolState = "absent" /\ WaitingCalls = {} /\ WorkingCalls = {} /\ LeftCalls = {}
      BY DEF Init, PoolState, WaitingCalls, WorkingCalls, LeftCalls, Functions
    <2>2. QED
      BY <2>1 DEF Pool!Init, PoolState, WaitingCalls, WorkingCalls, LeftCalls
  <1>2. Init => PoolsBounded
    <2>1. Init => \A e : RunningIn(e) = {}
      BY DEF Init, RunningIn
    <2>2. QED
      BY <2>1, AsgiAssumption, FS_EmptySet DEF PoolsBounded
  <1>3. Init => DrainInv
    BY DEF Init, DrainInv, GivenNone, ClosedMeansDrained, JobsOf
  <1>4. TypeOK /\ DrainInv /\ SoloInv /\ PoolsBounded /\ [Next]_vars =>
           [OneCloser => [Pool!Next]_(Pool!vars)]_vars
    <2>1. TypeOK /\ DrainInv /\ SoloInv /\ PoolsBounded /\ Next /\ OneCloser =>
             Pool!Next \/ promised' = promised
      BY RequestPromised, JobPromised, PartyPromised DEF Next
    <2>2. promised' = promised => UNCHANGED Pool!vars
      BY DEF Pool!vars, promised, PoolState, WaitingCalls, WorkingCalls, LeftCalls
    <2>3. TypeOK /\ DrainInv /\ SoloInv /\ PoolsBounded /\ Next /\ OneCloser => [Pool!Next]_(Pool!vars)
      BY <2>1, <2>2
    <2>4. QED
      BY <2>3
  <1>5. QED
    BY <1>1, <1>2, <1>3, <1>4, DrainNext, BoundedNext, SoloInvariant, TypeCorrect, PTL
    DEF Spec, ImplementsPool

-----------------------------------------------------------------------------
(* Standing still.                                                         *)

(* A task waits only for a call that is still to come back, or has.        *)
AwaitsACall ==
    \A r \in Requests : task[r] = "await" => job[r] \in {"queued", "running", "finished"}

LEMMA AwaitNext == TypeOK /\ AwaitsACall /\ [Next]_vars => AwaitsACall'
  <1> SUFFICES ASSUME TypeOK, AwaitsACall, [Next]_vars PROVE AwaitsACall'
    OBVIOUS
  <1>1. ASSUME NEW r \in Requests, Request(r) PROVE AwaitsACall'
    <2>1. \A q \in Requests \ {r} : task'[q] = task[q] /\ job'[q] = job[q]
      BY <1>1 DEF Request, TaskStep, Arrive, EndBody, Unusable, Cancel, LookForPool, TakePool,
                  SubmitCall, Resume, Send, Answer, TypeOK
    <2>2. task'[r] = "await" => job'[r] \in {"queued", "running", "finished"}
      BY <1>1 DEF Request, TaskStep, Arrive, EndBody, Unusable, Cancel, LookForPool, TakePool,
                  SubmitCall, Resume, Send, Answer, TypeOK
    <2>3. QED
      BY <2>1, <2>2 DEF AwaitsACall
  <1>2. ASSUME NEW r \in Requests, Job(r) PROVE AwaitsACall'
    BY <1>2 DEF Job, RunJob, EndJob, AwaitsACall, TypeOK
  <1>3. ASSUME NEW p \in cast, Party(p) PROVE AwaitsACall'
    BY <1>3 DEF Party, Startup, BeginClose, CloseStep, CheckPool, ShutPool, JoinPool, Forget,
                taskVars, AwaitsACall
  <1>4. CASE UNCHANGED vars
    BY <1>4 DEF vars, taskVars, AwaitsACall
  <1>5. QED
    BY <1>1, <1>2, <1>3, <1>4 DEF Next

(* The loop, the threads of the pools and close() never deadlock: when     *)
(* they all wait, no call is left and nobody is inside close().            *)
THEOREM NobodyHangs == Spec => []NothingHangs
  <1>1. Init => AwaitsACall
    BY DEF Init, AwaitsACall
  <1>2. ASSUME TypeOK, AwaitsACall, AllWait
        PROVE  /\ \A r \in Requests : /\ task[r] \in {"absent", "read", "done", "cancelled"}
                                      /\ job[r] \notin {"queued", "running"}
               /\ \A p \in Parties : pc[p] \notin ClosingPcs
    <2>1. \A r \in Requests : job[r] # "running"
      BY <1>2 DEF AllWait, JobWaits
    <2>2. \A e : Cardinality(RunningIn(e)) = 0
      <3>1. \A e : RunningIn(e) = {}
        BY <2>1 DEF RunningIn
      <3>2. QED
        BY <3>1, FS_EmptySet
    <2>3. \A r \in Requests : job[r] \notin {"queued", "running"}
      BY <1>2, <2>1, <2>2, AsgiAssumption DEF AllWait, JobWaits
    <2>4. \A p \in Parties : pc[p] \notin ClosingPcs
      <3>1. \A e : Drained(e)
        BY <2>3 DEF Drained, JobsOf
      <3>2. QED
        BY <1>2, <3>1 DEF AllWait, PartyWaits
    <2>5. loop = None
      BY <1>2, <2>4 DEF AllWait, TaskWaits, TypeOK, Parties, StretchPcs
    <2>6. \A r \in Requests : task[r] \in {"absent", "read", "done", "cancelled"}
      BY <1>2, <2>3, <2>5 DEF AllWait, TaskWaits, AwaitsACall
    <2>7. QED
      BY <2>3, <2>4, <2>6
  <1>3. TypeOK /\ AwaitsACall => NothingHangs
    BY <1>2 DEF NothingHangs
  <1>4. QED
    BY <1>1, <1>3, AwaitNext, TypeCorrect, PTL DEF Spec
=============================================================================
