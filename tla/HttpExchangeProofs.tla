------------------------- MODULE HttpExchangeProofs -------------------------
(***************************************************************************)
(* Theorems about HttpExchange, for every max_request_size, every size of  *)
(* message and of the kernel's buffers.                                    *)
(***************************************************************************)
EXTENDS HttpExchange, TLAPS

(* Units are not made, nor lost while the connection is open, and a client *)
(* that has not sent all of them is sending or has ended its request.      *)
Counted ==
    /\ inbox + got <= sent /\ sent <= req.size + 1
    /\ cpc = "sending" => sent <= req.size /\ ~fin
    /\ cpc = "reading" => fin \/ sent = req.size + 1
    /\ conn = "open" => inbox + got = sent
    /\ spc = "headers" => got = 0

(* The thread's place goes with the route; a body is read or dispatched    *)
(* only of a request that passed the gate.                                 *)
Placed ==
    /\ spc \in {"headers", "gate", "body", "dispatch"} => route = "serve"
    /\ spc \in {"body", "dispatch"} => GateVerdict = "none"
    /\ spc = "drain" => answer # "none"
    /\ conn = "open" <=> spc # "closed"

(* Once the server is about to close, its client has a reason to get no    *)
(* answer, or is gone, or has sent everything, all of which was read, and  *)
(* has only to read its answer.                                            *)
Settled ==
    \/ Excused
    \/ ClientGone
    \/ cpc = "reading" /\ answer # "none" /\ inbox = 0 /\ conn # "reset"

Parting == spc \in {"close", "closed"} => Settled

IInv == TypeOK /\ Counted /\ Placed /\ NoHalfRequestRuns /\ NoAnswerIsLost /\ Parting

(* What the gate lets through. *)
LEMMA GatePasses ==
    ASSUME req \in Requests, GateVerdict = "none"
    PROVE  /\ req.framing = "number"
           /\ req.length \in Nat /\ req.length <= MaxRequestSize
  BY SizeAssumption DEF GateVerdict, Requests, SizeVerdict, TooLarge, Missing, Lookup

LEMMA VerdictType == GateVerdict \in Statuses \cup {"none"}
  BY DEF GateVerdict, SizeVerdict, Statuses

LEMMA RequestType ==
    ASSUME req \in Requests
    PROVE  req.size \in 0..MaxSize /\ req.length \in Int
  BY SizeAssumption DEF Requests

LEMMA InitIInv == Init => IInv
  <1> SUFFICES ASSUME Init PROVE IInv
    OBVIOUS
  <1>1. req \in Requests /\ req.size \in Nat
    BY RequestType, SizeAssumption DEF Init
  <1>2. spc \in {"headers", "close", "reject"}
    BY DEF Init
  <1>3. /\ spc = "headers" => route = "serve"
        /\ spc = "close" => route = "close"
    BY DEF Init, Routes
  <1>4. TypeOK
    <2>1. /\ sent \in 0..MaxSize + 1 /\ inbox \in 0..BufferSize
          /\ got \in 0..MaxSize + 1
      BY SizeAssumption DEF Init
    <2>2. /\ route \in Routes /\ handler \in Handlers /\ timeout \in BOOLEAN
          /\ cpc = "sending" /\ conn = "open"
          /\ paused = FALSE /\ fin = FALSE /\ answer = "none" /\ gaveUp = FALSE
      BY DEF Init
    <2>3. QED
      BY <1>1, <1>2, <2>1, <2>2 DEF TypeOK, ServerPcs
  <1>5. Counted
    BY <1>1 DEF Init, Counted
  <1>6. Placed /\ NoHalfRequestRuns /\ NoAnswerIsLost
    BY <1>2, <1>3 DEF Init, Placed, NoHalfRequestRuns, NoAnswerIsLost
  <1>7. Parting
    BY <1>2, <1>3 DEF Init, Parting, Settled, Excused
  <1>8. QED
    BY <1>4, <1>5, <1>6, <1>7 DEF IInv

(* The reasons to get no answer do not go away. *)
LEMMA ExcusedStays ==
    ASSUME Excused, UNCHANGED <<route, handler, req>>, gaveUp => gaveUp', fin => fin'
    PROVE  Excused'
  BY DEF Excused, WellFormed, GateVerdict, SizeVerdict, TooLarge, Missing, Lookup

(* The client's steps. *)
LEMMA ClientIInv ==
    ASSUME IInv, Client
    PROVE  IInv'
  <1> USE DEF IInv
  <1>1. /\ UNCHANGED <<route, handler, timeout, req, serverVars>>
        /\ UNCHANGED <<got, spc, answer, gaveUp>>
    BY DEF Client, Send, Pause, HalfClose, Leave, Read, serverVars
  <1>2. req.size \in Nat /\ req.size <= MaxSize
    BY RequestType, SizeAssumption DEF TypeOK
  <1>3. /\ fin => fin'
        /\ cpc' = "sending" => cpc = "sending"
        /\ ClientGone => ClientGone' /\ conn' = conn
    BY DEF Client, Send, Pause, HalfClose, Leave, Read, ClientGone
  <1>4. TypeOK'
    <2>1. CASE Send
      <3>1. /\ sent' \in 0..MaxSize + 1 /\ inbox' \in 0..BufferSize
        BY <1>2, <2>1, SizeAssumption DEF Send, TypeOK, Counted
      <3>2. /\ cpc' \in {"reading", "sending"} /\ conn' \in {"open", "ended", "reset"}
            /\ paused' = FALSE /\ UNCHANGED fin
        BY <2>1 DEF Send, TypeOK
      <3>3. QED
        BY <1>1, <3>1, <3>2 DEF TypeOK
    <2>2. CASE Pause \/ HalfClose \/ Leave \/ Read
      BY <1>1, <2>2 DEF Pause, HalfClose, Leave, Read, TypeOK
    <2>3. QED
      BY <2>1, <2>2 DEF Client
  <1>5. Counted'
    <2>1. CASE Send
      BY <1>1, <1>2, <2>1 DEF Send, TypeOK, Counted
    <2>2. CASE Pause \/ HalfClose \/ Leave \/ Read
      BY <1>1, <2>2 DEF Pause, HalfClose, Leave, Read, Counted
    <2>3. QED
      BY <2>1, <2>2 DEF Client
  <1>6. GateVerdict' = GateVerdict /\ BodyRead' = BodyRead
    BY <1>1 DEF GateVerdict, SizeVerdict, TooLarge, Missing, Lookup, BodyRead
  <1>7. Placed'
    <2>1. conn' = "open" <=> conn = "open"
      BY DEF Client, Send, Pause, HalfClose, Leave, Read
    <2>2. QED
      BY <1>1, <1>6, <2>1 DEF Placed
  <1>8. NoHalfRequestRuns'
    BY <1>1, <1>3, <1>6 DEF NoHalfRequestRuns
  <1>9. Excused => Excused'
    BY <1>1, <1>3, ExcusedStays
  <1>10. NoAnswerIsLost'
    <2>1. SUFFICES ASSUME cpc' = "lost" PROVE Excused'
      BY DEF NoAnswerIsLost
    <2>2. CASE cpc = "lost"
      BY <1>9, <2>2 DEF NoAnswerIsLost
    <2>3. CASE cpc # "lost"
      <3>1. /\ cpc \in {"sending", "reading"}
            /\ \/ conn = "reset"
               \/ answer = "none" /\ conn = "ended"
        BY <2>1, <2>3 DEF Client, Send, Pause, HalfClose, Leave, Read
      <3>2. Settled
        BY <3>1 DEF Placed, Parting, TypeOK, ServerPcs
      <3>3. QED
        BY <1>9, <3>1, <3>2 DEF Settled, ClientGone
    <2>4. QED
      BY <2>2, <2>3
  <1>11. Parting'
    <2>1. SUFFICES ASSUME spc \in {"close", "closed"} PROVE Settled'
      BY <1>1 DEF Parting
    <2>2. CASE Excused
      BY <1>9, <2>2 DEF Settled
    <2>3. CASE ClientGone
      BY <1>3, <2>3 DEF Settled
    <2>4. CASE cpc = "reading" /\ answer # "none" /\ inbox = 0 /\ conn # "reset"
      <3>1. Leave \/ Read
        BY <2>4 DEF Client, Send, Pause, HalfClose
      <3>2. ClientGone'
        BY <3>1 DEF Leave, Read, ClientGone
      <3>3. QED
        BY <3>2 DEF Settled
    <2>5. QED
      BY <2>1, <2>2, <2>3, <2>4 DEF Parting, Settled
  <1>12. QED
    BY <1>4, <1>5, <1>7, <1>8, <1>10, <1>11

(* When the whole body of a well-formed request has been read, its client  *)
(* has nothing left to send.                                               *)
LEMMA AllRead ==
    ASSUME TypeOK, Counted, NoHalfRequestRuns, spc = "dispatch", WellFormed, ~ClientGone
    PROVE  cpc = "reading" /\ inbox = 0
  <1>1. /\ req.size \in Nat /\ req.length = req.size
        /\ got \in Nat /\ inbox \in Nat /\ sent \in Nat
    BY RequestType, SizeAssumption DEF TypeOK, WellFormed
  <1>2. ~(BodyRead < req.length)
    BY DEF NoHalfRequestRuns, WellFormed
  <1>3. got - 1 >= req.size
    BY <1>1, <1>2 DEF BodyRead
  <1>4. inbox = 0 /\ sent = req.size + 1
    BY <1>1, <1>3 DEF Counted
  <1>5. QED
    BY <1>1, <1>4 DEF Counted, TypeOK, ClientGone

(* The server's steps. *)
LEMMA ServerIInv ==
    ASSUME IInv, Server
    PROVE  IInv'
  <1> USE DEF IInv
  <1>1. /\ UNCHANGED <<route, handler, timeout, req, clientVars>>
        /\ UNCHANGED <<cpc, sent, paused, fin>>
    BY DEF Server, clientVars
  <1>2. /\ req.size \in Nat /\ req.size <= MaxSize /\ req.length \in Int
        /\ inbox \in Nat /\ got \in Nat /\ sent \in Nat
    BY RequestType, SizeAssumption DEF TypeOK
  <1>3. /\ GateVerdict' = GateVerdict /\ ClientGone' = ClientGone
        /\ gaveUp => gaveUp'
    <2>1. GateVerdict' = GateVerdict /\ ClientGone' = ClientGone
      BY <1>1 DEF GateVerdict, SizeVerdict, TooLarge, Missing, Lookup, ClientGone
    <2>2. gaveUp' = gaveUp \/ gaveUp' = TRUE \/ DrainEnds
      BY DEF Server, Receive, Ended, BodyComplete, TimesOut, Gate, Dispatch, Respond,
             Drain, Close
    <2>3. gaveUp => gaveUp'
      BY <2>2 DEF DrainEnds
    <2>4. QED
      BY <2>1, <2>3
  <1>4. Excused => Excused'
    BY <1>1, <1>3, ExcusedStays
  <1>5. /\ inbox' \in Nat /\ got' \in Nat /\ inbox' <= inbox
        /\ inbox' + got' = inbox + got
    BY <1>2 DEF Server, Receive, Ended, BodyComplete, TimesOut, Gate, Dispatch, Respond,
                Drain, DrainEnds, Close
  <1>6. Counted'
    <2>1. /\ conn' = "open" => conn = "open"
          /\ spc' # "headers"
      BY DEF Server, Receive, Ended, BodyComplete, TimesOut, Gate, Dispatch, Respond,
             Drain, DrainEnds, Close, Wanted, Finish
    <2>2. QED
      BY <1>1, <1>5, <2>1 DEF Counted
  <1>7. TypeOK'
    <2>1. /\ inbox' \in 0..BufferSize /\ got' \in 0..MaxSize + 1
      <3>1. sent <= MaxSize + 1 /\ inbox <= BufferSize
        BY <1>2, SizeAssumption DEF TypeOK
      <3>2. MaxSize \in Nat /\ BufferSize \in Nat
        BY SizeAssumption
      <3>3. inbox + got <= sent
        BY DEF Counted
      <3>4. got' <= sent
        <4>1. inbox' + got' <= sent
          BY <1>5, <3>3
        <4>2. inbox' \in Nat /\ got' \in Nat /\ sent \in Nat
          BY <1>2, <1>5
        <4>3. \A a, b, c \in Nat : a + b <= c => b <= c
          OBVIOUS
        <4>4. QED
          BY <4>1, <4>2, <4>3
      <3>5. QED
        BY <1>2, <1>5, <3>1, <3>2, <3>4
    <2>2. spc' \in ServerPcs
      BY DEF Server, Receive, Ended, BodyComplete, TimesOut, Gate, Dispatch, Respond,
             Drain, DrainEnds, Close, Finish, TypeOK, ServerPcs
    <2>3. answer' \in Statuses \cup {"none"}
      BY VerdictType
      DEF Server, Receive, Ended, BodyComplete, TimesOut, Gate, Dispatch, Respond,
          Drain, DrainEnds, Close, Finish, TypeOK, Statuses
    <2>4. conn' \in {"open", "ended", "reset"} /\ gaveUp' \in BOOLEAN
      BY DEF Server, Receive, Ended, BodyComplete, TimesOut, Gate, Dispatch, Respond,
             Drain, DrainEnds, Close, TypeOK
    <2>5. spc' = "body" => req.framing = "number"
      BY GatePasses
      DEF Server, Receive, Ended, BodyComplete, TimesOut, Gate, Dispatch, Respond,
          Drain, DrainEnds, Close, Finish, TypeOK
    <2>6. QED
      BY <1>1, <2>1, <2>2, <2>3, <2>4, <2>5 DEF TypeOK
  <1>8. Placed'
    <2>1. CASE Receive \/ Ended \/ BodyComplete \/ TimesOut
      BY <1>1, <1>3, <2>1
      DEF Receive, Ended, BodyComplete, TimesOut, Wanted, Finish, Placed
    <2>2. CASE Gate \/ Dispatch
      BY <1>1, <1>3, <2>2 DEF Gate, Dispatch, Finish, Placed
    <2>3. CASE Respond \/ Drain \/ DrainEnds
      BY <1>1, <1>3, <2>3 DEF Respond, Drain, DrainEnds, Placed
    <2>4. CASE Close
      BY <1>1, <1>3, <2>4 DEF Close, Placed
    <2>5. QED
      BY <2>1, <2>2, <2>3, <2>4 DEF Server
  <1>9. NoHalfRequestRuns'
    <2>1. SUFFICES ASSUME spc' = "dispatch", (BodyRead < req.length)'
                   PROVE  fin \/ ClientGone
      BY <1>1, <1>3 DEF NoHalfRequestRuns
    <2>2. CASE Ended
      BY <2>2 DEF Ended, EndOfFile
    <2>3. CASE BodyComplete
      BY <1>1, <1>2, <2>1, <2>3 DEF BodyComplete, BodyRead
    <2>4. QED
      BY <2>1, <2>2, <2>3
      DEF Server, Receive, TimesOut, Gate, Dispatch, Respond, Drain, DrainEnds, Close,
          Wanted, Finish
  <1>10. NoAnswerIsLost'
    BY <1>1, <1>4 DEF NoAnswerIsLost
  <1>11. Parting'
    <2>1. ASSUME spc # "close", spc' \in {"close", "closed"} PROVE Settled'
      <3>1. CASE Ended
        BY <1>1, <1>3, <2>1, <3>1
        DEF Ended, Wanted, EndOfFile, Placed, Settled, Excused, WellFormed
      <3>2. CASE TimesOut
        BY <3>2 DEF TimesOut, Settled, Excused
      <3>3. CASE Gate
        BY <1>4, <2>1, <3>3 DEF Gate, Placed, Settled, Excused, WellFormed
      <3>4. CASE Dispatch
        <4>1. /\ answer' # "none" /\ UNCHANGED <<inbox, conn>>
              /\ spc = "dispatch" /\ conn = "open" /\ route = "serve"
          BY <3>4 DEF Dispatch, Finish, Placed
        <4>2. CASE WellFormed /\ ~ClientGone
          BY <1>1, <4>1, <4>2, AllRead DEF Settled
        <4>3. CASE ~WellFormed
          BY <1>4, <4>1, <4>3 DEF Settled, Excused
        <4>4. CASE ClientGone
          BY <1>3, <4>4 DEF Settled
        <4>5. QED
          BY <4>2, <4>3, <4>4
      <3>5. CASE Respond
        BY <1>3, <2>1, <3>5 DEF Respond, Settled
      <3>6. CASE DrainEnds
        <4>1. /\ answer' # "none" /\ UNCHANGED <<inbox, conn>> /\ conn = "open"
          BY <3>6 DEF DrainEnds, Placed
        <4>2. CASE gaveUp'
          BY <4>2 DEF Settled, Excused
        <4>3. CASE ~gaveUp'
          <5>1. inbox = 0
            BY <3>6 DEF DrainEnds, EndOfFile, PatienceEnds, Silent
          <5>2. cpc # "sending"
            BY <3>6, <4>3 DEF DrainEnds, EndOfFile, ClientGone, Counted
          <5>3. QED
            BY <1>1, <1>3, <4>1, <5>1, <5>2 DEF Settled, TypeOK, ClientGone
        <4>4. QED
          BY <4>2, <4>3
      <3>7. QED
        BY <2>1, <3>1, <3>2, <3>3, <3>4, <3>5, <3>6
        DEF Server, Receive, BodyComplete, Drain, Close, Wanted, Placed
    <2>2. ASSUME spc = "close" PROVE Settled'
      <3>1. Close
        BY <2>2 DEF Server, Receive, Ended, BodyComplete, TimesOut, Gate, Dispatch,
                    Respond, Drain, DrainEnds, Wanted
      <3>2. inbox = 0 => conn' = "ended"
        BY <3>1, <1>2 DEF Close
      <3>3. UNCHANGED <<answer, inbox>>
        BY <3>1 DEF Close
      <3>4. Settled
        BY <2>2 DEF Parting
      <3>5. QED
        BY <1>1, <1>3, <1>4, <3>2, <3>3, <3>4 DEF Settled
    <2>3. QED
      BY <2>1, <2>2 DEF Parting
  <1>12. QED
    BY <1>6, <1>7, <1>8, <1>9, <1>10, <1>11

(* The invariant of an exchange holds in every reachable state (162-185,   *)
(* 399-454).                                                               *)
THEOREM Invariance == Spec => []IInv
  <1>1. Init => IInv
    BY InitIInv
  <1>2. IInv /\ [Next]_vars => IInv'
    <2>1. SUFFICES ASSUME IInv, UNCHANGED vars PROVE IInv'
      BY ClientIInv, ServerIInv DEF Next
    <2>2. QED
      BY <2>1 DEF vars, clientVars, serverVars, IInv, TypeOK, Counted, Placed,
         NoHalfRequestRuns, NoAnswerIsLost, Parting, Settled, Excused, WellFormed,
         ClientGone, BodyRead, GateVerdict, SizeVerdict, TooLarge, Missing, Lookup
  <1>3. QED
    BY <1>1, <1>2, PTL DEF Spec

(* Every variable keeps its type; in particular the handler only ever      *)
(* reads a body whose Content-Length is a number.                          *)
THEOREM TypeCorrect == Spec => []TypeOK
  <1>1. IInv => TypeOK
    BY DEF IInv
  <1>2. QED
    BY <1>1, Invariance, PTL

(* The handler never holds more of a body than max_request_size, whatever  *)
(* the client announces and sends.                                         *)
THEOREM BodiesAreBounded == Spec => []BodyIsBounded
  <1>1. IInv => BodyIsBounded
    <2>1. SUFFICES ASSUME IInv, spc \in {"body", "dispatch"}
                   PROVE  BodyRead <= MaxRequestSize
      BY DEF BodyIsBounded
    <2>2. /\ req.length \in Nat /\ req.length <= MaxRequestSize
          /\ got \in Nat /\ MaxRequestSize \in Nat
      BY <2>1, GatePasses, SizeAssumption DEF IInv, Placed, TypeOK
    <2>3. QED
      BY <2>2 DEF BodyRead
  <1>2. QED
    BY <1>1, Invariance, PTL

(* A timeout never has half a request run. *)
THEOREM HalfRequestsDoNotRun == Spec => []NoHalfRequestRuns
  <1>1. IInv => NoHalfRequestRuns
    BY DEF IInv
  <1>2. QED
    BY <1>1, Invariance, PTL

(* A client whose request is well-formed, or which is turned away with a   *)
(* fault or a 503, gets to read its answer unless it had fallen silent.    *)
THEOREM AnswersArrive == Spec => []NoAnswerIsLost
  <1>1. IInv => NoAnswerIsLost
    BY DEF IInv
  <1>2. QED
    BY <1>1, Invariance, PTL

(* Client and server wait for each other only over a body that is shorter  *)
(* than announced.                                                         *)
THEOREM CompleteRequestsDoNotHang == Spec => []OnlyShortBodiesHang
  <1>1. IInv => OnlyShortBodiesHang
    <2>1. SUFFICES ASSUME IInv, cpc = "reading", answer = "none", ServerWaits
                   PROVE  spc = "body" /\ req.size < req.length
      BY DEF OnlyShortBodiesHang
    <2>2. /\ req.size \in Nat /\ req.length \in Int
          /\ inbox \in Nat /\ got \in Nat /\ sent \in Nat
      BY <2>1, RequestType, SizeAssumption DEF IInv, TypeOK
    <2>3. spc \in {"headers", "body"} /\ inbox = 0 /\ ~fin
      BY <2>1 DEF ServerWaits, Wanted, EndOfFile, ClientGone, IInv, Placed
    <2>4. conn = "open" /\ got = req.size + 1
      BY <2>1, <2>2, <2>3 DEF IInv, Placed, Counted
    <2>5. spc = "body" /\ BodyRead # req.length
      BY <2>1, <2>2, <2>3, <2>4 DEF ServerWaits, Wanted, IInv, Counted
    <2>6. req.length \in Nat
      BY <2>1, <2>5, GatePasses DEF IInv, Placed, TypeOK
    <2>7. QED
      BY <2>2, <2>4, <2>5, <2>6 DEF BodyRead
  <1>2. QED
    BY <1>1, Invariance, PTL

(* The server takes at most MaxSize + 6 steps for a connection: what is    *)
(* left of them is a natural number, and each step makes it smaller.       *)
THEOREM ServerStepsAreBounded ==
    Spec => [](StepsLeft \in 0 .. MaxSize + 6) /\ EveryStepCounts
  <1>1. IInv => StepsLeft \in 0 .. MaxSize + 6
    BY SizeAssumption DEF IInv, TypeOK, ServerPcs, StepsLeft
  <1>2. ASSUME IInv, Server PROVE StepsLeft' < StepsLeft
    <2>1. /\ MaxSize \in Nat /\ got \in Nat /\ inbox \in Nat
          /\ spc \in ServerPcs
      BY <1>2, SizeAssumption DEF IInv, TypeOK
    <2>2. CASE Receive
      <3>1. /\ got' \in Nat /\ got' > got
            /\ \/ spc = "headers" /\ spc' = "gate"
               \/ spc = "body" /\ spc' = "body"
        BY <2>1, <2>2 DEF Receive, Wanted
      <3>2. QED
        BY <2>1, <3>1 DEF StepsLeft
    <2>3. CASE Drain
      <3>1. got' \in Nat /\ got' > got /\ spc' = spc
        BY <2>1, <2>3 DEF Drain
      <3>2. QED
        BY <2>1, <3>1 DEF StepsLeft, ServerPcs
    <2>4. CASE Ended \/ BodyComplete \/ TimesOut
      BY <2>1, <2>4 DEF Ended, BodyComplete, TimesOut, Wanted, Finish, StepsLeft
    <2>5. CASE Gate \/ Dispatch
      BY <2>1, <2>5 DEF Gate, Dispatch, Finish, StepsLeft
    <2>6. CASE Respond \/ DrainEnds \/ Close
      BY <2>1, <2>6 DEF Respond, DrainEnds, Close, StepsLeft
    <2>7. QED
      BY <1>2, <2>2, <2>3, <2>4, <2>5, <2>6 DEF Server
  <1>3. Spec => [](StepsLeft \in 0 .. MaxSize + 6)
    BY <1>1, Invariance, PTL
  <1>4. Spec => EveryStepCounts
    BY <1>2, Invariance, PTL DEF Spec, EveryStepCounts
  <1>5. QED
    BY <1>3, <1>4
=============================================================================
