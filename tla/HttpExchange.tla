---------------------------- MODULE HttpExchange ----------------------------
(***************************************************************************)
(* One connection of ThreadPoolXMLRPCServer, seen from inside: the client  *)
(* that sends a request and then reads, the kernel's buffers between the   *)
(* two, and the thread of the server that has the connection: a worker in  *)
(* LimitedXMLRPCRequestHandler.do_POST, or the accept thread that turns    *)
(* the client away (server.py 162-185, 388-454).                           *)
(*                                                                         *)
(* A message is counted in units: one for the headers, then the body's.    *)
(* The client sends all of it before it reads, as xmlrpc.client does.  The *)
(* handler speaks HTTP/1.0: one request per connection.                    *)
(***************************************************************************)
EXTENDS Integers, Sequences

CONSTANTS
    MaxRequestSize,     \* max_request_size, in units
    MaxSize,            \* the largest body a client sends or announces
    BufferSize          \* how much the kernel holds for the server

ASSUME SizeAssumption ==
    /\ MaxRequestSize \in Nat \ {0} /\ MaxSize \in Nat
    /\ BufferSize \in Nat \ {0}

(* framing: the Transfer-Encoding is chunked, or the Content-Length is     *)
(* missing, not a number, or the number `length`.  size: the body's real   *)
(* size.  path: whether the path is one of rpc_paths.                      *)
Requests ==
    [framing : {"chunked", "missing", "invalid", "number"},
     length : -1..MaxSize, size : 0..MaxSize, path : BOOLEAN]

Routes == {"serve", "fault", "http_503", "close"}

(* The requestHandler given to the server: LimitedXMLRPCRequestHandler, or *)
(* another subclass of the standard library's, with a do_POST of its own   *)
(* or the inherited one.  A subclass of the former that overrides do_POST  *)
(* opts out of the gate and is left out.                                   *)
Handlers == {"limited", "foreign"}

VARIABLES
    route,      \* whether the connection got a permit, else the policy
    handler,    \* the class that was given as requestHandler
    timeout,    \* whether connection_timeout is set
    req,        \* the request
    cpc,        \* where the client is
    sent,       \* how many units it has sent
    paused,     \* it has been silent for longer than the server's timeout
    fin,        \* it has shut its sending side before it had sent all
    inbox,      \* units the kernel holds for the server
    got,        \* units the server has read
    spc,        \* where the server's thread is
    answer,     \* the answer it has sent
    conn,       \* the server's side: open, ended (close), or reset
    gaveUp      \* history: the server has timed out on a client still sending

clientVars == <<cpc, sent, paused, fin>>
serverVars == <<got, spc, answer, gaveUp>>
vars == <<route, handler, timeout, req, clientVars, inbox, serverVars, conn>>

ServerPcs == {"headers", "gate", "body", "dispatch", "reject", "drain", "close", "closed"}
Statuses == {"200", "400", "404", "411", "413", "500", "501", "503", "fault"}

TypeOK ==
    /\ route \in Routes /\ handler \in Handlers /\ timeout \in BOOLEAN
    /\ req \in Requests
    /\ cpc \in {"sending", "reading", "answered", "lost", "left"}
    /\ sent \in 0..MaxSize + 1 /\ paused \in BOOLEAN /\ fin \in BOOLEAN
    /\ inbox \in 0..BufferSize /\ got \in 0..MaxSize + 1
    /\ spc \in ServerPcs
    /\ answer \in Statuses \cup {"none"}
    /\ conn \in {"open", "ended", "reset"} /\ gaveUp \in BOOLEAN
    /\ spc = "body" => req.framing = "number"

Init ==
    /\ route \in Routes /\ handler \in Handlers /\ timeout \in BOOLEAN
    /\ req \in {r \in Requests : r.framing = "number" \/ r.length = 0}
    /\ cpc = "sending" /\ sent = 0 /\ paused = FALSE /\ fin = FALSE
    /\ inbox = 0 /\ got = 0
    /\ spc = CASE route = "serve" -> "headers"
               [] route = "close" -> "close"
               [] OTHER -> "reject"
    /\ answer = "none" /\ conn = "open" /\ gaveUp = FALSE

-----------------------------------------------------------------------------
(* The client and the kernel.                                              *)

(* A unit for a socket that is closed makes the kernel answer with a       *)
(* reset, which may still be on its way.                                   *)
Send ==
    /\ cpc = "sending" /\ conn # "reset"
    /\ \/ /\ conn = "open" /\ inbox < BufferSize
          /\ inbox' = inbox + 1
          /\ UNCHANGED conn
       \/ /\ conn = "ended"
          /\ conn' \in {"ended", "reset"}
          /\ UNCHANGED inbox
    /\ sent' = sent + 1
    /\ cpc' = IF sent = req.size THEN "reading" ELSE "sending"
    /\ paused' = FALSE
    /\ UNCHANGED <<fin, serverVars>>

Pause ==
    /\ cpc = "sending" /\ ~paused
    /\ paused' = TRUE
    /\ UNCHANGED <<cpc, sent, fin, inbox, serverVars, conn>>

(* It may also end its request early, or close the connection. *)
HalfClose ==
    /\ cpc = "sending" /\ conn # "reset"
    /\ cpc' = "reading" /\ fin' = TRUE
    /\ UNCHANGED <<sent, paused, inbox, serverVars, conn>>

Leave ==
    /\ cpc \in {"sending", "reading"}
    /\ cpc' = "left"
    /\ UNCHANGED <<sent, paused, fin, inbox, serverVars, conn>>

(* A reset fails the call, also one that is still sending, and throws away *)
(* what the client had not read; so does the end of an unanswered one.     *)
Read ==
    /\ \/ /\ cpc = "reading" /\ answer # "none" /\ conn # "reset"
          /\ cpc' = "answered"
       \/ /\ \/ cpc \in {"sending", "reading"} /\ conn = "reset"
             \/ cpc = "reading" /\ answer = "none" /\ conn = "ended"
          /\ cpc' = "lost"
    /\ UNCHANGED <<sent, paused, fin, inbox, serverVars, conn>>

Client == (Send \/ Pause \/ HalfClose \/ Leave \/ Read) /\ UNCHANGED <<route, handler, timeout, req>>

-----------------------------------------------------------------------------
(* The server.                                                             *)

ClientGone == cpc \in {"answered", "lost", "left"}
EndOfFile == inbox = 0 /\ (fin \/ ClientGone)

(* A read can time out when the client has been silent for long enough. *)
Silent == inbox = 0 /\ ~fin /\ (paused \/ cpc = "reading")

(* How much of the body the handler has been handed: a read of a negative  *)
(* size would go on to the end of the file.                                *)
BodyRead ==
    IF req.length < 0 \/ got - 1 < req.length THEN got - 1 ELSE req.length

(* The body is read up to the end of the file, not to its length. *)
MutWanted == spc \in {"headers", "body"}
Wanted == spc = "headers" \/ (spc = "body" /\ BodyRead # req.length)

(* The buffered reader takes what the kernel has, or a part of it. *)
Receive ==
    /\ Wanted
    /\ \E n \in 1..inbox : inbox' = inbox - n /\ got' = got + n
    /\ spc' = IF spc = "headers" THEN "gate" ELSE spc
    /\ UNCHANGED <<answer, conn, gaveUp>>

(* End of file before the headers ends the handler; in the body, what has  *)
(* come so far is dispatched.                                              *)
Ended ==
    /\ Wanted /\ EndOfFile
    /\ spc' = IF spc = "headers" THEN "close" ELSE "dispatch"
    /\ UNCHANGED <<inbox, got, answer, conn, gaveUp>>

BodyComplete ==
    /\ spc = "body" /\ BodyRead = req.length
    /\ spc' = "dispatch"
    /\ UNCHANGED <<inbox, got, answer, conn, gaveUp>>

(* A connection that was served is kept, as by HTTP/1.1. *)
MutFinish(status) ==
    answer' = status /\ spc' = IF status = "200" THEN "headers" ELSE "close"

(* An answer nobody is there to read is lost, or the write raises; either  *)
(* way shutdown_request is next.                                           *)
Finish(status) == answer' = status /\ spc' = "close"

(* What has come of the body is dispatched. *)
MutTimesOut ==
    /\ Wanted /\ timeout /\ Silent
    /\ gaveUp' = TRUE
    /\ spc' = IF spc = "headers" THEN "close" ELSE "dispatch"
    /\ UNCHANGED <<inbox, got, answer, conn>>

(* A timeout in the headers is swallowed by handle_one_request, one in the *)
(* body is answered with a 500.                                            *)
TimesOut ==
    /\ Wanted /\ timeout /\ Silent
    /\ gaveUp' = TRUE
    /\ \/ spc = "headers" /\ spc' = "close" /\ UNCHANGED answer
       \/ spc = "body" /\ Finish("500")
    /\ UNCHANGED <<inbox, got, conn>>

(* _build_request_handler: the classes in the order in which a method is   *)
(* looked up; the gate is in the first of them, or it is never run.        *)
MutLookup == IF handler = "limited" THEN <<handler>> ELSE <<handler, "limited">>
Lookup == IF handler = "limited" THEN <<handler>> ELSE <<"limited", handler>>

TooLarge == req.length > MaxRequestSize

(* int(None) for a missing header. *)
MutMissing == FALSE
Missing == req.framing = "missing"

(* What do_POST says of the body's announcement. *)
SizeVerdict ==
    CASE req.framing = "chunked" -> "501"
      [] Missing -> "411"
      [] req.framing = "invalid" \/ req.length < 0 -> "400"
      [] TooLarge -> "413"
      [] OTHER -> "none"

(* The gate, if it is looked up, and the check of the path it inherits. *)
GateVerdict ==
    IF Head(Lookup) = "limited" /\ SizeVerdict # "none" THEN SizeVerdict
    ELSE IF req.path THEN "none" ELSE "404"

Gate ==
    /\ spc = "gate"
    /\ \/ GateVerdict = "none" /\ spc' = "body" /\ UNCHANGED answer
       \/ GateVerdict # "none" /\ Finish(GateVerdict)
    /\ UNCHANGED <<inbox, got, conn, gaveUp>>

(* The dispatcher answers with a result or a fault, which is a 200, or     *)
(* with a 500; a body in an unknown encoding with a 501 or a 400.          *)
Dispatch ==
    /\ spc = "dispatch"
    /\ \E status \in {"200", "400", "500", "501"} : Finish(status)
    /\ UNCHANGED <<inbox, got, conn, gaveUp>>

(* Send the fault or the 503 and half-close; a client that is gone makes   *)
(* either raise, which skips the draining.                                 *)
Respond ==
    /\ spc = "reject"
    /\ \/ /\ answer' = IF route = "fault" THEN "fault" ELSE "503"
          /\ spc' = "drain"
       \/ /\ ClientGone
          /\ spc' = "close"
          /\ UNCHANGED answer
    /\ UNCHANGED <<inbox, got, conn, gaveUp>>

(* The drain stops after one read. *)
MutDrain ==
    /\ spc = "drain" /\ inbox > 0
    /\ \E n \in 1..inbox : inbox' = inbox - n /\ got' = got + n
    /\ spc' = "close"
    /\ UNCHANGED <<answer, conn, gaveUp>>

Drain ==
    /\ spc = "drain" /\ inbox > 0
    /\ \E n \in 1..inbox : inbox' = inbox - n /\ got' = got + n
    /\ UNCHANGED <<spc, answer, conn, gaveUp>>

(* No settimeout before the drain. *)
MutPatienceEnds == timeout /\ Silent

(* Each recv of the drain has a second. *)
PatienceEnds == Silent

DrainEnds ==
    /\ spc = "drain" /\ (EndOfFile \/ PatienceEnds)
    /\ gaveUp' = (gaveUp \/ (~EndOfFile /\ cpc = "sending"))
    /\ spc' = "close"
    /\ UNCHANGED <<inbox, got, answer, conn>>

(* shutdown_request: the kernel ends the connection, or resets it if there *)
(* is something the server has not read.                                   *)
Close ==
    /\ spc = "close"
    /\ spc' = "closed"
    /\ conn' = IF inbox > 0 THEN "reset" ELSE "ended"
    /\ UNCHANGED <<inbox, got, answer, gaveUp>>

Server ==
    /\ \/ Receive \/ Ended \/ BodyComplete \/ TimesOut
       \/ Gate \/ Dispatch
       \/ Respond \/ Drain \/ DrainEnds
       \/ Close
    /\ UNCHANGED <<route, handler, timeout, req, clientVars>>

Next == Client \/ Server

(* The server's thread runs.  A client that still has to send either sends *)
(* or has, at some point, been silent for too long.                        *)
Fairness ==
    /\ WF_vars(Server)
    /\ WF_vars((Send \/ Pause) /\ UNCHANGED <<route, handler, timeout, req>>)

Spec == Init /\ [][Next]_vars
FairSpec == Spec /\ Fairness

-----------------------------------------------------------------------------
(* The handler never holds more of a body than max_request_size, whatever  *)
(* length the client announces and whatever it sends (180-182).            *)
BodyIsBounded == spc \in {"body", "dispatch"} => BodyRead <= MaxRequestSize

(* A body that is not what its Content-Length announced is dispatched only *)
(* if the client has ended it; a timeout never runs half a request.        *)
NoHalfRequestRuns ==
    spc = "dispatch" /\ BodyRead < req.length => fin \/ ClientGone

(* The request is one the gate lets through, of the size it announced, and *)
(* its client sends all of it.                                             *)
WellFormed == GateVerdict = "none" /\ req.size = req.length /\ ~fin

(* Why a client may be left without an answer: the close policy, a silence *)
(* of its own, or a request that was to be served and is not well-formed.  *)
Excused == route = "close" \/ gaveUp \/ (route = "serve" /\ ~WellFormed)

(* No other client's call fails for want of an answer.  In particular one  *)
(* that was turned away always gets to read the fault or the 503, however  *)
(* much of its request it still had to send: the comment at 417-419.       *)
NoAnswerIsLost == cpc = "lost" => Excused

(* The server can only wait for the client to send, or to end its request. *)
ServerWaits == (Wanted \/ spc = "drain") /\ inbox = 0 /\ ~EndOfFile

(* Client and server wait for each other only over a body that is shorter  *)
(* than its Content-Length, which connection_timeout alone can end.  Of    *)
(* any other request that is sent whole, do_POST reads what it waits for   *)
(* (162-185), and no further.                                              *)
OnlyShortBodiesHang ==
    cpc = "reading" /\ answer = "none" /\ ServerWaits =>
        spc = "body" /\ req.size < req.length

(* How many steps the server may still take: one for each unit, and those  *)
(* that lie between its place and the end.                                 *)
StepsLeft ==
    MaxSize + 1 - got
      + CASE spc = "headers" -> 5
          [] spc = "gate" -> 4
          [] spc \in {"body", "reject"} -> 3
          [] spc \in {"dispatch", "drain"} -> 2
          [] spc = "close" -> 1
          [] spc = "closed" -> 0

(* Every step of the server brings the exchange nearer to its end, on all  *)
(* paths and whatever the client does: it serves one request and never     *)
(* comes round again.                                                      *)
EveryStepCounts == [][Server => StepsLeft' < StepsLeft]_vars

(* The server lets go of every client it turns away, and of every client   *)
(* at all if connection_timeout is set, as long as messages are finite.    *)
ServerLetsGo == (route # "serve" \/ timeout) ~> spc = "closed"
=============================================================================
