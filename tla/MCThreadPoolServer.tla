------------------------- MODULE MCThreadPoolServer -------------------------
(***************************************************************************)
(* Instances of ThreadPoolServer for TLC: the shutdown scripts.            *)
(***************************************************************************)
EXTENDS ThreadPoolServer, TLC

CONSTANTS k1, k2, w1

(* Used for safety only.  Where a worker has a script, only connections    *)
(* are interchangeable.                                                    *)
ConnSymmetry == Permutations(Conns)
Symmetry == Permutations(Conns) \cup Permutations(Workers)

(* Nobody shuts the server down. *)
NoScripts == {<<>>}

StopThenClose == <<"shutdown", "server_close">>

(* Stop the loop and close, as the tests do, while a second thread closes  *)
(* too; or close the server under a running loop, which a method may have  *)
(* tried before.                                                           *)
ShutdownScripts ==
    {(k1 :> StopThenClose) @@ (k2 :> <<"server_close">>) @@ (w1 :> <<>>),
     (k1 :> <<"server_close">>) @@ (k2 :> <<>>) @@ (w1 :> <<"server_close">>)}

(* Stop the loop and close, while a method may try to close; or shut the   *)
(* executor down without waiting and close, while a method may stop the    *)
(* loop.                                                                   *)
LivenessScripts ==
    {(k1 :> StopThenClose) @@ (w1 :> <<"server_close">>),
     (k1 :> <<"executor_nowait", "server_close">>) @@ (w1 :> <<"shutdown">>)}

(* The executor is shut down and the loop goes on. *)
NoWaitOnly == {k1 :> <<"executor_nowait">>}
=============================================================================
