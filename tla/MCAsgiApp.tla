----------------------------- MODULE MCAsgiApp -----------------------------
(***************************************************************************)
(* Instances of AsgiApp for TLC: who closes the application.               *)
(***************************************************************************)
EXTENDS AsgiApp

CONSTANTS s1, s2, k1, k2

(* One lifespan, one thread, two threads, a lifespan and a thread, and two *)
(* lifespans one after the other.                                          *)
AllCasts == {{s1}, {k1}, {k1, k2}, {s1, k1}, {s1, s2}}

(* A lifespan only. *)
LifespanCast == {{s1}}
=============================================================================
