----------------------------- MODULE MCRequestGuard -----------------------------
(***************************************************************************)
(* An instance of RequestGuard for TLC: two deliveries of one command and  *)
(* one of another reach a process with one worker.                         *)
(***************************************************************************)
EXTENDS RequestGuard, TLC

CONSTANTS r1, r2, r3, c1, c2, p1, w1

MCReqs == {r1, r2, r3}
TwoCommands == (r1 :> c1) @@ (r2 :> c1) @@ (r3 :> c2)
OneProc == [r \in MCReqs |-> p1]
OneWorker == w1 :> p1
================================================================================
