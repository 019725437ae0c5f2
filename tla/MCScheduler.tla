---------------------------- MODULE MCScheduler ----------------------------
(* Small instances of Scheduler for TLC.                                   *)
EXTENDS Scheduler, TLC

CONSTANTS q1, q2

(* q1 stands for the work of a parent group, q2 for that of a child group; *)
(* one rank is left between them for a job without a queue.                *)
MCLevel == (q1 :> 3) @@ (q2 :> 1)
=============================================================================
