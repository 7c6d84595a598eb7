----------------------------- MODULE MCJobQueue -----------------------------
(***************************************************************************)
(* Instances of JobQueue for TLC: thread a runs in worker process w, and   *)
(* thread b in w too (WORKER_COUNT = 2) or in a second process v.          *)
(***************************************************************************)
EXTENDS JobQueueRefinement, TLC

CONSTANTS a, b, v, w

InOneProcess   == [t \in Threads |-> w]
InTwoProcesses == a :> w @@ b :> v

=============================================================================
