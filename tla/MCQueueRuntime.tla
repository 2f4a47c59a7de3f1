--------------------------- MODULE MCQueueRuntime ---------------------------
(***************************************************************************)
(* Small instances of QueueRuntime.  Job 2 is a privileged action, job 1 a *)
(* plain one, so that the lanes order them against their numbers and the   *)
(* time they were written.                                                 *)
(***************************************************************************)
EXTENDS QueueRuntime, TLC

MCKind == [j \in Jobs |-> IF j = 2 THEN "privileged" ELSE "plain"]

\* The actors are interchangeable: no action or invariant names one.
ActorSymmetry == Permutations(Actors)
=============================================================================
