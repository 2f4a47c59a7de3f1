------------------------- MODULE MCRuntimeExecution -------------------------
(***************************************************************************)
(* Small instances of RuntimeExecution: two executions of one job, as      *)
(* after a second enqueue.                                                 *)
(***************************************************************************)
EXTENDS RuntimeExecution

MCJobOf == [e \in Execs |-> 1]
=============================================================================
