----------------------------- MODULE BudgetOnce -----------------------------
(***************************************************************************)
(* What is expected of the budget of executions: it is set aside before    *)
(* the worker runs, and settled once, after it: charged when the worker    *)
(* completed, given back when it did not.  A reservation may be left as it *)
(* is, when the execution or the treasury fails.                           *)
(***************************************************************************)
CONSTANT Execs

VARIABLES
    treasury,  \* the reservation of each execution
    ran,       \* the executions whose worker was started
    completed  \* those whose worker completed

Init == treasury = [e \in Execs |-> "none"] /\ ran = {} /\ completed = {}

Settle(e, s) == treasury' = [treasury EXCEPT ![e] = s]

Reserve(e) ==
    /\ treasury[e] = "none" /\ e \notin ran
    /\ Settle(e, "reserved")
    /\ UNCHANGED <<ran, completed>>

Run(e) ==
    /\ e \notin ran
    /\ ran' = ran \cup {e}
    /\ UNCHANGED <<treasury, completed>>

Complete(e) ==
    /\ e \in ran
    /\ completed' = completed \cup {e}
    /\ UNCHANGED <<treasury, ran>>

Commit(e) ==
    /\ treasury[e] = "reserved" /\ e \in completed
    /\ Settle(e, "committed")
    /\ UNCHANGED <<ran, completed>>

Release(e) ==
    /\ treasury[e] = "reserved" /\ e \notin completed
    /\ Settle(e, "released")
    /\ UNCHANGED <<ran, completed>>

Next == \E e \in Execs :
    Reserve(e) \/ Run(e) \/ Complete(e) \/ Commit(e) \/ Release(e)

Spec == Init /\ [][Next]_<<treasury, ran, completed>>
=============================================================================
