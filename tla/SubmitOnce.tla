----------------------------- MODULE SubmitOnce -----------------------------
(***************************************************************************)
(* What the service's ingress promises its clients, in terms of the queue  *)
(* records a submission or an imported delivery makes and the receipts     *)
(* (for a delivery, the marker) it gets:                                   *)
(*                                                                         *)
(*   - a source makes at most one record, however often it is retried;     *)
(*   - it is accepted only when there is a record of its job, its own or   *)
(*     one made for another source with the same content;                  *)
(*   - it makes no record once it is accepted.                             *)
(***************************************************************************)
EXTENDS Naturals

CONSTANTS
    Sources,  \* submissions and deliveries
    JobOf     \* the job id of each: the hash of its content

VARIABLES
    records,  \* how many queue records each source has made
    accepted  \* the sources that have been accepted

Init == records = [s \in Sources |-> 0] /\ accepted = {}

MakeRecord(s) ==
    /\ records[s] = 0 /\ s \notin accepted
    /\ records' = [records EXCEPT ![s] = 1]
    /\ UNCHANGED accepted

Accept(s) ==
    /\ \E t \in Sources : JobOf[t] = JobOf[s] /\ records[t] > 0
    /\ accepted' = accepted \cup {s}
    /\ UNCHANGED records

Next == \E s \in Sources : MakeRecord(s) \/ Accept(s)

Spec == Init /\ [][Next]_<<records, accepted>>
=============================================================================
