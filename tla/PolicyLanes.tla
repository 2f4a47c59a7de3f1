---------------------------- MODULE PolicyLanes ----------------------------
(***************************************************************************)
(* The policy lanes of the pending queue (policy_queue.rs) and the order   *)
(* in which the supervisor takes pending records                           *)
(* (collect_pending_queue_paths).  A lane is represented by its priority.  *)
(***************************************************************************)
EXTENDS JobTables

\* PolicyClass::priority: sanction_sensitive, privileged, budget_heavy, standard.
SanctionSensitive == 3
Privileged        == 2
BudgetHeavy       == 1
Standard          == 0
PolicyClass       == Standard .. SanctionSensitive

\* classify_action.  A sanctioned agent outranks the kind of its action, which
\* is "privileged" (admin, authority, court), "heavy" (more than 1 USD) or
\* "plain".
ClassifyAction(kind, hasSanctions) ==
    CASE hasSanctions        -> SanctionSensitive
      [] kind = "privileged" -> Privileged
      [] kind = "heavy"      -> BudgetHeavy
      [] OTHER               -> Standard

\* A pending record: its lane is the directory, its name is the second it was
\* written in followed by the agent and the job.
QueueFile == [lane : PolicyClass, at : Nat, job : Jobs]

\* The name alone.  processed/ and failed/ have no lane directories.
FileName == [at : Nat, job : Jobs]

NameOf(f) == [at |-> f.at, job |-> f.job]

\* Lanes by priority, names in lexical order within a lane.
Before(f, g) ==
    \/ f.lane > g.lane
    \/ /\ f.lane = g.lane
       /\ \/ f.at < g.at
          \/ f.at = g.at /\ f.job <= g.job

\* f is the record of S the supervisor takes first.
IsFirst(f, S) == f \in S /\ \A g \in S : Before(f, g)
=============================================================================
