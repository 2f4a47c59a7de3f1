----------------------- MODULE RuntimeExecution_proofs -----------------------
(***************************************************************************)
(* What holds of any number of executions, overlapping or not, whatever    *)
(* call fails and whoever dies: the types, the agreement of the books, and *)
(* that the budget is set aside, charged and given back as BudgetOnce says;*)
(* and that the audit log loses no line while executions do not overlap.   *)
(***************************************************************************)
EXTENDS RuntimeExecution, TLAPS

\* An array stays one when an element is replaced by one of its kind.
LEMMA Replaced ==
    ASSUME NEW S, NEW T, NEW f \in [S -> T], NEW e \in S, NEW v \in T
    PROVE  [f EXCEPT ![e] = v] \in [S -> T]
  OBVIOUS

\* A result that an execution writes is a result of its job.
LEMMA Written ==
    ASSUME NEW e \in Execs, TypeOK
    PROVE  [results EXCEPT ![JobOf[e]] = {e}] \in [Jobs -> SUBSET Execs]
<1>1. JobOf[e] \in Jobs /\ {e} \in SUBSET Execs
  BY DEF Jobs
<1>2. results \in [Jobs -> SUBSET Execs]
  BY DEF TypeOK
<1> QED
  BY <1>1, <1>2, Replaced

\* An execution goes from a place to a place.
LEMMA Moved ==
    ASSUME NEW e \in Execs, TypeOK, NEW l \in Active \cup Ended, Goto(e, l)
    PROVE  pc' \in [Execs -> {"idle"} \cup Active \cup Ended]
<1> QED
  BY Replaced DEF TypeOK, Goto

\* What an execution writes to the audit log, or has written there, is a line of it.
LEMMA LineType ==
    ASSUME NEW e \in Execs, TypeOK
    PROVE  Line(e, AuditParity(e)) \in Lines /\ Line(e, FallbackParity(e)) \in Lines
<1>1. budget[e] \in Budgets
  BY DEF TypeOK
<1>2. /\ AuditParity(e) \in {"match", "divergence", "unknown"}
      /\ FallbackParity(e) \in {"match", "divergence", "unknown"}
  BY DEF AuditParity, FallbackParity
<1> QED
  BY <1>1, <1>2 DEF Line, Lines

\* Every reachable state of the executions and what they share is well typed.
THEOREM TypeCorrect == Spec => []TypeOK
<1>1. Init => TypeOK
  <2> SUFFICES ASSUME Init PROVE TypeOK
    OBVIOUS
  <2>1. /\ NoDecision \in [reference : BOOLEAN, overall : Decisions]
        /\ NoReport \in Reports
    BY DEF NoDecision, NoReport, Decisions, Reports, Statuses
  <2>2. /\ pc \in [Execs -> {"idle"} \cup Active \cup Ended]
        /\ decision \in [Execs -> [reference : BOOLEAN, overall : Decisions]]
        /\ report \in [Execs -> Reports]
    BY <2>1 DEF Init
  <2>3. /\ budget \in [Execs -> Budgets] /\ outcome \in [Execs -> Outcomes]
        /\ success \in [Execs -> BOOLEAN]
        /\ treasury \in [Execs -> {"none", "reserved", "committed", "released"}]
    BY DEF Init, Budgets, Outcomes
  <2>4. results \in [Jobs -> SUBSET Execs] /\ copy \in [Execs -> SUBSET Lines]
    BY DEF Init
  <2> QED
    BY <2>2, <2>3, <2>4 DEF Init, TypeOK
<1>2. TypeOK /\ [Next]_vars => TypeOK'
  <2> SUFFICES ASSUME TypeOK, [Next]_vars PROVE TypeOK'
    OBVIOUS
  <2>1. ASSUME NEW e \in Execs, Begin(e) PROVE TypeOK'
    <3>1. PICK s \in BOOLEAN, r \in BOOLEAN :
            /\ decision' = [decision EXCEPT
                   ![e] = [reference |-> r, overall |-> Decide(s, r)]]
            /\ \/ Goto(e, "reserve") /\ UNCHANGED budget
               \/ Goto(e, "dispatch") /\ SetBudget(e, "decision_denied")
      BY <2>1 DEF Begin
    <3>2. [reference |-> r, overall |-> Decide(s, r)]
            \in [reference : BOOLEAN, overall : Decisions]
      BY DEF Decide, Decisions
    <3>3. decision' \in [Execs -> [reference : BOOLEAN, overall : Decisions]]
      BY <3>1, <3>2, Replaced DEF TypeOK
    <3>4. budget' \in [Execs -> Budgets]
      BY <3>1, Replaced DEF TypeOK, SetBudget, Budgets
    <3>5. pc' \in [Execs -> {"idle"} \cup Active \cup Ended]
      BY <3>1, Moved DEF Active
    <3> QED
      BY <2>1, <3>3, <3>4, <3>5 DEF Begin, TypeOK, disk
  <2>2. ASSUME NEW e \in Execs, Reserve(e) PROVE TypeOK'
    <3>1. budget' \in [Execs -> Budgets]
      BY <2>2, Replaced DEF Reserve, TypeOK, SetBudget, Budgets
    <3>2. treasury' \in [Execs -> {"none", "reserved", "committed", "released"}]
      BY <2>2, Replaced DEF Reserve, TypeOK
    <3>3. pc' \in [Execs -> {"idle"} \cup Active \cup Ended]
      BY <2>2, Moved DEF Reserve, Active
    <3> QED
      BY <2>2, <3>1, <3>2, <3>3 DEF Reserve, TypeOK, disk
  <2>3. ASSUME NEW e \in Execs, Dispatch(e) PROVE TypeOK'
    <3>1. Refusal(e) \in Outcomes
      BY DEF Refusal, Outcomes
    <3>2. outcome' \in [Execs -> Outcomes]
      BY <2>3, <3>1, Replaced DEF Dispatch, TypeOK, SetOutcome
    <3>3. pc' \in [Execs -> {"idle"} \cup Active \cup Ended]
      BY <2>3, Moved DEF Dispatch, Active
    <3>4. ran' \subseteq Execs
      BY <2>3 DEF Dispatch, TypeOK
    <3> QED
      BY <2>3, <3>2, <3>3, <3>4 DEF Dispatch, TypeOK, disk
  <2>4. ASSUME NEW e \in Execs, RunPython(e) PROVE TypeOK'
    <3>1. results' \in [Jobs -> SUBSET Execs]
      BY <2>4, Written DEF RunPython, TypeOK
    <3>2. success' \in [Execs -> BOOLEAN]
      BY <2>4, Replaced DEF RunPython, TypeOK
    <3>3. pc' \in [Execs -> {"idle"} \cup Active \cup Ended]
      BY <2>4, Moved DEF RunPython, Active
    <3> QED
      BY <2>4, <3>1, <3>2, <3>3 DEF RunPython, TypeOK
  <2>5. ASSUME NEW e \in Execs, TakeResult(e) PROVE TypeOK'
    <3>1. outcome' \in [Execs -> Outcomes]
      BY <2>5, Replaced DEF TakeResult, TypeOK, SetOutcome, Outcomes
    <3>2. results[JobOf[e]] \subseteq Execs
      BY DEF TypeOK, Jobs
    <3>3. took' \subseteq Execs \X Execs
      BY <2>5, <3>2 DEF TakeResult, TypeOK
    <3>4. pc' \in [Execs -> {"idle"} \cup Active \cup Ended]
      BY <2>5, Moved DEF TakeResult, Active
    <3> QED
      BY <2>5, <3>1, <3>3, <3>4 DEF TakeResult, TypeOK, disk
  <2>6. ASSUME NEW e \in Execs, RunWasm(e) PROVE TypeOK'
    <3>1. outcome' \in [Execs -> Outcomes]
      BY <2>6, Replaced DEF RunWasm, TypeOK, SetOutcome, Outcomes
    <3>2. results' \in [Jobs -> SUBSET Execs]
      BY <2>6, Written DEF RunWasm
    <3>3. took' \subseteq Execs \X Execs
      BY <2>6 DEF RunWasm, TypeOK
    <3>4. pc' \in [Execs -> {"idle"} \cup Active \cup Ended]
      BY <2>6, Moved DEF RunWasm, Active
    <3> QED
      BY <2>6, <3>1, <3>2, <3>3, <3>4 DEF RunWasm, TypeOK
  <2>7. ASSUME NEW e \in Execs, Finalize(e) PROVE TypeOK'
    <3>1. /\ Settlement(e).done \in {"committed", "released"}
          /\ Settlement(e).failed \in {"commit_failed", "release_failed"}
      BY DEF Settlement
    <3>2. budget' \in [Execs -> Budgets]
      <4>1. budget' = budget \/ \E s \in Budgets : SetBudget(e, s)
        BY <2>7, <3>1 DEF Finalize, Budgets
      <4> QED
        BY <4>1, Replaced DEF TypeOK, SetBudget
    <3>3. treasury' \in [Execs -> {"none", "reserved", "committed", "released"}]
      BY <2>7, <3>1, Replaced DEF Finalize, TypeOK
    <3>4. pc' \in [Execs -> {"idle"} \cup Active \cup Ended]
      BY <2>7, Moved DEF Finalize, Active
    <3> QED
      BY <2>7, <3>2, <3>3, <3>4 DEF Finalize, TypeOK, disk
  <2>8. ASSUME NEW e \in Execs, Audit(e) PROVE TypeOK'
    <3>1. log' \subseteq Lines
      BY <2>8, LineType DEF Audit, TypeOK
    <3>2. copy' \in [Execs -> SUBSET Lines]
      <4>1. copy \in [Execs -> SUBSET Lines] /\ log \in SUBSET Lines
        BY DEF TypeOK
      <4>2. [copy EXCEPT ![e] = log] \in [Execs -> SUBSET Lines]
        BY <4>1, Replaced
      <4> QED
        BY <2>8, <4>1, <4>2 DEF Audit
    <3>3. pc' \in [Execs -> {"idle"} \cup Active \cup Ended]
      BY <2>8, Moved DEF Audit, Active
    <3> QED
      BY <2>8, <3>1, <3>2, <3>3 DEF Audit, TypeOK, own
  <2>9. ASSUME NEW e \in Execs, Append(e) PROVE TypeOK'
    <3>1. log' \subseteq Lines
      BY <2>9, LineType DEF Append, TypeOK
    <3>2. copy' \in [Execs -> SUBSET Lines]
      BY <2>9, Replaced DEF Append, TypeOK
    <3>3. pc' \in [Execs -> {"idle"} \cup Active \cup Ended]
      BY <2>9, Moved DEF Append, Active
    <3> QED
      BY <2>9, <3>1, <3>2, <3>3 DEF Append, TypeOK, own
  <2>10. ASSUME NEW e \in Execs, Record(e) PROVE TypeOK'
    <3>1. CaptureStatus(e) \in Statuses
      BY DEF CaptureStatus, Statuses
    <3>2. ReportParity(e) \in {"match", "divergence"} /\ Charged(e) \in BOOLEAN
      BY DEF ReportParity, Charged
    <3>3. [parity |-> ReportParity(e), status |-> CaptureStatus(e),
           charged |-> Charged(e)] \in Reports
      BY <3>1, <3>2 DEF Reports
    <3>4. report' \in [Execs -> Reports]
      BY <2>10, <3>3, Replaced DEF Record, TypeOK
    <3>5. pc' \in [Execs -> {"idle"} \cup Active \cup Ended]
      BY <2>10, Moved DEF Record, Ended
    <3> QED
      BY <2>10, <3>4, <3>5 DEF Record, TypeOK, own
  <2>11. ASSUME NEW e \in Execs, Fail(e) PROVE TypeOK'
    <3>1. pc' \in [Execs -> {"idle"} \cup Active \cup Ended]
      BY <2>11, Moved DEF Fail, Ended
    <3>2. lost' \subseteq Execs
      BY <2>11 DEF Fail, TypeOK, Past
    <3> QED
      BY <2>11, <3>1, <3>2 DEF Fail, TypeOK, own, disk
  <2>12. ASSUME NEW e \in Execs, AppendEmpty(e) PROVE TypeOK'
    <3>1. pc' \in [Execs -> {"idle"} \cup Active \cup Ended]
      BY <2>12, Moved DEF AppendEmpty, Active
    <3> QED
      BY <2>12, <3>1 DEF AppendEmpty, TypeOK, own
  <2>13. CASE UNCHANGED vars
    BY <2>13 DEF vars, TypeOK, own, disk
  <2> QED
    BY <2>1, <2>2, <2>3, <2>4, <2>5, <2>6, <2>7, <2>8, <2>9, <2>10, <2>11, <2>12,
       <2>13
    DEF Next
<1> QED
  BY <1>1, <1>2, PTL DEF Spec

-----------------------------------------------------------------------------
\* What the execution e may do.
Step(e) ==
    \/ Begin(e) \/ Reserve(e) \/ Dispatch(e)
    \/ RunPython(e) \/ TakeResult(e) \/ RunWasm(e)
    \/ Finalize(e) \/ Audit(e) \/ AppendEmpty(e) \/ Append(e) \/ Record(e)
    \/ Fail(e)

\* A step of one execution leaves the place, the decision, the budget, the
\* outcome, the reservation and the report of every other as they are.
LEMMA Elsewhere ==
    ASSUME NEW e \in Execs, NEW f \in Execs, f # e, TypeOK, Step(e)
    PROVE  /\ pc'[f] = pc[f] /\ decision'[f] = decision[f]
           /\ budget'[f] = budget[f] /\ outcome'[f] = outcome[f]
           /\ treasury'[f] = treasury[f] /\ report'[f] = report[f]
           /\ (f \in ran)' <=> f \in ran
<1> USE DEF TypeOK, own, disk
<1>1. pc'[f] = pc[f]
  BY DEF Step, Begin, Reserve, Dispatch, RunPython, TakeResult, RunWasm, Finalize,
         Audit, AppendEmpty, Append, Record, Fail, Goto
<1>2. decision'[f] = decision[f]
  BY DEF Step, Begin, Reserve, Dispatch, RunPython, TakeResult, RunWasm, Finalize,
         Audit, AppendEmpty, Append, Record, Fail
<1>3. budget'[f] = budget[f]
  BY DEF Step, Begin, Reserve, Dispatch, RunPython, TakeResult, RunWasm, Finalize,
         Audit, AppendEmpty, Append, Record, Fail, SetBudget
<1>4. outcome'[f] = outcome[f]
  BY DEF Step, Begin, Reserve, Dispatch, RunPython, TakeResult, RunWasm, Finalize,
         Audit, AppendEmpty, Append, Record, Fail, SetOutcome
<1>5. treasury'[f] = treasury[f]
  BY DEF Step, Begin, Reserve, Dispatch, RunPython, TakeResult, RunWasm, Finalize,
         Audit, AppendEmpty, Append, Record, Fail
<1>6. report'[f] = report[f]
  BY DEF Step, Begin, Reserve, Dispatch, RunPython, TakeResult, RunWasm, Finalize,
         Audit, AppendEmpty, Append, Record, Fail
<1>7. (f \in ran)' <=> f \in ran
  BY DEF Step, Begin, Reserve, Dispatch, RunPython, TakeResult, RunWasm, Finalize,
         Audit, AppendEmpty, Append, Record, Fail
<1> QED
  BY <1>1, <1>2, <1>3, <1>4, <1>5, <1>6, <1>7

\* What is known of an execution stays known after a step of its own.
LEMMA BookKept ==
    ASSUME NEW e \in Execs, TypeOK, Book(e), Step(e)
    PROVE  Book(e)'
<1> USE DEF TypeOK, Book, Allowed, Goto, SetBudget, SetOutcome, own, disk
<1>1. CASE Begin(e)
  <2>1. PICK s \in BOOLEAN, r \in BOOLEAN :
          /\ decision'[e].overall = Decide(s, r)
          /\ IF Decide(s, r) = "allow"
             THEN pc'[e] = "reserve" /\ budget' = budget
             ELSE pc'[e] = "dispatch" /\ budget'[e] = "decision_denied"
    BY <1>1 DEF Begin
  <2>2. pc[e] = "idle" /\ UNCHANGED <<outcome, treasury, report, ran>>
    BY <1>1 DEF Begin
  <2> QED
    BY <2>1, <2>2, Zenon
<1>2. CASE Reserve(e)
  BY <1>2 DEF Reserve
<1>3. CASE Dispatch(e)
  BY <1>3 DEF Dispatch, Refusal
<1>4. CASE RunPython(e)
  BY <1>4 DEF RunPython
<1>5. CASE TakeResult(e)
  BY <1>5 DEF TakeResult
<1>6. CASE RunWasm(e)
  BY <1>6 DEF RunWasm
<1>7. CASE Finalize(e)
  BY <1>7 DEF Finalize, Settlement
<1>8. CASE Audit(e)
  BY <1>8 DEF Audit
<1>9. CASE Append(e)
  BY <1>9 DEF Append
<1>10. CASE Record(e)
  BY <1>10 DEF Record, CaptureStatus, Charged
<1>11. CASE Fail(e)
  BY <1>11 DEF Fail, Active
<1>12. CASE AppendEmpty(e)
  BY <1>12 DEF AppendEmpty
<1> QED
  BY <1>1, <1>2, <1>3, <1>4, <1>5, <1>6, <1>7, <1>8, <1>9, <1>10, <1>11, <1>12
  DEF Step

\* The books of every execution agree with the treasury as BookInv says, however
\* many executions overlap.
THEOREM BooksKept == Spec => []BookInv
<1>1. Init => BookInv
  <2> SUFFICES ASSUME Init, NEW e \in Execs PROVE Book(e)
    BY DEF BookInv
  <2>1. /\ pc[e] = "idle" /\ budget[e] = "none" /\ outcome[e] = "none"
        /\ treasury[e] = "none" /\ e \notin ran
        /\ report[e] = NoReport /\ report[e].status = "queued"
    BY DEF Init, NoReport
  <2> QED
    BY <2>1 DEF Book
<1>2. TypeOK /\ BookInv /\ [Next]_vars => BookInv'
  <2> SUFFICES ASSUME TypeOK, BookInv, [Next]_vars, NEW f \in Execs PROVE Book(f)'
    BY DEF BookInv
  <2>1. Book(f)
    BY DEF BookInv
  <2>2. ASSUME NEW e \in Execs, Step(e) PROVE Book(f)'
    <3>1. CASE f = e
      BY <2>1, <2>2, <3>1, BookKept
    <3>2. CASE f # e
      BY <2>1, <2>2, <3>2, Elsewhere DEF Book, Allowed
    <3> QED
      BY <3>1, <3>2
  <2>3. CASE UNCHANGED vars
    BY <2>1, <2>3 DEF vars, own, disk, Book, Allowed
  <2> QED
    BY <2>2, <2>3 DEF Next, Step
<1> QED
  BY <1>1, <1>2, TypeCorrect, PTL DEF Spec

\* A refused execution starts no worker and costs nothing.
THEOREM RefusedSafe == Spec => []RefusedNeverRuns
<1>1. BookInv => RefusedNeverRuns
  BY DEF BookInv, Book, RefusedNeverRuns
<1> QED
  BY <1>1, BooksKept, PTL

\* The treasury, the economy hook and the snapshot agree at the end.
THEOREM BooksSafe == Spec => []BooksAgree
<1>1. BookInv => BooksAgree
  BY DEF BookInv, Book, BooksAgree
<1> QED
  BY <1>1, BooksKept, PTL

\* The budget of every execution is set aside, charged and given back as
\* BudgetOnce promises, whatever overlaps and whatever fails.
THEOREM BudgetKept == Spec => BudgetOnce
<1>1. Init => Promise!Init
  BY DEF Init, Promise!Init, Completed
<1>2. TypeOK /\ BookInv /\ [Next]_vars => [Promise!Next]_<<treasury, ran, Completed>>
  <2> SUFFICES ASSUME TypeOK, BookInv, [Next]_vars
               PROVE  Promise!Next \/ UNCHANGED <<treasury, ran, Completed>>
    BY DEF Promise!Next
  <2>1. ASSUME NEW e \in Execs, Step(e)
        PROVE  Promise!Next \/ UNCHANGED <<treasury, ran, Completed>>
    <3> USE DEF own, disk
    <3>1. Book(e)
      BY DEF BookInv
    <3>2. UNCHANGED outcome => UNCHANGED Completed
      BY DEF Completed
    <3>3. ASSUME NEW o \in Outcomes \ {"worker_executed"}, SetOutcome(e, o),
                 outcome[e] = "none"
          PROVE  UNCHANGED Completed
      BY <3>3 DEF SetOutcome, Completed, TypeOK
    <3>4. ASSUME SetOutcome(e, "worker_executed")
          PROVE  Completed' = Completed \cup {e}
      BY <3>4 DEF SetOutcome, Completed, TypeOK
    <3>5. CASE Reserve(e)
      <4>1. UNCHANGED <<ran, Completed>>
        BY <3>5, <3>2 DEF Reserve
      <4>2. treasury[e] = "none" /\ e \notin ran
        BY <3>5, <3>1 DEF Reserve, Book
      <4>3. UNCHANGED treasury \/ treasury' = [treasury EXCEPT ![e] = "reserved"]
        BY <3>5 DEF Reserve
      <4> QED
        BY <4>1, <4>2, <4>3 DEF Promise!Next, Promise!Reserve, Promise!Settle
    <3>6. CASE Dispatch(e)
      <4>1. e \notin ran /\ outcome[e] = "none" /\ UNCHANGED treasury
        BY <3>6, <3>1 DEF Dispatch, Book
      <4>2. Refusal(e) \in Outcomes \ {"worker_executed"}
        BY DEF Refusal, Outcomes
      <4>3. UNCHANGED Completed
        BY <3>6, <3>3, <4>1, <4>2 DEF Dispatch
      <4>4. UNCHANGED ran \/ ran' = ran \cup {e}
        BY <3>6 DEF Dispatch
      <4> QED
        BY <4>1, <4>3, <4>4 DEF Promise!Next, Promise!Run
    <3>7. CASE TakeResult(e) \/ RunWasm(e)
      <4>1. e \in ran /\ outcome[e] = "none" /\ UNCHANGED <<treasury, ran>>
        BY <3>7, <3>1 DEF TakeResult, RunWasm, Book
      <4>2. \E o \in Outcomes : SetOutcome(e, o)
        BY <3>7 DEF TakeResult, RunWasm, Outcomes
      <4>3. UNCHANGED Completed \/ Completed' = Completed \cup {e}
        BY <4>1, <4>2, <3>3, <3>4
      <4> QED
        BY <4>1, <4>3 DEF Promise!Next, Promise!Complete
    <3>8. CASE Finalize(e)
      <4>1. UNCHANGED <<ran, Completed>>
        BY <3>8, <3>2 DEF Finalize
      <4>2. CASE UNCHANGED treasury
        BY <4>1, <4>2
      <4>3. CASE budget[e] = "reserved" /\
                 treasury' = [treasury EXCEPT ![e] = Settlement(e).done]
        <5>1. treasury[e] = "reserved"
          BY <3>1, <4>3 DEF Book
        <5>2. CASE outcome[e] = "worker_executed"
          <6>1. e \in Completed /\ Settlement(e).done = "committed"
            BY <5>2 DEF Completed, Settlement
          <6> QED
            BY <4>1, <4>3, <5>1, <6>1
            DEF Promise!Next, Promise!Commit, Promise!Settle
        <5>3. CASE outcome[e] # "worker_executed"
          <6>1. e \notin Completed /\ Settlement(e).done = "released"
            BY <5>3 DEF Completed, Settlement
          <6> QED
            BY <4>1, <4>3, <5>1, <6>1
            DEF Promise!Next, Promise!Release, Promise!Settle
        <5> QED
          BY <5>2, <5>3
      <4> QED
        BY <3>8, <4>2, <4>3 DEF Finalize
    <3>9. CASE Begin(e) \/ RunPython(e) \/ Audit(e) \/ AppendEmpty(e)
               \/ Append(e) \/ Record(e) \/ Fail(e)
      BY <3>9, <3>2 DEF Begin, RunPython, Audit, AppendEmpty, Append, Record, Fail
    <3> QED
      BY <2>1, <3>5, <3>6, <3>7, <3>8, <3>9 DEF Step
  <2>2. CASE UNCHANGED vars
    BY <2>2 DEF vars, own, Completed
  <2> QED
    BY <2>1, <2>2 DEF Next, Step
<1> QED
  BY <1>1, <1>2, TypeCorrect, BooksKept, PTL DEF Spec, BudgetOnce, Promise!Spec

-----------------------------------------------------------------------------
\* As long as no executions have overlapped one at most is under way, and the one that
\* appends to the log holds what is in it.  Why AuditComplete needs this: while the log
\* is empty the lines of the executions that have ended are in that copy alone, and they
\* are safe because nobody else holds an older one.
Known(e, ls) == \E l \in ls : l.exec = e /\ l.budget = budget[e]
Behind == {e \in Execs : pc[e] \in {"record", "done"}} \ lost

Alone == \A e, f \in Execs : pc[e] \in Active /\ pc[f] \in Active => e = f
CopyIsLog == \A e \in Execs : pc[e] = "append" => copy[e] = log
Emptied == \E e \in Execs : pc[e] = "emptied"
Logged ==
    \A f \in Behind :
        /\ ~Emptied => Known(f, log)
        /\ \A e \in Execs : pc[e] = "emptied" => Known(f, copy[e])
LogInv == ~overlapped => Alone /\ CopyIsLog /\ Logged

\* The place of an execution that takes a step, before it and after.
LEMMA Goes ==
    ASSUME NEW e \in Execs, TypeOK, Step(e)
    PROVE  /\ pc[e] = "idle" => Begin(e)
           /\ pc[e] # "idle" => pc[e] \in Active /\ UNCHANGED overlapped
           /\ pc'[e] = "append" => pc[e] = "audit" /\ copy'[e] = log /\ UNCHANGED log
           /\ pc'[e] \in Active /\ pc[e] \notin Active => Begin(e)
           /\ pc[e] \notin {"audit", "append", "emptied"} => UNCHANGED log
           /\ \A f \in Execs : f # e => copy'[f] = copy[f]
  BY DEF Step, Begin, Reserve, Dispatch, RunPython, TakeResult, RunWasm, Finalize,
         Audit, AppendEmpty, Append, Record, Fail, Goto, TypeOK, Active, own, disk

\* Where the lines of an execution that ended or is about to end are after a step of
\* another, or its own: in the log, or in the copy of the one that writes it again.
LEMMA Grows ==
    ASSUME NEW e \in Execs, TypeOK, Step(e), Alone, CopyIsLog, Logged,
           Begin(e) => \A f \in Execs : pc[f] \notin Active
    PROVE  Logged'
<1> USE DEF TypeOK, own, disk, Goto
<1> SUFFICES ASSUME NEW f \in Behind'
             PROVE  /\ ~Emptied' => Known(f, log)'
                    /\ \A g \in Execs : pc'[g] = "emptied" => Known(f, copy[g])'
  BY DEF Logged
<1>1. f \in Execs /\ pc'[f] \in {"record", "done"} /\ f \notin lost'
  BY DEF Behind
<1>2. f # e => pc'[f] = pc[f] /\ budget'[f] = budget[f]
  BY <1>1, Elsewhere
<1>3. \A g \in Execs : g # e => pc'[g] = pc[g] /\ copy'[g] = copy[g]
  BY Elsewhere, Goes
<1>4. \A g \in Execs : g # e /\ pc[g] = "emptied" => pc[e] \notin Active
  BY DEF Alone, Active
<1>5. CASE Audit(e)
  <2>1. ~Emptied /\ ~Emptied' /\ log \subseteq log' /\ UNCHANGED <<budget, lost>>
    BY <1>3, <1>4, <1>5 DEF Audit, Emptied, Active
  <2>2. CASE f = e
    <3>1. Line(e, AuditParity(e)) \in log'
      BY <1>1, <1>5, <2>2 DEF Audit
    <3> QED
      BY <2>1, <2>2, <3>1 DEF Known, Line, Emptied
  <2>3. CASE f # e
    <3>1. Known(f, log)
      BY <1>1, <1>2, <2>1, <2>3 DEF Logged, Behind
    <3> QED
      BY <2>1, <3>1 DEF Known, Emptied
  <2> QED
    BY <2>2, <2>3
<1>6. CASE AppendEmpty(e)
  <2>1. /\ f # e /\ UNCHANGED <<budget, lost, copy>> /\ copy[e] = log /\ pc'[e] = "emptied"
        /\ ~Emptied
    BY <1>1, <1>4, <1>6 DEF AppendEmpty, CopyIsLog, Emptied, Active
  <2>2. Known(f, log)
    BY <1>1, <1>2, <2>1 DEF Logged, Behind
  <2>3. \A g \in Execs : pc'[g] = "emptied" => g = e
    BY <1>3, <1>4, <1>6 DEF AppendEmpty, Active
  <2> QED
    BY <2>1, <2>2, <2>3 DEF Known, Emptied
<1>7. CASE Append(e)
  <2>1. /\ UNCHANGED <<budget, lost>> /\ pc[e] = "emptied"
        /\ log' = copy[e] \cup {Line(e, FallbackParity(e))}
    BY <1>7 DEF Append
  <2>2. \A g \in Execs : pc'[g] # "emptied"
    BY <1>3, <1>4, <1>7 DEF Append, Active
  <2>3. CASE f = e
    <3> DEFINE l == Line(e, FallbackParity(e))
    <3>1. l \in log' /\ l.exec = f /\ l.budget = budget'[f]
      BY <2>1, <2>3 DEF Line
    <3>2. Known(f, log)'
      BY <3>1 DEF Known
    <3> QED
      BY <2>2, <3>2
  <2>4. CASE f # e
    <3>1. Known(f, copy[e])
      BY <1>1, <1>2, <2>1, <2>4 DEF Logged, Behind
    <3> QED
      BY <2>1, <2>2, <3>1 DEF Known, Emptied
  <2> QED
    BY <2>3, <2>4
<1>8. CASE Record(e)
  <2>1. ~Emptied /\ ~Emptied' /\ UNCHANGED <<budget, lost, log>> /\ pc[e] = "record"
    BY <1>3, <1>4, <1>8 DEF Record, Emptied, Active
  <2>2. f \in Behind
    BY <1>1, <1>2, <2>1 DEF Behind
  <2>3. Known(f, log)
    BY <2>1, <2>2 DEF Logged
  <2> QED
    BY <2>1, <2>3 DEF Known, Emptied
<1>9. CASE Fail(e)
  <2>1. f # e /\ UNCHANGED <<budget, log, copy>> /\ pc[e] \in Active /\ pc'[e] = "err"
    BY <1>1, <1>9 DEF Fail
  <2>2. pc[f] \in {"record", "done"} /\ f \notin lost
    BY <1>1, <1>2, <1>9, <2>1 DEF Fail
  <2>3. pc[f] # "record"
    BY <1>1, <2>1, <2>2 DEF Alone, Active
  <2>4. pc[e] # "emptied"
    BY <1>1, <1>9, <2>2, <2>3 DEF Fail, Past
  <2>5. ~Emptied /\ ~Emptied'
    BY <1>3, <1>4, <2>1, <2>4 DEF Emptied
  <2>6. Known(f, log)
    BY <1>1, <2>2, <2>5 DEF Logged, Behind
  <2> QED
    BY <2>1, <2>5, <2>6 DEF Known, Emptied
<1>10. CASE Begin(e)
  <2>1. ~Emptied
    BY <1>10 DEF Emptied, Active
  <2>2. /\ f # e /\ ~Emptied' /\ UNCHANGED <<log, lost>>
    BY <1>1, <1>3, <1>10, <2>1 DEF Begin, Emptied
  <2>3. Known(f, log)
    BY <1>1, <1>2, <2>1, <2>2 DEF Logged, Behind
  <2> QED
    BY <1>2, <2>2, <2>3 DEF Known, Emptied
<1>11. CASE Reserve(e) \/ Dispatch(e) \/ RunPython(e) \/ TakeResult(e) \/ RunWasm(e)
            \/ Finalize(e)
  <2>1. /\ UNCHANGED <<log, lost>> /\ pc[e] \in Active \ {"emptied"}
        /\ pc'[e] \notin {"record", "done", "emptied"}
    BY <1>11 DEF Reserve, Dispatch, RunPython, TakeResult, RunWasm, Finalize, Active
  <2>2. ~Emptied /\ ~Emptied'
    BY <1>3, <1>4, <2>1 DEF Emptied
  <2>3. f # e /\ Known(f, log)
    BY <1>1, <1>2, <2>1, <2>2 DEF Logged, Behind
  <2> QED
    BY <1>2, <2>1, <2>2, <2>3 DEF Known, Emptied
<1> QED
  BY <1>5, <1>6, <1>7, <1>8, <1>9, <1>10, <1>11 DEF Step

\* The audit log is complete: an execution that ended with Ok has a line in it with the
\* final state of its budget, as long as no executions have overlapped and unless a
\* process died while append_line was writing the log again.
THEOREM AuditIsComplete == Spec => []AuditComplete
<1>1. Init => LogInv
  BY DEF Init, LogInv, Alone, CopyIsLog, Logged, Active, Behind
<1>2. TypeOK /\ LogInv /\ [Next]_vars => LogInv'
  <2> SUFFICES ASSUME TypeOK, LogInv, [Next]_vars, ~overlapped'
               PROVE  Alone' /\ CopyIsLog' /\ Logged'
    BY DEF LogInv
  <2>1. ASSUME NEW e \in Execs, Step(e) PROVE Alone' /\ CopyIsLog' /\ Logged'
    <3>1. ~overlapped /\ (Begin(e) => \A f \in Execs : pc[f] \notin Active)
      BY <2>1, Goes DEF Begin, TypeOK
    <3>2. Alone /\ CopyIsLog /\ Logged
      BY <3>1 DEF LogInv
    <3>3. Alone'
      <4> SUFFICES ASSUME NEW f \in Execs, NEW g \in Execs,
                          pc'[f] \in Active, pc'[g] \in Active
                   PROVE  f = g
        BY DEF Alone
      <4>1. CASE f = e /\ g # e
        <5>1. pc[g] \in Active /\ pc[f] \in Active
          BY <2>1, <3>1, <4>1, Elsewhere, Goes
        <5> QED
          BY <5>1, <3>2 DEF Alone
      <4>2. CASE g = e /\ f # e
        <5>1. pc[g] \in Active /\ pc[f] \in Active
          BY <2>1, <3>1, <4>2, Elsewhere, Goes
        <5> QED
          BY <5>1, <3>2 DEF Alone
      <4>3. CASE f # e /\ g # e
        BY <2>1, <3>2, <4>3, Elsewhere DEF Alone
      <4> QED
        BY <4>1, <4>2, <4>3
    <3>4. CopyIsLog'
      <4> SUFFICES ASSUME NEW f \in Execs, pc'[f] = "append" PROVE copy'[f] = log'
        BY DEF CopyIsLog
      <4>1. CASE f = e
        BY <2>1, <4>1, Goes
      <4>2. CASE f # e
        <5>1. pc[f] = "append" /\ copy'[f] = copy[f] /\ copy[f] = log
          BY <2>1, <3>2, <4>2, Elsewhere, Goes DEF CopyIsLog
        <5>2. pc[e] \notin {"audit", "append", "emptied"}
          BY <3>2, <4>2, <5>1 DEF Alone, Active
        <5> QED
          BY <2>1, <3>2, <5>1, <5>2, Goes
      <4> QED
        BY <4>1, <4>2
    <3>5. Logged'
      BY <2>1, <3>1, <3>2, Grows
    <3> QED
      BY <3>3, <3>4, <3>5
  <2>2. CASE UNCHANGED vars
    BY <2>2 DEF vars, own, disk, LogInv, Alone, CopyIsLog, Logged, Behind, Known, Emptied
  <2> QED
    BY <2>1, <2>2 DEF Next, Step
<1>3. BookInv /\ LogInv => AuditComplete
  <2> SUFFICES ASSUME BookInv, LogInv, ~overlapped, \A e \in Execs : pc[e] # "emptied",
                      NEW f \in Past \ lost
               PROVE  HasLine(f, log)
    BY DEF AuditComplete
  <2>1. f \in Behind /\ Logged /\ ~Emptied
    BY DEF LogInv, Past, Behind, Emptied
  <2>2. Known(f, log)
    BY <2>1 DEF Logged
  <2>3. report[f].charged <=> budget[f] = "committed"
    BY DEF BookInv, Book, Past
  <2> QED
    BY <2>2, <2>3 DEF Known, HasLine
<1> QED
  BY <1>1, <1>2, <1>3, TypeCorrect, BooksKept, PTL DEF Spec
=============================================================================
