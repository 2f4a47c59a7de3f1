SPECIFICATION Spec
CONSTANTS
    Execs = {1, 2}
    JobOf <- MCJobOf
    MaxFaults = 1
INVARIANT RefusedNeverRuns
INVARIANT BooksAgree
INVARIANT AuditComplete
PROPERTY BudgetOnce
CHECK_DEADLOCK FALSE
