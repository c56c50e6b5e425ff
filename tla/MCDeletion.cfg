\* Two callers, two tasks, one project: two deletes of the project, a delete of a
\* project and of its task, a delete and a restore, with tasks moving in and out.
SPECIFICATION Spec
CONSTANTS
  Caller = {c1, c2}
  Project = {p}
  Task = {1, 2}
  None = None
  MaxPending = 2
  Retries = 1
  MaxCalls = 4
SYMMETRY Symmetry
CONSTRAINT Bound
INVARIANTS DeletionInv
PROPERTIES PreviewBinds KeptOrRestored SpentOnce LedgerKept
CHECK_DEADLOCK FALSE
