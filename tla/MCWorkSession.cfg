\* Two callers, three calls, one task, two repos.
SPECIFICATION Spec
CONSTANTS
  Caller = {c1, c2}
  Repo = {r1, r2}
  Task = {t1}
  MaxSessions = 2
  MaxCalls = 3
SYMMETRY Symmetry
CONSTRAINT Bound
INVARIANTS TypeOK OneActive MarkedOnce GapHasEvidence AnswerLinked
PROPERTIES MarksOpenOnly
CHECK_DEADLOCK FALSE
