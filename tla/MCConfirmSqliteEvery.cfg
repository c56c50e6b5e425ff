\* SQLite: every type through every entry point.
SPECIFICATION Spec
CONSTANTS
  Caller = {c1, c2}
  Proposal = {p1, p2}
  Backend = "sqlite"
  PoolSize = 1
  Accepts <- Every
  MaxCalls = 3
SYMMETRY Symmetry
INVARIANTS CreatedOnce
CHECK_DEADLOCK FALSE
