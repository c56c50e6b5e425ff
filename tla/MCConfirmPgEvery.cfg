\* Postgres: every type through every entry point.
SPECIFICATION Spec
CONSTANTS
  Caller = {c1, c2}
  Proposal = {p1, p2}
  Backend = "postgres"
  PoolSize = 4
  Accepts <- Every
  MaxCalls = 3
SYMMETRY Symmetry
INVARIANTS EntityWithAcceptance
PROPERTIES ResolvedOnce
CHECK_DEADLOCK FALSE
