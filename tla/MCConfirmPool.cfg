\* Postgres: calls that hold a connection wait for a second one.
SPECIFICATION FairSpec
CONSTANTS
  Caller = {c1, c2}
  Proposal = {p1, p2}
  Backend = "postgres"
  PoolSize = 2
  Accepts <- Knowledge
  MaxCalls = 2
PROPERTIES EveryCallReturns
CHECK_DEADLOCK FALSE
