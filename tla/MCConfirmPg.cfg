\* Postgres, every accept written in its transaction: accepts, single and batch
\* rejects and the prune, over two proposals and two connections.
SPECIFICATION FairSpec
CONSTANTS
  Caller = {c1, c2}
  Proposal = {p1, p2}
  Backend = "postgres"
  PoolSize = 2
  Accepts <- PgInTx
  MaxCalls = 2
INVARIANTS TypeOK OneWinner
PROPERTIES PromiseKept BatchAllOrNothing EveryCallReturns
CHECK_DEADLOCK FALSE
