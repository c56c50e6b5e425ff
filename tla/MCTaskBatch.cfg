\* A reconcile call over two matches fails between them.
CONSTANTS
  Caller = {c1, c2}
  Task = {t1, t2}
  Actor = {claude}
  WideBlank = {}
  PRUrl = {pr}
  CommitSHA = {}
  OtherText = {}
  NoActor = NoActor
  NoArtifact = NoArtifact
  Keep = Keep
  AnyStatus = AnyStatus
  Ops = {"reconcile_merged_prs"}
  MaxCalls = 2
SYMMETRY Symmetry
SPECIFICATION Spec
INVARIANTS PRBatchAllOrNothing
