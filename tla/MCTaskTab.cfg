\* A task whose stored assignee is a tab, and start_work's batch mark.
CONSTANTS
  Caller = {c1, c2}
  Task = {t1, t2}
  Actor = {claude}
  WideBlank = {tab}
  PRUrl = {}
  CommitSHA = {}
  OtherText = {}
  NoActor = NoActor
  NoArtifact = NoArtifact
  Keep = Keep
  AnyStatus = AnyStatus
  Ops = {"begin_task"}
  MaxCalls = 2
SYMMETRY Symmetry
SPECIFICATION Spec
INVARIANTS InProgressOwned
