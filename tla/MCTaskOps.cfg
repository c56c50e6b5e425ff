\* Two callers and one task: every operation on it, racing with its deletion and
\* with the batch marks.  tab is an assignee that TrimSpace empties and TRIM does
\* not, empty an artifact that is neither a URL nor a commit id.
CONSTANTS
  Caller = {c1, c2}
  Task = {t1}
  Actor = {claude}
  WideBlank = {tab}
  PRUrl = {pr}
  CommitSHA = {sha}
  OtherText = {empty}
  NoActor = NoActor
  NoArtifact = NoArtifact
  Keep = Keep
  AnyStatus = AnyStatus
  Ops = {"set_task_status", "update_task_status", "update_task", "complete_task", "begin_task",
         "reconcile_merged_prs"}
  MaxCalls = 2
SPECIFICATION FairSpec
INVARIANTS TypeOK TaskStoreInv
PROPERTIES StartsOwned StartLoggedOnce SetOnlyOverValidated NoCommitLost ArtifactKept AppliedMeansClosedHere EveryCallReturns
