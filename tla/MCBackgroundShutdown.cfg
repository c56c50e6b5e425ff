\* One request is still being handled when Start returns.
SPECIFICATION Spec
CONSTANTS
  Event = {e1}
  Work = {w1}
  QueueSize = 1
  Slots = 1
INVARIANTS NoneLost
CHECK_DEADLOCK FALSE
