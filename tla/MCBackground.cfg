\* A queue of two places for three events, one slot for two goroutines.
SPECIFICATION FairSpec
CONSTANTS
  Event = {e1, e2, e3}
  Work = {w1, w2}
  QueueSize = 2
  Slots = 1
INVARIANTS TypeOK BackgroundInv
PROPERTIES WorkEnds
CHECK_DEADLOCK FALSE
