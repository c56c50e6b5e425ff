\* Two callers, three calls of every kind with one note and two rules, and the
\* retention job; the rules of a row are capped at one.
SPECIFICATION FairSpec
CONSTANTS
  Caller = {c1, c2}
  Terminal = {"failure"}
  Negative = {"failure"}
  Segment = {n1}
  Rule = {u1, u2}
  NoSegment = NoSegment
  NoRule = NoRule
  RuleCap = 1
  Attempts = 2
  MaxRows = 3
  MaxCalls = 3
INVARIANTS TypeOK OutcomeInv EveryNoteAtomized
PROPERTIES ClosedRowsKept DraftOnlyGrows SupersededForGood LedgerKept EveryCallReturns
CHECK_DEADLOCK FALSE
