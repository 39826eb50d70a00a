SPECIFICATION Spec
CONSTANTS
  MaxDay = 3
  Period = 2
  Forced = {letter}
  Elective = {diploma}
  None = None
CHECK_DEADLOCK FALSE
INVARIANTS
  CompleteStaysComplete
  NoSecondBatch
  OneOpenPostingPerItem
