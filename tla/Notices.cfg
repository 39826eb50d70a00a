SPECIFICATION Spec
CONSTANTS
  Places = {hall, annex}
  Clicks = {c1, c2}
  Runs = {n1, n2}
  MaxExcused = 2
  MaxNotices = 3
  MaxDay = 3
  DaysAllowed = 1
  DueWithin = 0
  None = None
SYMMETRY SymPlaces
CONSTRAINT OneSubject
CHECK_DEADLOCK FALSE
INVARIANTS
  ExamShownWasIssued
  OneCopyAMinute
  RemindedOnce
