SPECIFICATION Spec
CONSTANTS
  NoApp = NoApp
  Apps = {a1, a2}
  Branch = "plantilla"
  Level = 1
  OpenPool = FALSE
  RescindCutoff = "contract_recorded"
SYMMETRY Symmetry
CONSTRAINT NotSuspended
CHECK_DEADLOCK FALSE
INVARIANTS
  AppointedIsSelected
  ScoredBeforeAuthority
  CompletionFollowsSelection
  NotSelectedStayClosed
PROPERTIES
  ReopenedWhereItLeft
  AppointeeStays
  KeepsTheLifecycle
