SPECIFICATION Spec
CONSTANTS
  NoApp = NoApp
  Apps = {a1, a2}
  Branch = "cos"
  Level = 2
  OpenPool = FALSE
  Positions = 1
  RescindCutoff = "case_closed"
SYMMETRY Symmetry
CONSTRAINT RoundOfActiveVacancy
CHECK_DEADLOCK FALSE
INVARIANTS
  AppointedIsPicked
  SlotsMatchStatus
PROPERTIES
  NotPickedAreDecided
  KeepsTheLifecycle
