SPECIFICATION Spec
CONSTANTS
  NoApp = NoApp
  Apps = {a1, a2}
  Branch = "cos"
  Level = 1
  OpenPool = TRUE
  Positions = 1
  RescindCutoff = "contract_recorded"
SYMMETRY Symmetry
CONSTRAINT RoundsOnly
CHECK_DEADLOCK FALSE
PROPERTIES
  EarlierRoundsStand
  PickedStayAppointed
