SPECIFICATION FairSpec
CONSTANTS
  NoApp = NoApp
  Apps = {a1}
  Branch = "plantilla"
  Level = 2
  OpenPool = FALSE
  RescindCutoff = "never"
CHECK_DEADLOCK FALSE
INVARIANTS
  TypeOK
  CaseAlignment
  ParkedForAbsence
  SecretariatHoldsByOverride
PROPERTIES
  DecidedInTheEnd
