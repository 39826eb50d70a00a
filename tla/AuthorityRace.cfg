SPECIFICATION RaceSpec
CONSTANTS
  NoApp = NoApp
  Apps = {a1, a2}
  Branch = "plantilla"
  Level = 1
  OpenPool = FALSE
  RescindCutoff = "case_closed"
  Desks = {d1, d2, d3}
  Ops = {"select", "no_appointment", "report", "return", "rescind", "withdraw", "reopen"}
SYMMETRY Symmetry
CHECK_DEADLOCK FALSE
INVARIANTS
  AppointedIsSelected
PROPERTIES
  DecisionsDoNotOverlap
