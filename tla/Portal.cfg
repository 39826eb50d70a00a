SPECIFICATION Spec
CONSTANTS
  Emails = {e1, e2}
  Browsers = {b1, b2}
  MaxApps = 2
  MaxTries = 1
  MaxCodes = 2
  MaxMoves = 2
  None = None
SYMMETRY SymPeople
CHECK_DEADLOCK FALSE
INVARIANTS
  OneLiveApplicationEach
  AcknowledgedOnce
PROPERTIES
  LateCodeProvesNothing
