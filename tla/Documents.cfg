SPECIFICATION Spec
CONSTANTS
  Codes = {letter, rating}
  Optional = {}
  Letter = letter
  Rating = rating
  Files = {f1, f2}
  Requests = {r1, r2}
  MaxParts = 2
  MaxVersions = 3
  None = None
SYMMETRY Symmetry
CONSTRAINTS
  OneMeeting
  PlainOnceSubmitted
CHECK_DEADLOCK FALSE
INVARIANTS
  SubmittedComplete
  DocumentMatchesParts
  AcceptedIsShown
