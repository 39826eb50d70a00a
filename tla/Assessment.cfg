SPECIFICATION Spec
CONSTANTS
  N = 3
  Answers <- MCAnswers
  Weights <- MCWeights
  TopLimit = 2
  None = None
CONSTRAINT OneSubject
CHECK_DEADLOCK FALSE
INVARIANTS
  TopFiveIsMerit
  OneSplitUnlessUnlocked
  ScoresSurvive
