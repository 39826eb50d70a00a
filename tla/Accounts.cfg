SPECIFICATION AccountsSpec
CONSTANTS
  People = {root, second, third}
  Root = root
  Who = root
  Emails = {e1, e2, e3}
  Passwords = {w1, w2, w3, w4}
  Clicks = {b1, b2}
  Unset = Unset
  HistoryLimit = 2
  MaxAttempts = 2
  MaxTries = 2
  LockFor = 2
  MaxTime = 3
  MaxCodes = 2
  MaxChanges = 3
SYMMETRY SymAccounts
CONSTRAINT OneSubject
CHECK_DEADLOCK FALSE
INVARIANTS
  OneEmailEach
  AnAdminRemains
PROPERTIES
  RecentPasswordsDiffer
  LockKeepsItsEnd
  NoReplacedCodeSignsIn
