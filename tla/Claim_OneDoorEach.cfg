SPECIFICATION PanelSpec
CONSTANTS
  Members = {m1, m2, m3}
  Interviewees = {c1, c2}
CHECK_DEADLOCK FALSE
INVARIANT OneDoorEach
