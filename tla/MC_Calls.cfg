SPECIFICATION Spec
CONSTANTS
  Party = {p1, p2, p3}
  Caller = {p1, p2}
  None = None
  MaxCalls = 1
  MaxBreaks = 0
  MaxDuplicates = 0
INVARIANTS
  SidesAgree
  OnlyCallIsShown
SYMMETRY CallerSymmetry
CHECK_DEADLOCK FALSE
