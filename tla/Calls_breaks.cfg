SPECIFICATION FairSpec
CONSTANTS
  Party = {p1, p2}
  Caller = {p1}
  None = None
  MaxCalls = 1
  MaxBreaks = 1
  MaxDuplicates = 1
INVARIANTS
  ShownIsLive
PROPERTIES
  ClosedStaysClosed
  OwnCallStaysClosed
  HangUpReaches
  AnswerReaches
CHECK_DEADLOCK FALSE
