SPECIFICATION FairSpec
CONSTANTS
  None = None
  Callers = {c1, c2}
  MaxCommands = 5
  MaxLeftover = 1
INVARIANTS LagBound OwnAnswerWhole
PROPERTIES EachReplyOnce EveryReadReturns
CHECK_DEADLOCK FALSE
