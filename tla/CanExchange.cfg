SPECIFICATION ExchangeSpec
CONSTANTS
  Strategies = {"manual", "cfc0"}
  Requests <- McRequests
  Answers <- McAnswers
  Preludes <- McPreludes
  BlockSizes = {0, 1, 3}
  MaxFaults = 2
INVARIANTS
  WholeOrNothing
  FlowControlSeen
  ManualAnswerArrives
PROPERTY
  ExchangeEnds
CHECK_DEADLOCK FALSE
