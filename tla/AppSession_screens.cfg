SPECIFICATION FairSpec
CONSTANTS
  None = None
  OtherTab = OtherTab
  Timer = Timer
  Users = {u1, u2}
  eA = eA
  eB = eB
  sA1 = sA1
  sA2 = sA2
  sB = sB
  Ecus = {eA, eB}
  Screens = {sA1, sA2, sB}
  Layout <- MCLayout
  Unreachable = {}
  Operations = {"select", "open", "refresh", "auto", "demo", "press", "forget", "tab"}
  MaxConnections = 0
  MaxTimers = 3
INVARIANTS ReadyIsSelected
PROPERTIES TimersDrain RefreshSettles
CHECK_DEADLOCK FALSE
