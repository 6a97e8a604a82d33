SPECIFICATION Spec
CONSTANTS
  None = None
  OtherTab = OtherTab
  Timer = Timer
  Users = {u1, u2}
  eA = eA
  eB = eB
  sA1 = sA1
  sA2 = sA2
  sB = sB
  Ecus = {eA, eB}
  Screens = {sA1, sB}
  Layout <- MCLayout
  Unreachable = {eB}
  Operations = {"select", "open", "refresh", "press", "connect", "disconnect", "writes", "faults", "erase", "scan", "plugin", "tab"}
  MaxConnections = 1
  MaxTimers = 1
INVARIANTS Coherent
PROPERTIES OneAtATime
SYMMETRY UserSymmetry
CHECK_DEADLOCK FALSE
