SPECIFICATION Spec
CONSTANTS
  None = None
  sa = sa
  sb = sb
  ea = ea
  eb = eb
  read = read
  temp = temp
  write = write
  start = start
  d1 = d1
  d2 = d2
  Screens = {sa, sb}
  EcuOf <- McEcuOf
  Widgets <- McWidgets
  Presend <- McPresend
  Buttons <- McButtons
  Frame <- McFrame
  ManualSend <- McManual
  Decodes <- McDecodes
  StartsSession <- McStarts
  MaxAnswers = 3
  MaxOpenings = 2
INVARIANTS
  FreshSnapshot
  Settled
CHECK_DEADLOCK FALSE
