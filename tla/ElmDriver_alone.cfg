SPECIFICATION Spec
CONSTANTS
  None = None
  Flows = {f1}
  e1 = e1
  e2 = e2
  e3 = e3
  k1 = k1
  k2 = k2
  i1 = i1
  a1 = a1
  a2 = a2
  r1 = r1
  r2 = r2
  r3 = r3
  b1 = b1
  b2 = b2
  Ecus = {e1, e2, e3, k1, k2, i1}
  Addresses = {a1, a2, r1, r2, r3, b1, b2}
  FastInit = {k2}
  Bus <- MCBus
  Address <- MCAddress
  Receive <- MCReceive
INVARIANTS AddressedWhenReady
