CONSTANTS
  d1 = d1
  a = a
  fb = fb
  x = x
  y = y
  f1 = f1
  ac = ac
  None = None
  Ids = {d1, a, fb}
  DefaultIds <- OneDefault
  FallbackId = fb
  Bodies = {x, y}
  FactoryBodies <- OneFactory
  PowerStates = {ac}
  Flags = {f1}
  DefaultFlags = f1
  TrustedClients = FALSE
  Faults = {}
  MaxProfiles = 2
  NewIds = {a}
  MaxLoad = 4
SPECIFICATION Spec
INVARIANT SavesTheProfileEdited
