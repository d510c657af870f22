CONSTANTS
  d1 = d1
  a = a
  fb = fb
  x = x
  y = y
  f1 = f1
  f2 = f2
  ac = ac
  Ids = {d1, a, fb}
  DefaultIds <- OneDefault
  FallbackId = fb
  Bodies = {x, y}
  FactoryBodies <- OneFactory
  PowerStates = {ac}
  Flags = {f1, f2}
  DefaultFlags = f1
  TrustedClients = TRUE
  Faults = {"crash", "open", "write"}
  MaxProfiles = 3
SPECIFICATION Spec
INVARIANTS TypeOK BuiltInsIntact UniqueIds AckedOnDisk
PROPERTIES ProfilesWrittenThrough SettingsWrittenThrough AssignmentsStayKnown
