CONSTANTS
  d1 = d1
  d2 = d2
  a = a
  fb = fb
  f1 = f1
  c1 = c1
  c2 = c2
  t1 = t1
  t2 = t2
  None = None
  Manual = Manual
  Ids = {d1, d2, fb}
  DefaultIds <- BuiltInIds
  FallbackId = fb
  Bodies <- TwoBodies
  FactoryBodies <- BuiltIns
  Flags = {f1}
  DefaultFlags = f1
  TrustedClients = TRUE
  Faults = {}
  MaxProfiles = 2
  Curves = {c1, c2}
  Tunings = {t1, t2}
  Requests = {"activate"}
  HardwareFaults = {}
  MayStop = FALSE
SPECIFICATION Spec
PROPERTY MappedProfileApplied
