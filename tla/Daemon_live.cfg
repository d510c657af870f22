CONSTANTS
  d1 = d1
  d2 = d2
  a = a
  fb = fb
  f1 = f1
  c1 = c1
  c2 = c2
  t1 = t1
  t2 = t2
  None = None
  Manual = Manual
  Ids = {d1, fb}
  DefaultIds <- OneBuiltInId
  FallbackId = fb
  Bodies <- TwoCurves
  FactoryBodies <- OnePartial
  Flags = {f1}
  DefaultFlags = f1
  TrustedClients = TRUE
  Faults = {}
  MaxProfiles = 2
  Curves = {c1}
  Tunings = {t1}
  Requests = {"activate", "curve", "edit", "manual"}
  HardwareFaults = {"tuning"}
  MayStop = FALSE
SPECIFICATION FairSpec
PROPERTIES EveryCallAnswered ComesToRest
