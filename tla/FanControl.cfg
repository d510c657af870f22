CONSTANTS
  Unit = 1
  Families = {"clevo", "uniwill", "sysfs"}
  SysFsFans = 2
  Curves <- TwoCurves
  ManualSpeeds = {65, 130}
  Readings = {65, 85}
  StartDuties = {40}
  Faults = {"count", "temp", "write"}
SPECIFICATION FairSpec
INVARIANT TypeOK
PROPERTIES Smooth Closes FloorKept SettlesWhenLeftAlone
