CONSTANTS
  v = v
  w = w
  Tabs = {"charging", "webcam"}
  Values = {v, w}
  Default = v
  Crossed = {w}
  None = None
  Faults = {"write", "down"}
  MaxLoad = 2
SPECIFICATION FairSpec
INVARIANTS TypeOK ChargingFollowsCapabilities EditsKept UnmarkedIsCurrent
PROPERTY AskedIsAnswered
