CONSTANTS
  save = save
  Commands <- OneCommand
  Changes = 1
  Faults = {"bus", "daemon", "refuse", "connect"}
SPECIFICATION FairSpec
INVARIANTS TypeOK StatusIsLastConnect
PROPERTIES CatchesUp OutageIsShown CommandsAnswered
