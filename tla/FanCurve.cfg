CONSTANTS
  Unit = 2
  SomeTemps = {2, 3, 5}
  SomeSpeeds = {0, 3, 7, 9}
  MaxPoints = 3
  Lowest = 2
  Highest = 12
SPECIFICATION Spec
CHECK_DEADLOCK FALSE
INVARIANTS WithinTable ThroughPoints
PROPERTY NeverSlowerWhenWarmer
