CONSTANTS
  p = p
  q = q
  Profiles = {p, q}
  BuiltIn = {q}
  Tables <- OneTable
  MaxEdits = 2
  MaxLoad = 2
SPECIFICATION FairSpec
INVARIANTS TypeOK StaysInOrder UnsavedMeansEdited
PROPERTY ShowsActiveCurve
