SPECIFICATION Spec
CONSTANTS
  Entities = {e1, e2}
  DtMax = 8
  KMax = 2
  FrameDt = 7
  TauRaise = 12
  Needs = {1, 5, 20}
INVARIANTS
  TypeOK
  SubstepsAreFineEnough
  RefinementKeepsUp
  CoarseningIsNotStarved
PROPERTIES
  RaisesWaitOutTheDwell
