SPECIFICATION FairSubsystemSpec
CONSTANTS
  FixedDt = 3
  ServerDt = 3
  Interval = 2
  Capacity = 3
  MaxTicksPerAdvance = 3
  Delay = 11
  Deltas = {0, 1, 2, 5, 7}
  Scales = {0, 1, 2}
  MaxRequested = 36
  nullopt = nullopt
  Bodies = {0, 1, 2}
  Sun = 0
  Earth = 1
  PositionOf <- MCPositionOf
  Serials = {0, 1}
  SunDisplayDistance = 100
  MinAltitude = 1
  MaxAltitude = 2
  CameraOffset = 1
  MaxFaults = 2
  stale = stale
INVARIANTS
  SubsystemInv
  TimeIsAccountedFor
  OnlyTheCapHoldsBack
  NoSnapshotIsMissed
  PictureDoesNotFreeze
  EveryActorIsHeld
  LevelShowsOneMoment
PROPERTIES
  LostPlanetsComeBack
CHECK_DEADLOCK FALSE
