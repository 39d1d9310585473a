SPECIFICATION Spec
CONSTANTS
  Frame = 2
  SubstepCounts = {1, 2}
  Ttl = 4
  SnapshotInterval = 2
  FirstShip = 100
  FirstProjectile = 10000
  MaxShips = 3
  MaxShots = 2
  MaxTicks = 4
INVARIANTS
  IInv
  IndexIsExact
  NetIdsAreNotReused
  AllBelongsToOneTime
PROPERTIES
  ImplementsFeed
  ControlReachesItsShip
  EachTriggerGivesOneShot
  ShotsLiveTheirTtl
CHECK_DEADLOCK FALSE
