SPECIFICATION Spec
CONSTANTS
  sun = sun
  earth = earth
  moon = moon
  mars = mars
  Bodies <- MCBodies
  CentreOf <- MCCentreOf
  BootVelocity <- MCBootVelocity
  MaxBodies = 3
  Scores = {0, 10, 11, 13}
  Mu <- MCMu
  Relatives <- MCRelatives
  MarginPercent = 15
  FixedDt = 2
  DwellTime = 6
  RefreshActive = 1
  RefreshInactive = 4
  MaxTicks = 8
INVARIANTS
  TypeOK
  BodiesAreOnTime
  OrbitIsOfItsShip
  OrbitIsUpToDate
  LeadIsRewarded
PROPERTIES
  SwitchesAreEarned
CHECK_DEADLOCK FALSE
