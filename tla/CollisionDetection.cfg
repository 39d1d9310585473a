SPECIFICATION Spec
CONSTANTS
  Small = {100, 10000}
  Bodies = {1}
  Radius <- MCRadius
  Dt = 4
  Positions <- MCPositions
  Velocities <- MCVelocities
INVARIANTS
  DetectionInv
  NoHitWithoutContact
CHECK_DEADLOCK FALSE
