SPECIFICATION Spec
CONSTANTS
  Bodies = {0}
  Ships = {100}
  Projectiles = {10000, 10001}
  Tois = {0, 1}
  MaxPasses = 1
  Geometries <- MCGeometries
INVARIANTS
  SurvivorConservesMomentum
CHECK_DEADLOCK FALSE
