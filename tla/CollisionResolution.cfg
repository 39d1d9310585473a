SPECIFICATION Spec
CONSTANTS
  Bodies = {0}
  Ships = {100, 10001}
  Projectiles = {10000, 10002}
  Tois = {0, 1}
  MaxPasses = 2
  Geometries <- MCGeometries
INVARIANTS
  IInv
  EventsAccountForDespawns
  TheDestroyedHitNothing
  EveryHitCosts
  OutcomeIsDetermined
PROPERTIES
  ImplementsPass
CHECK_DEADLOCK FALSE
