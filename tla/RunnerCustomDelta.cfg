SPECIFICATION Spec
CONSTANTS
  FixedDt = 3
  ServerDt = 2
  Interval = 2
  Capacity = 3
  MaxTicksPerAdvance = 3
  Delay = 7
  Deltas = {0, 1, 2, 5}
  Scales = {1, 2}
  MaxRequested = 24
  nullopt = nullopt
INVARIANTS
  SimulatesWhatIsAsked
CHECK_DEADLOCK FALSE
