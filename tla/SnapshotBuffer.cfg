SPECIFICATION FairSpec
CONSTANTS
  Capacity = 4
  MaxTime = 6
  Times <- MCTimes
  Worlds = {w1, w2}
  blankWorld = w1
  nullopt = nullopt
INVARIANTS
  IInv
  TimeOrdered
PROPERTIES
  InterpolateReturns
  ImplementsWindow
