SPECIFICATION PoolFairSpec
CONSTANTS
  ThreadNum = 3
  MaxTakes = 5
  MaxThrows = 1
  Patient = TRUE
INVARIANT LoopsLive
PROPERTY DestructorReturns
