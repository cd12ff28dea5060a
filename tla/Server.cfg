SPECIFICATION FairSpec
CONSTANTS
  NoConn = 0
  Conns = {1, 2, 3, 4}
  MaxShared = 2
  ThreadNums = {0, 2}
  MaxConnection = 3
  MaxWalks = 1
  MayFill = TRUE
INVARIANT MapExact
 
INVARIANT CountExact
INVARIANT WalkSafe
PROPERTY EndedIsDestroyed
