SPECIFICATION FairSpec
CONSTANTS
  Users = {u1, u2}
  LoopThread = loopThread
  NoThread = NoThread
  KeyCount = 2
  MaxStarts = 3
  Orderly = TRUE
INVARIANT TasksAlternate
 
INVARIANT FiresOnce
INVARIANT SilentWhenStopped
PROPERTY StartedFires
