SPECIFICATION FairSpec
CONSTANTS
  p1 = p1
  p2 = p2
  Posters = {p1, p2}
  ThreadNum = 2
  MaxTasks = 2
  MaxStarts = 1
  MaxStops = 1
  MaxSpurious = 1
  MaxHung = 1
INVARIANT NeverPopsEmpty
INVARIANT EachTaskHasAWorker
PROPERTY QueueSafe
PROPERTY QueueLive
