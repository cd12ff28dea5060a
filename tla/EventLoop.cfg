SPECIFICATION PromptSpec
CONSTANTS
  loop = loop
  w1 = w1
  Posters = {loop, w1}
  LoopThread = loop
  MaxTasks = 3
  EventfdMax = 2
INVARIANT NoLostWakeup
PROPERTY QueueSafe
PROPERTY QueueLive
PROPERTY QuitReturns
