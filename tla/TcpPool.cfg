SPECIFICATION Spec
CONSTANTS
  w1 = w1
  w2 = w2
  Workers = {w1}
  BufSize = 1
  SndCap = 3
  MsgSize = 1
  MaxSends = 2
  MaxIn = 1
  MaxShutDowns = 1
  Greets = FALSE
  ConsumeFirst = TRUE
  UseAsync = TRUE
  PolitePeer = FALSE
INVARIANT DeliveredOnce
PROPERTY FinishedBeforeClose
