SPECIFICATION FairSpec
CONSTANTS
  w1 = w1
  w2 = w2
  Workers = {}
  BufSize = 2
  SndCap = 3
  MsgSize = 1
  MaxSends = 3
  MaxIn = 3
  MaxShutDowns = 1
  Greets = TRUE
  ConsumeFirst = TRUE
  UseAsync = FALSE
  PolitePeer = TRUE
INVARIANT NoSpuriousClose
PROPERTY FinCloses
