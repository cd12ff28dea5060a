SPECIFICATION FairSpec
CONSTANTS
  w1 = w1
  w2 = w2
  Workers = {}
  BufSize = 2
  SndCap = 1
  MsgSize = 2
  MaxSends = 2
  MaxIn = 3
  MaxShutDowns = 1
  Greets = FALSE
  ConsumeFirst = FALSE
  UseAsync = FALSE
  PolitePeer = FALSE
INVARIANT StreamIntegrity
 
 
PROPERTY ConnectionSafe
