SPECIFICATION FairSpec
CONSTANTS
  Modes = {TRUE, FALSE}
  Rounds = 5
  MaxSends = 3
  MaxCloses = 2
  AppOpens = TRUE
  Careful = TRUE
 
INVARIANT ConnectedIsConnected
 
PROPERTY ClosedForGood
