SPECIFICATION FairSpec
CONSTANTS
  Block = 2
  Lengths = {0, 2, 5, 6}
  SndCap = 3
  Zero = 0
  MaxOver = 0
  MaxChats = 2
  ChatsFirst = FALSE
  MaxStarts = 1
  MaxWrites = 1
 
 
PROPERTY TransferCompletes
