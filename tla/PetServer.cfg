SPECIFICATION Spec
CONSTANTS
  Names = {1, 2}
  OtherTable = TRUE
  Conns = {"c1", "c2"}
  Loops = {"io1", "io2"}
  OneLoop = TRUE
  Gentle = TRUE
  Types = {"pet"}
  MaxPets = 3
  MaxCalls = 2
INVARIANT RowsAsSent
 
INVARIANT CacheFaithful
