SPECIFICATION Spec
CONSTANTS
  c1 = c1
  c2 = c2
  Client <- MC_Client
  Value <- MC_Value
  Profiles <- MC_Profiles
  MaxWrites = 4
  MaxBreaks = 2
INVARIANTS
  SetIsAtomic
  QueueKeepsValues
  QueueIsFifo
  
  VolatileExpires
