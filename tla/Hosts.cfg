SPECIFICATION Spec
CONSTANTS
  ByteBits = 2
  Bytes4 = 2
  Bytes6 = 2
  Lists <- MC_Lists
  Filters <- MC_Filters
  MaxHosts <- MC_MaxHosts
  Forward <- MC_Forward
  Backward <- MC_Backward
  VhostLists <- MC_VhostLists
  ArraySize = 2
  NULL = NULL
  ENDLESS = ENDLESS
INVARIANTS
  
  UniqueHosts
PROPERTIES
  
  ExcludeIsExact
  
  ResolveKeepsNames
