SPECIFICATION Spec
CONSTANTS
  f1 = f1
  f2 = f2
  o1 = o1
  o2 = o2
  NULL = NULL
  File <- MC_File
  Oid <- MC_Oid
  PrefLens <- MC_PrefLens
  Duplicates = FALSE
  MaxTime = 3
  MaxVer = 3
  MaxCrashes = 2
  MaxFails = 0
SYMMETRY MC_Symmetry
INVARIANTS
  CheckedIsCurrent
  PassRepairs
