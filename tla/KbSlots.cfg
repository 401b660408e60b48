SPECIFICATION Spec
CONSTANTS
  p1 = p1
  p2 = p2
  Proc <- TwoProcs
  MaxDb = 3
  Faults = {"crash", "lost"}
SYMMETRY ProcSymmetry
INVARIANTS
  SlotIsHeld
  OnlyOwnEntries
PROPERTIES
  MarkedSurvives
  FlushFreesTheRest
