SPECIFICATION Spec
CONSTANTS
  h1 = h1
  h2 = h2
  h3 = h3
  h4 = h4
  Targets <- TwoHosts
  Batch = 1
  IntMax = 9
  Prefs <- SoloPrefs
  Faults = {}
  MaxRequeue = 2
  FIN = FIN
  NoHost = NoHost
SYMMETRY HostSymmetry
INVARIANTS
  LimitMessageExact
  
  EveryTargetPinged
