SPECIFICATION Spec
CONSTANTS
  h1 = h1
  h2 = h2
  h3 = h3
  h4 = h4
  Targets <- ThreeHosts
  Batch = 1
  IntMax = 9
  Prefs <- ArpAndConsiderLimited
  Faults = {}
  MaxRequeue = 0
  FIN = FIN
  NoHost = NoHost
SYMMETRY HostSymmetry
INVARIANTS
  LimitRespected
