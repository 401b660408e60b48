SPECIFICATION FairSpec
CONSTANTS
  h1 = h1
  h2 = h2
  h3 = h3
  h4 = h4
  Targets <- TwoHosts
  Batch = 1
  IntMax = 9
  Prefs <- ContractPrefs
  Faults = {}
  MaxRequeue = 1
  FIN = FIN
  NoHost = NoHost
PROPERTIES
  ImplementsContract
