SPECIFICATION Spec
CONSTANTS
  h1 = h1
  h2 = h2
  h3 = h3
  h4 = h4
  Targets <- FourHosts
  Batch = 1
  IntMax = 9
  Prefs <- IcmpPrefs
  Faults = {"open_live", "pthread_create", "init", "redis", "pcap_loop", "spurious_wakeup", "cancel"}
  MaxRequeue = 0
  FIN = FIN
  NoHost = NoHost
SYMMETRY HostSymmetry
INVARIANTS
  DeadHostsAccounted
  ProgressComplete
  LimitRespected
CHECK_DEADLOCK FALSE
