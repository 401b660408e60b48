SPECIFICATION Spec
CONSTANTS
  Rows <- ScanRows
  Answers <- GmpAnswers
  Links = {"tls", "unix"}
  Units = 2
  Timeout = 1
  Retries = 1
  MaxCalls = 2
  MaxOpens = 2
  Faults = {"close", "reset"}
INVARIANTS
  PopOnlyWhenAsked
CHECK_DEADLOCK FALSE
