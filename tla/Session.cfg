SPECIFICATION FairSpec
CONSTANTS
  Rows <- PlainRows
  Answers <- PlainAnswers
  Links = {"tls", "unix"}
  Units = 2
  Timeout = 1
  Retries = 1
  MaxCalls = 2
  MaxOpens = 1
  Faults = {"open", "close", "reset", "again", "shutdown"}
INVARIANTS
  ReplyIsOwn
  
  
  TreeDisposed
  
PROPERTIES
  
  CallsReturn
CHECK_DEADLOCK FALSE
