SPECIFICATION Spec
CONSTANTS
  Starts <- Tags
  Texts <- Escaped
  Finds <- Searches
  MaxTokens = 6
  MaxDepth = 2
INVARIANTS
  HandlersAgree
  PrintedIsReadBack
  TreeIsDocument
  
  ElementsInOrder
CHECK_DEADLOCK FALSE
