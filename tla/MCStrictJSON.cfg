SPECIFICATION Spec
CONSTANTS
  Tokens <- MCTokens
  Calls <- MCCalls
  MaxDepth = 2
  LinearKeys = 2
  MaxTokens = 10
PROPERTIES WalkImplemented RefusedForCause MembersExact
CHECK_DEADLOCK FALSE
