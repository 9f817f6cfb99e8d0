SPECIFICATION Spec
CONSTANTS
    MaxTokens = 2
    MaxChanges = 1
INVARIANTS
    CountAsCommented
CHECK_DEADLOCK FALSE
