SPECIFICATION FairSpec
CONSTANTS
    MaxTokens = 3
    MaxChanges = 1
INVARIANTS
    TypeOK
    NothingIsForgotten
    CountIsOfPackaged
    EachChangeOnce
PROPERTIES
    NewcomersWait
    EarlyCallbacksAreCalled
CHECK_DEADLOCK FALSE
