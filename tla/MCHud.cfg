SPECIFICATION FairSpec
CONSTANTS
    MaxMessages = 3
INVARIANTS
    TypeOK
    LeftUpOnlyIfRobbed
    CalmMessagesAreSafe
PROPERTIES
    CalmMessagesKeepTheirTime
    MessagesComeDownUnlessRobbed
CHECK_DEADLOCK FALSE
