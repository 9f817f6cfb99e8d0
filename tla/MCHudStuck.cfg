SPECIFICATION FairSpec
CONSTANTS
    MaxMessages = 2
PROPERTIES
    MessagesComeDown
CHECK_DEADLOCK FALSE
