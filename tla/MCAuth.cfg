SPECIFICATION FairSpec
CONSTANTS
    MaxSignUps = 2
    MaxTaps = 3
INVARIANTS
    TypeOK
    NeverDangles
    AnswersAreShown
    MainOnlyAfterLogin
PROPERTIES
    GoneScreensAreSilent
    TapsAreAnswered
CHECK_DEADLOCK FALSE
