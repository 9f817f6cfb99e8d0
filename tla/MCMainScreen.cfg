SPECIFICATION FairSpec
CONSTANTS
    Text = {empty, one, two}
    EmptyText = empty
    MaxPages = 2
INVARIANTS
    TypeOK
    PageStaysBlank
PROPERTIES
    WritesWhatWasTapped
    LastTapArrives
