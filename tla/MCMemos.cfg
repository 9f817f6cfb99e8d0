SPECIFICATION FairSpec
CONSTANTS
    IntMax = 4
    Text = {empty, milk, eggs}
    EmptyText = empty
    NoMemo = NoMemo
    NoEditor = NoEditor
    MaxPending = 2
INVARIANTS
    TypeOK
    ListMatchesStore
    SwipeAimsTrue
    TrapsOnlyAtIntMax
    EditorOverStoredMemo
    EditorSettles
PROPERTIES
    SavesWhatWasShown
    ImplementsNotebook
    ModelCatchesUp
