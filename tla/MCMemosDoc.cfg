SPECIFICATION Spec
CONSTANTS
    IntMax = 2
    Text = {empty, milk}
    EmptyText = empty
    NoMemo = NoMemo
    NoEditor = NoEditor
    MaxPending = 2
INVARIANTS
    TextDeliveredImmediately
