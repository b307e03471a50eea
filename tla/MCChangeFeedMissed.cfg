\* A parent is stamped again while a push is reading.
SPECIFICATION Spec
CONSTANTS
    Rows = 3
    Tables = 2
    Table <- MCTable
    Parent <- MCParent
    Writer = {w1}
    Page = 2
    MaxRev = 2
    MaxFail = 0
INVARIANTS
    NothingMissed
