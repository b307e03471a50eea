\* Two transactions at a time write an order and its two lines; pages of two rows, so
\* that a page ends between the lines and a push takes two pages; one failure.
SPECIFICATION FairSpec
CONSTANTS
    Rows = 3
    Tables = 2
    Table <- MCTable
    Parent <- MCParent
    Writer = {w1, w2}
    Page = 2
    MaxRev = 3
    MaxFail = 1
INVARIANTS
    TypeOK
    RevisionsInCommitOrder
    RootsDelivered
    MissedIsReported
    ReferencesHold
PROPERTIES
    NeverBack
    EventuallyDelivered
