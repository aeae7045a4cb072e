CONSTANTS
    Board = {b1, b2}
    Node = {1, 2}
    Target = 1
    None = None
    Setups <- MCSetups
    b1 = b1
    b2 = b2
    Jitter = 3
    MaxUnread = 4
SPECIFICATION FairSpec
INVARIANTS
    EntryTypeOK
    ReadyBoard
    EntryFailsOnlyWithCause
    SharedIdRefused
PROPERTIES
    OnlyNamedBoardLeaves
    EntryEnds
CHECK_DEADLOCK FALSE
