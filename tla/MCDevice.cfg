SPECIFICATION FairSpec
CONSTANTS
    Pages = 2
    Img = {old, new}
    old = old
    new = new
    Factory = old
    Torn = Torn
    MaxResets = 2
    MaxErrors = 1
    None = None
INVARIANTS
    TypeOK
    BootsWholeImage
    ConfirmedNeverLost
    CandidateNeverLost
    DetachedWaits
PROPERTIES
    RollbackServed
    PrepareEnds
