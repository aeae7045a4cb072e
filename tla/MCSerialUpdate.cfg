CONSTANTS
    Digits <- MCDigits
    Base = 2
    LetterF = 1
    STATE_BUFFER_SIZE = 2
    ProgressBytes = 4
    DfuSize = 8
    LineRest = 2
SPECIFICATION FairSpec
INVARIANTS
    SerialTypeOK
    MarkedIsWhole
    DoneMeansStored
    SerialFailsOnlyWithCause
PROPERTIES
    BothEnd
CHECK_DEADLOCK FALSE
