CONSTANTS
    PageBytes = 2
    SectorPages = 2
    DfuPages = 4
    Byte <- MCByte
    Erased = E
    Junk = J
    E = E
    J = J
    a = a
    b = b
    FrameMax = 2
    Timeout = 2
    Digest <- MCDigest
    Crc <- MCCrc
    Nonce = {0}
    AnnouncedLens = {0, 3, 5, 8, 9}
    Payloads <- MCPayloads
    InitialDfu <- MCInitialDfu
SPECIFICATION FairNodeSpec
INVARIANTS
    TypeOK
    CountersAgree
    MarkedIsVerified
    ResumePointStored
PROPERTIES
    AckedPagesKept
    SilenceEndsTransfer
CHECK_DEADLOCK FALSE
