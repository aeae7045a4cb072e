CONSTANTS
    PageBytes = 2
    SectorPages = 2
    DfuPages = 4
    Byte <- MCByte
    Erased = E
    Junk = J
    E = E
    J = J
    a = a
    b = b
    h1 = h1
    None = None
    h2 = h2
    FrameMax = 1
    Timeout = 1
    Digest = {"crc", "crc1", "crc2"}
    Crc <- MCCrc
    Nonce = {h1}
    AnnouncedLens = {5}
    Payloads <- MCPayloads
    InitialDfu <- MCInitialDfu
    Host = {h1}
    Image <- MCImage1
    MaxAttempts = 3
    MaxQueries = 2
    MaxFaults = 2
SPECIFICATION FairSpec
INVARIANTS
    UpdateTypeOK
    ProgrammedIsImage
    FailsOnlyWithCause
    OneLostFrameRecovered
PROPERTIES
    UpdateServed
    HostEnds
CHECK_DEADLOCK FALSE
