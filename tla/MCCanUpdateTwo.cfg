CONSTANTS
    PageBytes = 2
    SectorPages = 2
    DfuPages = 2
    Byte <- MCByte
    Erased = E
    Junk = J
    E = E
    J = J
    a = a
    b = b
    h1 = h1
    None = None
    h2 = h2
    FrameMax = 1
    Timeout = 1
    Digest = {"crc", "crc1", "crc2"}
    Crc <- MCCrc
    Nonce = {h1, h2}
    AnnouncedLens = {2, 4}
    Payloads <- MCPayloads
    InitialDfu <- MCInitialDfu
    Host = {h1, h2}
    Image <- MCImage2
    MaxAttempts = 2
    MaxQueries = 1
    MaxFaults = 0
SPECIFICATION Spec
PROPERTIES
    InstalledIsOffered
CHECK_DEADLOCK FALSE
