CONSTANTS
    p1 = p1  p2 = p2  c1 = c1  c2 = c2
    Passes = {p1, p2, e}
    Empty = e
    Plain = Plain  Stub = Stub  NoPart = NoPart
    Imports <- MCImports
    Certs = {c1, c2}
    Begin = Begin  End = End  Text = Text  Forged = Forged
    MaxLines = 7
    Error = Error  NotRead = NotRead
    LimbBits = 3
    RawLen = 3
    Orders <- MCOrders
    CurveLen = 3
    LowBits = 2
    Unset = Unset
    Limits = {0, 4, 7}
    MaxU64 = 7
    MaxRead = 3
    Messages <- MCMessages
    NoMessage = NoMessage
    WordLen = 4
    MinTailCheck = 8
    MaxLen = 13
    ByteBits = 3
    WordBits = 4
    AccBits = 7
    ChecksumEvery = 3
    Digest <- MCDigest
    SeedLens = {1, 2, 3}
    WordCounts = {1, 3}
    MaxQr = 17
    MaxWords = 3
    ScanOver = 1
    Unknown = Unknown
    None = None
SPECIFICATION CoreSpec
INVARIANTS VerdictIsTrue CompactShowsSeed NeverHalfChanged OnePassphraseServes EveryBlockOnce ScalarIsCanonical CapIsExact OnlyTailUnfilled HonestDrawIsServed
CHECK_DEADLOCK FALSE
