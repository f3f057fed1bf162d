SPECIFICATION Spec
CONSTANTS
    OctetBits = 1
    V4Octets = 2
    V6Octets = 4
    MappedPrefix <- Prefix
    GroupOctets = 1
    NoAddr = NoAddr
    Requests = {r1, r2, r3, r4}
    Shapes <- AllShapes
    Codes = {"c1", "c2"}
    Trusted <- Proxies
    Settings <- AllSettings
    VerifyPerSecond = 1
    VerifyBurst = 2
    InternalPerSecond = 0
    InternalBurst = 1
    Second = 2
    MaxTime = 5
    Cap = Cap
SYMMETRY Symmetry
INVARIANT TypeOK
INVARIANT GuessesBounded
INVARIANT CapSpentByValidCodes
INVARIANT RetryAfterSuffices
PROPERTY LimiterIsTokenBucket
CHECK_DEADLOCK FALSE
