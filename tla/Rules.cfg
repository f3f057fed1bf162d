SPECIFICATION Spec
CONSTANTS
    OctetBits = 2
    V4Octets = 1
    V6Octets = 3
    MappedPrefix <- Prefix
    GroupOctets = 2
    NoAddr = NoAddr
    TOKEN_CLAIMS_MAX_COUNT = 3
    TOKEN_CLAIMS_MAX_BYTES = 16
    MemberBytes = 6
    Ranges <- AllRanges
    Chains <- AllChains
    Forgeries <- AllForgeries
    Subjects = {"alice", "bob"}
    Extras <- AllExtras
    Configs <- AllConfigs
    Keys <- AllKeys
    MaxTokens = 2
INVARIANT RangeIsBitPrefix
INVARIANT ChainNamesClient
INVARIANT IssuedIsAccepted
INVARIANT AcceptedWasIssued
CHECK_DEADLOCK FALSE
