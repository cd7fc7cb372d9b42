\* Behaviours end only where MaxSends and MaxBlocks are both reached.
CONSTANTS
    Difficulty = 1
    MaxNonce = 3
    LeadingZeros <- MCLeadingZeros
    ZeroHash = ZeroHash
    Undecodable = Undecodable
    Node = {"a", "b"}
    Rogue = {"g"}
    Text = {t1}
    Known <- KnownWithRogue
    EncKnown <- KnownWithRogue
    NumObservers = 1
    MaxSends = 1
    MaxBlocks = 1
    MaxForged = 1
    MaxDups = 0
SPECIFICATION Spec
INVARIANTS ReceivedAuthentic
CHECK_DEADLOCK FALSE
