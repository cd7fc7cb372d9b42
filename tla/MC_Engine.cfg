\* Behaviours end only where MaxSends and MaxBlocks are both reached.
CONSTANTS
    Difficulty = 1
    MaxNonce = 3
    LeadingZeros <- MCLeadingZeros
    ZeroHash = ZeroHash
    Undecodable = Undecodable
    Node = {"a", "b"}
    Rogue = {}
    Text = {t1}
    Known <- KnownMutual
    EncKnown <- KnownMutual
    MsgId <- MCMsgId
    NumObservers = 1
    MaxSends = 1
    MaxBlocks = 2
    MaxForged = 1
    MaxDups = 1
SPECIFICATION HonestSpec
INVARIANTS TypeOK PlaintextIntegrity LedgerCorrespondence
PROPERTY NodeLedgersRefine
CHECK_DEADLOCK FALSE
