\* Behaviours end only where MaxBlocks and MaxPending are both reached.
CONSTANTS
    Difficulty = 1
    MaxNonce = 3
    LeadingZeros <- MCLeadingZeros
    ZeroHash = ZeroHash
    Payload = {p1, p2}
    MaxBlocks = 4
    MaxPending = 2
SPECIFICATION Spec
INVARIANTS TypeOK ChainValid EntriesPreserved
PROPERTY LogRefinement
CHECK_DEADLOCK FALSE
