\* Behaviours end only where MaxBlocks and MaxPending are both reached.
CONSTANTS
    Difficulty = 1
    MaxNonce = 3
    LeadingZeros <- MCLeadingZeros
    ZeroHash = ZeroHash
    Payload = {p1, p2}
    MaxBlocks = 3
    MaxPending = 1
    TamperFrom = 2
SPECIFICATION TSpec
INVARIANTS TamperDetected
CHECK_DEADLOCK FALSE
