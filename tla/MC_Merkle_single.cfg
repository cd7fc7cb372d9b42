\* Every list of up to five items over three values; behaviours stop at MaxLen.
CONSTANTS
    Item = {x1, x2, x3}
    MaxLen = 5
SPECIFICATION Spec
INVARIANTS SingleLeafRoot
CHECK_DEADLOCK FALSE
