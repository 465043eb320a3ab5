CONSTANTS
    Limit = 4
    b1 = b1
    b2 = b2
    Byte <- MCByte
SPECIFICATION Spec
INVARIANTS TypeOK EmptyHasRoom
PROPERTY ImplementsFifo
