CONSTANTS
    d1 = d1
    d2 = d2
    Devices = {d1, d2}
    Appended <- LiteralToken
    ByteOrder <- MCByteOrder
    MaxAppends = 3
SPECIFICATION FairSpec
PROPERTY Settles
CHECK_DEADLOCK FALSE
