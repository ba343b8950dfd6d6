CONSTANTS
    d1 = d1
    d2 = d2
    Devices = {d1, d2}
    Appended <- TiedLines
    ByteOrder <- MCByteOrder
    MaxAppends = 2
SPECIFICATION FairSpec
PROPERTY Settles
CHECK_DEADLOCK FALSE
