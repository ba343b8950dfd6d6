CONSTANTS
    d1 = d1
    d2 = d2
    Devices = {d1, d2}
    Appended <- MCAppended
    ByteOrder <- MCByteOrder
    MaxAppends = 4
SPECIFICATION FairSpec
INVARIANT TypeOK
INVARIANT QuietMeansMerged
PROPERTY NothingLost
PROPERTY Settles
CHECK_DEADLOCK FALSE
