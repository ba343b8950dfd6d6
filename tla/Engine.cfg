CONSTANTS
    Pages <- MCPages
    InCap = 2
    OutCap = 1
    ChanCap = 1
    MaxChatter = 2
SPECIFICATION FairSpec
INVARIANT TypeOK
PROPERTY KeepsPromise
PROPERTY EndsUnlessUnanswered
