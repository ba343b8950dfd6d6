SPECIFICATION Spec
CONSTANTS
    Devices = {a, b}
    Paths = {p, q}
    Mergeable = {q}
    Versions = TRUE
    Conditional = FALSE
    Discipline = {"PullFirst", "Exclusive", "Quiet", "FreshNames", "ResolveFirst"}
    Events = {"Force", "NoDelete", "SameETag"}
    MaxEdits = 4
    MaxClock = 4
    MaxSidecars = 2
    a = a
    b = b
    p = p
    q = q
SYMMETRY DeviceSymmetry
INVARIANTS
    TypeOK
    NoLostWork
CONSTRAINT FourOfOne
