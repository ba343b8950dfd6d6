SPECIFICATION Spec
CONSTANTS
    Devices = {a, b}
    Paths = {p, q}
    Mergeable = {}
    Versions = TRUE
    Conditional = TRUE
    Discipline = {"PullFirst", "Exclusive", "Quiet", "FreshNames"}
    Events = {"Force"}
    MaxEdits = 3
    MaxClock = 3
    MaxSidecars = 1
    a = a
    b = b
    p = p
    q = q
SYMMETRY FullSymmetry
PROPERTIES
    EmptyRemoteRemovesNothing
