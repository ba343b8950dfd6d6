SPECIFICATION FairSpec
CONSTANTS
    Devices = {a, b}
    Paths = {p}
    Mergeable = {}
    Versions = TRUE
    Conditional = TRUE
    Discipline = {"PullFirst", "Exclusive", "Quiet", "FreshNames"}
    Events = {}
    MaxEdits = 3
    MaxClock = 4
    MaxSidecars = 1
    a = a
    b = b
    p = p
PROPERTIES
    Convergence
