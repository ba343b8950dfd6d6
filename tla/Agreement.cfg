SPECIFICATION Spec
CONSTANTS
    Devices = {a, b}
    Paths = {p}
    Mergeable = {}
    Versions = TRUE
    Conditional = TRUE
    Discipline = {"PullFirst", "Exclusive", "Quiet", "FreshNames", "ResolveFirst"}
    Events = {"Force", "Lost"}
    MaxEdits = 4
    MaxClock = 4
    MaxSidecars = 1
    a = a
    b = b
    p = p
SYMMETRY DeviceSymmetry
INVARIANTS
    CleanMeansEqual
