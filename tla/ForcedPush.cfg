SPECIFICATION Spec
CONSTANTS
    Devices = {a, b}
    Paths = {p}
    Mergeable = {}
    Versions = TRUE
    Conditional = TRUE
    Discipline = {"Quiet"}
    Events = {"Force", "Lost", "HeadFails", "Crash", "Vanish"}
    MaxEdits = 3
    MaxClock = 2
    MaxSidecars = 1
    a = a
    b = b
    p = p
SYMMETRY DeviceSymmetry
VIEW Undisciplined
CONSTRAINT LastEditHashed
INVARIANTS
    SyncedMeansPublished
PROPERTIES
    PullOverwritesPublished
    BinBeforeDelete
    NoStaleDelete
