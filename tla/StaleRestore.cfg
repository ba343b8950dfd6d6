SPECIFICATION Spec
CONSTANTS
    Devices = {a, b}
    Paths = {p}
    Mergeable = {}
    Versions = TRUE
    Conditional = TRUE
    Discipline = {"Quiet"}
    Events = {"Force"}
    MaxEdits = 2
    MaxClock = 4
    MaxSidecars = 1
    a = a
    b = b
    p = p
SYMMETRY DeviceSymmetry
PROPERTY RestoreKeepsLive
