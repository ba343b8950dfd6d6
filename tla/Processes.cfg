CONSTANTS
    r1 = r1
    r2 = r2
    p1 = p1
    p2 = p2
    Processes = {r1, r2}
    Paths = {p1, p2}
    MaxEdits = 2
    MaxUploads = 2
SPECIFICATION Spec
SYMMETRY Symmetry
INVARIANTS
    TypeOK
    SyncedMeansPublished
PROPERTIES
    NeverTorn
    PullOverwritesPublished
    TrashedWasRemoved
