SPECIFICATION Spec
CONSTANTS
    Paths = {rollout, history}
    Mergeable = {history}
    MaxEdits = 5
INVARIANTS
    TypeOK
    UpToDateIsTrue
PROPERTIES
    PreviewIsPull
    BackupHolds
VIEW Reread
