SPECIFICATION Spec
CONSTANTS
    SyncPaths = {sessions, rules}
    SessionSyncPaths = {sessions}
    Customs = {notes}
    Dirs = {sessions}
    Files <- SomeFiles
    MaxEdits = 3
    sessions = sessions
    rules = rules
    notes = notes
INVARIANTS
    TypeOK
    RemovedStaysOff
PROPERTIES
    PullKeepsEdits
    OwnEraseSparesFile
    EraseIsChosen
