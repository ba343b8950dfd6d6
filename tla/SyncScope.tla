------------------------------- MODULE SyncScope -------------------------------
(***************************************************************************)
(* Which files a device syncs: the scope, the sync paths and the exclude   *)
(* filters of config.yaml, the `codex-sync paths` commands that change     *)
(* them, and what push, push --force and pull then do to the files, the    *)
(* bucket and state.json.                                                  *)
(*                                                                         *)
(* One device is modelled, other devices only write the bucket.  Commands  *)
(* are one step each: how they interleave is the matter of CodexSync.      *)
(* The content of a file is the number of the edit that made it, zero is   *)
(* no file, and later edits have greater numbers, so a number also stands  *)
(* for the version of an object and for the mtime of a file.               *)
(***************************************************************************)
EXTENDS Naturals

CONSTANTS
    SyncPaths,         \* the default paths of scope full
    SessionSyncPaths,  \* the default paths of scope sessions
    Customs,           \* paths a user may add
    Dirs,              \* the paths that are directories
    Files,             \* the files some device may have
    MaxEdits           \* bound of the model

Paths == SyncPaths \cup Customs
\* A file is a path itself, or lies in it, or lies deeper in it.
File == [path : Paths \ Dirs, place : {"self"}] \cup [path : Dirs, place : {"in", "deep"}]

ASSUME ScopeAssumption ==
    /\ SessionSyncPaths \subseteq SyncPaths /\ SessionSyncPaths # {}
    /\ SyncPaths \cap Customs = {}
    /\ Dirs \subseteq Paths /\ Files \subseteq File
    /\ MaxEdits \in Nat

VARIABLES
    scope,      \* config.yaml: scope
    syncPaths,  \* config.yaml: sync_paths, empty when it is not there
    exclude,    \* config.yaml: exclude
    local,      \* local[f]: the content of file f under ~/.codex
    synced,     \* synced[f]: its hash and version in state.json, zero if untracked
    remote,     \* remote[f]: the object under f's key
    sidecars,   \* files with a conflict sidecar; resolving one is the matter of CodexSync
    edits,      \* edits so far, those of other devices included
    off,        \* paths removed since they were last asked for or the scope changed
    taken,      \* paths the user's commands took out, see EraseIsChosen
    erased      \* objects this device's pushes removed and nobody put back

config == <<scope, syncPaths, exclude>>
data == <<local, synced, remote, sidecars>>
vars == <<config, data, edits, off, taken, erased>>

Scopes == {"full", "sessions"}
\* rules, rules/* and rules/**
Patterns == [path : Paths, form : {"name"}] \cup [path : Dirs, form : {"star", "tree"}]
Contents == 0..MaxEdits

TypeOK ==
    /\ scope \in Scopes
    /\ syncPaths \subseteq Paths
    /\ exclude \subseteq Patterns
    /\ local \in [Files -> Contents]
    /\ synced \in [Files -> Contents]
    /\ remote \in [Files -> Contents]
    /\ sidecars \subseteq Files
    /\ edits \in Contents
    /\ off \subseteq Paths /\ taken \subseteq Paths
    /\ erased \subseteq Files

Init ==
    /\ scope \in Scopes
    /\ syncPaths = {} /\ exclude = {}
    /\ local = [f \in Files |-> 0]
    /\ synced = local /\ remote = local
    /\ sidecars = {} /\ edits = 0
    /\ off = {} /\ taken = {} /\ erased = {}

-----------------------------------------------------------------------------
(* The sync set. *)

ScopedSyncPaths == IF scope = "sessions" THEN SessionSyncPaths ELSE SyncPaths

\* NewManager: without a list of its own a configuration has the defaults.
Listed == IF syncPaths = {} THEN ScopedSyncPaths ELSE syncPaths

\* The scope is a ceiling, and some path is always left, though the filters may
\* leave no file of it: they do after `paths remove` of every path.
GetEffectiveSyncPaths ==
    IF scope = "sessions" /\ Listed \cap SessionSyncPaths # {}
    THEN Listed \cap SessionSyncPaths
    ELSE IF scope = "sessions" THEN ScopedSyncPaths ELSE Listed

\* rules/* matches what lies in rules, not what lies deeper.
matchExcludePattern(g, f) == g.path = f.path /\ (g.form = "star" => f.place # "deep")
IsExcluded(f) == \E g \in exclude : matchExcludePattern(g, f)

\* A walk skips an excluded directory, and with it what lies deeper.
Skipped(f) == \E g \in exclude : g.path = f.path

\* GetLocalFiles, were every file there.
SyncSet == {f \in Files : f.path \in GetEffectiveSyncPaths /\ ~Skipped(f)}

GetLocalFiles == {f \in SyncSet : local[f] # 0}

-----------------------------------------------------------------------------
(* codex-sync paths: the operations of paths.Manager, and their commands. *)

\* Mutant: the first path added to an empty list does not bring the defaults.
OnlyAsked(p) ==
    /\ syncPaths' = syncPaths \cup {p}
    /\ exclude' = {g \in exclude : g.path # p}

Add(p) ==
    /\ syncPaths' = Listed \cup {p}
    /\ exclude' = {g \in exclude : g.path # p}

PathsAdd(p) ==
    /\ p \notin Listed
    /\ scope = "sessions" => p \in SessionSyncPaths
    /\ Add(p)
    /\ off' = off \ {p} /\ taken' = taken \ {p}
    /\ UNCHANGED <<scope, data, edits, erased>>

\* Mutant: no filter is added for a default path.
OnlyUnlisted(p) == syncPaths' = Listed \ {p} /\ UNCHANGED exclude

\* Mutant: the filter is rules/* for a file, too.
AlwaysStar(p) ==
    /\ syncPaths' = Listed \ {p}
    /\ exclude' = exclude \cup {[path |-> p, form |-> "star"]}

\* The filter added for a default path depends on what is there: rules/* if it
\* is a directory, rules if it is a file or missing.
Remove(p) ==
    /\ syncPaths' = Listed \ {p}
    /\ IF p \in ScopedSyncPaths
       THEN \E form \in {"name"} \cup (IF p \in Dirs THEN {"star"} ELSE {}) :
              /\ p \in Dirs /\ form = "name" => \A f \in Files : f.path = p => local[f] = 0
              /\ exclude' = exclude \cup {[path |-> p, form |-> form]}
       ELSE UNCHANGED exclude

PathsRemove(p) ==
    /\ p \in Listed
    /\ Remove(p)
    /\ off' = off \cup {p} /\ taken' = taken \cup {p}
    /\ UNCHANGED <<scope, data, edits, erased>>

\* A whole path is refused: paths remove is for that.
AddExclude(g) ==
    /\ ~(g.form = "name" /\ g.path \in Listed)
    /\ g \notin exclude
    /\ exclude' = exclude \cup {g}

PathsExclude(g) ==
    /\ AddExclude(g)
    /\ taken' = taken \cup {g.path}
    /\ UNCHANGED <<scope, syncPaths, data, edits, off, taken, erased>>

RemoveExclude(g) ==
    /\ g \in exclude
    /\ exclude' = exclude \ {g}

PathsUnexclude(g) ==
    /\ RemoveExclude(g)
    /\ off' = off \ {g.path}
    /\ UNCHANGED <<scope, syncPaths, data, edits, taken, erased>>

PathsReset ==
    /\ syncPaths' = {} /\ exclude' = {} /\ off' = {} /\ taken' = {}
    /\ UNCHANGED <<scope, data, edits, erased>>

\* A list written under scope sessions lacks the other defaults under scope full.
SetScope ==
    /\ scope' \in Scopes \ {scope}
    /\ off' = {}
    /\ taken' = taken \cup (IF syncPaths = {} THEN {} ELSE ScopedSyncPaths' \ ScopedSyncPaths)
    /\ UNCHANGED <<syncPaths, exclude, data, edits, erased>>

-----------------------------------------------------------------------------
(* Edits here and on other devices. *)

Edit(f) ==
    /\ edits < MaxEdits /\ edits' = edits + 1
    /\ \E content \in {0, edits + 1} : local' = [local EXCEPT ![f] = content]
    /\ UNCHANGED <<config, synced, remote, sidecars, off, taken, erased>>

EditElsewhere(f) ==
    /\ edits < MaxEdits /\ edits' = edits + 1
    /\ \E content \in {0, edits + 1} : remote' = [remote EXCEPT ![f] = content]
    /\ erased' = erased \ {f}
    /\ UNCHANGED <<config, local, synced, sidecars, off, taken>>

-----------------------------------------------------------------------------
(* Push and pull. *)

remoteChanged(f) == synced[f] = 0 \/ remote[f] # synced[f]

\* DetectChanges: what is to upload, with the sidecar rule of Push, and what is
\* tracked but not found.
Changed == {f \in GetLocalFiles \ sidecars : local[f] # synced[f]}
Deleted == {f \in Files \ GetLocalFiles : synced[f] # 0}

\* Mutant: an erased object stays tracked.
StillTracked(gone) == {}

\* The entries that go when these objects are gone.
Forgotten(gone) == gone

\* Without --force deletions are reported only.  With it, an object another
\* device replaced is left alone, and one that is gone is no longer tracked.
Push(force) ==
    LET Gone == {f \in Deleted : force /\ remote[f] = 0}
        Erased == {f \in Deleted : force /\ remote[f] # 0 /\ ~remoteChanged(f)}
    IN  /\ Changed # {} \/ Gone # {} \/ Erased # {}
        /\ remote' = [f \in Files |->
                        IF f \in Changed THEN local[f] ELSE IF f \in Erased THEN 0 ELSE remote[f]]
        /\ synced' = [f \in Files |->
                        IF f \in Changed THEN local[f]
                        ELSE IF f \in Forgotten(Gone \cup Erased) THEN 0 ELSE synced[f]]
        /\ erased' = (erased \ Changed) \cup Erased
        /\ UNCHANGED <<config, local, sidecars, edits, off, taken>>

\* buildRemoteMap asks for the filters, not for the sync paths.
RemoteFiles == {f \in Files : remote[f] # 0 /\ ~IsExcluded(f)}

\* Mutant: a local change does not stand in the way.
OverwritesChanged ==
    {f \in RemoteFiles : f \in GetLocalFiles => remoteChanged(f) /\ local[f] < remote[f]}

\* A file the walk did not find is downloaded.  One it found is if only the
\* remote has changed or, untracked, if it is older; a conflict keeps it.
Downloads ==
    {f \in RemoteFiles :
        \/ f \notin GetLocalFiles
        \/ synced[f] # 0 /\ remoteChanged(f) /\ local[f] = synced[f]
        \/ synced[f] = 0 /\ local[f] < remote[f]}

Conflicts ==
    {f \in RemoteFiles \cap GetLocalFiles :
        synced[f] # 0 /\ remoteChanged(f) /\ local[f] # synced[f]}

\* staleLocalFiles
Stale == {f \in GetLocalFiles \ RemoteFiles : synced[f] # 0 /\ local[f] = synced[f]}

\* The guard for an empty remote does not help once a push has left a manifest.
Pull ==
    /\ Downloads \cup Stale \cup Conflicts # {}
    /\ local' = [f \in Files |->
                   IF f \in Downloads THEN remote[f] ELSE IF f \in Stale THEN 0 ELSE local[f]]
    /\ synced' = [f \in Files |->
                   IF f \in Downloads THEN remote[f] ELSE IF f \in Stale THEN 0 ELSE synced[f]]
    /\ sidecars' = sidecars \cup Conflicts
    /\ UNCHANGED <<config, remote, edits, off, taken, erased>>

-----------------------------------------------------------------------------
Next ==
    \/ \E p \in Paths : PathsAdd(p) \/ PathsRemove(p)
    \/ \E g \in Patterns : PathsExclude(g) \/ PathsUnexclude(g)
    \/ PathsReset \/ SetScope
    \/ \E f \in Files : Edit(f) \/ EditElsewhere(f)
    \/ \E force \in BOOLEAN : Push(force)
    \/ Pull

Spec == Init /\ [][Next]_vars

-----------------------------------------------------------------------------
(* Properties. *)

\* `paths remove` holds until the user adds the path, drops a filter of it,
\* resets or changes the scope: no other command brings the path back into the
\* sync set, not even the one that empties the list, which makes it the defaults.
RemovedStaysOff == \A f \in SyncSet : f.path \notin off

\* `push --force` erases the object of a file that is still here only if the user
\* took its path out: removed it, filtered it, narrowed the scope, or widened the
\* scope over a list of their own.  No other command lets a path of the scope slip
\* out of the sync set, not the first `paths add`, which starts the list (NewManager).
EraseIsChosen ==
    [][\A f \in Files :
         /\ f.path \in ScopedSyncPaths \ taken
         /\ local[f] # 0 /\ remote[f] # 0 /\ remote'[f] = 0
         => edits' # edits]_vars

\* A pull changes a file of the sync set only if it is as last synced, or not
\* tracked and older.
PullKeepsEdits ==
    [][\A f \in SyncSet :
         local[f] # 0 /\ local'[f] # local[f] /\ edits' = edits =>
            \/ local[f] = synced[f]
            \/ synced[f] = 0 /\ local[f] < remote[f]]_vars

\* An object this device's forced push removed, because its file was filtered
\* out, never makes a later pull move that file to the trash: once it is in the
\* sync set again it is pushed again (applyDeletes, staleLocalFiles).
OwnEraseSparesFile ==
    [][\A f \in erased : local'[f] = 0 /\ local[f] # 0 => edits' # edits]_vars

\* A pull writes only files of the sync set: what the scope, the sync paths and
\* the filters leave out stays as it is on this device.  README: a device of
\* scope sessions syncs "the rows marked sessions only".
PullStaysInSyncSet ==
    [][\A f \in Files :
         local'[f] # local[f] /\ edits' = edits => f \in SyncSet]_vars
=============================================================================
