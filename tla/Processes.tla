-------------------------------- MODULE Processes -------------------------------
(***************************************************************************)
(* One device on which codex-sync runs several times at once: the launchd  *)
(* job beside a push or pull by hand.  The processes share ~/.codex and    *)
(* state.json (internal/sync/state.go), which no lock protects: each loads *)
(* it when it starts and replaces all of it when it ends, by way of a      *)
(* temporary file and a rename.                                            *)
(*                                                                         *)
(* CodexSync has one command per device at a time and all of its steps;    *)
(* here a device has many, pushes are without --force, no file is merged,  *)
(* and the other devices are a bucket that changes.  A file's content is   *)
(* the number of the edit that made it; timestamps are left out, so a pull *)
(* may or may not take an untracked file for the older one.                *)
(***************************************************************************)
EXTENDS Naturals

CONSTANTS
    Processes,
    Paths,
    MaxEdits,    \* contents that this and other devices make
    MaxUploads   \* versions of objects; both bound the model

ASSUME ProcessesAssumption == MaxEdits \in Nat /\ MaxUploads \in Nat

VARIABLES
    disk,       \* disk[p]: the file, or none
    sidecars,   \* paths with a conflict sidecar
    saved,      \* state.json
    tmp,        \* tmp[n]: the temporary file n beside it
    remote,     \* remote[p]: the object, or none
    step,       \* step[r]: what process r does next
    mem,        \* mem[r]: the state it has loaded
    seen,       \* seen[r]: the objects it has listed
    local,      \* local[r]: the files it found when it decided
    task,       \* task[r][p]: what it still has to do about p
    held,       \* held[r][p]: the content it has sent or fetched
    edits, uploads,
    published,  \* contents that some upload has carried
    removed     \* paths whose object another device has removed

device == <<disk, sidecars>>
stateFile == <<saved, tmp>>
process == <<step, mem, seen, local, task, held>>
history == <<edits, uploads, published, removed>>
vars == <<device, stateFile, remote, process, history>>

Content == 0..MaxEdits
NoFile == 0
Object == [data : Content, ver : 0..MaxUploads]
NoObject == [data |-> NoFile, ver |-> 0]
\* An entry has no hash if its file had vanished by then, see PullRecord.
NoEntry == [hash |-> NoFile, ver |-> 0]
Entry == [hash : Content, ver : 0..MaxUploads]

\* What a reader of state.json finds: entries, no file, or text that does not
\* parse.
State == [Paths -> Entry]
NewState == [p \in Paths |-> NoEntry]
Files == [kind : {"state"}, files : State] \cup [kind : {"none", "torn"}, files : {NewState}]
Missing == [kind |-> "none", files |-> NewState]
Torn == [kind |-> "torn", files |-> NewState]
Whole(files) == [kind |-> "state", files |-> files]

Steps == {"idle", "corrupt", "loaded", "push", "list", "pull", "trash",
          "create", "write", "rename"}
Tasks == {"none", "upload", "record", "fetch", "write", "rehash", "conflict", "trash"}

NoTask == [p \in Paths |-> "none"]
Nothing == [p \in Paths |-> NoFile]
NoneSeen == [p \in Paths |-> NoObject]

TypeOK ==
    /\ disk \in [Paths -> Content] /\ sidecars \subseteq Paths
    /\ saved \in Files /\ tmp \in [Processes -> Files]
    /\ remote \in [Paths -> Object]
    /\ step \in [Processes -> Steps]
    /\ mem \in [Processes -> State] /\ seen \in [Processes -> [Paths -> Object]]
    /\ local \in [Processes -> SUBSET Paths]
    /\ task \in [Processes -> [Paths -> Tasks]]
    /\ held \in [Processes -> [Paths -> Content]]
    /\ edits \in Content /\ uploads \in 0..MaxUploads
    /\ published \subseteq Content /\ removed \subseteq Paths

\* Codex was used before codex-sync, or state.json was damaged meanwhile.
Init ==
    /\ disk = Nothing /\ sidecars = {}
    /\ saved \in {Missing, Torn} /\ tmp = [r \in Processes |-> Missing]
    /\ remote = NoneSeen
    /\ step = [r \in Processes |-> "idle"]
    /\ mem = [r \in Processes |-> NewState] /\ seen = [r \in Processes |-> NoneSeen]
    /\ local = [r \in Processes |-> {}]
    /\ task = [r \in Processes |-> NoTask] /\ held = [r \in Processes |-> Nothing]
    /\ edits = 0 /\ uploads = 0
    /\ published = {} /\ removed = {}

Exists(p) == disk[p] # NoFile
Tracked(r, p) == mem[r][p] # NoEntry
Changed(r, p) == disk[p] # mem[r][p].hash \/ (Tracked(r, p) /\ ~Exists(p))

\* Where Head found no version the timestamps tell a later object.
RemoteChanged(r, p) == seen[r][p].ver # mem[r][p].ver

Goes(r, to) == step' = [step EXCEPT ![r] = to]
Does(r, p, what) == task' = [task EXCEPT ![r][p] = what]
AllDone(r) == task[r] = NoTask
Quiet == \A r \in Processes : step[r] = "idle"

\* What a process that has ended knew no longer matters.
Forgets(r) ==
    /\ mem' = [mem EXCEPT ![r] = NewState] /\ seen' = [seen EXCEPT ![r] = NoneSeen]
    /\ local' = [local EXCEPT ![r] = {}]
    /\ task' = [task EXCEPT ![r] = NoTask] /\ held' = [held EXCEPT ![r] = Nothing]

Ends(r) == Goes(r, "idle") /\ Forgets(r)

-----------------------------------------------------------------------------
(* state.json *)

\* LoadState.  A text that does not parse is renamed away first.
Load(r) ==
    /\ step[r] = "idle"
    /\ Goes(r, IF saved.kind = "torn" THEN "corrupt" ELSE "loaded")
    /\ mem' = [mem EXCEPT ![r] = saved.files]
    /\ UNCHANGED <<device, stateFile, remote, seen, local, task, held, history>>

\* The rename takes whatever is there by now.
BackUp(r) ==
    /\ step[r] = "corrupt"
    /\ Goes(r, "loaded")
    /\ saved' = Missing
    /\ UNCHANGED <<device, tmp, remote, mem, seen, local, task, held, history>>

\* Mutant: every process writes the same temporary file.
OneName(r) == CHOOSE s \in Processes : TRUE

\* CreateTemp finds a name of its own for every Save.
TempName(r) == r

\* Save.
CreateTemp(r) ==
    /\ step[r] = "create"
    /\ tmp' = [tmp EXCEPT ![TempName(r)] = Torn]
    /\ Goes(r, "write")
    /\ UNCHANGED <<device, saved, remote, mem, seen, local, task, held, history>>

WriteTemp(r) ==
    /\ step[r] = "write"
    /\ tmp' = [tmp EXCEPT ![TempName(r)] = Whole(mem[r])]
    /\ Goes(r, "rename")
    /\ UNCHANGED <<device, saved, remote, mem, seen, local, task, held, history>>

RenameTemp(r) ==
    /\ step[r] = "rename"
    /\ saved' = tmp[TempName(r)]
    /\ tmp' = [tmp EXCEPT ![TempName(r)] = Missing]
    /\ Ends(r)
    /\ UNCHANGED <<device, remote, history>>

\* A process is killed, panics, or stops at an error; Save's temporary file is
\* removed or left behind, and nobody reads it.
Dies(r) ==
    /\ step[r] # "idle"
    /\ tmp' = [tmp EXCEPT ![TempName(r)] = Missing]
    /\ Ends(r)
    /\ UNCHANGED <<device, saved, remote, history>>

-----------------------------------------------------------------------------
(* push *)

PushStart(r) ==
    /\ step[r] = "loaded"
    /\ LET changes == {p \in Paths : Changed(r, p)} IN
       \/ /\ changes = {}
          /\ Ends(r)
       \/ /\ changes # {}
          /\ task' = [task EXCEPT ![r] = [p \in Paths |->
                IF p \in changes /\ Exists(p) /\ p \notin sidecars THEN "upload" ELSE "none"]]
          /\ Goes(r, "push")
          /\ UNCHANGED <<mem, seen, local, held>>
    /\ UNCHANGED <<device, stateFile, remote, history>>

\* Mutant: an upload that fails is recorded like one that does not.
IgnoresError(r, p) ==
    /\ step[r] = "push" /\ task[r][p] = "upload"
    /\ Exists(p) /\ uploads < MaxUploads
    /\ uploads' = uploads + 1
    /\ \/ /\ remote' = [remote EXCEPT ![p] = [data |-> disk[p], ver |-> uploads + 1]]
          /\ published' = published \cup {disk[p]}
       \/ UNCHANGED <<remote, published>>
    /\ held' = [held EXCEPT ![r][p] = disk[p]]
    /\ Does(r, p, "record")
    /\ UNCHANGED <<device, stateFile, step, mem, seen, local, edits, removed>>

\* uploadFile reads the file and sends it; the file may be gone by now.
PushSend(r, p) ==
    /\ step[r] = "push" /\ task[r][p] = "upload"
    /\ Exists(p) /\ uploads < MaxUploads
    /\ remote' = [remote EXCEPT ![p] = [data |-> disk[p], ver |-> uploads + 1]]
    /\ uploads' = uploads + 1
    /\ published' = published \cup {disk[p]}
    /\ held' = [held EXCEPT ![r][p] = disk[p]]
    /\ Does(r, p, "record")
    /\ UNCHANGED <<device, stateFile, step, mem, seen, local, edits, removed>>

\* Mutant: the version is guessed to be the next one.
NextVersion(p) == uploads + 1

HeadVersion(p) == remote[p].ver

\* A file that changed while it was sent stays pending.
PushRecord(r, p) ==
    /\ step[r] = "push" /\ task[r][p] = "record"
    /\ disk[p] = held[r][p]
    /\ mem' = [mem EXCEPT ![r][p] = [hash |-> held[r][p], ver |-> HeadVersion(p)]]
    /\ held' = [held EXCEPT ![r][p] = NoFile]
    /\ Does(r, p, "none")
    /\ UNCHANGED <<device, stateFile, remote, step, seen, local, history>>

PushEnds(r) ==
    /\ step[r] = "push" /\ AllDone(r)
    /\ Goes(r, "create")
    /\ UNCHANGED <<device, stateFile, remote, mem, seen, local, task, held, history>>

\* A step fails, and the command goes on with the other files.
StepFails(r, p) ==
    /\ step[r] \in {"push", "pull", "trash"} /\ task[r][p] # "none"
    /\ held' = [held EXCEPT ![r][p] = NoFile]
    /\ Does(r, p, "none")
    /\ UNCHANGED <<device, stateFile, remote, step, mem, seen, local, history>>

-----------------------------------------------------------------------------
(* pull *)

\* An empty remote ends it.
PullList(r) ==
    /\ step[r] = "loaded"
    /\ \/ /\ remote = NoneSeen
          /\ Ends(r)
       \/ /\ remote # NoneSeen
          /\ seen' = [seen EXCEPT ![r] = remote]
          /\ Goes(r, "list")
          /\ UNCHANGED <<mem, local, task, held>>
    /\ UNCHANGED <<device, stateFile, remote, history>>

\* Mutant: a file that changed on both sides is downloaded.
NoConflict(r, p) ==
    IF ~Exists(p) THEN {"fetch"}
    ELSE IF ~Tracked(r, p) THEN {"fetch", "none"}
    ELSE IF ~RemoteChanged(r, p) THEN {"none"} ELSE {"fetch"}

\* What becomes of a listed object.
Decision(r, p) ==
    IF ~Exists(p) THEN {"fetch"}
    ELSE IF ~Tracked(r, p) THEN {"fetch", "none"}
    ELSE IF ~RemoteChanged(r, p) THEN {"none"}
    ELSE IF Changed(r, p) THEN {"conflict"} ELSE {"fetch"}

PullDecide(r) ==
    /\ step[r] = "list"
    /\ \E t \in [Paths -> {"none", "fetch", "conflict"}] :
         /\ \A p \in Paths :
              IF seen[r][p] = NoObject THEN t[p] = "none" ELSE t[p] \in Decision(r, p)
         /\ task' = [task EXCEPT ![r] = t]
    /\ local' = [local EXCEPT ![r] = {p \in Paths : Exists(p)}]
    /\ Goes(r, "pull")
    /\ UNCHANGED <<device, stateFile, remote, mem, seen, held, history>>

\* downloadFile: the object is fetched, which may be later than the listed one,
\* then written, then the file is read again for its hash.
PullFetch(r, p) ==
    /\ step[r] = "pull" /\ task[r][p] = "fetch"
    /\ remote[p] # NoObject
    /\ held' = [held EXCEPT ![r][p] = remote[p].data]
    /\ Does(r, p, "write")
    /\ UNCHANGED <<device, stateFile, remote, step, mem, seen, local, history>>

PullWrite(r, p) ==
    /\ step[r] = "pull" /\ task[r][p] = "write"
    /\ disk' = [disk EXCEPT ![p] = held[r][p]]
    /\ held' = [held EXCEPT ![r][p] = NoFile]
    /\ Does(r, p, "rehash")
    /\ UNCHANGED <<sidecars, stateFile, remote, step, mem, seen, local, history>>

\* The file is looked at twice, and both errors are ignored: if it has vanished
\* before Stat the process panics, see Dies; between Stat and HashFile, an entry
\* without a hash is recorded.
PullRecord(r, p) ==
    /\ step[r] = "pull" /\ task[r][p] = "rehash"
    /\ mem' = [mem EXCEPT ![r][p] = [hash |-> disk[p], ver |-> seen[r][p].ver]]
    /\ Does(r, p, "none")
    /\ UNCHANGED <<device, stateFile, remote, step, seen, local, held, history>>

\* handleConflict; the sidecar is not tracked.
PullConflict(r, p) ==
    /\ step[r] = "pull" /\ task[r][p] = "conflict"
    /\ remote[p] # NoObject
    /\ sidecars' = sidecars \cup {p}
    /\ Does(r, p, "none")
    /\ UNCHANGED <<disk, stateFile, remote, step, mem, seen, local, held, history>>

\* Mutant: the tracked files are those of state.json by now.
LatestState(r) == saved.files

KnownState(r) == mem[r]

Candidates(r) ==
    {p \in local[r] : KnownState(r)[p] # NoEntry /\ seen[r][p] = NoObject}

\* staleLocalFiles hashes every candidate, and gives up at one that is gone.
PullScan(r) ==
    /\ step[r] = "pull" /\ AllDone(r)
    /\ task' = [task EXCEPT ![r] = [p \in Paths |->
          IF p \in Candidates(r) /\ KnownState(r)[p].hash = disk[p]
             /\ \A q \in Candidates(r) : Exists(q)
          THEN "trash" ELSE "none"]]
    /\ Goes(r, "trash")
    /\ UNCHANGED <<device, stateFile, remote, mem, seen, local, held, history>>

PullTrash(r, p) ==
    /\ step[r] = "trash" /\ task[r][p] = "trash" /\ Exists(p)
    /\ disk' = [disk EXCEPT ![p] = NoFile]
    /\ mem' = [mem EXCEPT ![r][p] = NoEntry]
    /\ Does(r, p, "none")
    /\ UNCHANGED <<sidecars, stateFile, remote, step, seen, local, held, history>>

PullEnds(r) ==
    /\ step[r] = "trash" /\ AllDone(r)
    /\ Goes(r, "create")
    /\ UNCHANGED <<device, stateFile, remote, mem, seen, local, task, held, history>>

-----------------------------------------------------------------------------
(* Codex and its user, who rest while a command runs, and other devices. *)

Edit(p) ==
    /\ Quiet /\ edits < MaxEdits
    /\ edits' = edits + 1
    /\ disk' = [disk EXCEPT ![p] = edits + 1]
    /\ UNCHANGED <<sidecars, stateFile, remote, process, uploads, published, removed>>

Delete(p) ==
    /\ Quiet /\ Exists(p)
    /\ disk' = [disk EXCEPT ![p] = NoFile]
    /\ UNCHANGED <<sidecars, stateFile, remote, process, history>>

DropSidecar(p) ==
    /\ Quiet /\ p \in sidecars
    /\ sidecars' = sidecars \ {p}
    /\ UNCHANGED <<disk, stateFile, remote, process, history>>

OthersPush(p) ==
    /\ edits < MaxEdits /\ uploads < MaxUploads
    /\ edits' = edits + 1 /\ uploads' = uploads + 1
    /\ remote' = [remote EXCEPT ![p] = [data |-> edits + 1, ver |-> uploads + 1]]
    /\ published' = published \cup {edits + 1}
    /\ UNCHANGED <<device, stateFile, process, removed>>

OthersRemove(p) ==
    /\ remote[p] # NoObject
    /\ remote' = [remote EXCEPT ![p] = NoObject]
    /\ removed' = removed \cup {p}
    /\ UNCHANGED <<device, stateFile, process, edits, uploads, published>>

-----------------------------------------------------------------------------

Command(r) ==
    \/ Load(r) \/ BackUp(r) \/ CreateTemp(r) \/ WriteTemp(r) \/ RenameTemp(r) \/ Dies(r)
    \/ PushStart(r) \/ PushEnds(r) \/ PullList(r) \/ PullDecide(r) \/ PullScan(r) \/ PullEnds(r)
    \/ \E p \in Paths :
         \/ PushSend(r, p) \/ PushRecord(r, p) \/ StepFails(r, p)
         \/ PullFetch(r, p) \/ PullWrite(r, p) \/ PullRecord(r, p) \/ PullConflict(r, p)
         \/ PullTrash(r, p)

World(p) == Edit(p) \/ Delete(p) \/ DropSidecar(p) \/ OthersPush(p) \/ OthersRemove(p)

Next == (\E r \in Processes : Command(r)) \/ \E p \in Paths : World(p)

Spec == Init /\ [][Next]_vars

-----------------------------------------------------------------------------

\* No process damages state.json: whatever others load, save, rename away or
\* leave half-written when they die, a file that parses is never replaced by
\* one that does not ("A crash or concurrent run mid-write can never leave a
\* half-written/corrupt state.json", state.go:117-119).
NeverTorn == [][saved # Torn => saved' # Torn]_vars

\* state.json calls nothing synced that no upload has carried, though each
\* process saves what it loaded before the others saved, and reads files that
\* the others write: the hash of an entry is that of a content some device
\* has uploaded (sync.go:675-704, :773-780).
SyncedMeansPublished == \A p \in Paths : saved.files[p].hash \in published \cup {NoFile}

\* A pull that replaces a file its state.json knew destroys nothing that never
\* left the device, though the entry may be older than what other processes
\* have done to the file since (sync.go:498-543, :743-771).
PullOverwritesPublished ==
    [][\A r \in Processes, p \in Paths :
         /\ task[r][p] = "write" /\ task'[r][p] = "rehash"
         /\ Tracked(r, p)
         => disk[p] \in published \cup {NoFile}]_vars

\* A pull moves a file to the trash only if another device did remove its
\* object: a listing from before another process pushed the file must not make
\* the file look removed (sync.go:827-886).
TrashedWasRemoved ==
    [][\A r \in Processes, p \in Paths :
         task[r][p] = "trash" /\ Exists(p) /\ disk'[p] = NoFile => p \in removed]_vars
================================================================================
