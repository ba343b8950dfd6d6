------------------------------- MODULE CodexSync -------------------------------
(***************************************************************************)
(* Push, pull, merging, conflict resolution and the remote recycle bin of  *)
(* internal/sync.  Several devices, each running at most one codex-sync    *)
(* command at a time, share one bucket while Codex and the user edit the   *)
(* files of each device.                                                   *)
(*                                                                         *)
(* One action is the work between two calls to the storage or, where the   *)
(* code reads the disk twice, between two reads of the disk.  The file     *)
(* loops of Push and Pull are one task per path, taken in any order, which *)
(* is what the worker goroutines do.                                       *)
(*                                                                         *)
(* A content is the set of edits it is made of: two files are equal (have  *)
(* the same hash) when their sets are, and the empty set is "no file".     *)
(* An edit of a mergeable file is a line of it, and merging is union.      *)
(* The translation of paths inside a file, compression and encryption do   *)
(* not change which edits a file holds and are left out here.              *)
(***************************************************************************)
EXTENDS Naturals, Sequences, FiniteSets, SequencesExt

CONSTANTS
    Devices,      \* machines that share the bucket
    Paths,        \* files relative to ~/.codex, named alike on every machine
    Mergeable,    \* those that pull merges: history.jsonl
    Versions,     \* the provider reports an ETag or a generation
    Conditional,  \* the provider deletes only the version named by If-Match
    Discipline,   \* how the user runs the tool, a subset of Rules
    Events,       \* what may go wrong or be asked for, a subset of Happenings
    MaxEdits, MaxClock, MaxSidecars    \* bounds of the model

\* PullFirst: a push follows an error-free pull with no other push between.
\* Exclusive: no two commands overlap, on one device or on two.
\* Quiet: Codex leaves the files alone while a command runs on its device.
\* FreshNames: no two devices create the same path.
\* ResolveFirst: a device with an unresolved conflict neither pushes nor pulls.
Rules == {"PullFirst", "Exclusive", "Quiet", "FreshNames", "ResolveFirst"}
\* Crash: a command dies before it saves its state.
\* Lost: the storage applies a request whose answer is an error.
\* HeadFails: a Head request fails, or reports no version.
\* Force: push --force and trash restore are used.
\* NoDelete: pull --no-delete is used.
\* Vanish: files are deleted under a running command even where Quiet holds.
\* SameETag: a copy made by the provider keeps the ETag of its source (S3).
Happenings == {"Crash", "Lost", "HeadFails", "Force", "NoDelete", "Vanish", "SameETag"}

ASSUME SyncAssumption ==
    /\ Mergeable \subseteq Paths
    /\ Versions \in BOOLEAN /\ Conditional \in BOOLEAN
    /\ Discipline \subseteq Rules /\ Events \subseteq Happenings
    /\ MaxEdits \in Nat /\ MaxClock \in Nat /\ MaxSidecars \in Nat

VARIABLES
    disk,       \* disk[d][p]: the file Codex sees
    sidecars,   \* sidecars[d][p]: contents of <p>.conflict.*, oldest first
    saved,      \* saved[d]: state.json
    mem,        \* mem[d]: the SyncState the running command loaded
    cmd,        \* cmd[d]: what device d is running
    task,       \* task[d][p]: what the command has still to do for p
    seen,       \* seen[d][p]: the object as listed, sent, or read by Head
    union,      \* union[d][p]: what a merge is to write, and the remote's part of it
    failed,     \* failed[d]: the command has met an error
    remote,     \* remote[p]: the object under p's key
    manifest,   \* the mtime manifest object exists
    bin,        \* copies under _trash/
    clock,      \* uploads so far; the storage stamps objects with it
    edits,      \* edits and deletions so far; the next one's number less one
    trashed,    \* edits in a local trash directory
    discarded,  \* edits a user deleted or resolved away
    published,  \* edits some upload has carried
    pulled      \* devices whose last pull is not older than the last push

device == <<disk, sidecars, saved, mem>>
command == <<cmd, task, seen, union, failed>>
store == <<remote, manifest, bin, clock>>
history == <<edits, trashed, discarded, published, pulled>>
vars == <<device, command, store, history>>

Content == SUBSET (1..MaxEdits)
Time == 0..MaxClock
File == [data : Content, mtime : Time]
Entry == [hash : Content, ver : Time, time : Time]    \* FileState
Object == [data : Content, ver : Time, time : Time]   \* ObjectInfo, and its bytes
Merge == [data : Content, hash : Content]
NoFile == [data |-> {}, mtime |-> 0]
Untracked == [hash |-> {}, ver |-> 0, time |-> 0]
Gone == [data |-> {}, ver |-> 0, time |-> 0]
NoMerge == [data |-> {}, hash |-> {}]
Copy == [path : Paths, data : Content, ver : Time]

Commands == {"idle", "push", "delete", "pull", "remove", "restore"}
Tasks == {"none", "upload", "head", "check", "copy", "erase",
          "download", "rehash", "conflict", "merge", "adopt", "write",
          "stale", "trash", "restore"}

TypeOK ==
    /\ disk \in [Devices -> [Paths -> File]]
    /\ sidecars \in [Devices -> [Paths -> Seq(Content)]]
    /\ saved \in [Devices -> [Paths -> Entry]]
    /\ mem \in [Devices -> [Paths -> Entry]]
    /\ cmd \in [Devices -> Commands]
    /\ task \in [Devices -> [Paths -> Tasks]]
    /\ seen \in [Devices -> [Paths -> Object]]
    /\ union \in [Devices -> [Paths -> Merge]]
    /\ failed \in [Devices -> BOOLEAN]
    /\ remote \in [Paths -> Object]
    /\ manifest \in BOOLEAN
    /\ bin \subseteq Copy
    /\ clock \in Time
    /\ edits \in 0..MaxEdits
    /\ trashed \in Content /\ discarded \in Content /\ published \in Content
    /\ pulled \subseteq Devices

Init ==
    /\ disk = [d \in Devices |-> [p \in Paths |-> NoFile]]
    /\ sidecars = [d \in Devices |-> [p \in Paths |-> <<>>]]
    /\ saved = [d \in Devices |-> [p \in Paths |-> Untracked]]
    /\ mem = saved
    /\ cmd = [d \in Devices |-> "idle"]
    /\ task = [d \in Devices |-> [p \in Paths |-> "none"]]
    /\ seen = [d \in Devices |-> [p \in Paths |-> Gone]]
    /\ union = [d \in Devices |-> [p \in Paths |-> NoMerge]]
    /\ failed = [d \in Devices |-> FALSE]
    /\ remote = [p \in Paths |-> Gone]
    /\ manifest = FALSE
    /\ bin = {}
    /\ clock = 0 /\ edits = 0
    /\ trashed = {} /\ discarded = {} /\ published = {}
    /\ pulled = {}

-----------------------------------------------------------------------------
(* What the code asks of its data. *)

Exists(x) == x.data # {}
Tracked(entry) == entry # Untracked

\* Mutant: an object is newer only if its timestamp is.
newerByTime(obj, entry) == ~Tracked(entry) \/ obj.time > entry.time

\* Versions win when both sides have one; otherwise the timestamps decide.
remoteChanged(obj, entry) ==
    \/ ~Tracked(entry)
    \/ IF obj.ver # 0 /\ entry.ver # 0
       THEN obj.ver # entry.ver
       ELSE obj.time > entry.time

\* Mutant: the stamp runs ahead of the storage's clock.
StampedAhead(data, t) == [data |-> data, ver |-> IF Versions THEN t ELSE 0, time |-> t + 1]

\* The object an upload at time t stores.
Stamped(data, t) == [data |-> data, ver |-> IF Versions THEN t ELSE 0, time |-> t]

\* Mutant: only a new file counts as changed.
OnlyNew(d, p) == ~Tracked(saved[d][p])

\* Mutant: a file is always taken to be as it was last synced.
NeverChanged(d, p) == FALSE

\* The file's hash is not the one recorded (DetectChanges, Pull).
LocallyChanged(d, p) == disk[d][p].data # saved[d][p].hash

\* DetectChanges for one path, with the sidecar rule and --force of Push.
PushTask(d, p, force) ==
    IF Exists(disk[d][p])
    THEN IF LocallyChanged(d, p) /\ sidecars[d][p] = <<>> THEN "upload" ELSE "none"
    ELSE IF Tracked(saved[d][p]) /\ force THEN "check" ELSE "none"

\* The decision of Pull's loop for one path, the listing being the remote now.
\* "stale" marks a candidate of staleLocalFiles.
PullTask(d, p) ==
    LET entry == saved[d][p]
        Here == Exists(disk[d][p])
        There == Exists(remote[p])
        Newer == remoteChanged(remote[p], entry)
    IN  CASE There /\ p \in Mergeable ->
               IF Here THEN IF Newer THEN "merge" ELSE "none" ELSE "adopt"
          [] There /\ p \notin Mergeable /\ ~Here -> "download"
          [] There /\ p \notin Mergeable /\ Here /\ Tracked(entry) /\ Newer ->
               IF LocallyChanged(d, p) THEN "conflict" ELSE "download"
          [] There /\ p \notin Mergeable /\ Here /\ ~Tracked(entry)
               /\ disk[d][p].mtime < remote[p].time -> "download"
          [] ~There /\ p \notin Mergeable /\ Here /\ Tracked(entry) -> "stale"
          [] OTHER -> "none"

\* What `codex-sync diff` says of a path that is somewhere.
Diff(d, p) ==
    CASE ~Exists(remote[p]) -> "local_only"
      [] ~Exists(disk[d][p]) -> "remote_only"
      [] Exists(disk[d][p]) /\ Exists(remote[p]) ->
           IF LocallyChanged(d, p) \/ remoteChanged(remote[p], saved[d][p])
           THEN "modified" ELSE "synced"

\* The lines of both copies.
MergeJSONL(local, other) == local \cup other

\* What a merge writes, and the hash it records: the remote's part, so that the
\* next push sends the union if this device has added something to it.
Merged(local, other) == [data |-> MergeJSONL(local, other), hash |-> other]

\* One more outcome, if that event may happen.
OutcomeOf(event, outcome) == IF event \in Events THEN {outcome} ELSE {}

Left(d, kinds) == \E p \in Paths : task[d][p] \in kinds
MayStart(d) ==
    /\ cmd[d] = "idle"
    /\ "Exclusive" \in Discipline => \A e \in Devices : cmd[e] = "idle"
MaySync(d) ==
    /\ MayStart(d)
    /\ "ResolveFirst" \in Discipline => \A p \in Paths : sidecars[d][p] = <<>>
Done(d, p) == task' = [task EXCEPT ![d][p] = "none"]
Becomes(d, p, t) == task' = [task EXCEPT ![d][p] = t]
Reset(d) ==
    /\ cmd' = [cmd EXCEPT ![d] = "idle"]
    /\ task' = [task EXCEPT ![d] = [p \in Paths |-> "none"]]
    /\ seen' = [seen EXCEPT ![d] = [p \in Paths |-> Gone]]
    /\ union' = [union EXCEPT ![d] = [p \in Paths |-> NoMerge]]
    /\ failed' = [failed EXCEPT ![d] = FALSE]

-----------------------------------------------------------------------------
(* Codex and the user edit files. *)

\* A path may be created by a device that tracks it, or if it is nowhere else.
MayCreate(d, p) ==
    "FreshNames" \in Discipline =>
        \/ Tracked(saved[d][p]) \/ p \in Mergeable
        \/ /\ \A e \in Devices : ~Exists(disk[e][p])
           /\ ~Exists(remote[p])
           /\ \A b \in bin : b.path # p
Undisturbed(d) == "Quiet" \in Discipline => cmd[d] = "idle"

Edit(d, p) ==
    /\ edits < MaxEdits
    /\ Undisturbed(d)
    /\ Exists(disk[d][p]) \/ MayCreate(d, p)
    /\ edits' = edits + 1
    /\ disk' = [disk EXCEPT ![d][p] = [data |-> @.data \cup {edits + 1}, mtime |-> clock]]
    /\ UNCHANGED <<sidecars, saved, mem, command, store,
                   trashed, discarded, published, pulled>>

\* A deletion takes a number too, so that what users do is bounded.
Delete(d, p) ==
    /\ edits < MaxEdits
    /\ Undisturbed(d) \/ "Vanish" \in Events
    /\ Exists(disk[d][p])
    /\ edits' = edits + 1
    /\ discarded' = discarded \cup disk[d][p].data \cup {edits + 1}
    /\ disk' = [disk EXCEPT ![d][p] = NoFile]
    /\ UNCHANGED <<sidecars, saved, mem, command, store, trashed, published, pulled>>

-----------------------------------------------------------------------------
(* Syncer.Push *)

PushStart(d) ==
    /\ MaySync(d)
    /\ "PullFirst" \in Discipline => d \in pulled
    /\ \E force \in {FALSE} \cup {"Force" \in Events} :
         task' = [task EXCEPT ![d] = [p \in Paths |-> PushTask(d, p, force)]]
    /\ task' # task
    /\ cmd' = [cmd EXCEPT ![d] = "push"]
    /\ pulled' = {}
    /\ UNCHANGED <<device, seen, union, failed, store, edits, trashed, discarded, published>>

\* uploadFile up to the Upload call: what is read is what is sent.
PushSend(d, p) ==
    LET object == Stamped(disk[d][p].data, clock + 1)
    IN  /\ task[d][p] = "upload"
        /\ Exists(disk[d][p]) /\ clock < MaxClock
        /\ clock' = clock + 1
        /\ remote' = [remote EXCEPT ![p] = object]
        /\ published' = published \cup object.data
        /\ seen' = [seen EXCEPT ![d][p] = object]
        /\ \/ Becomes(d, p, "head")
           \/ "Lost" \in Events /\ Done(d, p)
        /\ UNCHANGED <<device, cmd, union, failed, manifest, bin,
                       edits, trashed, discarded, pulled>>

\* The file is gone, or the storage refused the upload.
PushSendFails(d, p) ==
    /\ task[d][p] = "upload"
    /\ Done(d, p)
    /\ UNCHANGED <<device, cmd, seen, union, failed, store, history>>

\* The rest of uploadFile: the file is looked at again, then Head says which
\* version to record. A Head that fails leaves the version empty.
PushRecord(d, p) ==
    LET sent == seen[d][p].data
    IN  /\ task[d][p] = "head"
        /\ \/ /\ disk[d][p].data = sent
              /\ \E ver \in {remote[p].ver} \cup OutcomeOf("HeadFails", 0) :
                   mem' = [mem EXCEPT ![d][p] =
                             [hash |-> sent, ver |-> ver, time |-> clock]]
           \/ /\ disk[d][p].data # sent
              /\ UNCHANGED mem
        /\ Done(d, p)
        /\ UNCHANGED <<disk, sidecars, saved, cmd, seen, union, failed, store, history>>

\* applyDeletes: one listing after all uploads, or an error and no delete.
PushList(d) ==
    /\ cmd[d] = "push"
    /\ Left(d, {"check"}) /\ ~Left(d, {"upload", "head"})
    /\ cmd' = [cmd EXCEPT ![d] = "delete"]
    /\ \/ seen' = [seen EXCEPT ![d] = remote] /\ UNCHANGED task
       \/ task' = [task EXCEPT ![d] = [p \in Paths |-> "none"]] /\ UNCHANGED seen
    /\ UNCHANGED <<device, union, failed, store, history>>

\* Mutant: the version is not compared again.
NeverNewer(d, p, obj) == FALSE

\* Another device has replaced the object since this one last synced it.
Replaced(d, p, obj) == remoteChanged(obj, mem[d][p])

\* Already gone: stop tracking it. Otherwise read the version again, keep the
\* listed one if that fails, and give the delete up if the object has changed.
DeleteCheck(d, p) ==
    /\ cmd[d] = "delete" /\ task[d][p] = "check"
    /\ ~Left(d, {"copy", "erase"})
    /\ \/ /\ ~Exists(seen[d][p])
          /\ mem' = [mem EXCEPT ![d][p] = Untracked]
          /\ Done(d, p)
          /\ UNCHANGED seen
       \/ /\ Exists(seen[d][p])
          /\ \E obj \in (IF Exists(remote[p]) THEN {remote[p]} \cup OutcomeOf("HeadFails", seen[d][p])
                                             ELSE {seen[d][p]}) :
               /\ seen' = [seen EXCEPT ![d][p] = obj]
               /\ Becomes(d, p, IF Replaced(d, p, obj) THEN "none" ELSE "copy")
          /\ UNCHANGED mem
    /\ UNCHANGED <<disk, sidecars, saved, cmd, union, failed, store, history>>

\* copyToRemoteTrash: no copy, no delete.
DeleteCopy(d, p) ==
    /\ task[d][p] = "copy"
    /\ \/ /\ Exists(remote[p])
          /\ bin' = bin \cup {[path |-> p, data |-> remote[p].data, ver |-> remote[p].ver]}
          /\ Becomes(d, p, "erase")
       \/ Done(d, p) /\ UNCHANGED bin
    /\ UNCHANGED <<device, cmd, seen, union, failed, remote, manifest, clock, history>>

\* Mutant: the delete is sent without the version.
AlwaysRemovable(d, p) == TRUE

\* When deleteRemoteObject may succeed: with a version and a provider that
\* honours If-Match, on that version only, or on an object already gone.
Removable(d, p) ==
    Conditional /\ seen[d][p].ver # 0 /\ Exists(remote[p]) =>
        remote[p].ver = seen[d][p].ver

DeleteObject(d, p) ==
    /\ task[d][p] = "erase"
    /\ Removable(d, p)
    /\ remote' = [remote EXCEPT ![p] = Gone]
    /\ \/ mem' = [mem EXCEPT ![d][p] = Untracked]
       \/ "Lost" \in Events /\ UNCHANGED mem
    /\ Done(d, p)
    /\ UNCHANGED <<disk, sidecars, saved, cmd, seen, union, failed, manifest, bin, clock, history>>

DeleteFails(d, p) ==
    /\ task[d][p] = "erase"
    /\ Done(d, p)
    /\ UNCHANGED <<device, cmd, seen, union, failed, store, history>>

\* The manifest is published if an upload or a delete succeeded, which is when
\* the state has changed; then the state is saved.
PushFinish(d) ==
    /\ cmd[d] \in {"push", "delete"} /\ ~Left(d, Tasks \ {"none"})
    /\ manifest' \in {manifest, manifest \/ mem[d] # saved[d]}
    /\ saved' = [saved EXCEPT ![d] = mem[d]]
    /\ Reset(d)
    /\ UNCHANGED <<disk, sidecars, mem, remote, bin, clock, history>>

-----------------------------------------------------------------------------
(* Syncer.Pull *)

\* Nothing listed, not even a manifest: up to date, nothing is touched.
PullEmpty(d) ==
    /\ MaySync(d)
    /\ \A p \in Paths : ~Exists(remote[p])
    /\ ~manifest
    /\ pulled' = pulled \cup {d}
    /\ UNCHANGED <<device, command, store, edits, trashed, discarded, published>>

PullStart(d) ==
    /\ MaySync(d)
    /\ manifest \/ \E p \in Paths : Exists(remote[p])
    /\ cmd' = [cmd EXCEPT ![d] = "pull"]
    /\ task' = [task EXCEPT ![d] = [p \in Paths |-> PullTask(d, p)]]
    /\ seen' = [seen EXCEPT ![d] = remote]
    /\ UNCHANGED <<device, union, failed, store, history>>

\* handleConflict: the object under the key by now becomes a new sidecar.
PullConflict(d, p) ==
    /\ task[d][p] = "conflict"
    /\ Exists(remote[p]) /\ Len(sidecars[d][p]) < MaxSidecars
    /\ sidecars' = [sidecars EXCEPT ![d][p] = Append(@, remote[p].data)]
    /\ Done(d, p)
    /\ UNCHANGED <<disk, saved, mem, cmd, seen, union, failed, store, history>>

\* downloadFile up to the write.  The manifest may give back an older mtime.
PullWrite(d, p) ==
    /\ task[d][p] = "download" /\ ~Left(d, {"conflict", "merge", "adopt", "write"})
    /\ Exists(remote[p])
    /\ \E mtime \in {0, clock} :
         disk' = [disk EXCEPT ![d][p] = [data |-> remote[p].data, mtime |-> mtime]]
    /\ Becomes(d, p, "rehash")
    /\ UNCHANGED <<sidecars, saved, mem, cmd, seen, union, failed, store, history>>

\* The end of downloadFile: the file is hashed again as it is by now, and the
\* version recorded is the one that was listed.  The errors of Stat and HashFile are
\* ignored: a file that vanishes between the two has the empty hash.
PullRecord(d, p) ==
    /\ task[d][p] = "rehash"
    /\ mem' = [mem EXCEPT ![d][p] = [hash |-> disk[d][p].data,
                                     ver |-> seen[d][p].ver, time |-> seen[d][p].time]]
    /\ Done(d, p)
    /\ UNCHANGED <<disk, sidecars, saved, cmd, seen, union, failed, store, history>>

\* The file vanished before the Stat: UpdateFile dereferences a nil FileInfo.
PullPanics(d, p) ==
    /\ task[d][p] = "rehash"
    /\ ~Exists(disk[d][p])
    /\ mem' = [mem EXCEPT ![d] = saved[d]]
    /\ Reset(d)
    /\ UNCHANGED <<disk, sidecars, saved, store, history>>

\* mergeRemote up to the write: the remote copy, then the local one if the walk
\* of the files found any, are read and merged.
PullMerge(d, p) ==
    LET mine == IF task[d][p] = "merge" THEN disk[d][p].data ELSE {}
    IN  /\ task[d][p] \in {"merge", "adopt"}
        /\ Exists(remote[p])
        /\ task[d][p] = "merge" => Exists(disk[d][p])
        /\ union' = [union EXCEPT ![d][p] = Merged(mine, remote[p].data)]
        /\ Becomes(d, p, "write")
        /\ UNCHANGED <<device, cmd, seen, failed, store, history>>

\* The rest of mergeRemote: the file is replaced, as it is by now.
PullUnion(d, p) ==
    /\ task[d][p] = "write"
    /\ disk' = [disk EXCEPT ![d][p] = [data |-> union[d][p].data, mtime |-> clock]]
    /\ mem' = [mem EXCEPT ![d][p] = [hash |-> union[d][p].hash,
                                     ver |-> seen[d][p].ver, time |-> seen[d][p].time]]
    /\ union' = [union EXCEPT ![d][p] = NoMerge]
    /\ Done(d, p)
    /\ UNCHANGED <<sidecars, saved, cmd, seen, failed, store, history>>

\* A download, a sidecar, a merge or a move that failed is reported and the pull
\* goes on.
PullStepFails(d, p) ==
    /\ task[d][p] \in {"download", "conflict", "merge", "adopt", "trash"}
    /\ failed' = [failed EXCEPT ![d] = TRUE]
    /\ Done(d, p)
    /\ UNCHANGED <<device, cmd, seen, union, store, history>>

\* staleLocalFiles: candidates unchanged since the last sync may go; if one
\* cannot be hashed, or with --no-delete, none does.
PullScan(d) ==
    LET Unchanged(p) == disk[d][p].data = mem[d][p].hash
        Vanished == \E p \in Paths : task[d][p] = "stale" /\ ~Exists(disk[d][p])
    IN  /\ cmd[d] = "pull" /\ ~Left(d, Tasks \ {"none", "stale"})
        /\ cmd' = [cmd EXCEPT ![d] = "remove"]
        /\ \E noDelete \in {FALSE} \cup {"NoDelete" \in Events} :
             task' = [task EXCEPT ![d] = [p \in Paths |->
                        IF @[p] = "stale" /\ Unchanged(p) /\ ~noDelete /\ ~Vanished
                        THEN "trash" ELSE "none"]]
        /\ failed' = [failed EXCEPT ![d] = @ \/ Vanished]
        /\ UNCHANGED <<device, seen, union, store, history>>

\* moveToTrash takes the file as it is by now.
PullTrash(d, p) ==
    /\ task[d][p] = "trash"
    /\ Exists(disk[d][p])
    /\ trashed' = trashed \cup disk[d][p].data
    /\ disk' = [disk EXCEPT ![d][p] = NoFile]
    /\ mem' = [mem EXCEPT ![d][p] = Untracked]
    /\ Done(d, p)
    /\ UNCHANGED <<sidecars, saved, cmd, seen, union, failed, store,
                   edits, discarded, published, pulled>>

PullFinish(d) ==
    /\ cmd[d] = "remove" /\ ~Left(d, {"trash"})
    /\ saved' = [saved EXCEPT ![d] = mem[d]]
    /\ pulled' = IF failed[d] THEN pulled \ {d} ELSE pulled \cup {d}
    /\ Reset(d)
    /\ UNCHANGED <<disk, sidecars, mem, store, edits, trashed, discarded, published>>

-----------------------------------------------------------------------------
(* codex-sync conflicts, codex-sync trash restore, and a crash. *)

\* Mutant: the hash recorded is the local file's, not the sidecar's.
ResolvedAsLocal(d, p, hash) ==
    /\ mem' = [mem EXCEPT ![d][p] = [hash |-> disk[d][p].data, ver |-> @.ver, time |-> clock]]
    /\ saved' = [saved EXCEPT ![d] = mem'[d]]

\* recordResolution and Save: the version stays the one recorded before the
\* conflict.  A crash may come between the file operation and the save.
Resolved(d, p, hash) ==
    \/ /\ mem' = [mem EXCEPT ![d][p] = [hash |-> hash, ver |-> @.ver, time |-> clock]]
       /\ saved' = [saved EXCEPT ![d] = mem'[d]]
    \/ "Crash" \in Events /\ UNCHANGED <<mem, saved>>

\* keepLocal: the sidecar goes.  Without a local file nothing is recorded.
KeepLocal(d, p, i) ==
    LET other == sidecars[d][p][i]
    IN  /\ MayStart(d)
        /\ sidecars' = [sidecars EXCEPT ![d][p] = RemoveAt(@, i)]
        /\ discarded' = discarded \cup (other \ disk[d][p].data)
        /\ IF Exists(disk[d][p]) THEN Resolved(d, p, other) ELSE UNCHANGED <<mem, saved>>
        /\ UNCHANGED <<disk, command, store, edits, trashed, published, pulled>>

\* keepRemote: the sidecar takes the place of the local file.
KeepRemote(d, p, i) ==
    LET other == sidecars[d][p][i]
    IN  /\ MayStart(d)
        /\ sidecars' = [sidecars EXCEPT ![d][p] = RemoveAt(@, i)]
        /\ discarded' = discarded \cup (disk[d][p].data \ other)
        /\ disk' = [disk EXCEPT ![d][p] = [data |-> other, mtime |-> clock]]
        /\ Resolved(d, p, other)
        /\ UNCHANGED <<command, store, edits, trashed, published, pulled>>

\* Nothing is live under the original key of this copy.
Restorable(b) == ~Exists(remote[b.path])

\* The copy of p in a batch, as the object it is to become again.
CopyIn(batch, p) ==
    IF \E b \in batch : b.path = p
    THEN LET kept == CHOOSE b \in batch : b.path = p
         IN  [data |-> kept.data, ver |-> kept.ver, time |-> 0]
    ELSE Gone

\* RestoreRemoteTrash: one listing decides which paths of a batch are live
\* again.  A batch is a set of copies, at most one of a path.
RestoreStart(d) ==
    /\ MayStart(d) /\ "Force" \in Events
    /\ \E batch \in SUBSET {b \in bin : Restorable(b)} :
         /\ batch # {}
         /\ \A b, c \in batch : b.path = c.path => b = c
         /\ seen' = [seen EXCEPT ![d] = [p \in Paths |-> CopyIn(batch, p)]]
    /\ task' = [task EXCEPT ![d] =
                  [p \in Paths |-> IF Exists(seen'[d][p]) THEN "restore" ELSE "none"]]
    /\ cmd' = [cmd EXCEPT ![d] = "restore"]
    /\ UNCHANGED <<device, union, failed, store, history>>

\* copyRemoteObject, whatever is under the key by now.
RestoreCopy(d, p) ==
    /\ task[d][p] = "restore" /\ clock < MaxClock
    /\ clock' = clock + 1
    /\ \E ver \in {Stamped({}, clock + 1).ver} \cup OutcomeOf("SameETag", seen[d][p].ver) :
         remote' = [remote EXCEPT ![p] =
                      [data |-> seen[d][p].data, ver |-> ver, time |-> clock + 1]]
    /\ seen' = [seen EXCEPT ![d][p] = Gone]
    /\ Done(d, p)
    /\ UNCHANGED <<device, cmd, union, failed, manifest, bin, history>>

RestoreFails(d, p) ==
    /\ task[d][p] = "restore"
    /\ seen' = [seen EXCEPT ![d][p] = Gone]
    /\ Done(d, p)
    /\ UNCHANGED <<device, cmd, union, failed, store, history>>

RestoreFinish(d) ==
    /\ cmd[d] = "restore" /\ ~Left(d, {"restore"})
    /\ Reset(d)
    /\ UNCHANGED <<device, store, history>>

\* A command that dies: what it had in memory is lost.
Crash(d) ==
    /\ cmd[d] # "idle" /\ "Crash" \in Events
    /\ mem' = [mem EXCEPT ![d] = saved[d]]
    /\ Reset(d)
    /\ UNCHANGED <<disk, sidecars, saved, store, history>>

-----------------------------------------------------------------------------
User(d) == \E p \in Paths : Edit(d, p) \/ Delete(d, p)

Push(d) ==
    \/ PushList(d) \/ PushFinish(d)
    \/ \E p \in Paths :
         \/ PushSend(d, p) \/ PushSendFails(d, p) \/ PushRecord(d, p)
         \/ DeleteCheck(d, p) \/ DeleteCopy(d, p) \/ DeleteObject(d, p) \/ DeleteFails(d, p)

Pull(d) ==
    \/ PullScan(d) \/ PullFinish(d)
    \/ \E p \in Paths :
         \/ PullConflict(d, p) \/ PullWrite(d, p) \/ PullRecord(d, p)
         \/ PullMerge(d, p) \/ PullUnion(d, p)
         \/ PullPanics(d, p) \/ PullStepFails(d, p) \/ PullTrash(d, p)

Resolve(d) ==
    \E p \in Paths : \E i \in 1..Len(sidecars[d][p]) :
        KeepLocal(d, p, i) \/ KeepRemote(d, p, i)

Restore(d) ==
    \/ RestoreFinish(d)
    \/ \E p \in Paths : RestoreCopy(d, p) \/ RestoreFails(d, p)

Next ==
    \E d \in Devices :
        \/ User(d) \/ Resolve(d) \/ RestoreStart(d) \/ Restore(d) \/ Crash(d)
        \/ PushStart(d) \/ Push(d)
        \/ PullEmpty(d) \/ PullStart(d) \/ Pull(d)

Spec == Init /\ [][Next]_vars

\* A command that was started goes on and a scheduled one is started again and
\* again (launchd, daily); a request that is retried for ever succeeds once.
Fairness ==
    \A d \in Devices :
        /\ WF_vars(Push(d)) /\ WF_vars(Pull(d))
        /\ SF_vars(PushStart(d)) /\ SF_vars(PullEmpty(d) \/ PullStart(d))
        /\ \A p \in Paths :
             /\ SF_vars(PushSend(d, p))
             /\ SF_vars(PullWrite(d, p) \/ PullConflict(d, p) \/ PullMerge(d, p))

FairSpec == Spec /\ Fairness

-----------------------------------------------------------------------------
(* Properties. *)

\* The edits that are still somewhere a user can get at them.
Kept ==
    LET Copies == {disk[d][p].data : d \in Devices, p \in Paths}
                  \cup {remote[p].data : p \in Paths}
                  \cup {copy.data : copy \in bin}
        Sidecars == {ToSet(sidecars[d][p]) : d \in Devices, p \in Paths}
    IN  trashed \cup UNION (Copies \cup UNION Sidecars)

\* No edit disappears unless a user deleted the file or resolved a conflict
\* against it: push, pull, recycle bin and sidecars together never overwrite
\* the only copy.  README: "never a silent overwrite".
NoLostWork == 1..edits \subseteq Kept \cup discarded

\* What state.json calls synced has been uploaded, so no local edit is hidden
\* from the next push (the hash recorded by uploadFile and downloadFile).
SyncedMeansPublished ==
    \A d \in Devices, p \in Paths : saved[d][p].hash \subseteq published

\* What `codex-sync diff` calls synced, and neither push nor pull would touch, is
\* the remote's content: versions and hashes in state.json never hide a difference.
CleanMeansEqual ==
    \A d \in Devices, p \in Paths :
        Diff(d, p) = "synced" => disk[d][p].data = remote[p].data

\* A pull drops nothing from a tracked file but what has been uploaded: other
\* local work becomes a conflict or is merged (Pull's decision loop, mergeRemote).
PullOverwritesPublished ==
    [][\A d \in Devices, p \in Paths :
         /\ cmd[d] = "pull" /\ disk'[d][p] # disk[d][p]
         /\ Exists(disk'[d][p]) /\ Tracked(mem[d][p])
         => disk[d][p].data \subseteq published \cup disk'[d][p].data]_vars

\* An object disappears from the remote only when the recycle bin holds its
\* content (applyDeletes copies every object before the delete).
BinBeforeDelete ==
    [][\A p \in Paths :
         Exists(remote[p]) /\ ~Exists(remote'[p]) =>
            \E b \in bin' : b.path = p /\ b.data = remote[p].data]_vars

\* push --force removes an object only if it is the one the deleting device
\* recorded: an upload by another device in between survives (applyDeletes).
NoStaleDelete ==
    [][\A p \in Paths :
         Exists(remote[p]) /\ ~Exists(remote'[p]) =>
            \E d \in Devices : cmd[d] = "delete" /\ ~remoteChanged(remote[p], mem[d][p])]_vars

\* Restoring a batch puts an object back only where nothing is live: the copy
\* never replaces a file another device created again.  RestoreRemoteTrash and the
\* README promise it; an upload between the listing and the copy breaks it.
RestoreKeepsLive ==
    [][\A d \in Devices, p \in Paths :
         cmd[d] = "restore" /\ remote'[p] # remote[p] => ~Exists(remote[p])]_vars

\* A pull writes a sidecar only when both sides changed: never when the remote
\* content is the one the device recorded as last synced (keepLocal).
ConflictMeansBothChanged ==
    [][\A d \in Devices, p \in Paths :
         Len(sidecars'[d][p]) > Len(sidecars[d][p]) =>
            remote[p].data # saved[d][p].hash]_vars

\* A pull that found no synced file at all moves none to the trash: a bucket
\* that lost its objects does not wipe a device (the guard at the top of Pull).
EmptyRemoteRemovesNothing ==
    [][\A d \in Devices, p \in Paths :
         cmd[d] = "remove" /\ Exists(disk[d][p]) /\ ~Exists(disk'[d][p]) =>
            \E q \in Paths : Exists(seen[d][q])]_vars

\* However users and failing requests delay it, scheduled pulls and pushes bring
\* every path to one content on all devices or to a conflict left to the user.
Convergence ==
    []<>( \/ \A d, e \in Devices, p \in Paths : disk[d][p].data = disk[e][p].data
          \/ \E d \in Devices, p \in Paths : sidecars[d][p] # <<>> )

=============================================================================
