# codex-sync in TLA+

codex-sync keeps `~/.codex` of several machines in step through one encrypted
bucket.  This directory holds models of its sync engine, the TLC runs that check
them on small instances, and theorems about them that TLAPS proves for every
instance.  Paths below are relative to the repository; `sync.go`, `state.go`,
`remote_trash.go`, `merge.go`, `paths.go` and `safeio.go` are in `internal/sync`,
`main.go` is `cmd/codex-sync/main.go`, and `index.go`, `refresh.go`, `backup.go`,
`names.go` and `catalog.go` are in `internal/desktop`.

The modules need the community modules for TLA+ and, for the proofs, TLAPS.

    tlc -config NoLoss.cfg MCCodexSync.tla         # also Agreement, ForcedPush, Convergence,
                                                   # EmptyRemote, StaleRestore
    tlc -config Processes.cfg MCProcesses.tla
    tlc -config MergedFile.cfg MCMergedFile.tla    # also LiteralToken, TiedLines
    tlc -config SyncScope.cfg MCSyncScope.tla      # also OutOfScopePull
    tlc -config FirstPull.cfg MCFirstPull.tla
    tlc -config Setup.cfg MCSetup.tla              # also FreshStart
    tlc -config Engine.cfg MCEngine.tla
    tlc -config DesktopRefresh.cfg MCDesktopRefresh.tla
    tlapm CodexSyncProofs.tla                      # also ProcessesProofs, MergedFileProofs, SyncScopeProofs,
                                                   # FirstPullProofs, SetupProofs, EngineProofs,
                                                   # DesktopRefreshProofs

Contents: [The system](#the-system) · [Modules](#modules) ·
[CodexSync](#codexsync) · [Processes](#processes) · [MergedFile](#mergedfile) ·
[SyncScope](#syncscope) · [FirstPull](#firstpull) · [Setup](#setup) ·
[Engine](#engine) · [DesktopRefresh](#desktoprefresh) · [Runs](#runs) ·
[Disagreements found](#disagreements-found) · [Proofs](#proofs) ·
[What is left out](#what-is-left-out) · [Plan](#plan)

## The system

Every device runs short-lived commands (by hand, from a timer, or from shell start-up).
Nothing keeps two of them from running at once on one device: they share `state.json`
and the files.  There is no server process: devices meet only in the bucket, through
Upload, Download, Head, List, Copy and Delete of single objects.  The bucket has no
transaction, no lock and no rename.  Codex itself writes the same files and knows
nothing of the commands.

| Component | State | Operations | Talks to |
|---|---|---|---|
| Sync engine (`sync.go`) | the running command's copy of `state.json`, its listing, its results | Push, applyDeletes, uploadFile, Pull, downloadFile, handleConflict, staleLocalFiles, moveToTrash, PreviewPull, Diff | disk, state file, storage, merge, path tokens |
| State file (`state.go`) | per file: hash, size, mtime, time of upload, version of the remote object; ManifestDirty, DeviceID, last push and pull | LoadState, UpdateFile, MarkUploaded, MarkRemote, RemoveFile, DetectChanges, Save | engine, conflict commands |
| Remote recycle bin (`remote_trash.go`, `trash.go`) | objects under `_trash/<batch>/` | copyToRemoteTrash, ListRemoteTrash, RestoreRemoteTrash | storage |
| Conflict sidecars (`handleConflict`; `conflicts` in `main.go`) | files `<p>.conflict.<time>` beside `<p>` | keepLocal, keepRemote, recordResolution, batch and interactive resolution | disk, state file |
| Manifest (`sync.go` 888-1027) | one object with the mtime of every file | pushManifest, uploadManifest, downloadManifest | storage |
| Merge (`merge.go`) | none | MergeJSONL, mergeSessionIndex, mergeHistory | sync engine, path tokens |
| Path tokens (`paths.go`) | none | normalise before upload, resolve after download | engine |
| Confined writes (`safeio.go`) | none | resolve inside the base directory, refuse symlinks, write and rename | engine |
| Storage adapters (`internal/storage/*`) | none | the six calls on S3, R2, GCS and WebDAV | providers |
| Sync scope (`config.go`, `paths/manager.go`) | configured paths and exclusions | Add, Remove, AddExclude, RemoveExclude, Reset, Status | engine |
| Setup and reset (`main.go`) | config file, key file, remote objects | init, passphrase verification, reset | storage, crypto |
| First pull and backup (`main.go`) | backup directory | handleFirstPullWithExistingFiles, createBackup | engine |
| Self update (`main.go`) | the executable | download, verifyChecksum, replaceBinary | releases |
| Desktop refresh (`refresh.go`, `backup.go`, `names.go`, `catalog.go`) | the app's thread table and catalog, the backups of both | Refresh: check, backup, index, names, catalog | the engine run, the desktop app |
| Engine run (`index.go`) | a `codex app-server` process, two pipes, a channel | IndexRollouts, call, notify, shutdown, two goroutines | the Codex engine over JSON-RPC |
| Encryption, output, storage configuration | none | pure calls | - |

### What is hard

- **Interleaving.** Push decides from one reading of disk and `state.json`, then
  makes one request per file; Pull decides from one listing.  Other devices upload
  and delete between any two requests, Codex writes files between any two of the
  device's own reads, and `uploadFile` and `downloadFile` each read the file twice.
- **Two kinds of change detection.** The remote has changed when its version
  (ETag, generation) differs from the recorded one, or, where one of the two is
  missing, when its timestamp is later; the local file has changed when its hash
  differs.  An entry is trusted only as far as hash, version and timestamp belong
  to the same revision, and they are written by different functions at different
  times.
- **Deleting.** Copy to the recycle bin, then delete on condition of the version,
  under uploads by other devices, with providers that report no version or ignore
  the condition.
- **Processes without a lock.** Each process replaces the whole of `state.json` with
  what it loaded and changed, however old that is by then, and reads and writes files
  that another process is reading and writing.
- **Merging.** Two orders of timestamps, lines that tie, lines that hold paths of one
  device: both devices must end with the same bytes or they push for ever.
- **Pipes.** The client writes while the engine writes, both block on full pipes, the
  goroutine that reads must not block for ever on a client that has gone, and the
  engine may die or fall silent at any moment.
- **Another program's database.** A refresh changes the files of an app that may be
  opened meanwhile; it is repeated, overlaps with others, and dies between its steps.
- **Failure.** A request may be applied and still answer with an error; files of
  one command fail independently; a command may die anywhere before its only Save.
- **Clocks.** Without versions, order is a comparison of timestamps.

### What makes it correct

- No edit is ever lost without a user's decision (delete, resolve).
- `state.json` calls nothing synced that never reached the bucket.
- A file both commands call up to date is the remote's file.
- A pull replaces no work that no upload carried; a push deletes no revision but
  the one its device last saw, and none whose content is not in the recycle bin.
- A restore never replaces a live file; an empty remote removes no local file.  (Neither
  is so.)
- Devices that push and pull regularly agree in the end, or have a conflict.
- Merged files lose no line; when nobody has anything left to push or pull, all copies
  are the same bytes, and that state is reached.
- Processes that overlap or die never leave a torn `state.json`, never make it call
  unpublished work synced, and never remove a file no other device removed.
- A path the user took out of the sync set stays out; no other path drops out of it,
  which would let a forced push erase its objects; a forced push of a narrowed set
  costs no local file once it is widened again.
- What a first pull shows is what it does, and its backup holds what it replaces.
- The bucket stays under one key through retried, abandoned and repeated setups; what
  a device calls synced is in the bucket unless somebody cleared it, so that pulls trash
  nothing else; where a manifest guards the bucket a foreign key removes nothing.
- IndexRollouts counts every page once, returns only when its engine has gone, and
  does return unless a living engine withholds an answer.
- After a refresh that succeeded the app shows the pulled threads; what the refresh
  changed can be put back; names the user gave stay.

Not all of this is so: see [Disagreements found](#disagreements-found).
`PROJECT.json` lists each hazard at its line with the properties that cover it.

## Modules

| Module | What it is |
|---|---|
| `CodexSync` | The core: push, pull, merging, conflicts and their resolution, push --force with the recycle bin, trash restore, crashes, on any number of devices and paths.  Ends with its properties. |
| `MCCodexSync` | `CodexSync` for TLC: symmetries, a view and a constraint. |
| `CodexSyncProofs` | The type invariant, and what a forced push never does; what `state.json`, a pull and a merge never do while nobody edits under a command; what diff calls synced; that disciplined use loses no work. |
| `Processes`, `MCProcesses`, `ProcessesProofs` | Several commands at once on one device. |
| `MergedFile`, `MCMergedFile`, `MergedFileProofs` | `MergeJSONL` and the path tokens, line by line, with the pushes and pulls they are part of. |
| `SyncScope`, `MCSyncScope`, `SyncScopeProofs` | Scope, sync paths and filters, and what push and pull do with them. |
| `FirstPull`, `MCFirstPull`, `FirstPullProofs` | The pull command: preview, question, backup, pull. |
| `Setup`, `MCSetup`, `SetupProofs` | init, init --passphrase, key verification, reset, on several devices. |
| `Listing` | What IndexRollouts promises: the abstract specification that `Engine` implements and `DesktopRefresh` relies on. |
| `Engine`, `MCEngine`, `EngineProofs` | The client, its two goroutines, the pipes and the engine process. |
| `DesktopRefresh`, `MCDesktopRefresh`, `DesktopRefreshProofs` | Refreshes beside the app, its user and each other. |

`CodexSync` has the interleavings of push and pull of several devices, request by
request; `Processes` those of several commands on one.  `MergedFile`, `SyncScope`,
`FirstPull` and `Setup` take a push or a pull for one step and look at what surrounds
it: the bytes of a file, which files it sees, what the user was shown, which key it
uses.  Their constants and variables are small enough for several commands in a row,
which is where their hazards are.

Definitions marked "Mutant" stand before the one they are a slip of; `PROJECT.json`
says which property each of them breaks.

## CodexSync

### State

| Variable | In the code |
|---|---|
| `disk[d][p]` | the file under `~/.codex`: content and mtime.  The empty content is "no file". |
| `sidecars[d][p]` | the contents of `p.conflict.*`, oldest first |
| `saved[d][p]` | the FileState in `state.json`: hash, RemoteETag, and Uploaded/mtime as one time |
| `mem[d][p]` | the SyncState the running command loaded and changes until Save |
| `cmd[d]`, `task[d][p]`, `seen[d][p]`, `failed[d]` | where the running command is: for each path what is left to do, and the object it last read (from List, from Head, or the one it sent) |
| `union[d][p]` | in mergeRemote: the merged bytes about to be written and the hash of the remote's part |
| `remote[p]` | the object under the path's key: content, version, LastModified |
| `manifest` | whether `_metadata/manifest.json.age` exists |
| `bin` | the copies under `_trash/` |
| `clock` | a count of uploads; the storage stamps each object with it and every local timestamp is read from it |
| `edits`, `trashed`, `discarded`, `published`, `pulled` | history: edits made, edits in a local trash directory, edits a user gave up, edits some upload carried, devices whose last pull is fresh |

A content is a *set of edits*, so that "the edits of both devices are still
somewhere" is a statement about sets; a hash of a file is its content.  An edit of a
mergeable file is a line, and `MergeJSONL` is the union.  `Diff` is what
`codex-sync diff` says of a path.

### Actions

| Action | In the code |
|---|---|
| `Edit`, `Delete` | Codex or the user writes or removes a file (not part of the code) |
| `PushStart` | Push: LoadState, DetectChanges, the sidecar rule, --force |
| `PushSend`, `PushSendFails` | uploadFile through Upload |
| `PushRecord` | uploadFile after it: second hash, Head, UpdateFile, MarkUploaded, MarkRemote |
| `PushList` | applyDeletes: List |
| `DeleteCheck` | Head, remoteChanged, or RemoveFile if the object is gone |
| `DeleteCopy` | copyToRemoteTrash |
| `DeleteObject`, `DeleteFails` | deleteRemoteObject with If-Match, RemoveFile |
| `PushFinish` | pushManifest and Save |
| `PullEmpty`, `PullStart` | Pull: List, the empty-remote guard, the decision for every path |
| `PullConflict` | handleConflict |
| `PullWrite`, `PullRecord`, `PullPanics` | downloadFile: Download and atomic write; second hash, UpdateFile and MarkRemote; the nil FileInfo of a file that vanished before Stat, and the empty hash of one that vanished between Stat and HashFile |
| `PullMerge`, `PullUnion` | mergeRemote: Download, read and merge; then the write and the entry, with the hash of what the remote had |
| `PullStepFails` | one file's error, which is reported while the pull goes on |
| `PullScan`, `PullTrash` | staleLocalFiles, --no-delete, moveToTrash |
| `PullFinish` | Save |
| `KeepLocal`, `KeepRemote` | keepLocal, keepRemote with recordResolution and Save |
| `RestoreStart`, `RestoreCopy`, `RestoreFails`, `RestoreFinish` | RestoreRemoteTrash: one listing, then one copy per object |
| `Crash` | a command dies with what it had in memory |

### Granularity

One action is everything between two storage requests whose answers other devices
can influence, or between two reads of the same local file.  Merging a request with
the local work around it is sound as no other actor sees that work before the next
request: decisions read only the device's own disk, sidecars and `state.json`, so
every interleaving of them with another *device's* steps is equivalent to one in
which they happen at once.  Codex's writes to the same disk are the exception;
where the code looks at a file again (`uploadFile` 675-690, `downloadFile` 773-778,
`staleLocalFiles`, `moveToTrash`) the model has a step of its own.  The worker
pools of Push and Pull are the free order of the per-path tasks.

### Parameters

`Discipline` says how the tool is used, `Events` what can happen; every run and
theorem names the ones it assumes:

- `PullFirst` - a push follows an error-free pull and no other push.
- `Exclusive` - commands on different devices do not overlap.
- `Quiet` - Codex leaves a device's files alone while a command runs there (with
  `Vanish` it may still delete some).
- `FreshNames` - two devices do not create the same path (rollout files carry a
  time and a thread id; `config.toml` does not).
- `ResolveFirst` - no push or pull while a conflict is unresolved.
- `Crash`, `Lost` (a request applied, an error answered), `HeadFails`, `Force`
  (push --force and restore), `NoDelete` (pull --no-delete), `SameETag` (a copy by
  the provider keeps the ETag, which S3 does for content-derived ETags), `Vanish`
  (a file is deleted under a running command).
- `Mergeable` - the paths that a pull merges (`history.jsonl`).
- `Versions`, `Conditional` - the provider reports versions; it honours If-Match.

None of the disciplines is enforced by the code.  They are what its guarantees
depend on, and for each the model has a trace that breaks the guarantee without it
(below).

## Processes

One device on which several commands run at once: the timer's push beside a pull by
hand.  `CodexSync` has one command per device at a time; here there are any number,
with `LoadState` and `Save` step by step, while other devices are a bucket that
changes.  Pushes are without --force, no file is merged, and Codex rests while a
command runs, so that what goes wrong is the processes' doing.

| Variable | In the code |
|---|---|
| `disk[p]`, `sidecars` | the files, each the number of the edit that made it, and the paths with a sidecar |
| `saved`, `tmp[r]` | `state.json` and a process's temporary file: missing, torn, or whole |
| `remote[p]` | the object: content and version |
| `step[r]`, `mem[r]`, `seen[r]`, `local[r]`, `task[r][p]`, `held[r][p]` | where a process is, the state it loaded, its listing, the files it found, what is left to do for each path, the bytes it sent or fetched |
| `published`, `removed` | history: contents that were uploaded, paths whose object another device removed |

| Action | In the code |
|---|---|
| `Load`, `BackUp` | LoadState; a text that does not parse is renamed away, with whatever is under the name by then |
| `CreateTemp`, `WriteTemp`, `RenameTemp` | Save: CreateTemp, Write and Close, Rename |
| `Dies` | the process is killed, panics, or returns an error |
| `PushStart`, `PushSend`, `PushRecord`, `PushEnds` | Push and uploadFile, as in `CodexSync` |
| `PullList`, `PullDecide`, `PullFetch`, `PullWrite`, `PullRecord`, `PullConflict` | Pull and downloadFile: here the fetch and the write are two steps, as another process may write in between |
| `PullScan`, `PullTrash`, `PullEnds` | staleLocalFiles, moveToTrash |
| `StepFails` | one file's error |
| `Edit`, `Delete`, `DropSidecar`, `OthersPush`, `OthersRemove` | the user, Codex, and other devices |

A pull reads a file it has written twice and ignores both errors: if another process has
removed it by the Stat the pull panics (`Dies`), and if it is removed between the Stat and
the HashFile the entry gets an empty hash and the pull goes on (`PullRecord`).  Such an
entry is of no content, so the file, should it come back, counts as changed.

Timestamps are left out: for an untracked file the mtime rule may go either way.

## MergedFile

The two files that pull merges, as sequences of lines.  A line is what the merge reads
of it - an id, a timestamp, whether it is a JSON object - and a text that stands for
the rest of its bytes: without a path, with the home directory of a device, or with
the token for it.  `MergeJSONL`, `mergeSessionIndex`, `mergeHistory` and
`laterTimestamp` are operators: `FoldLeft` for the loop over the lines, and `Sorted`
for `sort.Slice`: the n-th line is the one n - 1 others belong before, which says where
a sort puts it and can be reasoned about.
`NormalizeContent` and `ResolveContent` translate between a device's copy and the
object.

`file[d][p]`, `base[d][p]` and `remote[p]` are the copy, the content whose hash
`state.json` has, and the object; `stale` says for whom the object is newer than its
entry.  `AppendLine` is Codex, `Push` an upload of a changed file (which replaces the
object whether it was merged or not), `Pull` is `mergeRemote`.  Steps are whole and
Codex is quiet within them: `CodexSync` has the interleavings.  The order of bytes is
a constant, so that home directories may sort on either side of other texts.

## SyncScope

Which files a device syncs: `config.go` (scope, `GetEffectiveSyncPaths`),
`internal/paths/manager.go`, the `codex-sync paths` commands of `main.go`, and the use
`sync.go` makes of the set in `GetLocalFiles`, `buildRemoteMap` and `staleLocalFiles`.

| Variable | In the code |
|---|---|
| `scope`, `syncPaths`, `exclude` | `config.yaml`; an empty `syncPaths` is a list that is not there, which stands for the defaults |
| `local`, `synced`, `remote`, `sidecars` | the files, `state.json`, the bucket, files with a conflict |
| `off`, `taken`, `erased`, `edits` | history: paths removed and not asked for again; paths the commands took out in any way; objects this device erased; edits |

`PathsAdd`, `PathsRemove`, `PathsExclude`, `PathsUnexclude` and `PathsReset` are the
commands, `SetScope` an edit of `config.yaml` or a second init, `Push(force)` and
`Pull` the two commands as one step each.  A filter is `rules`, `rules/*` or
`rules/**`; a file is a path itself, lies in it, or lies deeper, since `rules/*` does
not match what lies deeper.  `Remove` chooses its filter by what is on disk
(`manager.go:205-211`), so a directory that is missing by then gets the filter of a
file.

`EraseIsChosen` is about the danger that `GetEffectiveSyncPaths` names: a file outside
the sync set looks deleted, and push --force erases its object.  `taken` has the paths for
which that is the user's doing: removed, filtered, or left out of a list that was written
under scope sessions before the scope became full (the list is materialised under the
narrow scope, so `rules` and the others are not in it: a choice nobody made in so many
words, and the property excuses it).  For every other path of the scope the commands must
keep it in the set.  That the *paths* are never none does not mean that a *file* is left:
after `paths remove` of every path the list falls back to the defaults and the filters
take all of them away, and push --force then erases everything that is tracked.  All of
it was taken out by name, so that the property allows it, but "the result is never empty:
an empty set would [...] report every tracked file as a deletion" (`config.go:331-334`)
does not cover it.

The content of a file is the number of the edit that made it and stands for the
version and the mtime as well; only the order of edits matters to these decisions.

## FirstPull

The pull command around `Syncer.Pull`: `PreviewPull` (`sync.go` 1133-1231),
`showPullPreview`, `handleFirstPullWithExistingFiles` and `createBackup` (`main.go`).
The user may think about the answer as long as they like, while Codex writes files
and other devices push; the pull then lists the bucket anew.

`shown` is the last preview, field by field as the code's struct; `calm` says that
nothing has changed since; `upToDate` that it was reported as "Already up to date";
`backup` and `since` are the backup and what was edited after it.  `Pull` takes each
file by `Task`, the decision of Pull's loop, and leaves out the files that fail.
`PreviewPull` is written from its own code, not from `Task`: that the two agree is
what `PreviewIsPull` says.

## Setup

Several devices and one bucket.  A key is the passphrase it is derived from, or a
generated one; an object is the key it is encrypted with.

| Variable | In the code |
|---|---|
| `config` | devices with a `config.yaml` |
| `key[d]` | `age-key.txt` |
| `local[d]`, `clean[d]`, `dirty` | the files, those `state.json` calls synced, the devices with ManifestDirty |
| `remote[f]`, `manifest` | the key an object, or the manifest, is encrypted with |
| `step[d]`, `full[d]`, `clearing[d]`, `sent[d]` | where init, reset or push is, whether it is the full setup, `shouldClearRemote`, the files a push has sent |
| `excused`, `unguarded`, `stale`, `fresh` | history, see below |

| Action | In the code |
|---|---|
| `EnterPassphrase`, `EnterAgain` | initCmd, initPassphraseOnly, enterPassphraseAndVerify: the key file is replaced before anything is verified |
| `KeepOrGenerateKey` | initFullSetup without --passphrase, or with the existing key kept |
| `Verify`, `AnswerMismatch` | verifyKeyMatchesRemote, handleKeyMismatch: retry, clear, abort |
| `Connect`, `ClearRemote`, `Check`, `SaveConfig` | the rest of initFullSetup, in its order |
| `Interrupted` | init dies or is abandoned at a prompt |
| `Reset`, `resetLocalFiles` | resetCmd with and without --remote; config, key and state go in this order and the rest may stay |
| `PushStart`, `PushSend`, `PushEnds`, `PushDies` | Push: file after file, each of which may fail or be stored without an answer; then the manifest, which may fail as well (ManifestDirty), and Save; or it dies in between, the manifest sent or not |
| `Pull`, `Edit` | one step each; a pull begins with the manifest |

`verifyKeyMatchesRemote` tries one object and takes a failure for success, and an
empty bucket fits any key.  So the bucket *can* hold several keys, and `NoMixedKeys`
is a statement of what is enough to prevent it: devices that set up in turn (`InTurn`:
one at a time, and the second after the first has pushed).  `excused` records the
events that the code leaves open, each set where it happens: the bucket was cleared
while others hold the old key, a request of the verification failed, a setup died
between the new key and its verification, or a key was generated under a configuration
that is already there.  Retries, aborts, a changed passphrase, keys that were kept and
pushes in between excuse nothing.

A pull trashes what the device calls synced and the bucket does not have.  `stale` are the
devices whose `state.json` is older than the last clearing of the bucket, which know of no
clearing; for all others `OnlyOldStateTrashes` says that a pull takes nothing away: what
they call synced is there, whichever uploads fail, whichever pushes die, whatever other
devices push.  For the stale ones the manifest is the only guard, and it is sent last:
`ForeignKeyRemovesNothing` says that a key which opens nothing removes nothing *while the
manifest guards the bucket*, and its premise is the list of windows in which it does not:
a push has sent files and not yet the manifest (`sent`), a manifest failed and waits for
the next push (`dirty`), or (`unguarded`) it was lost by a clearing that failed halfway,
a push that died, an upload whose answer was lost and after which no manifest was due, or
a reset that removed `state.json` with ManifestDirty in it.  In each of them a pull with
the old key trashes its synced files; the shortest trace is below.

## Engine

`IndexRollouts` starts `codex app-server`, asks it for the pages of the live and then
the archived threads, and shuts it down.  Four parties take steps of their own.

| Party | State | Actions |
|---|---|---|
| the client | `pc`, `at`, `page`, `next`, `listed`, `outcome`, `ctx` | `Start`, `Call`, `Notify`, `Receive`, `NoMoreLines`, `Cancelled`, `TimedOut`, `ExitReason`, `CloseStdin`, `Kill`, `Return`: startEngine, call, notify, exitReason, shutdown |
| the scanner goroutine | `held`, `lines`, `closed` | `PumpRead`, `PumpDeliver`, `PumpEOF`, `PumpError` (a line over 64 MiB ends the scan while the engine lives), `PumpClosed` |
| the Wait goroutine | `exited` | `Wait`, which closes the read end of stdout and may cost lines not read yet |
| the engine (not in the repository) | `proc`, `killed`, `asked`, `stdin`, `stdout` | `EngineRead`, `EngineAnswer`, `EngineChat`, `EngineEnds` |

The engine is any process that reads requests and writes lines: it may answer with an
error or with something that does not decode, answer a call twice, send requests of
its own with ids the client has used, write notifications, stop reading, stop
answering, and end at any moment, with a child that keeps its pipes open.

`Listing` is what the caller may rely on, in four actions: the engine is started, each
page is counted once and in order, and the call returns when the engine has gone, with
success only if every page was counted.  `KeepsPromise` is the refinement: `Engine`
with `engine <- proc` and the outcome hidden until the client returns.

## DesktopRefresh

`desktop refresh` and `pull --desktop`: a backup of the app's databases, the engine
run, the names, the reset of the catalog.  Several refreshes may overlap, fail and die
at every step; the app is opened and closed, its user renames and creates threads.

| Variable | In the code |
|---|---|
| `rollouts`, `index` | rollout files under `sessions/`, the names in `session_index.jsonl` |
| `state` | `state_5.sqlite`: the threads and their names |
| `catalog` | the app's catalog: a schema that is not recognised, empty, swept, or due for a full sweep |
| `sidebar`, `app` | what the app shows, whether it is open (not in the repository) |
| `backups`, `dir[r]`, `copied[r]` | the backup directories, the one a refresh fills, what its copy is going to be |
| `step[r]`, `noBackup`, `noNames`, `engine[r]`, `scanned[r]`, `read[r]` | where a refresh is, its flags, its engine, the rollouts that engine went through, the names it read |
| `original`, `promised`, `raced` | history: the database as the app left it, threads of refreshes that succeeded, whether the app was opened (or a refresh without backup wrote) while another refresh was at work |

| Action | In the code |
|---|---|
| `Begin`, `Pull` | the command, and a pull that goes on to a refresh if it brought files and met no error |
| `Check` | runningCodexProcesses: the one look at who has the databases open |
| `MakeDir`, `CopyBegins`, `CopyEnds` | Backup: Mkdir under the first free name of the second, then the files one after the other; a write in between tears the copy |
| `StartEngine`, `EngineScans`, `EngineEnds`, `Listed` | the engine run, as `Listing` promises it |
| `ReadNames`, `UpdateNames` | indexNames, and the UPDATE of ReconcileNames |
| `ResetCatalog` | ResetCatalog |
| `Error`, `Crash` | a step fails; the process dies while its engine goes on |
| `Launch`, `Quit`, `Rename`, `Create` | the app and its user |

`raced` marks the one thing the code does not prevent: it looks at the processes once,
before everything else.  Both invariants are about behaviours without it;
`UserNamesKept` holds in all of them.  It is set for good: what the app does once it was
opened under a refresh is excused for the rest of the behaviour, so that both invariants
speak of overlapping, failing and dying refreshes and not of the app beside them.  A
checkpoint of the write-ahead log that changes no row is not a write here; it would tear
the copy of another refresh, which matters only beside one without backup, as any other
refresh has a copy of its own.

## Runs

Devices are two and interchangeable (symmetry): every race in the code is between one
device and "somebody else who uploaded", and two devices with free interleaving give
it; a third adds no new pair of steps.  One path suffices where the code treats paths
independently; `EmptyRemote` needs two, and `NoLoss` has one that is merged and one
that is not.  The phases of a pull and the listing of a
forced push relate several paths, but no property of `ForcedPush` relates two: a
further path only delays the steps of the first, and delays are free already.
`MaxEdits` bounds what users do in a behaviour (edits and deletions), `MaxClock`
uploads and restores, `MaxSidecars` the sidecars of a file.  A behaviour that reaches
a bound continues as under a storage that refuses uploads or a disk that refuses a
sidecar, both of which the code handles, so a bound never blocks a command in the
middle.

| Run | Question | Assumes | Bounds | States |
|---|---|---|---|---|
| `NoLoss` | Is any edit ever lost (`NoLostWork`), are types kept (`TypeOK`)? | PullFirst, Exclusive, Quiet, FreshNames, ResolveFirst; If-Match ignored; with Force, NoDelete, SameETag | 4 edits, the fourth only while one path is in use; 4 uploads, 2 sidecars | 1 098 804 |
| `Agreement` | Is a file that diff calls synced, and neither command would touch, the remote's (`CleanMeansEqual`)? | the same disciplines; with Force, Lost | 4 edits, 4 uploads, 1 sidecar | 2 172 700 |
| `ForcedPush` | Does `state.json` ever call work synced that was never uploaded (`SyncedMeansPublished`), does a pull overwrite such work (`PullOverwritesPublished`)?  Does push --force remove anything the bin does not hold (`BinBeforeDelete`), or a revision its device has not seen (`NoStaleDelete`)? | Quiet only; with Force, Lost, HeadFails, Crash, Vanish | 3 edits, 2 uploads; no edit follows the third after a pull has recorded an empty hash (`LastEditHashed`) | 2 613 500 |
| `Convergence` | Do devices agree, or have a conflict, again and again? | PullFirst, Exclusive, Quiet, FreshNames; `FairSpec` | 3 edits, 4 uploads | 11 348 |
| `Processes` | Two processes on one device: is `state.json` ever torn (`NeverTorn`), does it call work synced that was never uploaded (`SyncedMeansPublished`), does a pull overwrite such work in a file it knows (`PullOverwritesPublished`) or remove what nobody removed (`TrashedWasRemoved`)? | Codex rests while a command runs | 2 paths, 2 contents, 2 uploads | 2 490 113 |
| `MergedFile` | Does a pull lose a line (`NothingLost`), are the copies the same and right when nobody has anything to do (`QuietMeansMerged`), is that reached (`Settles`)? | steps are whole; `FairSpec` | 4 lines out of 4 and 5 | 242 422 |
| `SyncScope` | Every order of the paths commands with pushes and pulls: `RemovedStaysOff`, `EraseIsChosen`, `PullKeepsEdits`, `OwnEraseSparesFile` | - | 3 edits; a directory of both scopes, a file of scope full, a custom path | 860 760 |
| `FirstPull` | Is the preview what the pull does (`PreviewIsPull`, `UpToDateIsTrue`), does the backup hold what it replaces (`BackupHolds`)? | - | 5 edits, a plain and a merged file | 296 200 |
| `Setup` | Does the bucket stay under one key (`NoMixedKeys`), what can make a pull trash files (`OnlyOldStateTrashes`, `ForeignKeyRemovesNothing`)? | - | 2 devices, 2 files, a passphrase, a generated key; `SetsUpAlone` | 985 370 |
| `Engine` | Is every page counted once and the engine gone when the call returns (`KeepsPromise`), does the call return (`EndsUnlessUnanswered`)? | `FairSpec` | 2 pages of each kind, pipes of 2 requests and 1 line, a channel of 1, 2 unasked lines | 213 963 |
| `DesktopRefresh` | Are pulled threads shown (`PulledThreadsShown`), can what was there be put back (`OriginalKept`), do the user's names stay (`UserNamesKept`)? | the app is not opened under a refresh, where `raced` says so | 2 refreshes at a time, 1 thread, 2 backup directories of one second | 2 160 000 |

`EmptyRemote` is violated, and so are the properties of the five further
configurations, `StaleRestore`, `OutOfScopePull`, `FreshStart`, `TiedLines` and
`LiteralToken`: see below.

Why the bounds are enough: losing work takes an edit on each side and a third that
distinguishes "the same content again" from "newer content"; the fourth edit lets a
deletion or a second conflict follow a resolution.  Two uploads are a revision and its
replacement, the race of a forced push; a conflict between two resolutions takes four;
a line that is pushed over and comes back takes three, and one for each of the others.
In `SyncScope` a file needs two revisions and a third that conflicts; in `FirstPull` a
synced revision, an edit on each side, and an edit after the question.  Two keys are
enough in `Setup` for one that fits and one that does not, and two files for a bucket
that is cleared by half and for a push that has sent one of two.  Its constraint
`SetsUpAlone` keeps apart what would only multiply: setups and resets overlap each other
freely as long as no device has a file, and pushes, pulls and edits overlap each other
freely between setups; while one device sets up or resets it has at most one file, and the
others may pull but have nothing to push.  `LastEditHashed` stops `ForcedPush` after the
last edit only where an entry has an empty hash.  The theorems know neither bound.  In `Processes` two contents and two versions are an old and a new
one; a third process would do what one of the two does after it has ended and started
again.  In `MergedFile` the lines are chosen so that every comparison of the merge
decides something: instants that are equal, earlier, missing or written in two ways,
entries of one thread and of two, a line that is no object, ties between lines that hold
no path (`TiedLines` has the others), and home directories that sort before and after the other texts; four appends are two on each device.  `Engine`'s
pipes and channel are as small as the protocol allows, so that everyone blocks on
everyone; the real ones are larger and block later.  Two backups of one second are a
name and the next one, and threads do not depend on each other.

Each property has a mutant in `PROJECT.json` - a plausible
slip in a definition, such as a dropped version comparison or an unconditional delete -
and the run finds it violated within its bounds, so the interesting cases do occur.

Three runs use a VIEW.  `Undisciplined` (`ForcedPush`) drops `failed`, `pulled` and the
history no property of the run reads: without PullFirst no guard and no next value of a
kept variable reads them.  `Reread` drops a preview and a backup that no later step
reads, and `ExceptFresh` (`Setup`) the history that only `ClearStartsOver` reads.  Two
states a view identifies have the same behaviours as far as the properties go.
`CHECK_DEADLOCK FALSE` is set only for `MergedFile`, which may come to rest: that is
what `Settles` asks for.

### Fairness

`FairSpec` assumes that a started command goes on (weak fairness of `Push` and `Pull`:
it is a program with request timeouts and no locks), that commands are started again
and again on each device (strong fairness of the starts: the README's launchd timer;
strong because the other device's exclusive command disables the start for a while),
and that a request repeated for ever succeeds at some time (strong fairness, for each
path, of `PushSend` and of whichever of `PullWrite`, `PullConflict` and `PullMerge` is
due: each failure ends the task until the next command retries it).  Edits are not
assumed to stop other than by the bound, and conflicts need not be resolved:
`Convergence` asks for agreement *or* a conflict in front of the user.

`MergedFile!FairSpec` assumes weak fairness of `Push` and `Pull` for each device and
path: the commands are run again and again, and a whole push or pull is one step.  Lines
are appended at will up to the bound.

`Engine!FairSpec` assumes what the runtime and the system give: the client and the two
goroutines run when they can, the grace period of shutdown passes (it is in `Client`),
Wait returns when the process has gone, and a process that was sent SIGKILL ends.  It
does not assume that the engine reads, answers or exits, nor that its pipes are closed
when it has gone (a child may hold them).  The five-minute timeout of a request is an
action without fairness: with it every wait would end, and the property would not show
that it is needed only where a living engine withholds an answer.

## Disagreements found

Each of these configurations checks what the documentation, a comment or a prompt says of
the program, and TLC finds a trace in which the code does something else.

| Configuration | Property | What happens |
|---|---|---|
| `EmptyRemote` | `EmptyRemoteRemovesNothing` | The manifest counts as a live object: when every synced file is gone from the bucket but the manifest is left, a pull moves every unchanged tracked file to the trash. |
| `StaleRestore` | `RestoreKeepsLive` | "Restoring skips any file another device has re-created since - that newer version wins" (`README.md:416`), "the live object wins" (`remote_trash.go:78`): RestoreRemoteTrash lists the bucket once and then copies, so an object uploaded, or restored by another device, after the listing is replaced by the copy (`remote_trash.go:115`). |
| `OutOfScopePull` | `PullStaysInSyncSet` | `buildRemoteMap` asks for the filters but not for the sync paths, and a file outside them is not among the local files: a pull takes it for missing and writes the remote content over it. |
| `FreshStart` | `ClearStartsOver` | init clears the bucket but keeps `state.json`, which calls every file synced: the push that follows sends nothing, and the bucket stays empty. |
| `TiedLines` | `Settles` | Ties are broken "on the raw line bytes, never on which copy was local", "so both devices converge" (`merge.go:35-39`), but the bytes compared are those after `ResolveContent`: two prompts of one instant, one of which holds a path, sort by the reader's home directory.  Each device sorts the file its own way, takes the result for a local change, and pushes it back, for ever. |
| `LiteralToken` | `Settles` | A prompt that holds `${HOME}` as it stands is resolved to the reader's home directory on the first pull (`paths.go:113` names the ambiguity).  The devices' bytes differ from then on, and pushes do not end. |

More traces come from changing one assumption of a passing run.  They are not runs of
the project but are reproduced by the change given here.

The core:

- `NoLostWork` without `ResolveFirst` (7 edits): a file with an open conflict is deleted
  and push --force removes its object and entry; the other device pushes it anew.  Keep
  remote then writes the sidecar's old content and, as there is no entry to amend, one
  without a version, stamped with the time of the resolution (`main.go:1675`): to the
  next pull nothing is newer, and the next push overwrites the other's edit.
- `NoLostWork` with `NoLoss.cfg` without `PullFirst`: Upload is unconditional, so a
  push on a device that has not pulled replaces the other's newer revision.
- `NoLostWork` without `FreshNames`: two devices create one path; Pull compares an
  untracked file by mtime only (`sync.go:536`) and overwrites.
- `NoLostWork` without `Exclusive`: another device uploads while a pull is under way,
  and the push that follows this pull replaces the upload.
- `NoLostWork` with `Events = {"Crash"}`: a command that dies before Save leaves what
  it transferred untracked, and the same rule overwrites later edits.  With `Lost` a
  single upload that was applied but answered by an error is enough, with `Vanish` a
  file that goes while a pull downloads it: the nil FileInfo ends the pull, and what it
  had fetched of other files is untracked.
- `NoLostWork` with `Versions = FALSE` (4 edits), or with `HeadFails` (5), which leaves
  an entry without a version: `recordResolution` stamps the entry with the time of the
  resolution (`main.go:1675`), later than an upload made since the sidecar was written;
  the next pull does not see that upload and the next push overwrites it.
- `NoLostWork` with `NoLoss.cfg` without `Quiet`, at the merged path: Codex appends
  between mergeRemote's read and its write, and the line is gone.
- `PullOverwritesPublished` without `Quiet`: the same between the hash check and the
  atomic write of a download.
- `SyncedMeansPublished` without `Quiet`: Codex appends between the write and the
  second hash; the append is recorded as synced and no push sends it.
- `CleanMeansEqual` without `Exclusive`: another device uploads between Upload and
  Head; its version is recorded as this device's and no pull fetches it.
- `CleanMeansEqual` without `ResolveFirst` (5 edits): a pull downloads a newer object
  while an old sidecar is left over from a file deleted meanwhile; keep remote then
  pairs the old content's hash with the new version (`main.go:1659`).
- `CleanMeansEqual` with `Versions = FALSE`, or with `HeadFails`, which leaves an entry
  without a version: keep remote pairs the sidecar's old content with the time of the
  resolution, and a newer object does not count as newer (4 edits).
- `CleanMeansEqual` with `SameETag` (5 edits): a restore brings the object of before a
  conflict back under the version the entry still has; keep remote then pairs the other
  content with it.
- `ConflictMeansBothChanged` (stated in `CodexSync`, in no run): after keep local the
  entry has the resolved hash and the version of before the conflict, and the next
  pull conflicts again on the same object.
- `BinBeforeDelete` with `Conditional = FALSE`: a server that ignores If-Match loses an
  upload made between copy and delete (the comment at `sync.go:338-341` says as much,
  and that the bin covers it; the bin then has the older content).
- `RestoreKeepsLive` with `Exclusive` holds, but says no more than the guard of the
  listing does: no other command can run between it and the copies.

Merging:

- `QuietMeansMerged` and `NothingLost` with entries of one thread whose timestamps do
  not all parse: `laterTimestamp` compares instants if both do and strings otherwise, so
  that "later" can go round in a circle.  Which of three such entries survives depends
  on the order in which they were read, and a later one may be dropped for an earlier.
  With three such entries of three threads there is no order to sort by, and the
  result of `sort.Slice` is not determined (`Ordered`).
- `QuietMeansMerged` with a line that mentions another device's home directory as it
  stands: that device takes it for its own, and its copy, with tokens put in, is not
  the object any more (`Translatable`).

Several processes on one device (`Processes`):

- `PullOverwritesPublished` without the conjunct `Tracked`: the entry that one process
  saved is undone by the `state.json` another loaded earlier, or `BackUp` renames a good
  file away that was written after it read a torn one.  The file is untracked
  again, is edited, and a pull that finds a newer object overwrites the unpublished
  edit by the mtime rule where it should have met a conflict.
- `CleanMeansEqual`, read for one device with two overlapping pulls: the first fetches
  version 1, the second fetches and writes version 2, the first writes version 1 over
  it, and the second reads the file back and records its hash with version 2.  The file
  is stale and counts as synced.

The desktop app (`DesktopRefresh`):

- `PulledThreadsShown` without `raced`: the app is opened after the one look at the
  processes (`refresh.go`) and does not see what the refresh then indexes.
- `OriginalKept` without `raced`: a refresh without backup writes the table while
  another copies it, and no backup is whole.

Scope and setup:

- `paths remove` says its filters "stay off after reset" (`main.go:2990`, and 3025,
  `manager.go:202`); `paths reset` clears the filters, so every path is back.
- When the last path was removed the list counts as the defaults, so `paths add` of a
  removed path answers that it is there already and leaves its filter in place.
- Without the excuses of `NoMixedKeys`: an abort removes the key and leaves the
  configuration, so a later full setup generates a key, whose final check fails but
  leaves it in place, and a push mixes keys; an interrupt at the mismatch prompt
  (`main.go:567`) leaves the wrong key instead of the working one; a failed listing or
  download counts as a key that fits (`main.go:2252`); a user who chose to clear and
  whose connection test then fails keeps the new key over the old bucket; a device
  with the old key pushes into a bucket that was cleared.
- `ForeignKeyRemovesNothing` without its premise: one device clears the bucket, sets up
  with a new key and pushes; after its first upload and before the manifest, another
  device, whose `state.json` and key are the old ones, pulls.  The bucket is populated,
  there is no manifest to stop at, nothing opens, and its synced files that have no
  object yet go to the trash.  The window stays open if the push dies, or if the manifest
  fails, until the next push (`sync.go:308-316`, 929-936); a reset of the pushing device
  forgets that a manifest is due, and a clearing that fails halfway may remove the
  manifest and leave files.
- `OnlyOldStateTrashes` for `stale` devices: a device pulls after another has cleared the
  bucket and pushed under the same key; what it had synced and the other does not have
  goes to its trash.
- `reset --remote` that is interrupted before it reaches `state.json`, and init that
  clears the bucket (`FreshStart`), leave a state that calls everything synced.

## Proofs

The constants are subject to the named assumption of each module only
(`SyncAssumption`, `ProcessesAssumption`, `ScopeAssumption`, `PullAssumption`,
`SetupAssumption`, `EngineAssumption`, `RefreshAssumption`, `MergeAssumption`): any set of
devices (infinite ones included), processes, paths, keys, threads, lines, discipline,
events, pages, capacities and bounds.

| Module | Theorem | Says | Assumes | Argument |
|---|---|---|---|---|
| `CodexSyncProofs` | `TypeCorrect` | `[]TypeOK` | - | inductive; one step per action |
| | `BinHoldsDeleted` | `BinBeforeDelete` | Versions, Conditional | `BinInv` |
| | `NoStaleDeleteHolds` | `NoStaleDelete` | Versions, Conditional, no SameETag | `StampInv` |
| | `SyncedIsPublished` | `[]SyncedMeansPublished` | Quiet | `PublishedInv` |
| | `PullKeepsUnpublished` | `PullOverwritesPublished` | Quiet | `PublishedInv`, `DownloadInv` |
| | `MergingLosesNothing` | `[]NoLostWork` | Quiet, every file merged | `DownloadInv`, `OnlyMerged`, `LinesKept` |
| | `CleanIsEqual` | `[]CleanMeansEqual` | Versions, Exclusive, Quiet, ResolveFirst, no HeadFails or SameETag | `StateInv` |
| | `NothingIsLost` | `[]NoLostWork` | Versions, the five disciplines, no Crash, Lost, HeadFails or Vanish | `StateInv`, `LossInv` |
| `ProcessesProofs` | `TypeCorrect` | `[]TypeOK` | - | inductive |
| | `StateIsNeverTorn` | `NeverTorn` | - | `Written` |
| | `SyncedIsPublished`, `PullKeepsUnpublished` | `[]SyncedMeansPublished`, `PullOverwritesPublished` | - | `Shared`, `Uploaded` |
| | `TrashedIsRemoved` | `TrashedWasRemoved` | - | `Shared`, `Accounted` |
| `MergedFileProofs` | `TypeCorrect` | `[]TypeOK` | Ordered | `Sourced`, `Merging` |
| | `NoPullLosesALine` | `NothingLost` | Ordered | `Sourced`, `Merging` |
| | `QuietIsMerged` | `[]QuietMeansMerged` | Ordered, Translatable | `MergeInv` |
| `SyncScopeProofs` | `TypeCorrect` | `[]TypeOK` | - | inductive |
| | `RemovedIsOff` | `[]RemovedStaysOff` | - | `OffInv` |
| | `EraseSparesFile` | `OwnEraseSparesFile` | - | `EraseInv` |
| | `PullIsCareful` | `PullKeepsEdits` | - | from the step |
| | `ErasesAreChosen` | `EraseIsChosen` | - | `TakenInv` |
| `FirstPullProofs` | `TypeCorrect` | `[]TypeOK` | - | inductive |
| | `PreviewHolds`, `UpToDateHolds` | `PreviewIsPull`, `[]UpToDateIsTrue` | - | `ShownInv`, `TaskInPreview` |
| | `BackupIsKept` | `BackupHolds` | - | the backup has every file as it was |
| `SetupProofs` | `TypeCorrect` | `[]TypeOK` | - | inductive |
| | `OneKeyHolds` | `[]NoMixedKeys` | - | `KeyInv`, `ClearingInv` |
| | `OldStateHolds` | `OnlyOldStateTrashes` | - | `PushInv`, `StaleInv` |
| | `ForeignKeyIsSafe` | `ForeignKeyRemovesNothing` | - | `PushInv`, `ManifestInv` |
| `EngineProofs` | `TypeCorrect` | `[]TypeOK` | - | inductive |
| | `PromiseKept` | `KeepsPromise`: `Engine` implements `Listing` | - | `Position`, `OutcomeInv`, `ProcessInv`, `Requests`, `Answered` |
| `DesktopRefreshProofs` | `TypeCorrect` | `[]TypeOK` | - | inductive |
| | `NamesAreKept` | `UserNamesKept` | - | from the step |
| | `PulledAreShown` | `[]PulledThreadsShown` | - | `Alone`, `Visible` |
| | `OriginalIsKept` | `[]OriginalKept` | - | `Alone`, `DirInv`, `FlagInv`, `BackupInv` |

*The recycle bin.* A delete is decided at the copy and takes effect later, when the
object may be another.  `BinInv` says that every stored object carries the version of
its upload (`StoreStamped`) and that for a task `erase` the object whose version the
device will name in If-Match is in the bin or has been replaced (`Backed`): an upload
takes a new version, so an object that still has that version is the copied one, or
was put back from the bin and is there still.  `StampInv` adds that version and
timestamp of an object agree (hence no SameETag: a restore gives a new version) and
`Decided`: a device at `copy` or `erase` holds the object it compared with its entry,
so that equal versions mean the compared object is the one removed.

*Phases and restore.* Two lemmas that the longer arguments use: `PhaseInv`, a device has
only tasks of the command it runs, and `RestoreInv`, while a command runs no other does
(`Alone`, from Exclusive) and a path with the task `restore` is then not live.

*State file.* `PublishedInv` says that whatever the store holds (`StorePublished`) and
every entry, sent object and sidecar of a device (`DevicePublished`) is made of uploaded
edits, and a file at `rehash` is what the pull wrote or gone, as nobody edits while the
command runs, though files may be deleted under it (`Vanish`).  `DownloadInv` adds that
with no command running the copy in memory is the saved one (`IdleSaved`), that a file
to be downloaded is untracked or still the file of its entry, that one to be adopted is
not there, and that one to be merged has nothing the union leaves out (`Untouched`),
which the decision established and a quiet device keeps.

*Merging.* Pushes do replace each other's objects, so no line is safe in the bucket:
it is safe because the device that wrote it keeps it.  `LinesKept` says so - every
line is in some device's file, in a trash directory, or deleted - and `OnlyMerged`
that no file is ever downloaded over; `Untouched` makes the merge a superset.  Neither
PullFirst nor Exclusive is needed.

*Clean files.* `StateInv` says what an entry tells of the remote.  `Recorded`: an entry
has a version that was given out, and if it is the object's then the hash is of the
object's content (`Linked`); while a sidecar waits the entry is of another object than
the one in the bucket (`Outdated`), because keep local and keep remote keep its version
and change its hash.  That needs ResolveFirst, so that no push or pull amends the
entry in between, and that no object comes back under an old version.  `Underway`: what
the running command has seen is still what is there, which is where Exclusive comes in.
An object with the entry's version may differ in content only where a restore has put
it back (`Restored`), so that the invariant holds with SameETag as well and serves
the next proof; the theorem excludes it.

*No lost work.* Every edit is in a file, in the bucket, or put away: given up by the
user, in a local trash directory or in the recycle bin (`WorkKept`).  The steps that
endanger it are three.  An upload replaces an object, so the device must have
everything the object holds or see it put away: `Covered`.  A pull without errors
establishes that, by writing the object or because the entry is of the object
(`Linked`) and what an entry records the device still has, or it was put away
(`HashKept`); PullFirst carries it to the push (`PulledBefore`; `pulled` is emptied when a
push starts, so no two pushes follow one pull).  A download replaces a file: a tracked
one is the file of its entry, which an upload has carried, and what was uploaded is in
the bucket or put away (`PublishedKept`); an untracked one must not be there at all, and
`Fresh` says that a file that is not merged and not tracked is known to no other device
nor the bucket - this is what FreshNames gives and what a crash takes away.  A delete removes an
object that was copied (`FileHeld`, at `erase`).  The other parts of `FileHeld` say that
the file a task is about is as the task found it.  The provider may ignore If-Match, and
copies may keep their ETag: neither is needed while commands do not overlap.

*The bytes of a merge.* `Arranging`: where a strict total order ranks a finite set, the
sequence with n - 1 elements before the n-th holds every element, once; the three orders
of the code are such orders (`BytesOrder`, `HistoryOrder`, `IndexOrder`), the last because
the loop leaves one entry for each thread and because timestamps compare (`Ordered`).
`FoldSteps` takes `FoldLeft` apart into the sets the loop goes through; `Entries` is what
holds of the last of them: one entry for each thread, none earlier than any it read.
The library's induction theorems cannot be instantiated, so both go by the least number
that would be a counterexample (`LeastNatural`).  With that, `Merging`: the merged file
is made of lines of both, each once, and shows every line of both.  `Sourced` says that
copies hold nothing but what Codex wrote, so that all of this applies to them, and
`PullShows` lifts it to lines as the remote has them.  `MergeInv` adds what a quiet
system needs: an up-to-date device has recorded the object (`BaseIsRemote`, for which a
pull must undo what a push did to the text: `RoundTripContent`), every line is still
shown somewhere (`Somewhere`), nothing else is (`OnlyWritten`), and of two devices with
nothing left to do one has merged (`OneHasMerged`) - the device that pushed has not, but
the others' copies are the same only if merging changed nothing.

`Ordered` says that no three timestamps of the session index go round in a circle; it
holds whenever all of them parse, or none.  `Translatable` says that no line mentions a
home directory other than its own device's.  The lines of `MCMergedFile` satisfy both.

*Several processes.* No entry can be held against the process that saved it, since any
other may have saved an older `state.json` since.  So the invariant asks of every
copy of an entry, wherever it is - `state.json`, a temporary file, the memory of a
process - only what no later step can take away: its hash has been uploaded (`AllSent`)
and its path has an object or was removed by another device (`AllKnown`).  `Accounted`
adds what a process concludes from a listing: a path that has an entry and is not in the
listing was removed.  `Written` is that whoever renames a temporary file has written all
of it.

*Scope.* `OffInv`: a removed path that is listed, or would be if the list fell back to
the defaults, has a filter.  `TakenInv`: every filter is of a path the user took out, and
a list that is there lacks only such paths of the scope.  `EraseInv`: what this device erased is neither recorded
nor in the bucket, so no pull can take it for a deletion by others.

*Preview.* `ShownInv`: while nothing changes, the preview shown is what PreviewPull
would say now.  `TaskInPreview` relates the two decision procedures case by case.

*Setup.* `KeyInv`: unless excused, there is one key in the bucket (`OneKey`); a device
that may go on to push has a key that opens all of it (`TrustInv`: whoever is about to
save the configuration, and configured devices outside the steps in which the key file
holds an unverified key); and while the bucket is empty, so that nothing can be
verified, only one device is set up or setting up (`AloneInv`).  `StaleInv`: what
a device outside `stale` calls synced, or has sent and is about to call so, has an object;
only clearing removes objects, and it makes every device stale.  `ManifestInv`: a bucket
with files and without a manifest is one in which a push is under way or some device knows
that its manifest is due, or else `unguarded`; otherwise a foreign key stops at it.

*The engine.* A step of the engine or a goroutine is a stutter of `Listing`; the step
that must not be taken twice or for the wrong page is the client's `Receive`.  An id is
used once, so that whatever carries the id of the call that waits is a request for the
page it asks for (`Requests`) or an answer to that (`Answered`, in the pipe, in the
scanner's hand and in the channel alike), unless it is a request or a notification of
the engine's own, which `Receive` passes over.  `Position` says which page that is, and
`ProcessInv` that the client returns only when the process has gone.

*The refresh.* `Alone`: unless `raced`, no refresh is past its look at the processes
while the app is open.  `Visible`: what a refresh has promised is in the table, and the
app shows it or will sweep when it starts.  `BackupInv`: once the table is no longer as
the app left it, or a refresh that makes backups is past making its own, some finished
backup holds the original; for that a copy that is under way either still agrees with
the table or is not needed, and a directory belongs to the refresh that made it
(`DirInv`).

The assumptions are not conveniences: the conclusions fail without them (the traces
above), so the proofs say on what each guarantee rests.

*Only model-checked:* the liveness properties `Convergence`, `Settles` and
`EndsUnlessUnanswered`.  Liveness under fairness and ENABLED are out of the prover's
reach.

## What is left out

The core:

- Timestamps come from one clock: skew between devices and the storage, and two events
  within one second, are not modelled.  Where versions exist the runs use a timestamp
  only for an entry that has no version.
- A file that vanishes between the directory walk and its hash at the start of a
  command is not modelled (push and pull then report the file and go on).
- One command per device at a time here: `Processes` has several, without merging,
  --force and --no-delete.
- Recycle-bin batches are sets of copies with distinct paths; the names of batches and
  what happens when two batches share a name are not modelled.
- Content is what path tokens, compression and encryption preserve.  A restored mtime
  is 0 or the present time, the two cases the mtime rule tells apart.
- The manifest is a flag that may or may not be published when the state changed: the
  mtimes in it decide nothing but the mtime a pull gives a file.  When it is due, and
  what is open until it comes, is in `Setup`.
- Merging is the union of lines, and equal sets of lines are equal files; `MergedFile`
  has the order of lines, duplicates, timestamps and supersession.
- The names of sidecars, and the order in which --keep treats several of one file.

`Processes`: no timestamps, so that a pull may or may not take an untracked file for the
older one; other devices are uploads and removals.  `MergedFile`: pushes and pulls are
one step, one mapping of paths (HOME), no path_map, lines written once.  `Engine`: the
search for the binary, JSON, and the contents of a page.  `DesktopRefresh`: SQL, and
schemas beyond "recognised or not".

`SyncScope`: protected and hard-excluded paths, validation of paths, globs other than
the three forms, mergeable files, several devices.  `FirstPull`: one command at a time
and mtimes that are edit numbers.  `Setup`: one bucket, no provider wizards, no choice
of scope; Codex edits only between the commands of a device, and no deletions; a pull is
one step.  `SyncScope` takes a push and its Save for one step: the entry that a push leaves
behind when it dies between a delete and Save is `CodexSync`'s matter.  `FirstPull` asks of
a state only whether it has entries, and not when it was last saved.

Nowhere: self update (two renames and a restore, which leave the executable in place
unless the process dies between them), what WebDAV does inside one call, the refusal of
symlinks and of paths that leave the directory (`safeio.go`: predicates over path strings,
without state), the choice of storage, encryption and XML parsing, which are libraries or
pure, and output.

## Plan

Done: the core with merging, several processes on one device, the bytes of merged
files, the scope, the first pull, setup, the desktop refresh with the engine run and its
abstract specification, and the proofs above, which state every safety property the
runs check.  Left, in order of importance:

1. **`Manifest`**: the mtimes in it and what a pull gives back from them, beyond the
   order of files and manifest in `Setup`.  Property: a manifest is eventually as new as
   the last successful push.
2. **`Replicas`**: an abstract specification of the merged file - a grow-only set that
   every device eventually holds - and `CodexSync` shown to implement it.
3. **Names by the second**: the order in which --keep takes several sidecars, names of
   sidecars, batches that share one.
4. **path_map**: several mappings, tokens in remote keys, tokens this device lacks.
5. **`WebDAV`**: recursive listing and creation of parent collections.
6. **`SelfUpdate`**: a crash between the two renames.
