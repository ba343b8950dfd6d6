------------------------------- MODULE FirstPull -------------------------------
(***************************************************************************)
(* The pull command around Syncer.Pull: the preview that --dry-run and the *)
(* first pull show, the question a first pull asks on a device that has    *)
(* files, the backup, and the pull, which lists the remote anew.  The user *)
(* may think about the answer for days, while Codex writes files and other *)
(* devices push.                                                           *)
(*                                                                         *)
(* One device is modelled, other devices only write the bucket, and a push *)
(* or a pull is one step: how they interleave is the matter of CodexSync.  *)
(* A content is a set of edits, numbered in the order of time, so the last *)
(* one stands for the mtime of a file and the LastModified of an object,   *)
(* and the content of an object for its version.                           *)
(***************************************************************************)
EXTENDS Naturals

CONSTANTS
    Paths,      \* files of the sync set
    Mergeable,  \* those that a pull merges: history.jsonl
    MaxEdits    \* bound of the model

ASSUME PullAssumption == Mergeable \subseteq Paths /\ MaxEdits \in Nat

VARIABLES
    local,      \* local[p]: the file under ~/.codex; the empty content is no file
    synced,     \* synced[p]: its hash, and the object's version, in state.json
    remote,     \* remote[p]: the object under p's key
    manifest,   \* the mtime manifest object exists
    sidecars,   \* files with a conflict sidecar
    noDelete,   \* the user runs pull with --no-delete
    edits,      \* edits so far, those of other devices included
    step,       \* where the pull command is
    shown,      \* the last preview
    upToDate,   \* it was reported as "Already up to date"
    calm,       \* nothing has changed since that preview
    backup,     \* ~/.codex.backup.<timestamp>
    since       \* files edited since the backup

data == <<local, synced, remote, manifest, sidecars>>
vars == <<data, noDelete, edits, step, shown, upToDate, calm, backup, since>>

Content == SUBSET (1..MaxEdits)
Older(x, y) == \E n \in y : \A m \in x : m < n
Preview == [WouldDownload : SUBSET Paths, WouldOverwrite : SUBSET Paths,
            WouldKeep : SUBSET Paths, WouldConflict : SUBSET Paths,
            WouldMerge : SUBSET Paths, WouldRemove : SUBSET Paths,
            WouldKeepLocal : SUBSET Paths]
Nothing == [WouldDownload |-> {}, WouldOverwrite |-> {}, WouldKeep |-> {}, WouldConflict |-> {},
            WouldMerge |-> {}, WouldRemove |-> {}, WouldKeepLocal |-> {}]

TypeOK ==
    /\ local \in [Paths -> Content]
    /\ synced \in [Paths -> Content]
    /\ remote \in [Paths -> Content]
    /\ backup \in [Paths -> Content]
    /\ sidecars \subseteq Paths /\ since \subseteq Paths
    /\ manifest \in BOOLEAN /\ noDelete \in BOOLEAN
    /\ upToDate \in BOOLEAN /\ calm \in BOOLEAN
    /\ edits \in 0..MaxEdits
    /\ step \in {"idle", "asked", "pull", "backed up"}
    /\ shown \in Preview

Init ==
    /\ local = [p \in Paths |-> {}]
    /\ synced = local /\ remote = local /\ backup = local
    /\ sidecars = {} /\ since = {}
    /\ manifest = FALSE /\ noDelete \in BOOLEAN
    /\ edits = 0 /\ step = "idle"
    /\ shown = Nothing /\ upToDate = FALSE /\ calm = FALSE

-----------------------------------------------------------------------------
(* What the code asks of its data. *)

Here == {p \in Paths : local[p] # {}}
There == {p \in Paths : remote[p] # {}}
Tracked == {p \in Paths : synced[p] # {}}
LocallyChanged == {p \in Paths : local[p] # synced[p]}
remoteChanged == {p \in There : p \in Tracked => remote[p] # synced[p]}
Populated == manifest \/ There # {}
HasState == Tracked # {}
hasExistingBaseFiles == Here # {}

\* Mutant: an entry stays, with the hash of nothing.
EmptyHash == {0}

\* RemoveFile
NoEntry == {}

-----------------------------------------------------------------------------
(* The preview. *)

WouldDownload == There \ (Mergeable \cup Here)
WouldConflict == ((remoteChanged \cap LocallyChanged) \cap (Here \cap Tracked)) \ Mergeable

WouldOverwrite ==
    {p \in (There \cap Here) \ Mergeable :
        IF p \in Tracked THEN p \in remoteChanged \ LocallyChanged ELSE Older(local[p], remote[p])}

WouldMerge == {p \in There \cap Mergeable : p \notin Tracked \/ p \notin Here \/ p \in remoteChanged}

\* staleLocalFiles: those that may go.
Vanished == (Tracked \cap Here) \ (There \cup Mergeable)
WouldRemove == IF Populated /\ ~noDelete THEN Vanished \ LocallyChanged ELSE {}
WouldKeepLocal == IF Populated /\ ~noDelete THEN Vanished \cap LocallyChanged ELSE {}

PreviewPull ==
    [WouldDownload |-> WouldDownload, WouldOverwrite |-> WouldOverwrite,
     WouldKeep |-> (There \cap Here) \ (Mergeable \cup WouldConflict \cup WouldOverwrite),
     WouldConflict |-> WouldConflict, WouldMerge |-> WouldMerge,
     WouldRemove |-> WouldRemove, WouldKeepLocal |-> WouldKeepLocal]

\* Mutant: files to merge do not count.
NotMerged(preview) ==
    preview.WouldDownload \cup preview.WouldOverwrite \cup preview.WouldConflict

\* What makes a first pull ask.
Affected(preview) ==
    preview.WouldDownload \cup preview.WouldOverwrite \cup preview.WouldConflict
    \cup preview.WouldMerge

-----------------------------------------------------------------------------
(* The pull command. *)

Show(affected) ==
    /\ shown' = PreviewPull /\ calm' = TRUE
    /\ upToDate' = (affected = {})

\* Without a state but with files: the preview, and the question unless nothing
\* is affected.
handleFirstPullWithExistingFiles(dryRun) ==
    /\ step = "idle" /\ ~HasState /\ hasExistingBaseFiles
    /\ Show(Affected(PreviewPull))
    /\ step' = IF dryRun \/ Affected(PreviewPull) = {} THEN "idle" ELSE "asked"
    /\ UNCHANGED <<data, noDelete, edits, backup, since>>

\* The plain dry run; --force leads here on a first pull, too.
showPullPreview ==
    /\ step = "idle"
    /\ Show(Affected(PreviewPull) \cup WouldRemove)
    /\ UNCHANGED <<data, noDelete, edits, step, backup, since>>

\* With a state, without files, or with --force nothing is asked.
StartPull(force) ==
    /\ step = "idle"
    /\ HasState \/ ~hasExistingBaseFiles \/ force
    /\ step' = "pull"
    /\ UNCHANGED <<data, noDelete, edits, shown, upToDate, calm, backup, since>>

\* Mutant: the backup has what the preview called overwritten.
OnlyShown == [p \in Paths |-> IF p \in shown.WouldOverwrite THEN local[p] ELSE {}]

\* createBackup: all files of the sync set, as they are by now.
BackedUp == local

\* Back up and pull, or abort if a file cannot be copied; pull; abort.
Answer ==
    /\ step = "asked"
    /\ \/ /\ step' = "backed up"
          /\ backup' = BackedUp /\ since' = {}
       \/ step' \in {"pull", "idle"} /\ UNCHANGED <<backup, since>>
    /\ UNCHANGED <<data, noDelete, edits, shown, upToDate, calm>>

\* Mutant: a local change does not stand in the way.
NeverConflicts(p) ==
    IF p \in WouldDownload \cup WouldOverwrite \cup WouldConflict THEN "download" ELSE "none"

\* The decision of Pull's loop for one path.
Task(p) ==
    CASE p \in There \cap Mergeable ->
           IF p \in Tracked \cap Here /\ p \notin remoteChanged THEN "none" ELSE "merge"
      [] p \in There \ (Mergeable \cup Here) -> "download"
      [] p \in (There \cap Here \cap Tracked) \ Mergeable ->
           IF p \notin remoteChanged THEN "none"
           ELSE IF p \in LocallyChanged THEN "conflict" ELSE "download"
      [] p \in (There \cap Here) \ (Mergeable \cup Tracked) ->
           IF Older(local[p], remote[p]) THEN "download" ELSE "none"
      [] p \in Vanished -> IF p \in LocallyChanged \/ noDelete THEN "none" ELSE "remove"
      [] OTHER -> "none"

\* Syncer.Pull: an empty remote ends it.  A file that fails is reported and left
\* as it is.
Pull ==
    /\ step \in {"pull", "backed up"}
    /\ step' = "idle"
    /\ IF ~Populated THEN UNCHANGED data
       ELSE \E failing \in SUBSET Paths :
              LET Does(task) == {p \in Paths \ failing : Task(p) = task}
              IN  /\ local' = [p \in Paths |->
                                 IF p \in Does("download") THEN remote[p]
                                 ELSE IF p \in Does("merge") THEN local[p] \cup remote[p]
                                 ELSE IF p \in Does("remove") THEN {} ELSE local[p]]
                  /\ synced' = [p \in Paths |->
                                  IF p \in Does("download") \cup Does("merge") THEN remote[p]
                                  ELSE IF p \in Does("remove") THEN NoEntry ELSE synced[p]]
                  /\ sidecars' = sidecars \cup Does("conflict")
                  /\ UNCHANGED <<remote, manifest>>
    /\ calm' = FALSE
    /\ UNCHANGED <<noDelete, edits, shown, upToDate, backup, since>>

-----------------------------------------------------------------------------
(* A push on this device, and edits here and elsewhere. *)

Push ==
    /\ step = "idle"
    /\ \E sent \in SUBSET ((Here \cap LocallyChanged) \ sidecars) \ {{}} :
         /\ remote' = [p \in Paths |-> IF p \in sent THEN local[p] ELSE remote[p]]
         /\ synced' = [p \in Paths |-> IF p \in sent THEN local[p] ELSE synced[p]]
    /\ manifest' \in {manifest, TRUE}
    /\ calm' = FALSE
    /\ UNCHANGED <<local, sidecars, noDelete, edits, step, shown, upToDate, backup, since>>

\* Lines are added to a mergeable file.
Edited(x, p) == {{}, {edits + 1}} \cup (IF p \in Mergeable THEN {x \cup {edits + 1}} ELSE {})

Edit(p) ==
    /\ edits < MaxEdits /\ edits' = edits + 1
    /\ \E x \in Edited(local[p], p) : local' = [local EXCEPT ![p] = x]
    /\ since' = since \cup {p} /\ calm' = FALSE
    /\ UNCHANGED <<synced, remote, manifest, sidecars, noDelete, step, shown, upToDate, backup>>

EditElsewhere(p) ==
    /\ edits < MaxEdits /\ edits' = edits + 1
    /\ \E x \in Edited(remote[p], p) : remote' = [remote EXCEPT ![p] = x]
    /\ manifest' \in {manifest, TRUE} /\ calm' = FALSE
    /\ UNCHANGED <<local, synced, sidecars, noDelete, step, shown, upToDate, backup, since>>

-----------------------------------------------------------------------------
Next ==
    \/ \E flag \in BOOLEAN : handleFirstPullWithExistingFiles(flag) \/ StartPull(flag)
    \/ showPullPreview \/ Answer \/ Pull \/ Push
    \/ \E p \in Paths : Edit(p) \/ EditElsewhere(p)

Spec == Init /\ [][Next]_vars

-----------------------------------------------------------------------------
(* Properties. *)

\* If nothing has changed since the preview, a pull replaces, adds, removes and
\* conflicts only what the preview listed as such (PreviewPull repeats the
\* decisions of Pull; a user agrees to what is shown).
PreviewIsPull ==
    [][calm /\ step \in {"pull", "backed up"} /\ edits' = edits =>
         \A p \in Paths :
            /\ local'[p] # local[p] =>
                 \/ local[p] = {} /\ p \in shown.WouldDownload \cup shown.WouldMerge
                 \/ local'[p] = {} /\ p \in shown.WouldRemove
                 \/ local[p] \subseteq local'[p] /\ p \in shown.WouldMerge
                 \/ local'[p] = remote[p] /\ p \in shown.WouldOverwrite
            /\ p \in sidecars' \ sidecars => p \in shown.WouldConflict]_vars

\* After "Already up to date", as long as nothing changes, a pull has nothing to
\* do: the early return skips no work ("Merges count: a first pull whose only
\* work is unioning ... must still run").
UpToDateIsTrue ==
    upToDate /\ calm /\ Populated => \A p \in Paths : Task(p) = "none"

\* With "back up" chosen, the backup has every file the pull replaces, also one
\* that the preview did not list because another device has pushed it since;
\* only what is edited after the backup is not in it.
BackupHolds ==
    [][step = "backed up" /\ edits' = edits =>
         \A p \in Paths \ since : local'[p] # local[p] => backup[p] = local[p]]_vars
=============================================================================
