---------------------------- MODULE FirstPullProofs ----------------------------
(* What a preview and a backup are worth, for any files and any number of edits. *)
EXTENDS FirstPull, TLAPS

LEMMA InitType == Init => TypeOK
<1>1. Nothing \in Preview
  BY DEF Nothing, Preview
<1>2. {} \in Content /\ 0 \in 0..MaxEdits
  BY PullAssumption DEF Content
<1> QED
  BY <1>1, <1>2 DEF Init, TypeOK

LEMMA PreviewType == PreviewPull \in Preview
  BY DEF PreviewPull, Preview, WouldDownload, WouldOverwrite, WouldConflict, WouldMerge,
         WouldRemove, WouldKeepLocal, Vanished, There, Here, Tracked, remoteChanged, LocallyChanged

LEMMA StepType == TypeOK /\ [Next]_vars => TypeOK'
<1> SUFFICES ASSUME TypeOK, [Next]_vars PROVE TypeOK'
  OBVIOUS
<1> USE PullAssumption DEF TypeOK, data
<1>1. ASSUME NEW flag \in BOOLEAN, handleFirstPullWithExistingFiles(flag) PROVE TypeOK'
  BY <1>1, PreviewType DEF handleFirstPullWithExistingFiles, Show
<1>2. ASSUME NEW flag \in BOOLEAN, StartPull(flag) PROVE TypeOK'
  BY <1>2 DEF StartPull
<1>3. CASE showPullPreview
  BY <1>3, PreviewType DEF showPullPreview, Show
<1>4. CASE Answer
  BY <1>4 DEF Answer, BackedUp
<1>5. CASE Pull
  <2>1. CASE UNCHANGED data
    BY <1>5, <2>1 DEF Pull
  <2>2. CASE Populated
    <3> DEFINE Does(failing, task) == {p \in Paths \ failing : Task(p) = task}
    <3>1. PICK failing \in SUBSET Paths :
            /\ local' = [p \in Paths |->
                           IF p \in Does(failing, "download") THEN remote[p]
                           ELSE IF p \in Does(failing, "merge") THEN local[p] \cup remote[p]
                           ELSE IF p \in Does(failing, "remove") THEN {} ELSE local[p]]
            /\ synced' = [p \in Paths |->
                            IF p \in Does(failing, "download") \cup Does(failing, "merge")
                            THEN remote[p]
                            ELSE IF p \in Does(failing, "remove") THEN NoEntry ELSE synced[p]]
            /\ sidecars' = sidecars \cup Does(failing, "conflict")
            /\ UNCHANGED <<remote, manifest>>
      BY <1>5, <2>2 DEF Pull
    <3>0. Does(failing, "conflict") \subseteq Paths
      OBVIOUS
    <3> HIDE DEF Does
    <3>2. local' \in [Paths -> Content]
      BY <3>1 DEF Content
    <3>3. synced' \in [Paths -> Content]
      BY <3>1 DEF Content, NoEntry
    <3> QED
      BY <1>5, <3>0, <3>1, <3>2, <3>3 DEF Pull
  <2> QED
    BY <1>5, <2>1, <2>2 DEF Pull
<1>6. CASE Push
  BY <1>6 DEF Push
<1>7. ASSUME NEW p \in Paths, Edit(p) \/ EditElsewhere(p) PROVE TypeOK'
  <2>1. edits' \in 0..MaxEdits /\ edits + 1 \in 1..MaxEdits
    <3>1. edits < MaxEdits /\ edits' = edits + 1
      BY <1>7 DEF Edit, EditElsewhere
    <3>2. edits \in 0..MaxEdits /\ MaxEdits \in Nat
      OBVIOUS
    <3> HIDE DEF TypeOK
    <3> QED
      BY <3>1, <3>2
  <2>2. Edited(local[p], p) \subseteq Content /\ Edited(remote[p], p) \subseteq Content
    BY <2>1 DEF Edited, Content
  <2> QED
    BY <1>7, <2>1, <2>2 DEF Edit, EditElsewhere
<1>8. CASE UNCHANGED vars
  BY <1>8 DEF vars
<1> QED
  BY <1>1, <1>2, <1>3, <1>4, <1>5, <1>6, <1>7, <1>8 DEF Next

\* Every variable keeps its type.
THEOREM TypeCorrect == Spec => []TypeOK
  BY InitType, StepType, PTL DEF Spec

-----------------------------------------------------------------------------
\* As long as nothing changes, the preview is what PreviewPull would say now, and
\* what was called up to date is.
ShownInv ==
    calm => /\ shown = PreviewPull
            /\ upToDate => Affected(PreviewPull) = {} /\ WouldRemove = {}

\* The preview depends on these only.
LEMMA PreviewOfData ==
  ASSUME UNCHANGED <<data, noDelete>>
  PROVE  PreviewPull' = PreviewPull /\ WouldRemove' = WouldRemove
  BY DEF data, PreviewPull, WouldDownload, WouldOverwrite, WouldConflict, WouldMerge,
         WouldRemove, WouldKeepLocal, Vanished, There, Here, Tracked, remoteChanged,
         LocallyChanged, Populated

LEMMA StepShown == ShownInv /\ [Next]_vars => ShownInv'
<1> SUFFICES ASSUME ShownInv, [Next]_vars PROVE ShownInv'
  OBVIOUS
<1>1. ASSUME NEW flag \in BOOLEAN, handleFirstPullWithExistingFiles(flag) PROVE ShownInv'
  <2>1. WouldRemove = {}
    BY <1>1 DEF handleFirstPullWithExistingFiles, HasState, WouldRemove, Vanished
  <2> QED
    BY <1>1, <2>1, PreviewOfData DEF handleFirstPullWithExistingFiles, Show, ShownInv, Affected
<1>2. CASE showPullPreview
  BY <1>2, PreviewOfData DEF showPullPreview, Show, ShownInv, Affected
<1>3. CASE UNCHANGED <<data, noDelete, shown, upToDate, calm>>
  BY <1>3, PreviewOfData DEF ShownInv, Affected
<1>4. CASE ~calm'
  BY <1>4 DEF ShownInv
<1> QED
  BY <1>1, <1>2, <1>3, <1>4
  DEF Next, StartPull, Answer, Pull, Push, Edit, EditElsewhere, vars

\* The decisions of Pull are those the preview lists.
LEMMA TaskInPreview ==
  ASSUME NEW p \in Paths
  PROVE  /\ Task(p) = "download" => p \in WouldDownload \cup WouldOverwrite
         /\ Task(p) = "download" /\ p \notin Here => p \in WouldDownload
         /\ Task(p) = "merge" => p \in WouldMerge
         /\ Task(p) = "conflict" => p \in WouldConflict
         /\ Task(p) = "remove" /\ Populated => p \in WouldRemove
         /\ Task(p) \in {"none", "download", "merge", "conflict", "remove"}
  BY DEF Task, WouldDownload, WouldOverwrite, WouldConflict, WouldMerge, WouldRemove, Vanished,
         There, Here, Tracked, remoteChanged, LocallyChanged

LEMMA EditsGrow == \A n \in 0..MaxEdits : n + 1 # n
  BY PullAssumption

\* A pull does only what an undisturbed preview listed (PreviewPull, Pull).
THEOREM PreviewHolds == Spec => PreviewIsPull
<1> DEFINE Step == calm /\ step \in {"pull", "backed up"} /\ edits' = edits =>
      \A p \in Paths :
         /\ local'[p] # local[p] =>
              \/ local[p] = {} /\ p \in shown.WouldDownload \cup shown.WouldMerge
              \/ local'[p] = {} /\ p \in shown.WouldRemove
              \/ local[p] \subseteq local'[p] /\ p \in shown.WouldMerge
              \/ local'[p] = remote[p] /\ p \in shown.WouldOverwrite
         /\ p \in sidecars' \ sidecars => p \in shown.WouldConflict
<1>1. Init => ShownInv
  BY DEF Init, ShownInv
<1>2. TypeOK /\ ShownInv /\ [Next]_vars => [Step]_vars
  <2> SUFFICES ASSUME TypeOK, ShownInv, Next, calm, step \in {"pull", "backed up"}, edits' = edits,
                      NEW p \in Paths
               PROVE  /\ local'[p] # local[p] =>
                           \/ local[p] = {} /\ p \in shown.WouldDownload \cup shown.WouldMerge
                           \/ local'[p] = {} /\ p \in shown.WouldRemove
                           \/ local[p] \subseteq local'[p] /\ p \in shown.WouldMerge
                           \/ local'[p] = remote[p] /\ p \in shown.WouldOverwrite
                      /\ p \in sidecars' \ sidecars => p \in shown.WouldConflict
    OBVIOUS
  <2>1. shown = PreviewPull
    BY DEF ShownInv
  <2>2. /\ shown.WouldDownload = WouldDownload /\ shown.WouldOverwrite = WouldOverwrite
        /\ shown.WouldMerge = WouldMerge /\ shown.WouldRemove = WouldRemove
        /\ shown.WouldConflict = WouldConflict
    BY <2>1 DEF PreviewPull
  <2>3. CASE UNCHANGED <<local, sidecars>>
    BY <2>3
  <2>4. CASE Pull /\ Populated
    <3> DEFINE Does(failing, task) == {q \in Paths \ failing : Task(q) = task}
    <3>1. PICK failing \in SUBSET Paths :
            /\ local' = [q \in Paths |->
                           IF q \in Does(failing, "download") THEN remote[q]
                           ELSE IF q \in Does(failing, "merge") THEN local[q] \cup remote[q]
                           ELSE IF q \in Does(failing, "remove") THEN {} ELSE local[q]]
            /\ sidecars' = sidecars \cup Does(failing, "conflict")
      BY <2>4 DEF Pull
    <3>2. local'[p] # local[p] =>
            \/ Task(p) = "download" /\ local'[p] = remote[p]
            \/ Task(p) = "merge" /\ local[p] \subseteq local'[p]
            \/ Task(p) = "remove" /\ local'[p] = {}
      BY <3>1
    <3>3. p \in sidecars' \ sidecars => Task(p) = "conflict"
      BY <3>1
    <3>4. /\ p \notin Here => local[p] = {}
          /\ p \in Here => p \notin WouldDownload
      BY DEF Here, WouldDownload
    <3>5. CASE Task(p) = "download" /\ local'[p] = remote[p]
      BY <2>2, <3>3, <3>4, <3>5, TaskInPreview
    <3>6. CASE Task(p) = "merge" /\ local[p] \subseteq local'[p]
      BY <2>2, <3>3, <3>6, TaskInPreview
    <3>7. CASE Task(p) = "remove" /\ local'[p] = {}
      BY <2>2, <2>4, <3>3, <3>7, TaskInPreview
    <3>8. CASE local'[p] = local[p]
      BY <2>2, <3>3, <3>8, TaskInPreview
    <3> QED
      BY <3>2, <3>5, <3>6, <3>7, <3>8
  <2>5. CASE \E q \in Paths : Edit(q) \/ EditElsewhere(q)
    BY <2>5, EditsGrow DEF Edit, EditElsewhere, TypeOK
  <2>6. CASE Pull /\ ~Populated
    BY <2>3, <2>6 DEF Pull, data
  <2> QED
    BY <2>3, <2>4, <2>5, <2>6
    DEF Next, handleFirstPullWithExistingFiles, showPullPreview, StartPull, Answer, Push, data
<1> QED
  BY <1>1, <1>2, InitType, StepType, StepShown, PTL DEF Spec, PreviewIsPull

\* A pull that was told it is up to date has nothing to do
\* (handleFirstPullWithExistingFiles, showPullPreview).
THEOREM UpToDateHolds == Spec => []UpToDateIsTrue
<1>1. Init => ShownInv
  BY DEF Init, ShownInv
<1>2. ShownInv => UpToDateIsTrue
  <2>1. Affected(PreviewPull) = WouldDownload \cup WouldOverwrite \cup WouldConflict \cup WouldMerge
    BY DEF Affected, PreviewPull
  <2> QED
    BY <2>1, TaskInPreview DEF ShownInv, UpToDateIsTrue
<1> QED
  BY <1>1, <1>2, StepShown, PTL DEF Spec

-----------------------------------------------------------------------------
\* Until the pull, the backup has every file that was not edited since.
BackupInv == step = "backed up" => \A p \in Paths \ since : backup[p] = local[p]

\* What a pull replaces after a backup is in the backup (createBackup).
THEOREM BackupIsKept == Spec => BackupHolds
<1>1. Init => BackupInv
  BY DEF Init, BackupInv
<1>2. TypeOK /\ BackupInv /\ [Next]_vars => BackupInv'
  BY DEF TypeOK, BackupInv, Next, handleFirstPullWithExistingFiles, Show, showPullPreview, StartPull,
     Answer, BackedUp, Pull, Push, Edit, EditElsewhere, data, vars
<1>3. BackupInv => [step = "backed up" /\ edits' = edits =>
                      \A p \in Paths \ since : local'[p] # local[p] => backup[p] = local[p]]_vars
  BY DEF BackupInv
<1> QED
  BY <1>1, <1>2, <1>3, InitType, StepType, PTL DEF Spec, BackupHolds
=============================================================================
