---------------------------- MODULE CodexSyncProofs ----------------------------
(***************************************************************************)
(* Theorems about CodexSync, for any number of devices and paths: type     *)
(* correctness and which tasks a device has in which phase of its command; *)
(* what push --force and a restore may do to the bucket; what state.json,  *)
(* a pull and a merge may do to local work while nobody edits files under  *)
(* a running command; what diff calls synced; and that no work is lost at  *)
(* all, if the tool is used with discipline.                               *)
(***************************************************************************)
EXTENDS CodexSync, SequenceTheorems, TLAPS

\* What removing or adding a sidecar leaves is a sequence of contents.
LEMMA RemoveAtType ==
    ASSUME NEW S, NEW s \in Seq(S), NEW i \in 1..Len(s)
    PROVE  RemoveAt(s, i) \in Seq(S)
  BY DEF RemoveAt

LEMMA NumberType == 0 \in Time /\ {} \in Content
  BY SyncAssumption DEF SyncAssumption, Time, Content

LEMMA BoundType == MaxEdits \in Nat /\ MaxClock \in Nat
  BY SyncAssumption DEF SyncAssumption

\* Contents are closed under what the actions do with them.
LEMMA ContentType ==
    ASSUME NEW A \in Content, NEW B \in Content
    PROVE  A \cup B \in Content /\ A \ B \in Content
  BY DEF Content

LEMMA ConstantType ==
    NoFile \in File /\ Untracked \in Entry /\ Gone \in Object /\ NoMerge \in Merge
  BY NumberType DEF File, Entry, Object, Merge, NoFile, Untracked, Gone, NoMerge

LEMMA InitType == Init => TypeOK
<1> SUFFICES ASSUME Init PROVE TypeOK
  OBVIOUS
<1>1. <<>> \in Seq(Content)
  OBVIOUS
<1>2. edits \in 0..MaxEdits
  BY SyncAssumption DEF SyncAssumption, Init
<1> QED
  BY <1>1, <1>2, NumberType, ConstantType DEF Init, TypeOK, Commands, Tasks

\* Recording a resolution keeps the state file well formed.
LEMMA ResolvedType ==
    ASSUME TypeOK, NEW d \in Devices, NEW p \in Paths, NEW hash \in Content,
           Resolved(d, p, hash) \/ UNCHANGED <<mem, saved>>
    PROVE  mem' \in [Devices -> [Paths -> Entry]] /\ saved' \in [Devices -> [Paths -> Entry]]
<1>1. [hash |-> hash, ver |-> mem[d][p].ver, time |-> clock] \in Entry
  BY DEF TypeOK, Entry
<1>2. mem \in [Devices -> [Paths -> Entry]] /\ saved \in [Devices -> [Paths -> Entry]]
  BY DEF TypeOK
<1>3. mem' \in [Devices -> [Paths -> Entry]]
  BY <1>1, <1>2 DEF Resolved
<1> QED
  BY <1>2, <1>3 DEF Resolved

\* A step of one file leaves every device with a task for each path.
LEMMA TaskType ==
    ASSUME TypeOK, NEW d \in Devices, NEW p \in Paths, NEW t \in Tasks,
           Becomes(d, p, t) \/ Done(d, p)
    PROVE  task' \in [Devices -> [Paths -> Tasks]]
<1>1. task \in [Devices -> [Paths -> Tasks]] /\ "none" \in Tasks
  BY DEF TypeOK, Tasks
<1>2. CASE Becomes(d, p, t)
  BY <1>1, <1>2 DEF Becomes
<1>3. CASE Done(d, p)
  BY <1>1, <1>3 DEF Done
<1> QED
  BY <1>2, <1>3

\* So does a step that records something for one file, or nothing.
LEMMA MemType ==
    ASSUME TypeOK, NEW d \in Devices, NEW p \in Paths, NEW e \in Entry,
           mem' = [mem EXCEPT ![d][p] = e] \/ UNCHANGED mem
    PROVE  mem' \in [Devices -> [Paths -> Entry]]
<1>1. mem \in [Devices -> [Paths -> Entry]]
  BY DEF TypeOK
<1> QED
  BY <1>1

\* What a restore is to put back is an object.
LEMMA CopyInType ==
    ASSUME TypeOK, NEW batch \in SUBSET bin, NEW p
    PROVE  CopyIn(batch, p) \in Object
<1>1. CASE \E b \in batch : b.path = p
  <2>1. PICK b \in batch : CopyIn(batch, p) = [data |-> b.data, ver |-> b.ver, time |-> 0]
    BY <1>1 DEF CopyIn
  <2> QED
    BY <2>1, NumberType DEF TypeOK, Copy, Object
<1> QED
  BY <1>1, ConstantType DEF CopyIn

\* Starting a restore gives tasks for copies under whose keys nothing is live.
LEMMA RestorePlan ==
    ASSUME TypeOK, NEW d \in Devices, RestoreStart(d)
    PROVE  /\ \A e \in Devices \ {d} : task'[e] = task[e] /\ seen'[e] = seen[e]
           /\ \A p \in Paths :
                /\ task'[d][p] = IF Exists(seen'[d][p]) THEN "restore" ELSE "none"
                /\ \/ seen'[d][p] = Gone
                   \/ \E b \in bin : /\ b.path = p /\ Restorable(b)
                                     /\ seen'[d][p] = [data |-> b.data, ver |-> b.ver, time |-> 0]
<1>1. PICK batch \in SUBSET {b \in bin : Restorable(b)} :
         seen' = [seen EXCEPT ![d] = [p \in Paths |-> CopyIn(batch, p)]]
  BY DEF RestoreStart
<1>2. \A p \in Paths : seen'[d][p] = CopyIn(batch, p)
  BY <1>1 DEF TypeOK
<1>3. \A p \in Paths : task'[d][p] = IF Exists(seen'[d][p]) THEN "restore" ELSE "none"
  BY DEF RestoreStart, TypeOK
<1>4. \A e \in Devices \ {d} : task'[e] = task[e] /\ seen'[e] = seen[e]
  <2>1. \A e \in Devices \ {d} : task'[e] = task[e]
    BY DEF RestoreStart, TypeOK
  <2> QED
    BY <1>1, <2>1 DEF TypeOK
<1>5. ASSUME NEW p \in Paths
      PROVE  \/ seen'[d][p] = Gone
             \/ \E b \in bin : /\ b.path = p /\ Restorable(b)
                               /\ seen'[d][p] = [data |-> b.data, ver |-> b.ver, time |-> 0]
  BY <1>2 DEF CopyIn
<1> QED
  BY <1>3, <1>4, <1>5

LEMMA StepType == TypeOK /\ [Next]_vars => TypeOK'
<1> SUFFICES ASSUME TypeOK, [Next]_vars PROVE TypeOK'
  OBVIOUS
<1>a. mem \in [Devices -> [Paths -> Entry]] /\ task \in [Devices -> [Paths -> Tasks]]
  BY DEF TypeOK
<1>b. discarded \in Content /\ trashed \in Content
      /\ \A d \in Devices, p \in Paths : disk[d][p].data \in Content
  BY DEF TypeOK, File
<1> USE NumberType, ConstantType DEF device, command, store, history, Commands, Tasks
<1>1. ASSUME NEW d \in Devices, NEW p \in Paths, Edit(d, p) PROVE TypeOK'
  <2>1. edits + 1 \in 1..MaxEdits
    BY <1>1, BoundType DEF Edit, TypeOK
  <2>2. disk[d][p].data \cup {edits + 1} \in Content
    BY <2>1 DEF File, Content, TypeOK
  <2>3. [data |-> disk[d][p].data \cup {edits + 1}, mtime |-> clock] \in File
    BY <2>2 DEF File, TypeOK
  <2> QED
    BY <1>1, <2>1, <2>3 DEF Edit, TypeOK
<1>2. ASSUME NEW d \in Devices, NEW p \in Paths, Delete(d, p) PROVE TypeOK'
  <2>1. edits + 1 \in 1..MaxEdits
    BY <1>2, BoundType DEF Delete, TypeOK
  <2>2. disk[d][p].data \in Content /\ {edits + 1} \in Content
    BY <2>1 DEF File, Content, TypeOK
  <2>3. discarded \cup disk[d][p].data \cup {edits + 1} \in Content
    BY <2>2, ContentType DEF TypeOK
  <2> QED
    BY <1>2, <2>1, <2>3 DEF Delete, TypeOK
<1>3. ASSUME NEW d \in Devices, PushStart(d) PROVE TypeOK'
  BY <1>3 DEF PushStart, PushTask, TypeOK
<1>4. ASSUME NEW d \in Devices, NEW p \in Paths, PushSend(d, p) PROVE TypeOK'
  <2> DEFINE object == Stamped(disk[d][p].data, clock + 1)
  <2>1. clock + 1 \in Time /\ disk[d][p].data \in Content
    BY <1>4, BoundType DEF PushSend, Time, File, TypeOK
  <2>2. object \in Object /\ object.data \in Content
    BY <2>1 DEF Stamped, Object, TypeOK
  <2>3. published \cup object.data \in Content
    BY <2>2, ContentType DEF TypeOK
  <2> HIDE DEF object
  <2>4. task' \in [Devices -> [Paths -> Tasks]]
    BY <1>4, TaskType DEF PushSend
  <2> QED
    BY <1>4, <2>1, <2>2, <2>3, <2>4 DEF PushSend, object, TypeOK
<1>5. ASSUME NEW d \in Devices, NEW p \in Paths, PushSendFails(d, p) PROVE TypeOK'
  BY <1>5 DEF PushSendFails, Done, TypeOK
<1>6. ASSUME NEW d \in Devices, NEW p \in Paths, PushRecord(d, p) PROVE TypeOK'
  <2>1. \A ver \in {remote[p].ver} \cup OutcomeOf("HeadFails", 0) :
           [hash |-> seen[d][p].data, ver |-> ver, time |-> clock] \in Entry
    BY DEF Entry, Object, OutcomeOf, TypeOK
  <2>2. mem' \in [Devices -> [Paths -> Entry]]
    BY <1>6, <2>1, MemType DEF PushRecord
  <2> QED
    BY <1>6, <2>2 DEF PushRecord, Done, TypeOK
<1>7. ASSUME NEW d \in Devices, PushList(d) PROVE TypeOK'
  <2>1. seen' \in [Devices -> [Paths -> Object]]
    BY <1>7 DEF PushList, TypeOK
  <2>2. task' \in [Devices -> [Paths -> Tasks]]
    BY <1>7, <1>a DEF PushList
  <2> QED
    BY <1>7, <2>1, <2>2 DEF PushList, TypeOK
<1>8. ASSUME NEW d \in Devices, NEW p \in Paths, DeleteCheck(d, p) PROVE TypeOK'
  <2>1. CASE ~Exists(seen[d][p])
    <3>1. mem' \in [Devices -> [Paths -> Entry]]
      BY <1>8, <2>1, MemType DEF DeleteCheck
    <3>2. task' \in [Devices -> [Paths -> Tasks]]
      BY <1>8, <2>1, TaskType DEF DeleteCheck
    <3> QED
      BY <1>8, <2>1, <3>1, <3>2 DEF DeleteCheck, TypeOK
  <2>2. CASE Exists(seen[d][p])
    <3> DEFINE Found == IF Exists(remote[p])
                        THEN {remote[p]} \cup OutcomeOf("HeadFails", seen[d][p])
                        ELSE {seen[d][p]}
    <3>0. Found \subseteq Object
      BY DEF OutcomeOf, TypeOK
    <3> HIDE DEF Found
    <3>1. PICK obj \in Object : /\ seen' = [seen EXCEPT ![d][p] = obj]
                               /\ Becomes(d, p, IF Replaced(d, p, obj) THEN "none" ELSE "copy")
      BY <1>8, <2>2, <3>0 DEF DeleteCheck, Found
    <3>2. seen' \in [Devices -> [Paths -> Object]] /\ task' \in [Devices -> [Paths -> Tasks]]
      BY <3>1 DEF Becomes, TypeOK
    <3> QED
      BY <1>8, <2>2, <3>2 DEF DeleteCheck, TypeOK
  <2> QED
    BY <2>1, <2>2 DEF TypeOK
<1>9. ASSUME NEW d \in Devices, NEW p \in Paths, DeleteCopy(d, p) PROVE TypeOK'
  <2>1. [path |-> p, data |-> remote[p].data, ver |-> remote[p].ver] \in Copy
    BY DEF Copy, Object, TypeOK
  <2>2. bin' \subseteq Copy
    BY <1>9, <2>1 DEF DeleteCopy, TypeOK
  <2>3. task' \in [Devices -> [Paths -> Tasks]]
    BY <1>9, TaskType DEF DeleteCopy
  <2> QED
    BY <1>9, <2>2, <2>3 DEF DeleteCopy, TypeOK
<1>10. ASSUME NEW d \in Devices, NEW p \in Paths, DeleteObject(d, p) PROVE TypeOK'
  <2>1. remote' \in [Paths -> Object]
    BY <1>10 DEF DeleteObject, TypeOK
  <2>2. mem' \in [Devices -> [Paths -> Entry]]
    BY <1>10, MemType DEF DeleteObject
  <2> QED
    BY <1>10, <2>1, <2>2 DEF DeleteObject, Done, TypeOK
<1>11. ASSUME NEW d \in Devices, NEW p \in Paths, DeleteFails(d, p) PROVE TypeOK'
  BY <1>11 DEF DeleteFails, Done, TypeOK
<1>12. ASSUME NEW d \in Devices, PushFinish(d) PROVE TypeOK'
  BY <1>12 DEF PushFinish, Reset, TypeOK
<1>13. ASSUME NEW d \in Devices, PullEmpty(d) PROVE TypeOK'
  BY <1>13 DEF PullEmpty, TypeOK
<1>14. ASSUME NEW d \in Devices, PullStart(d) PROVE TypeOK'
  BY <1>14 DEF PullStart, PullTask, TypeOK
<1>15. ASSUME NEW d \in Devices, NEW p \in Paths, PullConflict(d, p) PROVE TypeOK'
  BY <1>15 DEF PullConflict, Done, Object, TypeOK
<1>16. ASSUME NEW d \in Devices, NEW p \in Paths, PullWrite(d, p) PROVE TypeOK'
  BY <1>16 DEF PullWrite, Becomes, File, Object, TypeOK
<1>17. ASSUME NEW d \in Devices, NEW p \in Paths, PullRecord(d, p) PROVE TypeOK'
  BY <1>17 DEF PullRecord, Done, Entry, File, Object, TypeOK
<1>18. ASSUME NEW d \in Devices, NEW p \in Paths, PullPanics(d, p) PROVE TypeOK'
  BY <1>18 DEF PullPanics, Reset, TypeOK
<1>19. ASSUME NEW d \in Devices, NEW p \in Paths, PullStepFails(d, p) PROVE TypeOK'
  BY <1>19 DEF PullStepFails, Done, TypeOK
<1>31. ASSUME NEW d \in Devices, NEW p \in Paths, PullMerge(d, p) PROVE TypeOK'
  <2>1. disk[d][p].data \in Content /\ remote[p].data \in Content
    BY DEF TypeOK, File, Object
  <2> DEFINE mine == IF task[d][p] = "merge" THEN disk[d][p].data ELSE {}
  <2>2. mine \in Content
    BY <2>1
  <2>3. Merged(mine, remote[p].data) \in Merge
    BY <2>1, <2>2, ContentType DEF Merged, MergeJSONL, Merge
  <2>4. union' = [union EXCEPT ![d][p] = Merged(mine, remote[p].data)]
    BY <1>31 DEF PullMerge
  <2> HIDE DEF mine
  <2>5. union' \in [Devices -> [Paths -> Merge]]
    BY <2>3, <2>4 DEF TypeOK
  <2>6. task' \in [Devices -> [Paths -> Tasks]]
    BY <1>31, TaskType DEF PullMerge
  <2> QED
    BY <1>31, <2>5, <2>6 DEF PullMerge, TypeOK
<1>32. ASSUME NEW d \in Devices, NEW p \in Paths, PullUnion(d, p) PROVE TypeOK'
  <2>1. union[d][p] \in Merge /\ seen[d][p] \in Object
    BY DEF TypeOK
  <2>2. [hash |-> union[d][p].hash, ver |-> seen[d][p].ver, time |-> seen[d][p].time] \in Entry
    BY <2>1 DEF Merge, Object, Entry
  <2>3. mem' \in [Devices -> [Paths -> Entry]]
    BY <1>32, <2>2, MemType DEF PullUnion
  <2>4. [data |-> union[d][p].data, mtime |-> clock] \in File
    BY <2>1 DEF Merge, File, TypeOK
  <2>5. disk' \in [Devices -> [Paths -> File]]
    BY <1>32, <2>4 DEF PullUnion, TypeOK
  <2>6. union' \in [Devices -> [Paths -> Merge]]
    BY <1>32 DEF PullUnion, TypeOK
  <2> QED
    BY <1>32, <2>3, <2>5, <2>6 DEF PullUnion, Done, TypeOK
<1>20. ASSUME NEW d \in Devices, PullScan(d) PROVE TypeOK'
  BY <1>20 DEF PullScan, TypeOK
<1>21. ASSUME NEW d \in Devices, NEW p \in Paths, PullTrash(d, p) PROVE TypeOK'
  <2>1. trashed' \in Content
    BY <1>21, ContentType, <1>b DEF PullTrash, File, TypeOK
  <2> QED
    BY <1>21, <2>1 DEF PullTrash, Done, TypeOK
<1>22. ASSUME NEW d \in Devices, PullFinish(d) PROVE TypeOK'
  BY <1>22 DEF PullFinish, Reset, TypeOK
<1>23. ASSUME NEW d \in Devices, RestoreStart(d) PROVE TypeOK'
  <2>1. PICK batch \in SUBSET bin : seen' = [seen EXCEPT ![d] = [p \in Paths |-> CopyIn(batch, p)]]
    BY <1>23 DEF RestoreStart
  <2>2. seen' \in [Devices -> [Paths -> Object]]
    BY <2>1, CopyInType DEF TypeOK
  <2>3. task' \in [Devices -> [Paths -> Tasks]]
    BY <1>23, <1>a DEF RestoreStart
  <2> QED
    BY <1>23, <2>2, <2>3 DEF RestoreStart, TypeOK
<1>24. ASSUME NEW d \in Devices, NEW p \in Paths, RestoreCopy(d, p) PROVE TypeOK'
  <2>1. clock + 1 \in Time
    BY <1>24, BoundType DEF RestoreCopy, Time, TypeOK
  <2>2. \A ver \in {Stamped({}, clock + 1).ver} \cup OutcomeOf("SameETag", seen[d][p].ver) :
           [data |-> seen[d][p].data, ver |-> ver, time |-> clock + 1] \in Object
    BY <2>1 DEF Object, Stamped, OutcomeOf, TypeOK
  <2>3. remote' \in [Paths -> Object]
    BY <1>24, <2>2 DEF RestoreCopy, TypeOK
  <2> QED
    BY <1>24, <2>1, <2>3 DEF RestoreCopy, Done, TypeOK
<1>25. ASSUME NEW d \in Devices, Crash(d) PROVE TypeOK'
  BY <1>25 DEF Crash, Reset, TypeOK
<1>26. ASSUME NEW d \in Devices, NEW p \in Paths, NEW i \in 1..Len(sidecars[d][p]), KeepLocal(d, p, i) PROVE TypeOK'
  <2>1. sidecars[d][p] \in Seq(Content) /\ sidecars[d][p][i] \in Content
    BY DEF TypeOK
  <2>2. sidecars' \in [Devices -> [Paths -> Seq(Content)]]
    BY <1>26, <2>1, RemoveAtType DEF KeepLocal, TypeOK
  <2>3. discarded' \in Content
    BY <1>26, <2>1, ContentType, <1>b DEF KeepLocal, File, TypeOK
  <2>4. mem' \in [Devices -> [Paths -> Entry]] /\ saved' \in [Devices -> [Paths -> Entry]]
    BY <1>26, <2>1, ResolvedType DEF KeepLocal, TypeOK
  <2> QED
    BY <1>26, <2>2, <2>3, <2>4 DEF KeepLocal, TypeOK
<1>27. ASSUME NEW d \in Devices, NEW p \in Paths, NEW i \in 1..Len(sidecars[d][p]), KeepRemote(d, p, i) PROVE TypeOK'
  <2>1. sidecars[d][p] \in Seq(Content) /\ sidecars[d][p][i] \in Content
    BY DEF TypeOK
  <2>2. sidecars' \in [Devices -> [Paths -> Seq(Content)]]
    BY <1>27, <2>1, RemoveAtType DEF KeepRemote, TypeOK
  <2>3. discarded' \in Content
    BY <1>27, <2>1, ContentType, <1>b DEF KeepRemote, File, TypeOK
  <2>4. mem' \in [Devices -> [Paths -> Entry]] /\ saved' \in [Devices -> [Paths -> Entry]]
    BY <1>27, <2>1, ResolvedType DEF KeepRemote, TypeOK
  <2>5. disk' \in [Devices -> [Paths -> File]]
    BY <1>27, <2>1 DEF KeepRemote, File, TypeOK
  <2> QED
    BY <1>27, <2>2, <2>3, <2>4, <2>5 DEF KeepRemote, TypeOK
<1>28. CASE UNCHANGED vars
  BY <1>28 DEF vars, TypeOK
<1>29. ASSUME NEW d \in Devices, NEW p \in Paths, RestoreFails(d, p) PROVE TypeOK'
  BY <1>29 DEF RestoreFails, Done, TypeOK
<1>30. ASSUME NEW d \in Devices, RestoreFinish(d) PROVE TypeOK'
  BY <1>30 DEF RestoreFinish, Reset, TypeOK
<1> QED
  BY <1>1, <1>2, <1>3, <1>4, <1>5, <1>6, <1>7, <1>8, <1>9, <1>10, <1>11, <1>12, <1>13, <1>14, <1>15,
     <1>16, <1>17, <1>18, <1>19, <1>20, <1>21, <1>22, <1>23, <1>24, <1>25, <1>26, <1>27, <1>28,
     <1>29, <1>30, <1>31, <1>32
  DEF Next, User, Push, Pull, Resolve, Restore

\* Every variable of CodexSync has its type in every reachable state, whatever
\* the devices, the paths, the discipline and the bounds.
THEOREM TypeCorrect == Spec => []TypeOK
<1>1. Init => TypeOK
  BY InitType
<1>2. TypeOK /\ [Next]_vars => TypeOK'
  BY StepType
<1> QED
  BY <1>1, <1>2, PTL DEF Spec

-----------------------------------------------------------------------------
(* A device has only tasks of the command, and of the phase, it is in. *)

TasksOf(c) ==
    CASE c = "push" -> {"none", "upload", "head", "check"}
      [] c = "delete" -> {"none", "check", "copy", "erase"}
      [] c = "pull" -> {"none", "download", "rehash", "conflict", "merge", "adopt", "write", "stale"}
      [] c = "remove" -> {"none", "trash"}
      [] c = "restore" -> {"none", "restore"}
      [] OTHER -> {"none"}

PhaseInv == \A d \in Devices, p \in Paths : task[d][p] \in TasksOf(cmd[d])

\* A step that changes the command and the tasks of one device only, and gives
\* it tasks of its command.
LEMMA OwnTasks ==
    ASSUME PhaseInv, NEW d \in Devices,
           \A e \in Devices \ {d} : cmd'[e] = cmd[e] /\ task'[e] = task[e],
           \A p \in Paths : task'[d][p] \in TasksOf(cmd'[d])
    PROVE  PhaseInv'
  BY DEF PhaseInv

LEMMA NoTask == \A c : "none" \in TasksOf(c)
  BY DEF TasksOf

LEMMA DonePhase ==
    ASSUME TypeOK, PhaseInv, NEW d \in Devices, NEW p \in Paths, Done(d, p), cmd' = cmd
    PROVE  PhaseInv'
  BY NoTask DEF Done, TypeOK, PhaseInv

LEMMA BecomesPhase ==
    ASSUME TypeOK, PhaseInv, NEW d \in Devices, NEW p \in Paths,
           NEW t \in TasksOf(cmd[d]), Becomes(d, p, t), cmd' = cmd
    PROVE  PhaseInv'
  BY DEF Becomes, TypeOK, PhaseInv

LEMMA ResetPhase ==
    ASSUME TypeOK, PhaseInv, NEW d \in Devices, Reset(d)
    PROVE  PhaseInv'
  BY NoTask DEF Reset, TypeOK, PhaseInv

\* A step that starts a phase of the command and gives out its tasks.
LEMMA StartPhase ==
    ASSUME TypeOK, PhaseInv, NEW d \in Devices, NEW c, NEW f \in [Paths -> TasksOf(c)],
           cmd' = [cmd EXCEPT ![d] = c], task' = [task EXCEPT ![d] = f]
    PROVE  PhaseInv'
  BY DEF TypeOK, PhaseInv

LEMMA InitPhase == Init => PhaseInv
  BY NoTask DEF Init, PhaseInv

LEMMA StepPhase == TypeOK /\ PhaseInv /\ [Next]_vars => PhaseInv'
<1> SUFFICES ASSUME TypeOK, PhaseInv, [Next]_vars PROVE PhaseInv'
  OBVIOUS
<1> USE NoTask DEF device, command, store, history
<1>1. CASE UNCHANGED <<cmd, task>>
  BY <1>1 DEF PhaseInv
<1>2. ASSUME NEW d \in Devices, PushStart(d) PROVE PhaseInv'
  <2>1. PICK force \in {FALSE} \cup {"Force" \in Events} :
          task' = [task EXCEPT ![d] = [p \in Paths |-> PushTask(d, p, force)]]
    BY <1>2 DEF PushStart
  <2>2. [p \in Paths |-> PushTask(d, p, force)] \in [Paths -> TasksOf("push")]
    BY DEF PushTask, TasksOf
  <2> QED
    BY <1>2, <2>1, <2>2, StartPhase DEF PushStart
<1>3. ASSUME NEW d \in Devices, NEW p \in Paths, PushSend(d, p) PROVE PhaseInv'
  <2>1. "head" \in TasksOf(cmd[d])
    BY <1>3 DEF PushSend, PhaseInv, TasksOf
  <2> QED
    BY <1>3, <2>1, BecomesPhase, DonePhase DEF PushSend
<1>4. ASSUME NEW d \in Devices, NEW p \in Paths,
             \/ PushSendFails(d, p) \/ PushRecord(d, p) \/ DeleteObject(d, p) \/ DeleteFails(d, p)
             \/ PullConflict(d, p) \/ PullRecord(d, p) \/ PullUnion(d, p) \/ PullStepFails(d, p)
             \/ PullTrash(d, p) \/ RestoreCopy(d, p) \/ RestoreFails(d, p)
      PROVE PhaseInv'
  <2>1. Done(d, p) /\ cmd' = cmd
    BY <1>4 DEF PushSendFails, PushRecord, DeleteObject, DeleteFails, PullConflict, PullRecord,
         PullUnion, PullStepFails, PullTrash, RestoreCopy, RestoreFails
  <2> QED
    BY <2>1, DonePhase
<1>5. ASSUME NEW d \in Devices, PushList(d) PROVE PhaseInv'
  <2>1. \A p \in Paths : task[d][p] \in {"none", "check"}
    BY <1>5 DEF PushList, PhaseInv, TasksOf, Left
  <2>2. \A p \in Paths : task'[d][p] \in {"none", "check"}
    BY <1>5, <2>1 DEF PushList, TypeOK
  <2>3. \A e \in Devices \ {d} : cmd'[e] = cmd[e] /\ task'[e] = task[e]
    BY <1>5 DEF PushList, TypeOK
  <2>4. cmd'[d] = "delete"
    BY <1>5 DEF PushList, TypeOK
  <2> QED
    BY <2>2, <2>3, <2>4, OwnTasks DEF TasksOf
<1>6. ASSUME NEW d \in Devices, NEW p \in Paths, DeleteCheck(d, p) PROVE PhaseInv'
  <2>1. cmd[d] = "delete" /\ cmd' = cmd
    BY <1>6 DEF DeleteCheck
  <2>2. Done(d, p) \/ \E t \in {"none", "copy"} : Becomes(d, p, t)
    BY <1>6 DEF DeleteCheck
  <2> QED
    BY <2>1, <2>2, DonePhase, BecomesPhase DEF TasksOf
<1>7. ASSUME NEW d \in Devices, NEW p \in Paths, DeleteCopy(d, p) PROVE PhaseInv'
  <2>1. "erase" \in TasksOf(cmd[d])
    BY <1>7 DEF DeleteCopy, PhaseInv, TasksOf
  <2> QED
    BY <1>7, <2>1, BecomesPhase, DonePhase DEF DeleteCopy
<1>8. ASSUME NEW d \in Devices, Reset(d) PROVE PhaseInv'
  BY <1>8, ResetPhase
<1>9. ASSUME NEW d \in Devices, PullStart(d) PROVE PhaseInv'
  <2>1. [p \in Paths |-> PullTask(d, p)] \in [Paths -> TasksOf("pull")]
    BY DEF PullTask, TasksOf
  <2> QED
    BY <1>9, <2>1, StartPhase DEF PullStart
<1>10. ASSUME NEW d \in Devices, NEW p \in Paths, PullWrite(d, p) PROVE PhaseInv'
  <2>1. "rehash" \in TasksOf(cmd[d])
    BY <1>10 DEF PullWrite, PhaseInv, TasksOf
  <2> QED
    BY <1>10, <2>1, BecomesPhase DEF PullWrite
<1>13. ASSUME NEW d \in Devices, NEW p \in Paths, PullMerge(d, p) PROVE PhaseInv'
  <2>1. "write" \in TasksOf(cmd[d])
    BY <1>13 DEF PullMerge, PhaseInv, TasksOf
  <2> QED
    BY <1>13, <2>1, BecomesPhase DEF PullMerge
<1>11. ASSUME NEW d \in Devices, PullScan(d) PROVE PhaseInv'
  <2>1. \A p \in Paths : task'[d][p] \in {"none", "trash"}
    BY <1>11 DEF PullScan, TypeOK
  <2>2. \A e \in Devices \ {d} : cmd'[e] = cmd[e] /\ task'[e] = task[e]
    BY <1>11 DEF PullScan, TypeOK
  <2>3. cmd'[d] = "remove"
    BY <1>11 DEF PullScan, TypeOK
  <2> QED
    BY <2>1, <2>2, <2>3, OwnTasks DEF TasksOf
<1>12. ASSUME NEW d \in Devices, RestoreStart(d) PROVE PhaseInv'
  <2>1. [p \in Paths |-> IF Exists(seen'[d][p]) THEN "restore" ELSE "none"]
           \in [Paths -> TasksOf("restore")]
    BY DEF TasksOf
  <2> QED
    BY <1>12, <2>1, StartPhase DEF RestoreStart
<1> QED
  BY <1>1, <1>2, <1>3, <1>4, <1>5, <1>6, <1>7, <1>8, <1>9, <1>10, <1>11, <1>12, <1>13
  DEF Next, User, Push, Pull, Resolve, Restore, vars, Edit, Delete, KeepLocal, KeepRemote,
      PullEmpty, PushFinish, PullPanics, PullFinish, RestoreFinish, Crash

-----------------------------------------------------------------------------
(* What push --force may remove: only what the recycle bin holds, and only *)
(* what the deleting device had seen.                                      *)

\* Objects and copies have versions the storage's clock has reached.
StoreStamped ==
    /\ \A p \in Paths :
         /\ remote[p].ver <= clock
         /\ Exists(remote[p]) => remote[p].ver # 0
    /\ \A b \in bin : b.data # {} /\ b.ver # 0 /\ b.ver <= clock

\* The object of the version that a delete is about to name has a copy, and
\* what is about to be put back is one.
Backed(d, p) ==
    /\ seen[d][p].ver <= clock
    /\ Exists(seen[d][p]) => seen[d][p].ver # 0
    /\ task[d][p] \in {"copy", "erase"} => Exists(seen[d][p])
    /\ task[d][p] = "erase" /\ Exists(remote[p]) /\ remote[p].ver = seen[d][p].ver =>
         \E b \in bin : b.path = p /\ b.data = remote[p].data
    /\ task[d][p] = "restore" =>
         \E b \in bin : b.path = p /\ b.data = seen[d][p].data /\ b.ver = seen[d][p].ver

BinInv == StoreStamped /\ \A d \in Devices, p \in Paths : Backed(d, p)

\* Tasks that move objects between the bucket and its recycle bin.
Moves == {"copy", "erase", "restore"}

\* A step that leaves the store alone, starts no such task, interferes with
\* none, and notes nothing but what is listed.
NoMove ==
    /\ UNCHANGED <<remote, bin, clock>>
    /\ \A d \in Devices, p \in Paths :
         \/ /\ task'[d][p] = task[d][p] /\ seen'[d][p] = seen[d][p]
            /\ task[d][p] \in Moves => mem'[d][p] = mem[d][p]
         \/ task'[d][p] \notin Moves /\ task[d][p] # "restore" /\ seen'[d][p] = seen[d][p]
         \/ task'[d][p] \notin Moves /\ seen'[d][p] \in {Gone, remote[p]}

\* A file no step of this device is about stays backed when the store changes:
\* a new object is stamped later than any version noted, or has a copy.
LEMMA StaysBacked ==
    ASSUME TypeOK, NEW d \in Devices, NEW p \in Paths, Backed(d, p),
           task'[d][p] = task[d][p], seen'[d][p] = seen[d][p],
           bin \subseteq bin', clock' \in Nat, clock <= clock',
           \/ remote'[p] = remote[p]
           \/ remote'[p].ver > clock
           \/ ~Exists(remote'[p])
           \/ \E b \in bin' : b.path = p /\ b.data = remote'[p].data
    PROVE  Backed(d, p)'
<1>1. seen[d][p].ver \in Nat /\ clock \in Nat
  BY DEF TypeOK, Object, Time
<1>2. CASE remote'[p] = remote[p]
  BY <1>1, <1>2 DEF Backed, Exists
<1>3. CASE remote'[p].ver > clock
  BY <1>1, <1>3 DEF Backed, Exists
<1>4. CASE ~Exists(remote'[p]) \/ \E b \in bin' : b.path = p /\ b.data = remote'[p].data
  BY <1>1, <1>4 DEF Backed, Exists
<1> QED
  BY <1>2, <1>3, <1>4

LEMMA NoMoveBin == ASSUME TypeOK, BinInv, NoMove PROVE BinInv'
<1>1. UNCHANGED <<remote, bin, clock>> /\ clock \in Nat
  BY DEF NoMove, TypeOK, Time
<1>2. StoreStamped'
  BY <1>1 DEF BinInv, StoreStamped, Exists
<1>3. ASSUME NEW d \in Devices, NEW p \in Paths PROVE Backed(d, p)'
  <2>1. CASE task'[d][p] = task[d][p] /\ seen'[d][p] = seen[d][p]
    BY <1>1, <2>1, StaysBacked DEF BinInv
  <2>2. CASE task'[d][p] \notin Moves
    <3>1. seen'[d][p] \in {seen[d][p], Gone, remote[p]}
      BY DEF NoMove
    <3>2. \A o \in {seen[d][p], Gone, remote[p]} : o.ver <= clock /\ (Exists(o) => o.ver # 0)
      BY <1>1 DEF BinInv, StoreStamped, Backed, Exists, Gone
    <3> QED
      BY <1>1, <2>2, <3>1, <3>2 DEF Backed, Moves, Exists
  <2> QED
    BY <2>1, <2>2 DEF NoMove
<1> QED
  BY <1>2, <1>3 DEF BinInv

\* Resetting a device moves nothing.
LEMMA ResetMoves ==
    ASSUME TypeOK, NEW d \in Devices, Reset(d), UNCHANGED <<remote, bin, clock>>,
           \A e \in Devices \ {d} : mem'[e] = mem[e]
    PROVE  NoMove
<1>1. \A e \in Devices \ {d} : task'[e] = task[e] /\ seen'[e] = seen[e]
  BY DEF Reset, TypeOK
<1>2. \A p \in Paths : task'[d][p] = "none" /\ seen'[d][p] = Gone
  BY DEF Reset, TypeOK
<1> QED
  BY <1>1, <1>2 DEF NoMove, Moves

\* Nor does finishing another task of one file.
LEMMA DoneMoves ==
    ASSUME TypeOK, NEW d \in Devices, NEW p \in Paths, Done(d, p), task[d][p] # "restore",
           UNCHANGED <<seen, remote, bin, clock>>,
           \A e \in Devices, q \in Paths : e # d \/ q # p => mem'[e][q] = mem[e][q]
    PROVE  NoMove
<1>1. \A e \in Devices, q \in Paths : e # d \/ q # p => task'[e][q] = task[e][q]
  BY DEF Done, TypeOK
<1>2. task'[d][p] = "none"
  BY DEF Done, TypeOK
<1> QED
  BY <1>1, <1>2 DEF NoMove, Moves

\* Every step but six moves nothing.
LEMMA MostMoveNothing ==
    ASSUME TypeOK, PhaseInv, [Next]_vars
    PROVE  \/ NoMove
           \/ \E d \in Devices : RestoreStart(d)
           \/ \E d \in Devices, p \in Paths :
                \/ PushSend(d, p) \/ DeleteCheck(d, p) \/ DeleteCopy(d, p)
                \/ DeleteObject(d, p) \/ RestoreCopy(d, p)
<1> USE DEF device, command, store, history
<1>1. CASE UNCHANGED <<task, seen, mem, remote, bin, clock>>
  BY <1>1 DEF NoMove
<1>2. ASSUME NEW d \in Devices, PushStart(d) PROVE NoMove
  <2>1. PICK force \in {FALSE} \cup {"Force" \in Events} :
          task' = [task EXCEPT ![d] = [p \in Paths |-> PushTask(d, p, force)]]
    BY <1>2 DEF PushStart
  <2>2. \A p \in Paths : PushTask(d, p, force) \notin Moves
    BY DEF PushTask, Moves
  <2>3. UNCHANGED <<seen, mem, remote, bin, clock>> /\ \A p \in Paths : task[d][p] = "none"
    BY <1>2 DEF PushStart, MaySync, MayStart, PhaseInv, TasksOf
  <2>4. \A p \in Paths : task'[d][p] \notin Moves
    BY <2>1, <2>2 DEF TypeOK
  <2>5. \A e \in Devices \ {d} : task'[e] = task[e]
    BY <2>1 DEF TypeOK
  <2> QED
    BY <2>3, <2>4, <2>5 DEF NoMove
<1>3. ASSUME NEW d \in Devices, NEW p \in Paths,
             \/ PushSendFails(d, p) \/ PushRecord(d, p) \/ DeleteFails(d, p) \/ PullConflict(d, p)
             \/ PullRecord(d, p) \/ PullUnion(d, p) \/ PullStepFails(d, p) \/ PullTrash(d, p)
      PROVE NoMove
  <2>1. Done(d, p) /\ UNCHANGED <<seen, remote, bin, clock>> /\ task[d][p] # "restore"
    BY <1>3 DEF PushSendFails, PushRecord, DeleteFails, PullConflict, PullRecord, PullUnion,
         PullStepFails, PullTrash
  <2>2. UNCHANGED mem \/ \E e : mem' = [mem EXCEPT ![d][p] = e]
    BY <1>3 DEF PushSendFails, PushRecord, DeleteFails, PullConflict, PullRecord, PullUnion,
         PullStepFails, PullTrash
  <2>3. \A e \in Devices, q \in Paths : e # d \/ q # p => mem'[e][q] = mem[e][q]
    BY <2>2 DEF TypeOK
  <2> QED
    BY <2>1, <2>3, DoneMoves
<1>4. ASSUME NEW d \in Devices, NEW p \in Paths, NEW i \in 1..Len(sidecars[d][p]),
             KeepLocal(d, p, i) \/ KeepRemote(d, p, i)
      PROVE NoMove
  <2>1. UNCHANGED <<task, seen, remote, bin, clock>>
    BY <1>4 DEF KeepLocal, KeepRemote
  <2>2. \A e \in Devices \ {d}, q \in Paths : mem'[e][q] = mem[e][q]
    BY <1>4 DEF KeepLocal, KeepRemote, Resolved, TypeOK
  <2>3. \A q \in Paths : task[d][q] \notin Moves
    BY <1>4 DEF KeepLocal, KeepRemote, MayStart, PhaseInv, TasksOf, Moves
  <2> QED
    BY <2>1, <2>2, <2>3 DEF NoMove
<1>5. ASSUME NEW d \in Devices, PushList(d) PROVE NoMove
  <2>1. \A p \in Paths : task[d][p] \notin Moves
    BY <1>5 DEF PushList, PhaseInv, TasksOf, Moves
  <2>2. \A p \in Paths : task'[d][p] \notin Moves /\ seen'[d][p] \in {seen[d][p], remote[p]}
    BY <1>5, <2>1 DEF PushList, TypeOK, Moves
  <2>3. \A e \in Devices \ {d} : task'[e] = task[e] /\ seen'[e] = seen[e]
    BY <1>5 DEF PushList, TypeOK
  <2>4. UNCHANGED <<mem, remote, bin, clock>>
    BY <1>5 DEF PushList
  <2> QED
    BY <2>1, <2>2, <2>3, <2>4 DEF NoMove, Moves
<1>6. ASSUME NEW d \in Devices, PullStart(d) PROVE NoMove
  <2>1. \A p \in Paths : PullTask(d, p) \notin Moves
    BY DEF PullTask, Moves
  <2>2. \A p \in Paths : task'[d][p] \notin Moves /\ seen'[d][p] = remote[p]
    BY <1>6, <2>1 DEF PullStart, TypeOK
  <2>3. \A e \in Devices \ {d} : task'[e] = task[e] /\ seen'[e] = seen[e]
    BY <1>6 DEF PullStart, TypeOK
  <2>4. UNCHANGED <<mem, remote, bin, clock>>
    BY <1>6 DEF PullStart
  <2> QED
    BY <2>2, <2>3, <2>4 DEF NoMove
<1>7. ASSUME NEW d \in Devices, NEW p \in Paths, PullWrite(d, p) \/ PullMerge(d, p) PROVE NoMove
  <2>1. /\ \E t \in {"rehash", "write"} : Becomes(d, p, t)
        /\ task[d][p] # "restore" /\ UNCHANGED <<seen, mem, remote, bin, clock>>
    BY <1>7 DEF PullWrite, PullMerge
  <2>2. \A e \in Devices, q \in Paths :
          task'[e][q] = task[e][q] \/ (e = d /\ q = p /\ task'[d][p] \in {"rehash", "write"})
    BY <2>1 DEF Becomes, TypeOK
  <2> QED
    BY <2>1, <2>2 DEF NoMove, Moves
<1>8. ASSUME NEW d \in Devices, PullScan(d) PROVE NoMove
  <2>1. \A p \in Paths : task'[d][p] \in {"none", "trash"} /\ task[d][p] # "restore"
    <3>1. \A p \in Paths : task'[d][p] \in {"none", "trash"}
      BY <1>8 DEF PullScan, TypeOK
    <3>2. \A p \in Paths : task[d][p] # "restore"
      BY <1>8 DEF PullScan, PhaseInv, TasksOf
    <3> QED
      BY <3>1, <3>2
  <2>2. \A e \in Devices \ {d} : task'[e] = task[e]
    BY <1>8 DEF PullScan, TypeOK
  <2>3. UNCHANGED <<seen, mem, remote, bin, clock>>
    BY <1>8 DEF PullScan
  <2> QED
    BY <2>1, <2>2, <2>3 DEF NoMove, Moves
<1>9. ASSUME NEW d \in Devices,
             \/ PushFinish(d) \/ PullFinish(d) \/ RestoreFinish(d) \/ Crash(d)
             \/ \E p \in Paths : PullPanics(d, p)
      PROVE NoMove
  <2>1. Reset(d) /\ UNCHANGED <<remote, bin, clock>>
    BY <1>9 DEF PushFinish, PullPanics, PullFinish, RestoreFinish, Crash
  <2>2. \A e \in Devices \ {d} : mem'[e] = mem[e]
    BY <1>9 DEF PushFinish, PullPanics, PullFinish, RestoreFinish, Crash, TypeOK
  <2> QED
    BY <2>1, <2>2, ResetMoves
<1>10. ASSUME NEW d \in Devices, NEW p \in Paths, RestoreFails(d, p) PROVE NoMove
  <2>1. task'[d][p] = "none" /\ seen'[d][p] = Gone
    BY <1>10 DEF RestoreFails, Done, TypeOK
  <2>2. \A e \in Devices, q \in Paths : e # d \/ q # p =>
           task'[e][q] = task[e][q] /\ seen'[e][q] = seen[e][q]
    BY <1>10 DEF RestoreFails, Done, TypeOK
  <2>3. UNCHANGED <<mem, remote, bin, clock>>
    BY <1>10 DEF RestoreFails
  <2> QED
    BY <2>1, <2>2, <2>3 DEF NoMove, Moves
<1> QED
  BY <1>1, <1>2, <1>3, <1>4, <1>5, <1>6, <1>7, <1>8, <1>9, <1>10
  DEF Next, User, Push, Pull, Resolve, Restore, vars, Edit, Delete, PullEmpty

LEMMA InitBin == Init => BinInv
  BY DEF Init, BinInv, StoreStamped, Backed, Exists, Gone

\* Where versions exist, a step keeps BinInv: the stamp of an upload is later
\* than every version noted, and an object put back comes from a copy.
LEMMA StepBin ==
    ASSUME Versions, TypeOK, PhaseInv, BinInv, [Next]_vars
    PROVE  BinInv'
<1>0. clock \in Nat /\ \A p \in Paths : remote[p].ver \in Nat
  BY DEF TypeOK, Time, Object
<1> USE DEF device, command, store, history
<1>1. CASE NoMove
  BY <1>1, NoMoveBin
<1>2. ASSUME NEW d \in Devices, NEW p \in Paths, PushSend(d, p) PROVE BinInv'
  <2> DEFINE object == Stamped(disk[d][p].data, clock + 1)
  <2>1. /\ object.ver = clock + 1 /\ object.data # {}
        /\ clock' = clock + 1 /\ remote' = [remote EXCEPT ![p] = object]
        /\ seen' = [seen EXCEPT ![d][p] = object] /\ bin' = bin
    BY <1>2 DEF PushSend, Stamped, Exists
  <2> HIDE DEF object
  <2>2. Becomes(d, p, "head") \/ Done(d, p)
    BY <1>2 DEF PushSend
  <2>3. StoreStamped'
    BY <1>0, <2>1 DEF BinInv, StoreStamped, TypeOK, Exists, Copy, Time
  <2>4. Backed(d, p)'
    <3>1. task'[d][p] \in {"head", "none"} /\ seen'[d][p] = object
      BY <2>1, <2>2 DEF Becomes, Done, TypeOK
    <3> QED
      BY <1>0, <2>1, <3>1 DEF Backed, Exists
  <2>5. ASSUME NEW e \in Devices, NEW q \in Paths, e # d \/ q # p PROVE Backed(e, q)'
    <3>1. task'[e][q] = task[e][q] /\ seen'[e][q] = seen[e][q]
      BY <2>1, <2>2, <2>5 DEF Becomes, Done, TypeOK
    <3>2. remote'[q] = remote[q] \/ remote'[q].ver > clock
      BY <1>0, <2>1 DEF TypeOK
    <3> QED
      BY <1>0, <2>1, <3>1, <3>2, StaysBacked DEF BinInv
  <2> QED
    BY <2>3, <2>4, <2>5 DEF BinInv
<1>3. ASSUME NEW d \in Devices, NEW p \in Paths, DeleteCheck(d, p) PROVE BinInv'
  <2>1. UNCHANGED <<remote, bin, clock>> /\ task[d][p] = "check"
    BY <1>3 DEF DeleteCheck
  <2>2. CASE ~Exists(seen[d][p])
    <3>1. Done(d, p) /\ UNCHANGED seen /\ mem' = [mem EXCEPT ![d][p] = Untracked]
      BY <1>3, <2>2 DEF DeleteCheck
    <3>2. \A e \in Devices, q \in Paths : e # d \/ q # p => mem'[e][q] = mem[e][q]
      BY <3>1 DEF TypeOK
    <3> QED
      BY <2>1, <3>1, <3>2, DoneMoves, NoMoveBin
  <2>3. CASE Exists(seen[d][p])
    <3> DEFINE Found == IF Exists(remote[p])
                        THEN {remote[p]} \cup OutcomeOf("HeadFails", seen[d][p])
                        ELSE {seen[d][p]}
    <3>1. \A obj \in Found : Exists(obj) /\ obj.ver <= clock /\ obj.ver # 0
      BY <2>3 DEF OutcomeOf, BinInv, StoreStamped, Backed
    <3> HIDE DEF Found
    <3>2. PICK obj \in Found :
             /\ seen' = [seen EXCEPT ![d][p] = obj]
             /\ Becomes(d, p, IF Replaced(d, p, obj) THEN "none" ELSE "copy")
      BY <1>3, <2>3 DEF DeleteCheck, Found
    <3>3. Backed(d, p)'
      <4>1. task'[d][p] \in {"copy", "none"} /\ seen'[d][p] = obj
        BY <3>2 DEF Becomes, TypeOK
      <4> QED
        BY <2>1, <3>1, <4>1 DEF Backed, Exists
    <3>4. ASSUME NEW e \in Devices, NEW q \in Paths, e # d \/ q # p PROVE Backed(e, q)'
      <4>1. task'[e][q] = task[e][q] /\ seen'[e][q] = seen[e][q]
        BY <3>2, <3>4 DEF Becomes, TypeOK
      <4> QED
        BY <1>0, <2>1, <4>1, StaysBacked DEF BinInv
    <3>5. StoreStamped'
      BY <2>1 DEF BinInv, StoreStamped, Exists
    <3> QED
      BY <3>3, <3>4, <3>5 DEF BinInv
  <2> QED
    BY <2>2, <2>3
<1>4. ASSUME NEW d \in Devices, NEW p \in Paths, DeleteCopy(d, p) PROVE BinInv'
  <2>1. UNCHANGED <<remote, clock, seen, mem>> /\ task[d][p] = "copy"
    BY <1>4 DEF DeleteCopy
  <2>2. CASE Done(d, p) /\ UNCHANGED bin
    BY <2>1, <2>2, DoneMoves, NoMoveBin
  <2>3. CASE /\ Exists(remote[p])
             /\ bin' = bin \cup {[path |-> p, data |-> remote[p].data, ver |-> remote[p].ver]}
             /\ Becomes(d, p, "erase")
    <3>1. StoreStamped'
      BY <1>0, <2>1, <2>3 DEF BinInv, StoreStamped, Exists
    <3>2. Backed(d, p)'
      <4>1. task'[d][p] = "erase"
        BY <2>3 DEF Becomes, TypeOK
      <4> DEFINE copy == [path |-> p, data |-> remote[p].data, ver |-> remote[p].ver]
      <4>2. \E b \in bin' : b.path = p /\ b.data = remote'[p].data
        <5>1. copy \in bin' /\ copy.path = p /\ copy.data = remote'[p].data
          BY <2>1, <2>3
        <5> HIDE DEF copy
        <5> QED
          BY <5>1
      <4>3. Exists(seen[d][p]) /\ seen[d][p].ver <= clock /\ seen[d][p].ver # 0
        BY <2>1 DEF BinInv, Backed
      <4> QED
        BY <2>1, <4>1, <4>2, <4>3 DEF Backed, Exists
    <3>3. ASSUME NEW e \in Devices, NEW q \in Paths, e # d \/ q # p PROVE Backed(e, q)'
      <4>1. task'[e][q] = task[e][q]
        BY <2>3, <3>3 DEF Becomes, TypeOK
      <4> QED
        BY <1>0, <2>1, <2>3, <4>1, StaysBacked DEF BinInv
    <3> QED
      BY <3>1, <3>2, <3>3 DEF BinInv
  <2> QED
    BY <1>4, <2>2, <2>3 DEF DeleteCopy
<1>5. ASSUME NEW d \in Devices, NEW p \in Paths, DeleteObject(d, p) PROVE BinInv'
  <2>1. /\ remote' = [remote EXCEPT ![p] = Gone] /\ Done(d, p)
        /\ UNCHANGED <<seen, bin, clock>>
    BY <1>5 DEF DeleteObject
  <2>2. StoreStamped'
    <3>1. \A q \in Paths : remote'[q] \in {remote[q], Gone}
      BY <2>1 DEF TypeOK
    <3>2. Gone.ver <= clock /\ ~Exists(Gone)
      BY <1>0 DEF Gone, Exists
    <3> QED
      BY <2>1, <3>1, <3>2 DEF BinInv, StoreStamped, Exists
  <2>3. Backed(d, p)'
    <3>1. task'[d][p] = "none"
      BY <2>1 DEF Done, TypeOK
    <3> QED
      BY <2>1, <3>1 DEF BinInv, Backed, Exists
  <2>4. ASSUME NEW e \in Devices, NEW q \in Paths, e # d \/ q # p PROVE Backed(e, q)'
    <3>1. task'[e][q] = task[e][q]
      BY <2>1, <2>4 DEF Done, TypeOK
    <3>2. remote'[q] = remote[q] \/ ~Exists(remote'[q])
      BY <2>1 DEF TypeOK, Exists, Gone
    <3> QED
      BY <1>0, <2>1, <3>1, <3>2, StaysBacked DEF BinInv
  <2> QED
    BY <2>2, <2>3, <2>4 DEF BinInv
<1>6. ASSUME NEW d \in Devices, RestoreStart(d) PROVE BinInv'
  <2>1. UNCHANGED <<remote, bin, clock>>
    BY <1>6 DEF RestoreStart
  <2>2. ASSUME NEW p \in Paths PROVE Backed(d, p)'
    <3>1. task'[d][p] = IF Exists(seen'[d][p]) THEN "restore" ELSE "none"
      BY <1>6, RestorePlan
    <3>2. CASE seen'[d][p] = Gone
      BY <1>0, <2>1, <3>1, <3>2 DEF Backed, Exists, Gone
    <3>3. ASSUME NEW b \in bin, b.path = p,
                 seen'[d][p] = [data |-> b.data, ver |-> b.ver, time |-> 0]
          PROVE  Backed(d, p)'
      <4>1. b.ver <= clock /\ b.ver # 0
        BY DEF BinInv, StoreStamped
      <4> QED
        BY <2>1, <3>1, <3>3, <4>1 DEF Backed, Exists
    <3> QED
      BY <1>6, <3>2, <3>3, RestorePlan
  <2>3. ASSUME NEW e \in Devices, NEW q \in Paths, e # d PROVE Backed(e, q)'
    <3>1. task'[e][q] = task[e][q] /\ seen'[e][q] = seen[e][q]
      BY <1>6, <2>3, RestorePlan
    <3> QED
      BY <1>0, <2>1, <3>1, StaysBacked DEF BinInv
  <2>4. StoreStamped'
    BY <2>1 DEF BinInv, StoreStamped, Exists
  <2> QED
    BY <2>2, <2>3, <2>4 DEF BinInv
<1>7. ASSUME NEW d \in Devices, NEW p \in Paths, RestoreCopy(d, p) PROVE BinInv'
  <2>1. PICK b \in bin : b.path = p /\ b.data = seen[d][p].data /\ b.ver = seen[d][p].ver
    BY <1>7 DEF RestoreCopy, BinInv, Backed
  <2>2. PICK ver \in {Stamped({}, clock + 1).ver} \cup OutcomeOf("SameETag", seen[d][p].ver) :
          remote' = [remote EXCEPT ![p] = [data |-> seen[d][p].data, ver |-> ver, time |-> clock + 1]]
    BY <1>7 DEF RestoreCopy
  <2>3. /\ clock' = clock + 1 /\ bin' = bin
        /\ Done(d, p) /\ seen' = [seen EXCEPT ![d][p] = Gone]
    BY <1>7 DEF RestoreCopy
  <2>4. b.data # {} /\ b.ver # 0 /\ b.ver <= clock /\ b.ver \in Nat
    BY DEF BinInv, StoreStamped, TypeOK, Copy, Time
  <2>5. ver # 0 /\ ver <= clock + 1
    BY <1>0, <2>1, <2>4 DEF OutcomeOf, Stamped
  <2>6. StoreStamped'
    BY <1>0, <2>2, <2>3, <2>5 DEF BinInv, StoreStamped, Exists, TypeOK, Copy, Time
  <2>7. ASSUME NEW e \in Devices, NEW q \in Paths PROVE Backed(e, q)'
    <3>1. CASE e = d /\ q = p
      <4>1. task'[d][p] = "none" /\ seen'[d][p] = Gone
        BY <2>3 DEF Done, TypeOK
      <4> QED
        BY <1>0, <2>3, <3>1, <4>1 DEF Backed, Gone, Exists
    <3>2. CASE e # d \/ q # p
      <4>1. task'[e][q] = task[e][q] /\ seen'[e][q] = seen[e][q]
        BY <2>3, <3>2 DEF Done, TypeOK
      <4>2. remote'[q] = remote[q] \/ (q = p /\ remote'[q].data = b.data)
        BY <2>1, <2>2 DEF TypeOK
      <4> QED
        BY <1>0, <2>1, <2>3, <4>1, <4>2, StaysBacked DEF BinInv
    <3> QED
      BY <3>1, <3>2
  <2> QED
    BY <2>6, <2>7 DEF BinInv
<1> QED
  BY <1>1, <1>2, <1>3, <1>4, <1>5, <1>6, <1>7, MostMoveNothing

\* An object disappears by a conditional delete and by nothing else.
LEMMA OnlyDeleted ==
    ASSUME Versions, TypeOK, PhaseInv, BinInv, [Next]_vars, NEW p \in Paths,
           Exists(remote[p]), ~Exists(remote'[p])
    PROVE  \E d \in Devices : DeleteObject(d, p)
<1>1. ~NoMove
  BY DEF NoMove
<1>2. ~\E d \in Devices : RestoreStart(d)
  BY DEF RestoreStart, store
<1>3. ASSUME NEW d \in Devices, NEW q \in Paths,
             DeleteCheck(d, q) \/ DeleteCopy(d, q)
      PROVE FALSE
  BY <1>3 DEF DeleteCheck, DeleteCopy, store
<1>4. ASSUME NEW d \in Devices, NEW q \in Paths, PushSend(d, q) PROVE FALSE
  BY <1>4 DEF PushSend, TypeOK, Exists, Stamped
<1>5. ASSUME NEW d \in Devices, NEW q \in Paths, RestoreCopy(d, q) PROVE FALSE
  <2>1. seen[d][q].data # {}
    BY <1>5 DEF RestoreCopy, BinInv, Backed, StoreStamped
  <2> QED
    BY <1>5, <2>1 DEF RestoreCopy, TypeOK, Exists
<1>6. ASSUME NEW d \in Devices, NEW q \in Paths, DeleteObject(d, q) PROVE q = p
  BY <1>6 DEF DeleteObject, TypeOK
<1> QED
  BY <1>1, <1>2, <1>3, <1>4, <1>5, <1>6, MostMoveNothing

\* With versions, and a provider that honours If-Match, push --force removes an
\* object only when the recycle bin holds its content: for any number of
\* devices and paths, without any rule for the users, and whatever fails.
THEOREM BinHoldsDeleted == ASSUME Versions, Conditional PROVE Spec => BinBeforeDelete
<1>1. Init => TypeOK /\ PhaseInv /\ BinInv
  BY InitType, InitPhase, InitBin
<1>2. TypeOK /\ PhaseInv /\ BinInv /\ [Next]_vars => TypeOK' /\ PhaseInv' /\ BinInv'
  BY StepType, StepPhase, StepBin
<1>3. TypeOK /\ PhaseInv /\ BinInv /\ [Next]_vars =>
        \A p \in Paths : Exists(remote[p]) /\ ~Exists(remote'[p]) =>
            \E b \in bin' : b.path = p /\ b.data = remote[p].data
  <2> SUFFICES ASSUME TypeOK, PhaseInv, BinInv, [Next]_vars, NEW p \in Paths,
                      Exists(remote[p]), ~Exists(remote'[p])
               PROVE  \E b \in bin' : b.path = p /\ b.data = remote[p].data
    OBVIOUS
  <2>1. PICK d \in Devices : DeleteObject(d, p)
    BY OnlyDeleted
  <2>2. task[d][p] = "erase" /\ Removable(d, p) /\ bin' = bin
    BY <2>1 DEF DeleteObject
  <2>3. remote[p].ver = seen[d][p].ver
    BY <2>2 DEF Removable, BinInv, Backed
  <2> QED
    BY <2>2, <2>3 DEF BinInv, Backed
<1> QED
  BY <1>1, <1>2, <1>3, PTL DEF Spec, BinBeforeDelete

-----------------------------------------------------------------------------
(* Nothing leaves the remote that another device has replaced. *)

\* A delete under way was decided for the object whose version it names.
Decided(d, p) ==
    /\ task[d][p] # "restore" => seen[d][p].time = seen[d][p].ver
    /\ task[d][p] \in {"copy", "erase"} => ~remoteChanged(seen[d][p], mem[d][p])

\* Where a copy never keeps its source's version, the version gives the time.
StampInv ==
    /\ \A p \in Paths : remote[p].time = remote[p].ver
    /\ \A d \in Devices, p \in Paths : Decided(d, p)

LEMMA InitStamp == Init => StampInv
  BY DEF Init, StampInv, Decided, Gone

LEMMA StepStamp ==
    ASSUME Versions, "SameETag" \notin Events, TypeOK, PhaseInv, BinInv, StampInv, [Next]_vars
    PROVE  StampInv'
<1> USE DEF device, command, store, history
\* What holds of the files that a step is not about.
<1>0. ASSUME NEW d \in Devices, NEW p \in Paths,
             task'[d][p] = task[d][p], seen'[d][p] = seen[d][p],
             task[d][p] \in Moves => mem'[d][p] = mem[d][p]
      PROVE  Decided(d, p)'
  BY <1>0 DEF StampInv, Decided, remoteChanged, Tracked, Moves
<1>1. CASE NoMove
  <2>1. ASSUME NEW d \in Devices, NEW p \in Paths PROVE Decided(d, p)'
    <3>1. CASE /\ task'[d][p] = task[d][p] /\ seen'[d][p] = seen[d][p]
               /\ task[d][p] \in Moves => mem'[d][p] = mem[d][p]
      BY <1>0, <3>1
    <3>2. CASE task'[d][p] \notin Moves /\ task[d][p] # "restore" /\ seen'[d][p] = seen[d][p]
      BY <3>2 DEF StampInv, Decided, Moves
    <3>3. CASE task'[d][p] \notin Moves /\ seen'[d][p] \in {Gone, remote[p]}
      BY <3>3 DEF StampInv, Decided, Moves, Gone
    <3> QED
      BY <1>1, <3>1, <3>2, <3>3 DEF NoMove
  <2> QED
    BY <1>1, <2>1 DEF NoMove, StampInv
<1>2. ASSUME NEW d \in Devices, NEW p \in Paths, PushSend(d, p) PROVE StampInv'
  <2> DEFINE object == Stamped(disk[d][p].data, clock + 1)
  <2>1. /\ object.time = object.ver /\ UNCHANGED mem
        /\ remote' = [remote EXCEPT ![p] = object] /\ seen' = [seen EXCEPT ![d][p] = object]
    BY <1>2 DEF PushSend, Stamped
  <2> HIDE DEF object
  <2>2. Becomes(d, p, "head") \/ Done(d, p)
    BY <1>2 DEF PushSend
  <2>3. \A q \in Paths : remote'[q].time = remote'[q].ver
    BY <2>1 DEF StampInv, TypeOK
  <2>4. Decided(d, p)'
    <3>1. task'[d][p] \in {"head", "none"} /\ seen'[d][p] = object
      BY <2>1, <2>2 DEF Becomes, Done, TypeOK
    <3> QED
      BY <2>1, <3>1 DEF Decided
  <2>5. ASSUME NEW e \in Devices, NEW q \in Paths, e # d \/ q # p PROVE Decided(e, q)'
    <3>1. task'[e][q] = task[e][q] /\ seen'[e][q] = seen[e][q]
      BY <2>1, <2>2, <2>5 DEF Becomes, Done, TypeOK
    <3> QED
      BY <1>0, <2>1, <3>1
  <2> QED
    BY <2>3, <2>4, <2>5 DEF StampInv
<1>3. ASSUME NEW d \in Devices, NEW p \in Paths, DeleteCheck(d, p) PROVE StampInv'
  <2>1. UNCHANGED remote /\ task[d][p] = "check"
    BY <1>3 DEF DeleteCheck
  <2>2. CASE ~Exists(seen[d][p])
    <3>1. Done(d, p) /\ UNCHANGED seen /\ mem' = [mem EXCEPT ![d][p] = Untracked]
      BY <1>3, <2>2 DEF DeleteCheck
    <3>2. Decided(d, p)'
      <4>1. task'[d][p] = "none"
        BY <3>1 DEF Done, TypeOK
      <4> QED
        BY <2>1, <3>1, <4>1 DEF StampInv, Decided
    <3>3. ASSUME NEW e \in Devices, NEW q \in Paths, e # d \/ q # p PROVE Decided(e, q)'
      <4>1. task'[e][q] = task[e][q] /\ seen'[e][q] = seen[e][q] /\ mem'[e][q] = mem[e][q]
        BY <3>1, <3>3 DEF Done, TypeOK
      <4> QED
        BY <1>0, <4>1
    <3> QED
      BY <2>1, <3>2, <3>3 DEF StampInv
  <2>3. CASE Exists(seen[d][p])
    <3> DEFINE Found == IF Exists(remote[p])
                        THEN {remote[p]} \cup OutcomeOf("HeadFails", seen[d][p])
                        ELSE {seen[d][p]}
    <3>1. \A obj \in Found : obj.time = obj.ver
      BY <2>1 DEF OutcomeOf, StampInv, Decided
    <3> HIDE DEF Found
    <3>2. UNCHANGED mem /\ \E obj \in Found :
             /\ seen' = [seen EXCEPT ![d][p] = obj]
             /\ Becomes(d, p, IF Replaced(d, p, obj) THEN "none" ELSE "copy")
      BY <1>3, <2>3 DEF DeleteCheck, Found
    <3>3. PICK obj \in Found :
             /\ seen' = [seen EXCEPT ![d][p] = obj]
             /\ Becomes(d, p, IF Replaced(d, p, obj) THEN "none" ELSE "copy")
      BY <3>2
    <3>4. Decided(d, p)'
      <4>1. seen'[d][p] = obj /\ task'[d][p] = IF Replaced(d, p, obj) THEN "none" ELSE "copy"
        BY <3>3 DEF Becomes, TypeOK
      <4> QED
        BY <3>1, <3>2, <4>1 DEF Decided, Replaced, remoteChanged, Tracked
    <3>5. ASSUME NEW e \in Devices, NEW q \in Paths, e # d \/ q # p PROVE Decided(e, q)'
      <4>1. task'[e][q] = task[e][q] /\ seen'[e][q] = seen[e][q]
        BY <3>3, <3>5 DEF Becomes, TypeOK
      <4> QED
        BY <1>0, <3>2, <4>1
    <3> QED
      BY <2>1, <3>4, <3>5 DEF StampInv
  <2> QED
    BY <2>2, <2>3
<1>4. ASSUME NEW d \in Devices, NEW p \in Paths, DeleteCopy(d, p) PROVE StampInv'
  <2>1. UNCHANGED <<remote, seen, mem>> /\ task[d][p] = "copy"
    BY <1>4 DEF DeleteCopy
  <2>2. Becomes(d, p, "erase") \/ Done(d, p)
    BY <1>4 DEF DeleteCopy
  <2>3. Decided(d, p)'
    <3>1. task'[d][p] \in {"erase", "none"}
      BY <2>2 DEF Becomes, Done, TypeOK
    <3> QED
      BY <2>1, <3>1 DEF StampInv, Decided, remoteChanged, Tracked
  <2>4. ASSUME NEW e \in Devices, NEW q \in Paths, e # d \/ q # p PROVE Decided(e, q)'
    <3>1. task'[e][q] = task[e][q]
      BY <2>2, <2>4 DEF Becomes, Done, TypeOK
    <3> QED
      BY <1>0, <2>1, <3>1
  <2> QED
    BY <2>1, <2>3, <2>4 DEF StampInv
<1>5. ASSUME NEW d \in Devices, NEW p \in Paths, DeleteObject(d, p) PROVE StampInv'
  <2>1. /\ remote' = [remote EXCEPT ![p] = Gone] /\ Done(d, p) /\ UNCHANGED seen
        /\ task[d][p] = "erase"
    BY <1>5 DEF DeleteObject
  <2>2. \A e \in Devices, q \in Paths : e # d \/ q # p => mem'[e][q] = mem[e][q]
    <3>1. UNCHANGED mem \/ mem' = [mem EXCEPT ![d][p] = Untracked]
      BY <1>5 DEF DeleteObject
    <3> QED
      BY <3>1 DEF TypeOK
  <2>3. \A q \in Paths : remote'[q].time = remote'[q].ver
    BY <2>1 DEF StampInv, TypeOK, Gone
  <2>4. Decided(d, p)'
    <3>1. task'[d][p] = "none"
      BY <2>1 DEF Done, TypeOK
    <3> QED
      BY <2>1, <3>1 DEF StampInv, Decided
  <2>5. ASSUME NEW e \in Devices, NEW q \in Paths, e # d \/ q # p PROVE Decided(e, q)'
    <3>1. task'[e][q] = task[e][q]
      BY <2>1, <2>5 DEF Done, TypeOK
    <3> QED
      BY <1>0, <2>1, <2>2, <2>5, <3>1
  <2> QED
    BY <2>3, <2>4, <2>5 DEF StampInv
<1>6. ASSUME NEW d \in Devices, RestoreStart(d) PROVE StampInv'
  <2>1. UNCHANGED <<remote, mem>>
    BY <1>6 DEF RestoreStart
  <2>2. ASSUME NEW p \in Paths PROVE Decided(d, p)'
    <3>1. task'[d][p] = IF Exists(seen'[d][p]) THEN "restore" ELSE "none"
      BY <1>6, RestorePlan
    <3>2. seen'[d][p] = Gone \/ Exists(seen'[d][p])
      <4>1. CASE seen'[d][p] = Gone
        BY <4>1
      <4>2. ASSUME NEW b \in bin, seen'[d][p] = [data |-> b.data, ver |-> b.ver, time |-> 0]
            PROVE  Exists(seen'[d][p])
        BY <4>2 DEF BinInv, StoreStamped, Exists
      <4> QED
        BY <1>6, <4>1, <4>2, RestorePlan
    <3> QED
      BY <3>1, <3>2 DEF Decided, Gone
  <2>3. ASSUME NEW e \in Devices, NEW q \in Paths, e # d PROVE Decided(e, q)'
    <3>1. task'[e][q] = task[e][q] /\ seen'[e][q] = seen[e][q]
      BY <1>6, <2>3, RestorePlan
    <3> QED
      BY <1>0, <2>1, <3>1
  <2> QED
    BY <2>1, <2>2, <2>3 DEF StampInv
<1>7. ASSUME NEW d \in Devices, NEW p \in Paths, RestoreCopy(d, p) PROVE StampInv'
  <2>1. /\ remote' = [remote EXCEPT ![p] = [data |-> seen[d][p].data, ver |-> clock + 1,
                                            time |-> clock + 1]]
        /\ UNCHANGED mem /\ Done(d, p) /\ seen' = [seen EXCEPT ![d][p] = Gone]
    BY <1>7 DEF RestoreCopy, OutcomeOf, Stamped
  <2>2. \A q \in Paths : remote'[q].time = remote'[q].ver
    BY <2>1 DEF StampInv, TypeOK
  <2>3. ASSUME NEW e \in Devices, NEW q \in Paths PROVE Decided(e, q)'
    <3>1. CASE e = d /\ q = p
      BY <2>1, <3>1 DEF Done, TypeOK, Decided, Gone
    <3>2. CASE e # d \/ q # p
      <4>1. task'[e][q] = task[e][q] /\ seen'[e][q] = seen[e][q]
        BY <2>1, <3>2 DEF Done, TypeOK
      <4> QED
        BY <1>0, <2>1, <4>1
    <3> QED
      BY <3>1, <3>2
  <2> QED
    BY <2>2, <2>3 DEF StampInv
<1> QED
  BY <1>1, <1>2, <1>3, <1>4, <1>5, <1>6, <1>7, MostMoveNothing

\* With versions, If-Match and copies that get a version of their own, push
\* --force removes only the object its device last synced: for any number of
\* devices and paths, however their commands interleave and whatever fails.
THEOREM NoStaleDeleteHolds ==
    ASSUME Versions, Conditional, "SameETag" \notin Events
    PROVE  Spec => NoStaleDelete
<1> DEFINE Inv == TypeOK /\ PhaseInv /\ BinInv /\ StampInv
<1>1. Init => Inv
  BY InitType, InitPhase, InitBin, InitStamp
<1>2. Inv /\ [Next]_vars => Inv'
  BY StepType, StepPhase, StepBin, StepStamp
<1>3. Inv /\ [Next]_vars =>
        \A p \in Paths : Exists(remote[p]) /\ ~Exists(remote'[p]) =>
            \E d \in Devices : cmd[d] = "delete" /\ ~remoteChanged(remote[p], mem[d][p])
  <2> SUFFICES ASSUME Inv, [Next]_vars, NEW p \in Paths, Exists(remote[p]), ~Exists(remote'[p])
               PROVE  \E d \in Devices : cmd[d] = "delete" /\ ~remoteChanged(remote[p], mem[d][p])
    OBVIOUS
  <2>1. PICK d \in Devices : DeleteObject(d, p)
    BY OnlyDeleted
  <2>2. task[d][p] = "erase" /\ Removable(d, p)
    BY <2>1 DEF DeleteObject
  <2>3. remote[p].ver = seen[d][p].ver
    BY <2>2 DEF Removable, BinInv, Backed
  <2>4. remote[p].time = seen[d][p].time
    BY <2>2, <2>3 DEF StampInv, Decided
  <2>5. ~remoteChanged(remote[p], mem[d][p])
    BY <2>2, <2>3, <2>4 DEF StampInv, Decided, remoteChanged
  <2>6. cmd[d] = "delete"
    BY <2>2 DEF PhaseInv, TasksOf
  <2> QED
    BY <2>5, <2>6
<1> QED
  BY <1>1, <1>2, <1>3, PTL DEF Spec, NoStaleDelete

-----------------------------------------------------------------------------
(* A restore replaces nothing, if commands never overlap. *)

\* At most one command runs.
Alone == \A d, e \in Devices : cmd[d] # "idle" /\ cmd[e] # "idle" => d = e

\* The path being restored stays free.
RestoreInv ==
    /\ Alone
    /\ \A d \in Devices, p \in Paths : task[d][p] = "restore" => ~Exists(remote[p])

LEMMA InitRestore == Init => RestoreInv
  BY DEF Init, RestoreInv, Alone

LEMMA StepAlone ==
    ASSUME "Exclusive" \in Discipline, TypeOK, Alone, [Next]_vars
    PROVE  Alone'
<1> USE DEF device, command, store, history
<1>1. ASSUME NEW d \in Devices, PushStart(d) \/ PullStart(d) \/ RestoreStart(d) PROVE Alone'
  <2>1. \A e \in Devices : cmd[e] = "idle"
    BY <1>1 DEF PushStart, PullStart, RestoreStart, MaySync, MayStart
  <2>2. \A e \in Devices \ {d} : cmd'[e] = cmd[e]
    BY <1>1 DEF PushStart, PullStart, RestoreStart, TypeOK
  <2> QED
    BY <2>1, <2>2 DEF Alone
<1>2. ASSUME \A e \in Devices : cmd'[e] # "idle" => cmd[e] # "idle" PROVE Alone'
  BY <1>2 DEF Alone
<1>3. ASSUME NEW d \in Devices,
             PushList(d) \/ PullScan(d)
      PROVE  \A e \in Devices : cmd'[e] # "idle" => cmd[e] # "idle"
  BY <1>3 DEF PushList, PullScan, TypeOK
<1>4. ASSUME NEW d \in Devices, Reset(d)
      PROVE  \A e \in Devices : cmd'[e] # "idle" => cmd[e] # "idle"
  BY <1>4 DEF Reset, TypeOK
<1>5. CASE UNCHANGED vars
  BY <1>2, <1>5 DEF vars
<1>6. ASSUME NEW d \in Devices, User(d) \/ Resolve(d) \/ PullEmpty(d) PROVE UNCHANGED cmd
  BY <1>6 DEF User, Edit, Delete, Resolve, KeepLocal, KeepRemote, PullEmpty
<1>7. ASSUME NEW d \in Devices, Push(d) PROVE UNCHANGED cmd \/ PushList(d) \/ Reset(d)
  BY <1>7 DEF Push, PushFinish, PushSend, PushSendFails, PushRecord,
       DeleteCheck, DeleteCopy, DeleteObject, DeleteFails
<1>8. ASSUME NEW d \in Devices, Pull(d) PROVE UNCHANGED cmd \/ PullScan(d) \/ Reset(d)
  BY <1>8 DEF Pull, PullFinish, PullConflict, PullWrite, PullRecord, PullMerge, PullUnion, PullPanics,
       PullStepFails, PullTrash
<1>9. ASSUME NEW d \in Devices, Restore(d) \/ Crash(d) PROVE UNCHANGED cmd \/ Reset(d)
  BY <1>9 DEF Restore, RestoreCopy, RestoreFails, RestoreFinish, Crash
<1> QED
  BY <1>1, <1>2, <1>3, <1>4, <1>5, <1>6, <1>7, <1>8, <1>9 DEF Next

LEMMA StepRestore ==
    ASSUME "Exclusive" \in Discipline, TypeOK, PhaseInv, RestoreInv, [Next]_vars
    PROVE  RestoreInv'
<1> USE DEF device, command, store, history
<1> SUFFICES ASSUME NEW e \in Devices, NEW q \in Paths, task'[e][q] = "restore"
             PROVE  ~Exists(remote'[q])
  BY StepAlone DEF RestoreInv
<1>1. CASE NoMove
  BY <1>1 DEF NoMove, Moves, RestoreInv, Exists
\* A device that works on an object leaves no other one in a restore.
<1>2. ASSUME NEW d \in Devices, NEW p \in Paths, task[d][p] \notin {"none", "restore"}, task[e][q] = "restore"
      PROVE  FALSE
  <2>1. cmd[e] = "restore"
    BY <1>2 DEF PhaseInv, TasksOf
  <2>2. cmd[d] \notin {"idle", "restore"}
    BY <1>2 DEF PhaseInv, TasksOf
  <2> QED
    BY <2>1, <2>2 DEF RestoreInv, Alone
<1>3. ASSUME NEW d \in Devices, NEW p \in Paths,
             PushSend(d, p) \/ DeleteCheck(d, p) \/ DeleteCopy(d, p) \/ DeleteObject(d, p)
      PROVE FALSE
  <2>1. task[d][p] \notin {"none", "restore"}
    BY <1>3 DEF PushSend, DeleteCheck, DeleteCopy, DeleteObject
  <2>2. Done(d, p) \/ \E t \in {"head", "none", "copy", "erase"} : Becomes(d, p, t)
    BY <1>3 DEF PushSend, DeleteCheck, DeleteCopy, DeleteObject
  <2>3. task[e][q] = "restore"
    <3>1. CASE Done(d, p)
      BY <3>1 DEF Done, TypeOK
    <3>2. ASSUME NEW t \in {"head", "none", "copy", "erase"}, Becomes(d, p, t)
          PROVE  task[e][q] = "restore"
      BY <3>2 DEF Becomes, TypeOK
    <3> QED
      BY <2>2, <3>1, <3>2
  <2> QED
    BY <1>2, <2>1, <2>3
<1>4. ASSUME NEW d \in Devices, RestoreStart(d) PROVE ~Exists(remote'[q])
  <2>1. UNCHANGED remote
    BY <1>4 DEF RestoreStart
  <2>2. CASE e # d
    BY <1>4, <2>1, <2>2, RestorePlan DEF RestoreInv, Exists
  <2>3. CASE e = d
    <3>1. Exists(seen'[d][q])
      BY <1>4, <2>3, RestorePlan
    <3>2. seen'[d][q] # Gone
      BY <3>1 DEF Exists, Gone
    <3>3. \E b \in bin : b.path = q /\ Restorable(b)
      BY <1>4, <3>2, RestorePlan
    <3> QED
      BY <2>1, <3>3 DEF Restorable, Exists
  <2> QED
    BY <2>2, <2>3
<1>5. ASSUME NEW d \in Devices, NEW p \in Paths, RestoreCopy(d, p) PROVE ~Exists(remote'[q])
  <2>1. Done(d, p) /\ task[d][p] = "restore"
    BY <1>5 DEF RestoreCopy
  <2>2. task[e][q] = "restore" /\ (e # d \/ q # p)
    BY <2>1 DEF Done, TypeOK
  <2>3. cmd[d] # "idle" /\ cmd[e] # "idle"
    BY <2>1, <2>2 DEF PhaseInv, TasksOf
  <2>4. q # p
    BY <2>2, <2>3 DEF RestoreInv, Alone
  <2>5. remote'[q] = remote[q]
    BY <1>5, <2>4 DEF RestoreCopy, TypeOK
  <2> QED
    BY <2>2, <2>5 DEF RestoreInv, Exists
<1> QED
  BY <1>1, <1>3, <1>4, <1>5, MostMoveNothing

-----------------------------------------------------------------------------
(* The state file, and local work *)

\* Whatever the store holds, and whatever a device holds besides its files,
\* has been uploaded; so has a file that a pull has just written.
StorePublished ==
    /\ \A p \in Paths : remote[p].data \subseteq published
    /\ \A b \in bin : b.data \subseteq published

DevicePublished(d, p) ==
    /\ saved[d][p].hash \subseteq published
    /\ mem[d][p].hash \subseteq published
    /\ seen[d][p].data \subseteq published
    /\ union[d][p].hash \subseteq published
    /\ \A i \in 1..Len(sidecars[d][p]) : sidecars[d][p][i] \subseteq published
    /\ task[d][p] = "rehash" => disk[d][p].data \subseteq published

PublishedInv == StorePublished /\ \A d \in Devices, p \in Paths : DevicePublished(d, p)

\* A step that brings nothing new to what device d holds of p.
Plain(d, p) ==
    /\ saved'[d][p] \in {saved[d][p], mem[d][p]}
    /\ mem'[d][p] \in {mem[d][p], saved[d][p], Untracked}
    /\ seen'[d][p] \in {seen[d][p], remote[p], Gone}
    /\ union'[d][p] \in {union[d][p], NoMerge}
    /\ sidecars'[d][p] = sidecars[d][p]
    /\ task'[d][p] = "rehash" => task[d][p] = "rehash" /\ disk'[d][p] \in {disk[d][p], NoFile}

PlainStep ==
    /\ UNCHANGED <<published, bin>>
    /\ \A p \in Paths : remote'[p] \in {remote[p], Gone}
    /\ \A d \in Devices, p \in Paths : Plain(d, p)

LEMMA PlainPublished ==
    ASSUME PublishedInv, NEW d \in Devices, NEW p \in Paths, Plain(d, p), published \subseteq published'
    PROVE  DevicePublished(d, p)'
<1>1. DevicePublished(d, p) /\ remote[p].data \subseteq published
  BY DEF PublishedInv, StorePublished
<1>2. saved'[d][p].hash \subseteq published'
  BY <1>1 DEF Plain, DevicePublished
<1>3. mem'[d][p].hash \subseteq published'
  BY <1>1 DEF Plain, DevicePublished, Untracked
<1>4. seen'[d][p].data \subseteq published'
  BY <1>1 DEF Plain, DevicePublished, Gone
<1>5. \A i \in 1..Len(sidecars'[d][p]) : sidecars'[d][p][i] \subseteq published'
  BY <1>1 DEF Plain, DevicePublished
<1>7. union'[d][p].hash \subseteq published'
  BY <1>1 DEF Plain, DevicePublished, NoMerge
<1>6. task'[d][p] = "rehash" => disk'[d][p].data \subseteq published'
  BY <1>1 DEF Plain, DevicePublished, NoFile
<1> QED
  BY <1>2, <1>3, <1>4, <1>5, <1>6, <1>7 DEF DevicePublished

LEMMA PlainStepPublished == ASSUME PublishedInv, PlainStep PROVE PublishedInv'
<1>1. StorePublished'
  BY DEF PlainStep, PublishedInv, StorePublished, Gone
<1>2. \A d \in Devices, p \in Paths : DevicePublished(d, p)'
  BY PlainPublished DEF PlainStep
<1> QED
  BY <1>1, <1>2 DEF PublishedInv

LEMMA DonePlain ==
    ASSUME TypeOK, NEW d \in Devices, NEW p \in Paths, Done(d, p) \/ \E t \in Tasks \ {"rehash"} : Becomes(d, p, t)
    PROVE  \A e \in Devices, q \in Paths :
             task'[e][q] = task[e][q] \/ (e = d /\ q = p /\ task'[e][q] # "rehash")
<1>1. CASE Done(d, p)
  BY <1>1 DEF Done, TypeOK
<1>2. ASSUME NEW t \in Tasks \ {"rehash"}, Becomes(d, p, t)
      PROVE \A e \in Devices, q \in Paths :
              task'[e][q] = task[e][q] \/ (e = d /\ q = p /\ task'[e][q] # "rehash")
  BY <1>2 DEF Becomes, TypeOK
<1> QED
  BY <1>1, <1>2

\* While nobody edits under a running command, a file is edited only when its
\* device has no task for it.
LEMMA EditsWhenIdle ==
    ASSUME TypeOK, PhaseInv, "Quiet" \in Discipline, NEW d \in Devices, NEW p \in Paths,
           Edit(d, p)
    PROVE  /\ \A q \in Paths : task[d][q] = "none"
           /\ \A e \in Devices, q \in Paths : e # d => disk'[e][q] = disk[e][q]
           /\ UNCHANGED <<sidecars, saved, mem, command, store, published, pulled>>
<1>1. cmd[d] = "idle"
  BY DEF Edit, Undisturbed
<1>2. \A e \in Devices, q \in Paths : e # d => disk'[e][q] = disk[e][q]
  BY DEF Edit, TypeOK
<1>3. UNCHANGED <<sidecars, saved, mem, command, store, published, pulled>>
  BY DEF Edit, command, store
<1> QED
  BY <1>1, <1>2, <1>3 DEF PhaseInv, TasksOf

\* A deletion, which may come at any time, leaves a file as it is or no file.
LEMMA DeletesLeaveNothing ==
    ASSUME TypeOK, NEW d \in Devices, NEW p \in Paths, Delete(d, p)
    PROVE  /\ disk'[d][p] = NoFile
           /\ \A e \in Devices, q \in Paths : disk'[e][q] \in {disk[e][q], NoFile}
           /\ UNCHANGED <<sidecars, saved, mem, command, store, published, pulled>>
  BY DEF Delete, TypeOK

\* Every step but ten is plain.
LEMMA MostStepsPlain ==
    ASSUME TypeOK, PhaseInv, "Quiet" \in Discipline, [Next]_vars
    PROVE  \/ PlainStep
           \/ \E d \in Devices : RestoreStart(d)
           \/ \E d \in Devices, p \in Paths :
                \/ PushSend(d, p) \/ PushRecord(d, p) \/ DeleteCopy(d, p)
                \/ PullConflict(d, p) \/ PullWrite(d, p) \/ PullRecord(d, p)
                \/ PullMerge(d, p) \/ PullUnion(d, p) \/ RestoreCopy(d, p)
                \/ \E i \in 1..Len(sidecars[d][p]) : KeepLocal(d, p, i) \/ KeepRemote(d, p, i)
<1> USE DEF device, command, store, history
<1>1. CASE UNCHANGED <<device, command, store, published>>
  BY <1>1 DEF PlainStep, Plain
<1>2. ASSUME NEW d \in Devices, NEW p \in Paths, Edit(d, p) \/ Delete(d, p) PROVE PlainStep
  <2>1. CASE Edit(d, p)
    BY <2>1, EditsWhenIdle DEF PlainStep, Plain
  <2>2. CASE Delete(d, p)
    BY <2>2, DeletesLeaveNothing DEF PlainStep, Plain
  <2> QED
    BY <1>2, <2>1, <2>2
<1>3. ASSUME NEW d \in Devices, PushStart(d) PROVE PlainStep
  <2>1. UNCHANGED <<device, seen, union, remote, bin, published>>
    BY <1>3 DEF PushStart
  <2>2. PICK force \in {FALSE} \cup {"Force" \in Events} :
          task' = [task EXCEPT ![d] = [p \in Paths |-> PushTask(d, p, force)]]
    BY <1>3 DEF PushStart
  <2>3. \A p \in Paths : PushTask(d, p, force) # "rehash"
    BY DEF PushTask
  <2> QED
    BY <2>1, <2>2, <2>3 DEF PlainStep, Plain, TypeOK
<1>4. ASSUME NEW d \in Devices, NEW p \in Paths,
             PushSendFails(d, p) \/ DeleteFails(d, p) \/ PullStepFails(d, p)
      PROVE PlainStep
  <2>1. UNCHANGED <<device, seen, union, remote, bin, published>> /\ Done(d, p)
    BY <1>4 DEF PushSendFails, DeleteFails, PullStepFails
  <2> QED
    BY <2>1, DonePlain DEF PlainStep, Plain
<1>5. ASSUME NEW d \in Devices, PushList(d) PROVE PlainStep
  <2>1. UNCHANGED <<union, device, remote, bin, published>>
    BY <1>5 DEF PushList
  <2>2. \A e \in Devices, p \in Paths : seen'[e][p] \in {seen[e][p], remote[p]}
    <3>1. UNCHANGED seen \/ seen' = [seen EXCEPT ![d] = remote]
      BY <1>5 DEF PushList
    <3>2. CASE UNCHANGED seen
      BY <3>2
    <3>3. CASE seen' = [seen EXCEPT ![d] = remote]
      BY <3>3 DEF TypeOK
    <3> QED
      BY <3>1, <3>2, <3>3
  <2>3. \A e \in Devices, p \in Paths : task'[e][p] \in {task[e][p], "none"}
    <3>1. UNCHANGED task \/ task' = [task EXCEPT ![d] = [p \in Paths |-> "none"]]
      BY <1>5 DEF PushList
    <3>2. CASE UNCHANGED task
      BY <3>2
    <3>3. CASE task' = [task EXCEPT ![d] = [p \in Paths |-> "none"]]
      BY <3>3 DEF TypeOK
    <3> QED
      BY <3>1, <3>2, <3>3
  <2> QED
    BY <2>1, <2>2, <2>3 DEF PlainStep, Plain
<1>6. ASSUME NEW d \in Devices, NEW p \in Paths, DeleteCheck(d, p) PROVE PlainStep
  <2>1. UNCHANGED <<union, disk, sidecars, saved, remote, bin, published>>
    BY <1>6 DEF DeleteCheck
  <2>2. CASE ~Exists(seen[d][p])
    <3>1. Done(d, p) /\ UNCHANGED seen /\ mem' = [mem EXCEPT ![d][p] = Untracked]
      BY <1>6, <2>2 DEF DeleteCheck
    <3>2. \A e \in Devices, q \in Paths : mem'[e][q] \in {mem[e][q], Untracked}
      BY <3>1 DEF TypeOK
    <3> QED
      BY <2>1, <3>1, <3>2, DonePlain DEF PlainStep, Plain
  <2>3. CASE Exists(seen[d][p])
    <3>1. UNCHANGED mem /\ \E obj \in {remote[p], seen[d][p]} :
             /\ seen' = [seen EXCEPT ![d][p] = obj]
             /\ Becomes(d, p, IF Replaced(d, p, obj) THEN "none" ELSE "copy")
      BY <1>6, <2>3 DEF DeleteCheck, OutcomeOf
    <3>2. \E t \in Tasks \ {"rehash"} : Becomes(d, p, t)
      BY <3>1 DEF Tasks
    <3>3. \A e \in Devices, q \in Paths : seen'[e][q] \in {seen[e][q], remote[q]}
      BY <3>1 DEF TypeOK
    <3> QED
      BY <2>1, <3>1, <3>2, <3>3, DonePlain DEF PlainStep, Plain
  <2> QED
    BY <2>2, <2>3
<1>7. ASSUME NEW d \in Devices, NEW p \in Paths, DeleteObject(d, p) PROVE PlainStep
  <2>1. UNCHANGED <<disk, sidecars, saved, seen, union, bin, published>> /\ Done(d, p)
    BY <1>7 DEF DeleteObject
  <2>2. \A q \in Paths : remote'[q] \in {remote[q], Gone}
    BY <1>7 DEF DeleteObject, TypeOK
  <2>3. \A e \in Devices, q \in Paths : mem'[e][q] \in {mem[e][q], Untracked}
    <3>1. UNCHANGED mem \/ mem' = [mem EXCEPT ![d][p] = Untracked]
      BY <1>7 DEF DeleteObject
    <3>2. CASE UNCHANGED mem
      BY <3>2
    <3>3. CASE mem' = [mem EXCEPT ![d][p] = Untracked]
      BY <3>3 DEF TypeOK
    <3> QED
      BY <3>1, <3>2, <3>3
  <2> QED
    BY <2>1, <2>2, <2>3, DonePlain DEF PlainStep, Plain
<1>8. ASSUME NEW d \in Devices,
             \/ PushFinish(d) \/ PullFinish(d) \/ RestoreFinish(d) \/ Crash(d)
             \/ \E p \in Paths : PullPanics(d, p)
      PROVE PlainStep
  <2>1. Reset(d) /\ UNCHANGED <<sidecars, remote, bin, published>>
    BY <1>8 DEF PushFinish, PullFinish, RestoreFinish, Crash, PullPanics
  <2>2. \A e \in Devices, p \in Paths :
          mem'[e][p] \in {mem[e][p], saved[e][p]} /\ saved'[e][p] \in {saved[e][p], mem[e][p]}
    BY <1>8 DEF PushFinish, PullFinish, RestoreFinish, Crash, PullPanics, TypeOK
  <2>3. \A e \in Devices, p \in Paths : seen'[e][p] \in {seen[e][p], Gone}
    BY <2>1 DEF Reset, TypeOK
  <2>4. \A e \in Devices, p \in Paths : task'[e][p] \in {task[e][p], "none"}
    BY <2>1 DEF Reset, TypeOK
  <2>5. UNCHANGED disk
    BY <1>8 DEF PushFinish, PullFinish, RestoreFinish, Crash, PullPanics
  <2>6. \A e \in Devices, p \in Paths : union'[e][p] \in {union[e][p], NoMerge}
    BY <2>1 DEF Reset, TypeOK
  <2> QED
    BY <2>1, <2>2, <2>3, <2>4, <2>5, <2>6 DEF PlainStep, Plain
<1>9. ASSUME NEW d \in Devices, PullStart(d) PROVE PlainStep
  <2>1. UNCHANGED <<union, device, remote, bin, published>>
    BY <1>9 DEF PullStart
  <2>2. \A e \in Devices, p \in Paths : seen'[e][p] \in {seen[e][p], remote[p]}
    BY <1>9 DEF PullStart, TypeOK
  <2>3. \A p \in Paths : PullTask(d, p) # "rehash"
    BY DEF PullTask
  <2>4. \A e \in Devices, p \in Paths : task'[e][p] = task[e][p] \/ task'[e][p] # "rehash"
    BY <1>9, <2>3 DEF PullStart, TypeOK
  <2> QED
    BY <2>1, <2>2, <2>4 DEF PlainStep, Plain
<1>10. ASSUME NEW d \in Devices, PullScan(d) PROVE PlainStep
  <2>1. UNCHANGED <<device, seen, union, remote, bin, published>>
    BY <1>10 DEF PullScan
  <2>2. \A e \in Devices, p \in Paths : task'[e][p] = task[e][p] \/ task'[e][p] # "rehash"
    BY <1>10 DEF PullScan, TypeOK
  <2> QED
    BY <2>1, <2>2 DEF PlainStep, Plain
<1>11. ASSUME NEW d \in Devices, NEW p \in Paths, PullTrash(d, p) PROVE PlainStep
  <2>1. UNCHANGED <<sidecars, saved, seen, union, remote, bin, published>> /\ Done(d, p)
    BY <1>11 DEF PullTrash
  <2>2. \A e \in Devices, q \in Paths : e # d \/ q # p => disk'[e][q] = disk[e][q]
    BY <1>11 DEF PullTrash, TypeOK
  <2>3. \A e \in Devices, q \in Paths : mem'[e][q] \in {mem[e][q], Untracked}
    BY <1>11 DEF PullTrash, TypeOK
  <2>4. task'[d][p] = "none"
    BY <2>1 DEF Done, TypeOK
  <2> QED
    BY <2>1, <2>2, <2>3, <2>4, DonePlain DEF PlainStep, Plain
<1>12. ASSUME NEW d \in Devices, NEW p \in Paths, RestoreFails(d, p) PROVE PlainStep
  <2>1. UNCHANGED <<union, device, remote, bin, published>> /\ Done(d, p)
    BY <1>12 DEF RestoreFails
  <2>2. \A e \in Devices, q \in Paths : seen'[e][q] \in {seen[e][q], Gone}
    BY <1>12 DEF RestoreFails, TypeOK
  <2> QED
    BY <2>1, <2>2, DonePlain DEF PlainStep, Plain
<1> QED
  BY <1>1, <1>2, <1>3, <1>4, <1>5, <1>6, <1>7, <1>8, <1>9, <1>10, <1>11, <1>12
  DEF Next, User, Push, Pull, Resolve, Restore, vars, PullEmpty

\* What is left of the sidecars, or has been added to them, has been uploaded.
LEMMA RemovedSidecar ==
    ASSUME NEW S, NEW s \in Seq(S), NEW k \in 1..Len(s), NEW P, \A i \in 1..Len(s) : s[i] \in P
    PROVE  \A i \in 1..Len(RemoveAt(s, k)) : RemoveAt(s, k)[i] \in P
<1> DEFINE before == SubSeq(s, 1, k - 1)
           after == SubSeq(s, k + 1, Len(s))
<1>1. before \in Seq(S) /\ \A i \in 1..Len(before) : before[i] \in P
  OBVIOUS
<1>2. after \in Seq(S) /\ \A i \in 1..Len(after) : after[i] \in P
  OBVIOUS
<1> HIDE DEF before, after
<1>3. \A i \in 1..Len(before \o after) : (before \o after)[i] \in P
  BY <1>1, <1>2
<1> QED
  BY <1>3 DEF RemoveAt, before, after

LEMMA AddedSidecar ==
    ASSUME NEW S, NEW s \in Seq(S), NEW v \in S, NEW P, v \in P, \A i \in 1..Len(s) : s[i] \in P
    PROVE  \A i \in 1..Len(Append(s, v)) : Append(s, v)[i] \in P
  OBVIOUS

LEMMA InitPublished == Init => PublishedInv
  BY DEF Init, PublishedInv, StorePublished, DevicePublished, Gone, Untracked, NoMerge

LEMMA StepPublished ==
    ASSUME TypeOK, PhaseInv, "Quiet" \in Discipline, PublishedInv, [Next]_vars
    PROVE  PublishedInv'
<1> USE DEF device, command, store, history
<1>1. CASE PlainStep
  BY <1>1, PlainStepPublished
<1>2. ASSUME NEW d \in Devices, NEW p \in Paths, PushSend(d, p) PROVE PublishedInv'
  <2> DEFINE object == Stamped(disk[d][p].data, clock + 1)
  <2>1. /\ remote' = [remote EXCEPT ![p] = object] /\ published' = published \cup object.data
        /\ seen' = [seen EXCEPT ![d][p] = object] /\ UNCHANGED <<union, device, bin>>
    BY <1>2 DEF PushSend
  <2> HIDE DEF object
  <2>2. Done(d, p) \/ \E t \in Tasks \ {"rehash"} : Becomes(d, p, t)
    BY <1>2 DEF PushSend, Tasks
  <2>3. \A e \in Devices, q \in Paths :
          task'[e][q] = task[e][q] \/ (e = d /\ q = p /\ task'[e][q] # "rehash")
    BY <2>2, DonePlain
  <2>4. StorePublished'
    BY <2>1 DEF PublishedInv, StorePublished, TypeOK
  <2>5. ASSUME NEW e \in Devices, NEW q \in Paths PROVE DevicePublished(e, q)'
    <3>1. seen'[e][q] \in {seen[e][q], object}
      BY <2>1 DEF TypeOK
    <3>2. task'[e][q] = "rehash" => task[e][q] = "rehash"
      BY <2>3
    <3> QED
      BY <2>1, <3>1, <3>2 DEF PublishedInv, DevicePublished
  <2> QED
    BY <2>4, <2>5 DEF PublishedInv
<1>3. ASSUME NEW d \in Devices, NEW p \in Paths, PushRecord(d, p) \/ PullRecord(d, p)
      PROVE PublishedInv'
  <2>1. UNCHANGED <<disk, sidecars, saved, seen, union, remote, bin, published>> /\ Done(d, p)
    BY <1>3 DEF PushRecord, PullRecord
  <2>2. UNCHANGED mem \/ \E e \in [hash : SUBSET published, ver : Time, time : Time] :
                             mem' = [mem EXCEPT ![d][p] = e]
    <3>1. seen[d][p].data \subseteq published
      BY DEF PublishedInv, DevicePublished
    <3>2. CASE PullRecord(d, p)
      <4>1. disk[d][p].data \subseteq published
        BY <3>2 DEF PullRecord, PublishedInv, DevicePublished
      <4> DEFINE e == [hash |-> disk[d][p].data, ver |-> seen[d][p].ver, time |-> seen[d][p].time]
      <4>2. e \in [hash : SUBSET published, ver : Time, time : Time]
        BY <4>1 DEF TypeOK, Object
      <4>3. mem' = [mem EXCEPT ![d][p] = e]
        BY <3>2 DEF PullRecord
      <4> QED
        BY <4>2, <4>3
    <3>3. CASE PushRecord(d, p)
      <4>1. UNCHANGED mem \/ \E ver \in {remote[p].ver} \cup OutcomeOf("HeadFails", 0) :
               mem' = [mem EXCEPT ![d][p] = [hash |-> seen[d][p].data, ver |-> ver, time |-> clock]]
        BY <3>3 DEF PushRecord
      <4>2. \A ver \in {remote[p].ver} \cup OutcomeOf("HeadFails", 0) : ver \in Time
        BY NumberType DEF OutcomeOf, TypeOK, Object
      <4> QED
        BY <3>1, <4>1, <4>2 DEF TypeOK
    <3> QED
      BY <1>3, <3>2, <3>3
  <2>3. \A e \in Devices, q \in Paths : mem'[e][q] = mem[e][q] \/ mem'[e][q].hash \subseteq published
    <3>1. CASE UNCHANGED mem
      BY <3>1
    <3>2. ASSUME NEW e \in [hash : SUBSET published, ver : Time, time : Time],
                 mem' = [mem EXCEPT ![d][p] = e]
          PROVE  \A c \in Devices, q \in Paths : mem'[c][q] = mem[c][q] \/ mem'[c][q].hash \subseteq published
      BY <3>2 DEF TypeOK
    <3> QED
      BY <2>2, <3>1, <3>2
  <2>4. ASSUME NEW e \in Devices, NEW q \in Paths PROVE DevicePublished(e, q)'
    <3>1. task'[e][q] = "rehash" => task[e][q] = "rehash"
      BY <2>1, DonePlain
    <3> QED
      BY <2>1, <2>3, <3>1 DEF PublishedInv, DevicePublished
  <2> QED
    BY <2>1, <2>4 DEF PublishedInv, StorePublished
<1>4. ASSUME NEW d \in Devices, NEW p \in Paths, DeleteCopy(d, p) PROVE PublishedInv'
  <2>1. /\ UNCHANGED <<device, seen, union, remote, published>>
        /\ Done(d, p) \/ \E t \in Tasks \ {"rehash"} : Becomes(d, p, t)
    BY <1>4 DEF DeleteCopy, Tasks
  <2>2. bin' \subseteq bin \cup {[path |-> p, data |-> remote[p].data, ver |-> remote[p].ver]}
    BY <1>4 DEF DeleteCopy
  <2>3. StorePublished'
    BY <2>1, <2>2 DEF PublishedInv, StorePublished
  <2>4. \A e \in Devices, q \in Paths : Plain(e, q)
    BY <2>1, DonePlain DEF Plain
  <2> QED
    BY <2>1, <2>3, <2>4, PlainPublished DEF PublishedInv
<1>5. ASSUME NEW d \in Devices, NEW p \in Paths, PullConflict(d, p) PROVE PublishedInv'
  <2>1. /\ UNCHANGED <<disk, saved, mem, seen, union, store, published>> /\ Done(d, p)
        /\ sidecars' = [sidecars EXCEPT ![d][p] = Append(@, remote[p].data)]
    BY <1>5 DEF PullConflict
  <2>2. StorePublished'
    BY <2>1 DEF PublishedInv, StorePublished
  <2>3. ASSUME NEW e \in Devices, NEW q \in Paths, e # d \/ q # p PROVE Plain(e, q)
    BY <2>1, <2>3, DonePlain DEF Plain, TypeOK
  <2>4. DevicePublished(d, p)'
    <3>1. sidecars'[d][p] = Append(sidecars[d][p], remote[p].data) /\ task'[d][p] = "none"
      BY <2>1 DEF Done, TypeOK
    <3>2. sidecars[d][p] \in Seq(Content) /\ remote[p].data \in Content
      BY DEF TypeOK, Object
    <3>3. remote[p].data \in SUBSET published
          /\ \A i \in 1..Len(sidecars[d][p]) : sidecars[d][p][i] \in SUBSET published
      BY DEF PublishedInv, StorePublished, DevicePublished
    <3>4. \A i \in 1..Len(sidecars'[d][p]) : sidecars'[d][p][i] \in SUBSET published
      BY <3>1, <3>2, <3>3, AddedSidecar
    <3> QED
      BY <2>1, <3>1, <3>4 DEF PublishedInv, DevicePublished
  <2> QED
    BY <2>1, <2>2, <2>3, <2>4, PlainPublished DEF PublishedInv
<1>6. ASSUME NEW d \in Devices, NEW p \in Paths, PullWrite(d, p) PROVE PublishedInv'
  <2>1. UNCHANGED <<sidecars, saved, mem, seen, union, store, published>> /\ Becomes(d, p, "rehash")
    BY <1>6 DEF PullWrite
  <2>2. disk'[d][p].data = remote[p].data
        /\ \A e \in Devices, q \in Paths : e # d \/ q # p => disk'[e][q] = disk[e][q]
    BY <1>6 DEF PullWrite, TypeOK
  <2>3. StorePublished'
    BY <2>1 DEF PublishedInv, StorePublished
  <2>4. ASSUME NEW e \in Devices, NEW q \in Paths, e # d \/ q # p PROVE Plain(e, q)
    BY <2>1, <2>2, <2>4 DEF Plain, Becomes, TypeOK
  <2>5. DevicePublished(d, p)'
    BY <2>1, <2>2 DEF PublishedInv, StorePublished, DevicePublished
  <2> QED
    BY <2>1, <2>3, <2>4, <2>5, PlainPublished DEF PublishedInv
<1>7. ASSUME NEW d \in Devices, NEW p \in Paths, NEW k \in 1..Len(sidecars[d][p]),
             KeepLocal(d, p, k) \/ KeepRemote(d, p, k)
      PROVE PublishedInv'
  <2>1. /\ UNCHANGED <<command, store, published>> /\ cmd[d] = "idle"
        /\ sidecars' = [sidecars EXCEPT ![d][p] = RemoveAt(@, k)]
        /\ Resolved(d, p, sidecars[d][p][k]) \/ UNCHANGED <<mem, saved>>
    BY <1>7 DEF KeepLocal, KeepRemote, MayStart
  <2>2. \A e \in Devices, q \in Paths : e # d => disk'[e][q] = disk[e][q]
    BY <1>7 DEF KeepLocal, KeepRemote, TypeOK
  <2>3. \A i \in 1..Len(sidecars[d][p]) : sidecars[d][p][i] \in SUBSET published
    BY DEF PublishedInv, DevicePublished
  <2>4. \A e \in Devices, q \in Paths : \A i \in 1..Len(sidecars'[e][q]) : sidecars'[e][q][i] \subseteq published
    <3>1. \A e \in Devices, q \in Paths : e # d \/ q # p => sidecars'[e][q] = sidecars[e][q]
      BY <2>1 DEF TypeOK
    <3>2. sidecars'[d][p] = RemoveAt(sidecars[d][p], k) /\ sidecars[d][p] \in Seq(Content)
      BY <2>1 DEF TypeOK
    <3>3. \A i \in 1..Len(sidecars'[d][p]) : sidecars'[d][p][i] \in SUBSET published
      BY <2>3, <3>2, RemovedSidecar
    <3> QED
      BY <3>1, <3>3 DEF PublishedInv, DevicePublished
  <2>5. \A e \in Devices, q \in Paths :
          mem'[e][q].hash \subseteq published /\ saved'[e][q].hash \subseteq published
    <3>1. CASE UNCHANGED <<mem, saved>>
      BY <3>1 DEF PublishedInv, DevicePublished
    <3>2. CASE /\ mem' = [mem EXCEPT ![d][p] = [hash |-> sidecars[d][p][k], ver |-> @.ver, time |-> clock]]
               /\ saved' = [saved EXCEPT ![d] = mem'[d]]
      <4>1. \A e \in Devices, q \in Paths : mem'[e][q].hash \subseteq published
        BY <2>3, <3>2 DEF PublishedInv, DevicePublished, TypeOK
      <4>2. \A e \in Devices, q \in Paths : saved'[e][q] = saved[e][q] \/ saved'[e][q] = mem'[e][q]
        BY <3>2 DEF TypeOK
      <4> QED
        BY <4>1, <4>2 DEF PublishedInv, DevicePublished
    <3> QED
      BY <2>1, <3>1, <3>2 DEF Resolved
  <2>6. \A e \in Devices, q \in Paths : task[e][q] = "rehash" => e # d
    BY <2>1 DEF PhaseInv, TasksOf
  <2>7. \A e \in Devices, q \in Paths : DevicePublished(e, q)'
    BY <2>1, <2>2, <2>4, <2>5, <2>6 DEF PublishedInv, DevicePublished
  <2> QED
    BY <2>1, <2>7 DEF PublishedInv, StorePublished
<1>8. ASSUME NEW d \in Devices, RestoreStart(d) PROVE PublishedInv'
  <2>1. UNCHANGED <<union, device, store, published>>
    BY <1>8 DEF RestoreStart
  <2>2. \A e \in Devices \ {d} : task'[e] = task[e] /\ seen'[e] = seen[e]
    BY <1>8, RestorePlan
  <2>3. ASSUME NEW p \in Paths PROVE seen'[d][p].data \subseteq published
    <3>1. CASE seen'[d][p] = Gone
      BY <3>1 DEF Gone
    <3>2. ASSUME NEW b \in bin, seen'[d][p] = [data |-> b.data, ver |-> b.ver, time |-> 0]
          PROVE  seen'[d][p].data \subseteq published
      BY <3>2 DEF PublishedInv, StorePublished
    <3> QED
      BY <1>8, <3>1, <3>2, RestorePlan
  <2>4. \A p \in Paths : task'[d][p] # "rehash"
    BY <1>8, RestorePlan
  <2> QED
    BY <2>1, <2>2, <2>3, <2>4 DEF PublishedInv, StorePublished, DevicePublished
<1>9. ASSUME NEW d \in Devices, NEW p \in Paths, RestoreCopy(d, p) PROVE PublishedInv'
  <2>1. UNCHANGED <<union, device, bin, published>> /\ Done(d, p)
    BY <1>9 DEF RestoreCopy
  <2>2. \A q \in Paths : remote'[q] = remote[q] \/ remote'[q].data = seen[d][p].data
    BY <1>9 DEF RestoreCopy, TypeOK
  <2>3. StorePublished'
    BY <2>1, <2>2 DEF PublishedInv, StorePublished, DevicePublished
  <2>4. \A e \in Devices, q \in Paths : seen'[e][q] \in {seen[e][q], Gone}
    BY <1>9 DEF RestoreCopy, TypeOK
  <2>5. \A e \in Devices, q \in Paths : Plain(e, q)
    BY <2>1, <2>4, DonePlain DEF Plain
  <2> QED
    BY <2>1, <2>3, <2>5, PlainPublished DEF PublishedInv
<1>10. ASSUME NEW d \in Devices, NEW p \in Paths, PullMerge(d, p) PROVE PublishedInv'
  <2>1. UNCHANGED <<device, seen, store, published>> /\ Becomes(d, p, "write")
    BY <1>10 DEF PullMerge
  <2>2. "write" \in Tasks \ {"rehash"}
    BY DEF Tasks
  <2>3. \A e \in Devices, q \in Paths : union'[e][q] = union[e][q] \/ union'[e][q].hash = remote[q].data
    BY <1>10 DEF PullMerge, Merged, TypeOK
  <2>4. \A e \in Devices, q \in Paths : task'[e][q] = "rehash" => task[e][q] = "rehash"
    BY <2>1, <2>2, DonePlain
  <2> QED
    BY <2>1, <2>3, <2>4 DEF PublishedInv, StorePublished, DevicePublished
<1>11. ASSUME NEW d \in Devices, NEW p \in Paths, PullUnion(d, p) PROVE PublishedInv'
  <2>1. UNCHANGED <<sidecars, saved, seen, store, published>> /\ Done(d, p)
    BY <1>11 DEF PullUnion
  <2>2. \A e \in Devices, q \in Paths : union'[e][q] \in {union[e][q], NoMerge}
    BY <1>11 DEF PullUnion, TypeOK
  <2>3. \A e \in Devices, q \in Paths : mem'[e][q] = mem[e][q] \/ mem'[e][q].hash = union[e][q].hash
    BY <1>11 DEF PullUnion, TypeOK
  <2>4. \A e \in Devices, q \in Paths : e # d \/ q # p => disk'[e][q] = disk[e][q]
    BY <1>11 DEF PullUnion, TypeOK
  <2>5. task'[d][p] = "none"
    BY <2>1 DEF Done, TypeOK
  <2>6. ASSUME NEW e \in Devices, NEW q \in Paths PROVE DevicePublished(e, q)'
    <3>1. task'[e][q] = "rehash" => task[e][q] = "rehash" /\ disk'[e][q] = disk[e][q]
      BY <2>1, <2>4, <2>5, DonePlain
    <3>2. union'[e][q].hash \subseteq published
      BY <2>2 DEF PublishedInv, DevicePublished, NoMerge
    <3>3. mem'[e][q].hash \subseteq published
      BY <2>3 DEF PublishedInv, DevicePublished
    <3> QED
      BY <2>1, <3>1, <3>2, <3>3 DEF PublishedInv, DevicePublished
  <2> QED
    BY <2>1, <2>6 DEF PublishedInv, StorePublished
<1> QED
  BY <1>1, <1>2, <1>3, <1>4, <1>5, <1>6, <1>7, <1>8, <1>9, <1>10, <1>11, MostStepsPlain

\* While nobody edits files under a running command, though files may be
\* deleted, state.json calls only uploaded content synced: for any number of
\* devices and paths, whatever overlaps, fails, crashes or is resolved, and
\* whatever the provider reports.
THEOREM SyncedIsPublished ==
    ASSUME "Quiet" \in Discipline PROVE Spec => []SyncedMeansPublished
<1>1. Init => TypeOK /\ PhaseInv /\ PublishedInv
  BY InitType, InitPhase, InitPublished
<1>2. TypeOK /\ PhaseInv /\ PublishedInv /\ [Next]_vars => TypeOK' /\ PhaseInv' /\ PublishedInv'
  BY StepType, StepPhase, StepPublished
<1>3. PublishedInv => SyncedMeansPublished
  BY DEF PublishedInv, DevicePublished, SyncedMeansPublished
<1> QED
  BY <1>1, <1>2, <1>3, PTL DEF Spec

-----------------------------------------------------------------------------
(* A pull replaces only what it has compared with state.json. *)

\* Between commands the state in memory is the one saved.
IdleSaved == \A d \in Devices : cmd[d] \in {"idle", "restore"} => mem[d] = saved[d]

\* A tracked file about to be replaced is still the one last synced, and one
\* about to be merged has nothing that the merge leaves out.
Untouched(d, p) ==
    /\ task[d][p] = "download" /\ Exists(disk[d][p]) /\ Tracked(mem[d][p]) =>
         disk[d][p].data = mem[d][p].hash
    /\ task[d][p] = "adopt" => ~Exists(disk[d][p])
    /\ task[d][p] = "write" => disk[d][p].data \subseteq union[d][p].data

DownloadInv == IdleSaved /\ \A d \in Devices, p \in Paths : Untouched(d, p)

\* The tasks before a file is replaced.
Replacing == {"download", "adopt", "write"}

\* Work on one file: a task other than a restore ends or goes on, and no other
\* file of the device, nor its saved state, changes.
Work(d, p) ==
    /\ task[d][p] \notin {"none", "restore"}
    /\ task'[d][p] \notin Replacing
    /\ UNCHANGED <<cmd, saved>>
    /\ \A e \in Devices, q \in Paths : e # d \/ q # p =>
         /\ task'[e][q] = task[e][q] /\ mem'[e][q] = mem[e][q]
         /\ disk'[e][q] = disk[e][q] /\ union'[e][q] = union[e][q]

\* The steps of push and pull on one file, but for the first of a merge.
FileStep(d, p) ==
    \/ PushSend(d, p) \/ PushSendFails(d, p) \/ PushRecord(d, p)
    \/ DeleteCheck(d, p) \/ DeleteCopy(d, p) \/ DeleteObject(d, p) \/ DeleteFails(d, p)
    \/ PullConflict(d, p) \/ PullWrite(d, p) \/ PullRecord(d, p) \/ PullUnion(d, p)
    \/ PullStepFails(d, p) \/ PullTrash(d, p)

LEMMA FileStepWorks ==
    ASSUME TypeOK, NEW d \in Devices, NEW p \in Paths, FileStep(d, p)
    PROVE  Work(d, p)
<1> USE DEF device, command, store, history
<1>1. task[d][p] \notin {"none", "restore"} /\ UNCHANGED <<cmd, saved>>
  BY DEF FileStep, PushSend, PushSendFails, PushRecord, DeleteCheck, DeleteCopy, DeleteObject, DeleteFails,
         PullConflict, PullWrite, PullRecord, PullUnion, PullStepFails, PullTrash
<1>2. Done(d, p) \/ \E t \in {"head", "none", "copy", "erase", "rehash"} : Becomes(d, p, t)
  BY DEF FileStep, PushSend, PushSendFails, PushRecord, DeleteCheck, DeleteCopy, DeleteObject, DeleteFails,
         PullConflict, PullWrite, PullRecord, PullUnion, PullStepFails, PullTrash
<1>3. UNCHANGED mem \/ \E e : mem' = [mem EXCEPT ![d][p] = e]
  BY DEF FileStep, PushSend, PushSendFails, PushRecord, DeleteCheck, DeleteCopy, DeleteObject, DeleteFails,
         PullConflict, PullWrite, PullRecord, PullUnion, PullStepFails, PullTrash
<1>4. UNCHANGED disk \/ \E f : disk' = [disk EXCEPT ![d][p] = f]
  BY DEF FileStep, PushSend, PushSendFails, PushRecord, DeleteCheck, DeleteCopy, DeleteObject, DeleteFails,
         PullConflict, PullWrite, PullRecord, PullUnion, PullStepFails, PullTrash
<1>5. \A e \in Devices, q \in Paths : e # d \/ q # p => mem'[e][q] = mem[e][q]
  BY <1>3 DEF TypeOK
<1>6. \A e \in Devices, q \in Paths : e # d \/ q # p => disk'[e][q] = disk[e][q]
  BY <1>4 DEF TypeOK
<1>7. \A e \in Devices, q \in Paths : e # d \/ q # p => task'[e][q] = task[e][q]
  BY <1>2 DEF Done, Becomes, TypeOK
<1>8. task'[d][p] \notin Replacing
  BY <1>2 DEF Done, Becomes, TypeOK, Replacing
<1>9. UNCHANGED union \/ \E u : union' = [union EXCEPT ![d][p] = u]
  BY DEF FileStep, PushSend, PushSendFails, PushRecord, DeleteCheck, DeleteCopy, DeleteObject, DeleteFails,
         PullConflict, PullWrite, PullRecord, PullUnion, PullStepFails, PullTrash
<1>10. \A e \in Devices, q \in Paths : e # d \/ q # p => union'[e][q] = union[e][q]
  BY <1>9 DEF TypeOK
<1> QED
  BY <1>1, <1>5, <1>6, <1>7, <1>8, <1>10 DEF Work

LEMMA InitDownload == Init => DownloadInv
  BY DEF Init, DownloadInv, IdleSaved, Untouched

LEMMA StepDownload ==
    ASSUME TypeOK, PhaseInv, "Quiet" \in Discipline, DownloadInv, [Next]_vars
    PROVE  DownloadInv'
<1> USE DEF device, command, store, history
\* What keeps a device's part of the invariant.
<1>0. ASSUME NEW d \in Devices, NEW p \in Paths,
             task'[d][p] \in Replacing => /\ task'[d][p] = task[d][p] /\ disk'[d][p] = disk[d][p]
                                          /\ mem'[d][p] = mem[d][p] /\ union'[d][p] = union[d][p]
      PROVE  Untouched(d, p)'
  BY <1>0 DEF DownloadInv, Untouched, Exists, Tracked, Replacing
<1>1. CASE UNCHANGED <<device, command>>
  BY <1>1 DEF DownloadInv, IdleSaved, Untouched, Exists, Tracked
<1>2. ASSUME NEW d \in Devices, NEW p \in Paths, Edit(d, p) \/ Delete(d, p) PROVE DownloadInv'
  <2>1. ASSUME NEW e \in Devices, NEW q \in Paths PROVE Untouched(e, q)'
    <3>1. CASE Edit(d, p)
      BY <1>0, <3>1, EditsWhenIdle DEF Replacing
    <3>2. CASE Delete(d, p)
      BY <3>2, DeletesLeaveNothing DEF DownloadInv, Untouched, Exists, Tracked, NoFile
    <3> QED
      BY <1>2, <3>1, <3>2
  <2>2. IdleSaved'
    BY <1>2, EditsWhenIdle, DeletesLeaveNothing DEF DownloadInv, IdleSaved
  <2> QED
    BY <2>1, <2>2 DEF DownloadInv
<1>3. ASSUME NEW d \in Devices, NEW p \in Paths, FileStep(d, p) PROVE DownloadInv'
  <2>1. Work(d, p)
    BY <1>3, FileStepWorks
  <2>2. ASSUME NEW e \in Devices, NEW q \in Paths PROVE Untouched(e, q)'
    <3>1. CASE e = d /\ q = p
      BY <1>0, <2>1, <3>1 DEF Work
    <3>2. CASE e # d \/ q # p
      BY <1>0, <2>1, <3>2 DEF Work
    <3> QED
      BY <3>1, <3>2
  <2>3. cmd[d] \notin {"idle", "restore"}
    BY <2>1 DEF Work, PhaseInv, TasksOf
  <2>4. ASSUME NEW e \in Devices, e # d PROVE mem'[e] = mem[e]
    <3>1. mem' \in [Devices -> [Paths -> Entry]]
      BY StepType DEF TypeOK
    <3> QED
      BY <2>1, <2>4, <3>1 DEF Work, TypeOK
  <2>5. IdleSaved'
    BY <2>1, <2>3, <2>4 DEF DownloadInv, IdleSaved, Work
  <2> QED
    BY <2>2, <2>5 DEF DownloadInv
<1>4. ASSUME NEW d \in Devices, Reset(d), UNCHANGED disk, mem'[d] = saved'[d],
             \A e \in Devices \ {d} : mem'[e] = mem[e] /\ saved'[e] = saved[e]
      PROVE DownloadInv'
  <2>1. \A e \in Devices \ {d} : cmd'[e] = cmd[e] /\ task'[e] = task[e] /\ union'[e] = union[e]
    BY <1>4 DEF Reset, TypeOK
  <2>2. \A p \in Paths : task'[d][p] = "none"
    BY <1>4 DEF Reset, TypeOK
  <2>3. ASSUME NEW e \in Devices, NEW q \in Paths PROVE Untouched(e, q)'
    BY <1>0, <1>4, <2>1, <2>2 DEF Replacing
  <2>4. IdleSaved'
    BY <1>4, <2>1 DEF DownloadInv, IdleSaved
  <2> QED
    BY <2>3, <2>4 DEF DownloadInv
<1>11. ASSUME NEW d \in Devices, NEW p \in Paths, PullMerge(d, p) PROVE DownloadInv'
  <2>1. UNCHANGED <<device, cmd>> /\ Becomes(d, p, "write")
    BY <1>11 DEF PullMerge
  <2>2. task'[d][p] = "write" /\ disk[d][p].data \subseteq union'[d][p].data
    <3>1. task'[d][p] = "write"
      BY <2>1 DEF Becomes, TypeOK
    <3>2. CASE task[d][p] = "merge"
      BY <1>11, <3>1, <3>2 DEF PullMerge, Merged, MergeJSONL, TypeOK
    <3>3. CASE task[d][p] = "adopt"
      BY <3>1, <3>3 DEF DownloadInv, Untouched, Exists
    <3> QED
      BY <1>11, <3>1, <3>2, <3>3 DEF PullMerge
  <2>3. Untouched(d, p)'
    BY <2>1, <2>2 DEF Untouched
  <2>4. ASSUME NEW e \in Devices, NEW q \in Paths, e # d \/ q # p PROVE Untouched(e, q)'
    <3>1. task'[e][q] = task[e][q] /\ union'[e][q] = union[e][q]
      BY <1>11, <2>1, <2>4 DEF PullMerge, Becomes, TypeOK
    <3> QED
      BY <1>0, <2>1, <3>1
  <2> QED
    BY <2>1, <2>3, <2>4 DEF DownloadInv, IdleSaved
<1>5. ASSUME NEW d \in Devices, PushFinish(d) \/ PullFinish(d) PROVE DownloadInv'
  <2>1. Reset(d) /\ UNCHANGED <<disk, mem>> /\ saved' = [saved EXCEPT ![d] = mem[d]]
    BY <1>5 DEF PushFinish, PullFinish
  <2>2. mem'[d] = saved'[d] /\ \A e \in Devices \ {d} : mem'[e] = mem[e] /\ saved'[e] = saved[e]
    BY <2>1 DEF TypeOK
  <2> QED
    BY <1>4, <2>1, <2>2
<1>6. ASSUME NEW d \in Devices, Crash(d) \/ \E p \in Paths : PullPanics(d, p) PROVE DownloadInv'
  <2>1. Reset(d) /\ UNCHANGED <<disk, saved>> /\ mem' = [mem EXCEPT ![d] = saved[d]]
    BY <1>6 DEF Crash, PullPanics
  <2>2. mem'[d] = saved'[d] /\ \A e \in Devices \ {d} : mem'[e] = mem[e] /\ saved'[e] = saved[e]
    BY <2>1 DEF TypeOK
  <2> QED
    BY <1>4, <2>1, <2>2
<1>7. ASSUME NEW d \in Devices, Restore(d) PROVE DownloadInv'
  <2>1. CASE RestoreFinish(d)
    <3>1. Reset(d) /\ UNCHANGED <<disk, mem, saved>> /\ cmd[d] = "restore"
      BY <2>1 DEF RestoreFinish
    <3>2. mem'[d] = saved'[d]
      BY <3>1 DEF DownloadInv, IdleSaved
    <3> QED
      BY <1>4, <3>1, <3>2
  <2>2. ASSUME NEW p \in Paths, RestoreCopy(d, p) \/ RestoreFails(d, p) PROVE DownloadInv'
    <3>1. UNCHANGED <<device, cmd, union>> /\ Done(d, p)
      BY <2>2 DEF RestoreCopy, RestoreFails
    <3>2. \A e \in Devices, q \in Paths : task'[e][q] \in Replacing => task'[e][q] = task[e][q]
      BY <3>1 DEF Done, TypeOK, Replacing
    <3>3. ASSUME NEW e \in Devices, NEW q \in Paths PROVE Untouched(e, q)'
      BY <1>0, <3>1, <3>2
    <3> QED
      BY <3>1, <3>3 DEF DownloadInv, IdleSaved
  <2> QED
    BY <1>7, <2>1, <2>2 DEF Restore
<1>8. ASSUME NEW d \in Devices, PushStart(d) \/ PushList(d) \/ PullScan(d) \/ RestoreStart(d)
      PROVE DownloadInv'
  <2>1. UNCHANGED <<device, union>>
    BY <1>8 DEF PushStart, PushList, PullScan, RestoreStart
  <2>2. \A e \in Devices, p \in Paths : task'[e][p] = task[e][p] \/ task'[e][p] \notin Replacing
    <3>1. CASE PushStart(d)
      <4>1. PICK force \in {FALSE} \cup {"Force" \in Events} :
              task' = [task EXCEPT ![d] = [p \in Paths |-> PushTask(d, p, force)]]
        BY <3>1 DEF PushStart
      <4>2. \A p \in Paths : PushTask(d, p, force) \notin Replacing
        BY DEF PushTask, Replacing
      <4> QED
        BY <4>1, <4>2 DEF TypeOK
    <3>2. CASE PushList(d)
      <4>1. UNCHANGED task \/ task' = [task EXCEPT ![d] = [p \in Paths |-> "none"]]
        BY <3>2 DEF PushList
      <4>2. CASE UNCHANGED task
        BY <4>2
      <4>3. CASE task' = [task EXCEPT ![d] = [p \in Paths |-> "none"]]
        BY <4>3 DEF TypeOK, Replacing
      <4> QED
        BY <4>1, <4>2, <4>3
    <3>3. CASE PullScan(d)
      BY <3>3 DEF PullScan, TypeOK, Replacing
    <3>4. CASE RestoreStart(d)
      BY <3>4, RestorePlan DEF Replacing
    <3> QED
      BY <1>8, <3>1, <3>2, <3>3, <3>4
  <2>3. \A e \in Devices : cmd'[e] \in {"idle", "restore"} => cmd[e] \in {"idle", "restore"}
    BY <1>8 DEF PushStart, PushList, PullScan, RestoreStart, MaySync, MayStart, TypeOK
  <2>4. ASSUME NEW e \in Devices, NEW q \in Paths PROVE Untouched(e, q)'
    BY <1>0, <2>1, <2>2
  <2> QED
    BY <2>1, <2>3, <2>4 DEF DownloadInv, IdleSaved
<1>9. ASSUME NEW d \in Devices, PullStart(d) PROVE DownloadInv'
  <2>1. UNCHANGED <<device, union>> /\ cmd[d] = "idle"
    BY <1>9 DEF PullStart, MaySync, MayStart
  <2>2. mem[d] = saved[d]
    BY <2>1 DEF DownloadInv, IdleSaved
  <2>3. \A e \in Devices \ {d} : task'[e] = task[e] /\ cmd'[e] = cmd[e]
    BY <1>9 DEF PullStart, TypeOK
  <2>4. ASSUME NEW p \in Paths PROVE Untouched(d, p)'
    <3>1. task'[d][p] = PullTask(d, p)
      BY <1>9 DEF PullStart, TypeOK
    <3>2. PullTask(d, p) = "download" /\ Exists(disk[d][p]) /\ Tracked(saved[d][p]) => ~LocallyChanged(d, p)
      BY DEF PullTask
    <3>3. PullTask(d, p) # "write" /\ (PullTask(d, p) = "adopt" => ~Exists(disk[d][p]))
      BY DEF PullTask
    <3> QED
      BY <2>1, <2>2, <3>1, <3>2, <3>3 DEF Untouched, LocallyChanged, Exists, Tracked
  <2>5. ASSUME NEW e \in Devices, NEW q \in Paths, e # d PROVE Untouched(e, q)'
    BY <1>0, <2>1, <2>3, <2>5
  <2>6. IdleSaved'
    BY <2>1, <2>2, <2>3 DEF DownloadInv, IdleSaved
  <2> QED
    BY <2>4, <2>5, <2>6 DEF DownloadInv
<1>10. ASSUME NEW d \in Devices, NEW p \in Paths, NEW k \in 1..Len(sidecars[d][p]),
              KeepLocal(d, p, k) \/ KeepRemote(d, p, k)
       PROVE DownloadInv'
  <2>1. UNCHANGED command /\ cmd[d] = "idle"
    BY <1>10 DEF KeepLocal, KeepRemote, MayStart
  <2>2. UNCHANGED <<mem, saved>> \/ \E e : mem' = [mem EXCEPT ![d][p] = e] /\ saved' = [saved EXCEPT ![d] = mem'[d]]
    BY <1>10 DEF KeepLocal, KeepRemote, Resolved
  <2>3. \A e \in Devices \ {d} : mem'[e] = mem[e] /\ saved'[e] = saved[e]
    BY <2>2 DEF TypeOK
  <2>4. mem'[d] = saved'[d]
    BY <2>1, <2>2 DEF TypeOK, DownloadInv, IdleSaved
  <2>5. \A e \in Devices \ {d} : disk'[e] = disk[e]
    BY <1>10 DEF KeepLocal, KeepRemote, TypeOK
  <2>6. \A q \in Paths : task[d][q] = "none"
    BY <2>1 DEF PhaseInv, TasksOf
  <2>7. ASSUME NEW e \in Devices, NEW q \in Paths PROVE Untouched(e, q)'
    BY <1>0, <2>1, <2>3, <2>5, <2>6 DEF Replacing
  <2>8. IdleSaved'
    BY <2>1, <2>3, <2>4 DEF DownloadInv, IdleSaved
  <2> QED
    BY <2>7, <2>8 DEF DownloadInv
<1> QED
  BY <1>1, <1>2, <1>3, <1>5, <1>6, <1>7, <1>8, <1>9, <1>10, <1>11
  DEF Next, User, Push, Pull, Resolve, FileStep, vars, PullEmpty

\* Who writes a file.
LEMMA DiskChanges ==
    ASSUME TypeOK, [Next]_vars, NEW d \in Devices, NEW p \in Paths, disk'[d][p] # disk[d][p]
    PROVE  \/ Edit(d, p) \/ Delete(d, p) \/ PullWrite(d, p) \/ PullUnion(d, p) \/ PullTrash(d, p)
           \/ \E k \in 1..Len(sidecars[d][p]) : KeepRemote(d, p, k)
<1> USE DEF device, command, store, history
<1>1. ASSUME NEW e \in Devices, NEW q \in Paths,
             Edit(e, q) \/ Delete(e, q) \/ PullWrite(e, q) \/ PullUnion(e, q) \/ PullTrash(e, q)
      PROVE  e = d /\ q = p
  <2>1. \E f : disk' = [disk EXCEPT ![e][q] = f]
    BY <1>1 DEF Edit, Delete, PullWrite, PullUnion, PullTrash
  <2> QED
    BY <2>1 DEF TypeOK
<1>2. ASSUME NEW e \in Devices, NEW q \in Paths, NEW k \in 1..Len(sidecars[e][q]), KeepRemote(e, q, k)
      PROVE  e = d /\ q = p
  BY <1>2 DEF KeepRemote, TypeOK
<1>3. Next
  BY DEF vars
<1>4. PICK e \in Devices :
        \/ User(e) \/ Resolve(e) \/ RestoreStart(e) \/ Restore(e) \/ Crash(e)
        \/ PushStart(e) \/ Push(e) \/ PullEmpty(e) \/ PullStart(e) \/ Pull(e)
  BY <1>3 DEF Next
<1>5. ~Push(e) /\ ~PushStart(e)
  BY DEF Push, PushStart, PushSend, PushSendFails, PushRecord, PushList,
         DeleteCheck, DeleteCopy, DeleteObject, DeleteFails, PushFinish
<1>6. ~RestoreStart(e) /\ ~Restore(e) /\ ~Crash(e) /\ ~PullEmpty(e) /\ ~PullStart(e)
  BY DEF RestoreStart, Restore, RestoreCopy, RestoreFails, RestoreFinish, Crash, PullEmpty, PullStart
<1>7. Pull(e) => \E q \in Paths : PullWrite(e, q) \/ PullUnion(e, q) \/ PullTrash(e, q)
  BY DEF Pull, PullScan, PullFinish, PullConflict, PullRecord, PullMerge, PullPanics, PullStepFails
<1>8. Resolve(e) => \E q \in Paths : \E k \in 1..Len(sidecars[e][q]) : KeepRemote(e, q, k)
  BY DEF Resolve, KeepLocal
<1> QED
  BY <1>1, <1>2, <1>4, <1>5, <1>6, <1>7, <1>8 DEF User

\* While nobody edits files under a running command, a pull never drops from a
\* tracked file work that no upload has carried: for any number of devices and
\* paths, merged ones included, whatever overlaps, fails or crashes.
THEOREM PullKeepsUnpublished ==
    ASSUME "Quiet" \in Discipline PROVE Spec => PullOverwritesPublished
<1> DEFINE Inv == TypeOK /\ PhaseInv /\ PublishedInv /\ DownloadInv
<1>1. Init => Inv
  BY InitType, InitPhase, InitPublished, InitDownload
<1>2. Inv /\ [Next]_vars => Inv'
  BY StepType, StepPhase, StepPublished, StepDownload
<1>3. Inv /\ [Next]_vars =>
        \A d \in Devices, p \in Paths :
          /\ cmd[d] = "pull" /\ disk'[d][p] # disk[d][p]
          /\ Exists(disk'[d][p]) /\ Tracked(mem[d][p])
          => disk[d][p].data \subseteq published \cup disk'[d][p].data
  <2> SUFFICES ASSUME Inv, [Next]_vars, NEW d \in Devices, NEW p \in Paths,
                      cmd[d] = "pull", disk'[d][p] # disk[d][p],
                      Exists(disk'[d][p]), Tracked(mem[d][p])
               PROVE  disk[d][p].data \subseteq published \cup disk'[d][p].data
    OBVIOUS
  <2>1. ~Edit(d, p) /\ ~Delete(d, p)
    BY DeletesLeaveNothing DEF Edit, Undisturbed, Exists, NoFile
  <2>2. ~\E k \in 1..Len(sidecars[d][p]) : KeepRemote(d, p, k)
    BY DEF KeepRemote, MayStart
  <2>3. ~PullTrash(d, p)
    BY DEF PullTrash, TypeOK, Exists, NoFile
  <2>4. CASE PullUnion(d, p)
    <3>1. disk'[d][p].data = union[d][p].data
      BY <2>4 DEF PullUnion, TypeOK
    <3> QED
      BY <2>4, <3>1 DEF PullUnion, DownloadInv, Untouched
  <2>5. CASE PullWrite(d, p)
    <3>1. Exists(disk[d][p]) => disk[d][p].data = mem[d][p].hash
      BY <2>5 DEF PullWrite, DownloadInv, Untouched
    <3>2. mem[d][p].hash \subseteq published
      BY DEF PublishedInv, DevicePublished
    <3> QED
      BY <3>1, <3>2 DEF Exists
  <2> QED
    BY <2>1, <2>2, <2>3, <2>4, <2>5, DiskChanges
<1> QED
  BY <1>1, <1>2, <1>3, PTL DEF Spec, PullOverwritesPublished

-----------------------------------------------------------------------------
(* Merging loses no line, whatever order devices push and pull in.         *)

\* Where every file is merged none is ever downloaded or conflicts.
OnlyMerged ==
    \A d \in Devices, p \in Paths :
        task[d][p] \notin {"download", "rehash", "conflict"} /\ sidecars[d][p] = <<>>

\* Every line is in some device's file, in a trash directory, or was deleted.
LinesKept ==
    \A n \in 1..edits :
        \/ n \in trashed \cup discarded
        \/ \E d \in Devices, p \in Paths : n \in disk[d][p].data

LEMMA InitMerged == Init => OnlyMerged /\ LinesKept
  BY DEF Init, OnlyMerged, LinesKept

\* A step of one file that gives it no task to download.
LEMMA TasksMerged ==
    ASSUME TypeOK, OnlyMerged, NEW d \in Devices, NEW p \in Paths, UNCHANGED sidecars,
           NEW t \in Tasks \ {"download", "rehash", "conflict"}, Done(d, p) \/ Becomes(d, p, t)
    PROVE  OnlyMerged'
<1>1. CASE Done(d, p)
  BY <1>1 DEF Done, TypeOK, OnlyMerged
<1>2. CASE Becomes(d, p, t)
  BY <1>2 DEF Becomes, TypeOK, OnlyMerged
<1> QED
  BY <1>1, <1>2

LEMMA StepMerged ==
    ASSUME Mergeable = Paths, TypeOK, OnlyMerged, [Next]_vars
    PROVE  OnlyMerged'
<1> USE DEF device, command, store, history
<1>1. CASE UNCHANGED <<task, sidecars>>
  BY <1>1 DEF OnlyMerged
<1>2. ASSUME NEW d \in Devices, PushStart(d) PROVE OnlyMerged'
  <2>1. PICK force \in {FALSE} \cup {"Force" \in Events} :
          task' = [task EXCEPT ![d] = [p \in Paths |-> PushTask(d, p, force)]]
    BY <1>2 DEF PushStart
  <2>2. \A p \in Paths : PushTask(d, p, force) \notin {"download", "rehash", "conflict"}
    BY DEF PushTask
  <2> QED
    BY <1>2, <2>1, <2>2 DEF PushStart, TypeOK, OnlyMerged
<1>3. ASSUME NEW d \in Devices, NEW p \in Paths,
             \/ PushSend(d, p) \/ PushSendFails(d, p) \/ PushRecord(d, p) \/ DeleteCheck(d, p)
             \/ DeleteCopy(d, p) \/ DeleteObject(d, p) \/ DeleteFails(d, p) \/ PullMerge(d, p)
             \/ PullUnion(d, p) \/ PullStepFails(d, p) \/ PullTrash(d, p)
             \/ RestoreCopy(d, p) \/ RestoreFails(d, p)
      PROVE OnlyMerged'
  <2>1. UNCHANGED sidecars
    BY <1>3 DEF PushSend, PushSendFails, PushRecord, DeleteCheck, DeleteCopy, DeleteObject,
         DeleteFails, PullMerge, PullUnion, PullStepFails, PullTrash, RestoreCopy, RestoreFails
  <2>2. Done(d, p) \/ \E t \in {"head", "none", "copy", "erase", "write"} : Becomes(d, p, t)
    BY <1>3 DEF PushSend, PushSendFails, PushRecord, DeleteCheck, DeleteCopy, DeleteObject,
         DeleteFails, PullMerge, PullUnion, PullStepFails, PullTrash, RestoreCopy, RestoreFails
  <2>3. {"head", "none", "copy", "erase", "write"} \subseteq Tasks \ {"download", "rehash", "conflict"}
    BY DEF Tasks
  <2> QED
    BY <2>1, <2>2, <2>3, TasksMerged
<1>4. ASSUME NEW d \in Devices, PushList(d) PROVE OnlyMerged'
  <2>1. UNCHANGED sidecars
    BY <1>4 DEF PushList
  <2>2. UNCHANGED task \/ task' = [task EXCEPT ![d] = [p \in Paths |-> "none"]]
    BY <1>4 DEF PushList
  <2>3. \A e \in Devices, p \in Paths : task'[e][p] \in {task[e][p], "none"}
    <3>1. CASE UNCHANGED task
      BY <3>1
    <3>2. CASE task' = [task EXCEPT ![d] = [p \in Paths |-> "none"]]
      BY <3>2 DEF TypeOK
    <3> QED
      BY <2>2, <3>1, <3>2
  <2> QED
    BY <2>1, <2>3 DEF OnlyMerged
<1>5. ASSUME NEW d \in Devices, PullStart(d) PROVE OnlyMerged'
  <2>1. \A p \in Paths : PullTask(d, p) \notin {"download", "rehash", "conflict"}
    BY DEF PullTask
  <2> QED
    BY <1>5, <2>1 DEF PullStart, TypeOK, OnlyMerged
<1>6. ASSUME NEW d \in Devices, PullScan(d) PROVE OnlyMerged'
  <2>1. \A e \in Devices, p \in Paths : task'[e][p] \in {task[e][p], "trash", "none"}
    BY <1>6 DEF PullScan, TypeOK
  <2> QED
    BY <1>6, <2>1 DEF PullScan, OnlyMerged
<1>7. ASSUME NEW d \in Devices, RestoreStart(d) PROVE OnlyMerged'
  <2>1. UNCHANGED sidecars
    BY <1>7 DEF RestoreStart
  <2> QED
    BY <1>7, <2>1, RestorePlan DEF OnlyMerged
<1>8. ASSUME NEW d \in Devices, Reset(d), UNCHANGED sidecars PROVE OnlyMerged'
  <2>1. \A e \in Devices, p \in Paths : task'[e][p] \in {task[e][p], "none"}
    BY <1>8 DEF Reset, TypeOK
  <2> QED
    BY <1>8, <2>1 DEF OnlyMerged
<1>9. ASSUME NEW d \in Devices, NEW p \in Paths,
             PullConflict(d, p) \/ PullWrite(d, p) \/ PullRecord(d, p) \/ PullPanics(d, p)
      PROVE OnlyMerged'
  BY <1>9 DEF PullConflict, PullWrite, PullRecord, PullPanics, OnlyMerged
<1>10. ASSUME NEW d \in Devices, Resolve(d) PROVE OnlyMerged'
  BY <1>10 DEF Resolve, OnlyMerged
<1> QED
  BY <1>1, <1>2, <1>3, <1>4, <1>5, <1>6, <1>7, <1>8, <1>9, <1>10
  DEF Next, User, Push, Pull, Restore, vars, Edit, Delete, PullEmpty, PushFinish, PullFinish,
      RestoreFinish, Crash

\* What users gave up and what a pull moved away stays so, and only a user
\* makes a new edit.
LEMMA HistoryGrows ==
    ASSUME TypeOK, [Next]_vars
    PROVE  /\ trashed \subseteq trashed' /\ discarded \subseteq discarded'
           /\ \/ edits' = edits
              \/ /\ edits' = edits + 1
                 /\ \E d \in Devices, p \in Paths : Edit(d, p) \/ Delete(d, p)
<1> USE DEF device, command, store, history
<1>1. CASE UNCHANGED <<edits, trashed, discarded>>
  BY <1>1
<1>2. ASSUME NEW d \in Devices, NEW p \in Paths, Edit(d, p) \/ Delete(d, p)
      PROVE  /\ edits' = edits + 1 /\ trashed' = trashed /\ discarded \subseteq discarded'
  BY <1>2 DEF Edit, Delete
<1>3. ASSUME NEW d \in Devices, NEW p \in Paths, PullTrash(d, p)
      PROVE  edits' = edits /\ discarded' = discarded /\ trashed \subseteq trashed'
  BY <1>3 DEF PullTrash
<1>4. ASSUME NEW d \in Devices, Resolve(d)
      PROVE  edits' = edits /\ trashed' = trashed /\ discarded \subseteq discarded'
  BY <1>4 DEF Resolve, KeepLocal, KeepRemote
<1>5. ASSUME NEW d \in Devices, Push(d) \/ PushStart(d) PROVE UNCHANGED <<edits, trashed, discarded>>
  BY <1>5 DEF Push, PushStart, PushSend, PushSendFails, PushRecord, PushList, DeleteCheck, DeleteCopy,
       DeleteObject, DeleteFails, PushFinish
<1>6. ASSUME NEW d \in Devices, RestoreStart(d) \/ Restore(d) \/ Crash(d) \/ PullEmpty(d) \/ PullStart(d)
      PROVE UNCHANGED <<edits, trashed, discarded>>
  BY <1>6 DEF RestoreStart, Restore, RestoreCopy, RestoreFails, RestoreFinish, Crash, PullEmpty, PullStart
<1>7. ASSUME NEW d \in Devices, Pull(d)
      PROVE  UNCHANGED <<edits, trashed, discarded>> \/ \E p \in Paths : PullTrash(d, p)
  BY <1>7 DEF Pull, PullScan, PullFinish, PullConflict, PullWrite, PullRecord, PullMerge, PullUnion,
       PullPanics, PullStepFails
<1> QED
  BY <1>1, <1>2, <1>3, <1>4, <1>5, <1>6, <1>7 DEF Next, User, vars

\* A line leaves a file only for a trash directory or because a user deletes it.
LEMMA LineStays ==
    ASSUME TypeOK, "Quiet" \in Discipline, DownloadInv, OnlyMerged, [Next]_vars,
           NEW d \in Devices, NEW p \in Paths, NEW n \in disk[d][p].data
    PROVE  n \in disk'[d][p].data \/ n \in trashed' \/ n \in discarded'
<1>1. CASE disk'[d][p] = disk[d][p]
  BY <1>1
<1>2. CASE Edit(d, p)
  BY <1>2 DEF Edit, TypeOK
<1>3. CASE Delete(d, p)
  BY <1>3 DEF Delete
<1>4. CASE PullWrite(d, p)
  BY <1>4 DEF PullWrite, OnlyMerged
<1>5. CASE PullUnion(d, p)
  <2>1. disk'[d][p].data = union[d][p].data
    BY <1>5 DEF PullUnion, TypeOK
  <2> QED
    BY <1>5, <2>1 DEF PullUnion, DownloadInv, Untouched
<1>6. CASE PullTrash(d, p)
  BY <1>6 DEF PullTrash
<1>7. ASSUME NEW k \in 1..Len(sidecars[d][p]), KeepRemote(d, p, k) PROVE FALSE
  BY DEF OnlyMerged
<1> QED
  BY <1>1, <1>2, <1>3, <1>4, <1>5, <1>6, <1>7, DiskChanges

LEMMA StepLines ==
    ASSUME TypeOK, "Quiet" \in Discipline, DownloadInv, OnlyMerged, LinesKept, [Next]_vars
    PROVE  LinesKept'
<1> SUFFICES ASSUME NEW n \in 1..edits'
             PROVE  \/ n \in trashed' \cup discarded'
                    \/ \E d \in Devices, p \in Paths : n \in disk'[d][p].data
  BY DEF LinesKept
<1>1. CASE n \in 1..edits
  BY <1>1, HistoryGrows, LineStays DEF LinesKept
<1>2. CASE n \notin 1..edits
  <2>1. edits \in Nat
    BY BoundType DEF TypeOK
  <2>2. n = edits + 1 /\ \E d \in Devices, p \in Paths : Edit(d, p) \/ Delete(d, p)
    BY <1>2, <2>1, HistoryGrows
  <2>3. ASSUME NEW d \in Devices, NEW p \in Paths, Edit(d, p) PROVE n \in disk'[d][p].data
    BY <2>2, <2>3 DEF Edit, TypeOK
  <2>4. ASSUME NEW d \in Devices, NEW p \in Paths, Delete(d, p) PROVE n \in discarded'
    BY <2>2, <2>4 DEF Delete
  <2> QED
    BY <2>2, <2>3, <2>4
<1> QED
  BY <1>1, <1>2

\* What a file or a trash directory holds is kept.
LEMMA FilesKept ==
    /\ trashed \subseteq Kept
    /\ \A d \in Devices, p \in Paths : disk[d][p].data \subseteq Kept
<1> DEFINE Files == {disk[d][p].data : d \in Devices, p \in Paths}
           Others == {remote[p].data : p \in Paths} \cup {copy.data : copy \in bin}
           Sidecars == {ToSet(sidecars[d][p]) : d \in Devices, p \in Paths}
<1>1. \A d \in Devices, p \in Paths : disk[d][p].data \in Files
  OBVIOUS
<1>2. Kept = trashed \cup UNION ((Files \cup Others) \cup UNION Sidecars)
  BY DEF Kept
<1> QED
  BY <1>1, <1>2

\* Where files are merged and nobody edits them under a running command, no line
\* is ever lost: for any number of devices and files, though pushes replace each
\* other's objects, commands overlap, fail and die (mergeRemote, MergeJSONL).
THEOREM MergingLosesNothing ==
    ASSUME "Quiet" \in Discipline, Mergeable = Paths PROVE Spec => []NoLostWork
<1> DEFINE Inv == TypeOK /\ PhaseInv /\ DownloadInv /\ OnlyMerged /\ LinesKept
<1>1. Init => Inv
  BY InitType, InitPhase, InitDownload, InitMerged
<1>2. Inv /\ [Next]_vars => Inv'
  BY StepType, StepPhase, StepDownload, StepMerged, StepLines
<1>3. Inv => NoLostWork
  <2> SUFFICES ASSUME LinesKept, NEW n \in 1..edits
               PROVE  n \in Kept \cup discarded
    BY DEF NoLostWork
  <2>1. CASE n \in trashed \cup discarded
    BY <2>1, FilesKept
  <2>2. ASSUME NEW d \in Devices, NEW p \in Paths, n \in disk[d][p].data
        PROVE  n \in Kept
    BY <2>2, FilesKept
  <2> QED
    BY <2>1, <2>2 DEF LinesKept
<1> QED
  BY <1>1, <1>2, <1>3, PTL DEF Spec

-----------------------------------------------------------------------------
(* What state.json says of the remote: an entry of the object's version is *)
(* an entry of its content, if no two commands overlap and conflicts are   *)
(* resolved before the next one.                                           *)

\* An object that a restore put back may have the version of its source again.
Restored(p) ==
    "SameETag" \in Events /\ \E b \in bin : b.path = p /\ b.data = remote[p].data

\* An entry has a version; if it is the remote's, so is the content, unless the file
\* was gone before it was hashed.
Linked(entry, p) ==
    Tracked(entry) =>
        /\ entry.ver \in 1..clock
        /\ entry.ver = remote[p].ver => entry.hash \in {remote[p].data, {}} \/ Restored(p)

\* A hash is recorded with the version of what it is of.
LEMMA HashedIsTracked == \A entry : entry.hash # {} => Tracked(entry)
  BY DEF Tracked, Untracked

\* An entry is of another object than the one the remote holds now.
Outdated(entry, p) ==
    /\ Tracked(entry) /\ entry.ver \in 1..clock
    /\ entry.ver # remote[p].ver \/ Restored(p)

\* While a conflict waits, the entry is the one of before the conflict.
Recorded(d, p) ==
    /\ Linked(saved[d][p], p) /\ Linked(mem[d][p], p)
    /\ sidecars[d][p] # <<>> => Outdated(saved[d][p], p) /\ Outdated(mem[d][p], p)
    /\ \A i \in 1..Len(sidecars[d][p]) : sidecars[d][p][i] # {}

\* The remote is as the running command has seen it.
Underway(d, p) ==
    /\ task[d][p] \notin {"none", "restore"} => sidecars[d][p] = <<>>
    /\ task[d][p] = "head" => seen[d][p] = remote[p]
    /\ task[d][p] \in {"head", "rehash", "write"} => Exists(remote[p])
    /\ cmd[d] \in {"pull", "remove"} => seen[d][p] = remote[p]
    /\ task[d][p] = "conflict" => Outdated(saved[d][p], p) /\ Outdated(mem[d][p], p)
    /\ task[d][p] = "rehash" => disk[d][p].data \in {remote[p].data, {}}
    /\ task[d][p] = "write" => union[d][p].hash = remote[p].data

StateInv == \A d \in Devices, p \in Paths : Recorded(d, p) /\ Underway(d, p)

LEMMA InitState == Init => StateInv
  BY DEF Init, StateInv, Recorded, Underway, Linked, Outdated, Tracked, Untracked

\* What may become of an object: it stays, it is replaced by a later one, it is
\* removed, or a copy takes its place.
StoreMoves(p) ==
    /\ clock \in Nat /\ clock' \in Nat /\ clock <= clock'
    /\ \/ remote'[p] = remote[p] /\ (Restored(p) => Restored(p)')
       \/ remote'[p].ver > clock
       \/ remote'[p].ver = 0
       \/ Restored(p)'

LEMMA StoreSteps ==
    ASSUME Versions, TypeOK, PhaseInv, BinInv, [Next]_vars, NEW p \in Paths
    PROVE  StoreMoves(p)
<1> USE DEF device, command, store, history
<1>0. clock \in Nat
  BY DEF TypeOK, Time
<1>1. CASE UNCHANGED <<remote, bin, clock>>
  BY <1>0, <1>1 DEF StoreMoves, Restored
<1>2. ASSUME NEW d \in Devices, NEW q \in Paths, PushSend(d, q) PROVE StoreMoves(p)
  <2>1. clock' = clock + 1 /\ bin' = bin
        /\ remote' = [remote EXCEPT ![q] = Stamped(disk[d][q].data, clock + 1)]
    BY <1>2 DEF PushSend
  <2>2. remote'[p] = remote[p] \/ remote'[p].ver = clock + 1
    BY <2>1 DEF Stamped, TypeOK
  <2> QED
    BY <1>0, <2>1, <2>2 DEF StoreMoves, Restored
<1>3. ASSUME NEW d \in Devices, NEW q \in Paths, DeleteCopy(d, q) PROVE StoreMoves(p)
  BY <1>0, <1>3 DEF DeleteCopy, StoreMoves, Restored
<1>4. ASSUME NEW d \in Devices, NEW q \in Paths, DeleteObject(d, q) PROVE StoreMoves(p)
  <2>1. remote'[p] = remote[p] \/ remote'[p].ver = 0
    BY <1>4 DEF DeleteObject, TypeOK, Gone
  <2> QED
    BY <1>0, <1>4, <2>1 DEF DeleteObject, StoreMoves, Restored
<1>5. ASSUME NEW d \in Devices, NEW q \in Paths, RestoreCopy(d, q) PROVE StoreMoves(p)
  <2>1. clock' = clock + 1 /\ bin' = bin
    BY <1>5 DEF RestoreCopy
  <2>2. PICK ver \in {clock + 1} \cup OutcomeOf("SameETag", seen[d][q].ver) :
          remote' = [remote EXCEPT ![q] = [data |-> seen[d][q].data, ver |-> ver, time |-> clock + 1]]
    BY <1>5 DEF RestoreCopy, Stamped
  <2>3. CASE p # q
    BY <1>0, <2>1, <2>2, <2>3 DEF TypeOK, StoreMoves, Restored
  <2>4. CASE p = q /\ ver = clock + 1
    BY <1>0, <2>1, <2>2, <2>4 DEF TypeOK, StoreMoves
  <2>5. CASE p = q /\ "SameETag" \in Events
    <3>1. \E b \in bin : b.path = p /\ b.data = seen[d][p].data
      BY <1>5, <2>5 DEF RestoreCopy, BinInv, Backed
    <3>2. remote'[p].data = seen[d][p].data
      BY <2>2, <2>5 DEF TypeOK
    <3> QED
      BY <1>0, <2>1, <2>5, <3>1, <3>2 DEF StoreMoves, Restored
  <2> QED
    BY <2>2, <2>3, <2>4, <2>5 DEF OutcomeOf
<1>6. ASSUME NEW d \in Devices, RestoreStart(d) \/ \E q \in Paths : DeleteCheck(d, q)
      PROVE  UNCHANGED <<remote, bin, clock>>
  BY <1>6 DEF RestoreStart, DeleteCheck
<1> QED
  BY <1>1, <1>2, <1>3, <1>4, <1>5, <1>6, MostMoveNothing DEF NoMove

\* Whatever moves in the store, an entry that is not written stays linked, and
\* outdated if it was.
LEMMA RecordedStays ==
    ASSUME TypeOK, NEW d \in Devices, NEW p \in Paths, StoreMoves(p), Recorded(d, p),
           sidecars'[d][p] = sidecars[d][p],
           saved'[d][p] \in {saved[d][p], mem[d][p]},
           \/ mem'[d][p] \in {mem[d][p], saved[d][p]}
           \/ mem'[d][p] = Untracked /\ sidecars[d][p] = <<>>
    PROVE  Recorded(d, p)'
<1> DEFINE LinkedNext(e) ==
             Tracked(e) =>
               /\ e.ver \in 1..clock'
               /\ e.ver = remote'[p].ver => e.hash \in {remote'[p].data, {}} \/ Restored(p)'
           OutdatedNext(e) ==
             /\ Tracked(e) /\ e.ver \in 1..clock'
             /\ e.ver # remote'[p].ver \/ Restored(p)'
<1>0. \A e \in {saved[d][p], mem[d][p]} : e.ver \in Nat
  BY DEF TypeOK, Entry, Time
<1>1. \A e \in {saved[d][p], mem[d][p]} : LinkedNext(e)
  BY <1>0 DEF StoreMoves, Recorded, Linked
<1>2. sidecars[d][p] # <<>> => \A e \in {saved[d][p], mem[d][p]} : OutdatedNext(e)
  BY <1>0 DEF StoreMoves, Recorded, Outdated
<1>3. LinkedNext(Untracked)
  BY DEF Tracked, Untracked
<1>4. Linked(saved[d][p], p)' /\ Linked(mem[d][p], p)'
  BY <1>1, <1>3 DEF Linked, Tracked
<1>5. sidecars'[d][p] # <<>> => Outdated(saved[d][p], p)' /\ Outdated(mem[d][p], p)'
  BY <1>2 DEF Outdated, Tracked
<1> QED
  BY <1>4, <1>5 DEF Recorded

\* Work on one file leaves what is noted of the others.
LEMMA FileStepLeaves ==
    ASSUME TypeOK, NEW d \in Devices, NEW p \in Paths, FileStep(d, p)
    PROVE  /\ \A e \in Devices, q \in Paths : e # d \/ q # p =>
                sidecars'[e][q] = sidecars[e][q] /\ seen'[e][q] = seen[e][q]
           /\ \A q \in Paths : q # p => remote'[q] = remote[q]
           /\ UNCHANGED <<edits, discarded, pulled>>
<1> USE DEF device, command, store, history
<1>1. UNCHANGED sidecars \/ \E x : sidecars' = [sidecars EXCEPT ![d][p] = x]
  BY DEF FileStep, PushSend, PushSendFails, PushRecord, DeleteCheck, DeleteCopy, DeleteObject, DeleteFails,
         PullConflict, PullWrite, PullRecord, PullUnion, PullStepFails, PullTrash
<1>2. UNCHANGED seen \/ \E x : seen' = [seen EXCEPT ![d][p] = x]
  BY DEF FileStep, PushSend, PushSendFails, PushRecord, DeleteCheck, DeleteCopy, DeleteObject, DeleteFails,
         PullConflict, PullWrite, PullRecord, PullUnion, PullStepFails, PullTrash
<1>3. UNCHANGED remote \/ \E x : remote' = [remote EXCEPT ![p] = x]
  BY DEF FileStep, PushSend, PushSendFails, PushRecord, DeleteCheck, DeleteCopy, DeleteObject, DeleteFails,
         PullConflict, PullWrite, PullRecord, PullUnion, PullStepFails, PullTrash
<1>4. UNCHANGED <<edits, discarded, pulled>>
  BY DEF FileStep, PushSend, PushSendFails, PushRecord, DeleteCheck, DeleteCopy, DeleteObject, DeleteFails,
         PullConflict, PullWrite, PullRecord, PullUnion, PullStepFails, PullTrash
<1>5. \A e \in Devices, q \in Paths : e # d \/ q # p => sidecars'[e][q] = sidecars[e][q]
  BY <1>1 DEF TypeOK
<1>6. \A e \in Devices, q \in Paths : e # d \/ q # p => seen'[e][q] = seen[e][q]
  BY <1>2 DEF TypeOK
<1>7. \A q \in Paths : q # p => remote'[q] = remote[q]
  BY <1>3 DEF TypeOK
<1> QED
  BY <1>4, <1>5, <1>6, <1>7

\* The entry that a push or a pull writes is the remote's, but for the hash of a file
\* that is gone.
LEMMA NewEntry ==
    ASSUME "HeadFails" \notin Events, TypeOK, PhaseInv, BinInv, StateInv,
           NEW d \in Devices, NEW p \in Paths,
           PushRecord(d, p) \/ PullRecord(d, p) \/ PullUnion(d, p)
    PROVE  /\ UNCHANGED <<saved, remote, bin, clock>>
           /\ \/ mem'[d][p] = mem[d][p]
              \/ /\ Exists(remote[p]) /\ mem'[d][p].ver = remote[p].ver
                 /\ \/ mem'[d][p].hash = remote[p].data
                    \/ /\ PullRecord(d, p) /\ mem'[d][p].hash = {}
                       /\ task[d][p] = "rehash" /\ ~Exists(disk[d][p])
<1> USE DEF device, command, store, history
<1>1. UNCHANGED <<saved, remote, bin, clock>>
  BY DEF PushRecord, PullRecord, PullUnion
<1>2. CASE PushRecord(d, p)
  <2>1. seen[d][p] = remote[p] /\ Exists(remote[p])
    BY <1>2 DEF PushRecord, StateInv, Underway
  <2>2. UNCHANGED mem
        \/ mem' = [mem EXCEPT ![d][p] = [hash |-> remote[p].data, ver |-> remote[p].ver, time |-> clock]]
    BY <1>2, <2>1 DEF PushRecord, OutcomeOf
  <2> QED
    BY <1>1, <2>1, <2>2 DEF TypeOK
<1>3. CASE PullRecord(d, p)
  <2>1. cmd[d] = "pull" /\ task[d][p] = "rehash"
    BY <1>3 DEF PullRecord, PhaseInv, TasksOf
  <2>2. /\ seen[d][p] = remote[p] /\ Exists(remote[p])
        /\ disk[d][p].data = remote[p].data \/ ~Exists(disk[d][p])
    BY <2>1 DEF StateInv, Underway, Exists
  <2>3. mem'[d][p].hash = disk[d][p].data /\ mem'[d][p].ver = seen[d][p].ver
    BY <1>3 DEF PullRecord, TypeOK
  <2> QED
    BY <1>1, <1>3, <2>1, <2>2, <2>3 DEF Exists
<1>4. CASE PullUnion(d, p)
  <2>1. cmd[d] = "pull"
    BY <1>4 DEF PullUnion, PhaseInv, TasksOf
  <2>2. seen[d][p] = remote[p] /\ union[d][p].hash = remote[p].data /\ Exists(remote[p])
    BY <1>4, <2>1 DEF PullUnion, StateInv, Underway
  <2> QED
    BY <1>1, <1>4, <2>2 DEF PullUnion, TypeOK
<1> QED
  BY <1>2, <1>3, <1>4

LEMMA StepRecorded ==
    ASSUME Versions, "HeadFails" \notin Events, TypeOK, PhaseInv, BinInv, DownloadInv, StateInv,
           [Next]_vars, NEW d \in Devices, NEW p \in Paths
    PROVE  Recorded(d, p)'
<1> USE DEF device, command, store, history
<1>0. StoreMoves(p) /\ Recorded(d, p) /\ TypeOK'
  BY StoreSteps, StepType DEF StateInv
<1>1. CASE UNCHANGED <<sidecars, saved, mem>>
  BY <1>0, <1>1, RecordedStays
<1>2. ASSUME NEW e \in Devices, NEW q \in Paths, FileStep(e, q), e # d \/ q # p
      PROVE Recorded(d, p)'
  <2>1. sidecars'[d][p] = sidecars[d][p] /\ mem'[d][p] = mem[d][p] /\ saved' = saved
    BY <1>2, FileStepWorks, FileStepLeaves DEF Work
  <2> QED
    BY <1>0, <2>1, RecordedStays
<1>3. CASE PullConflict(d, p)
  <2>1. /\ UNCHANGED <<saved, mem, remote, bin, clock>>
        /\ sidecars'[d][p] = Append(sidecars[d][p], remote[p].data) /\ remote[p].data # {}
    BY <1>3 DEF PullConflict, Exists, TypeOK
  <2>2. Outdated(saved[d][p], p) /\ Outdated(mem[d][p], p)
    BY <1>3 DEF PullConflict, StateInv, Underway
  <2>3. \A i \in 1..Len(sidecars'[d][p]) : sidecars'[d][p][i] # {}
    <3>1. sidecars[d][p] \in Seq(Content) /\ remote[p].data \in Content
      BY DEF TypeOK, Object
    <3>2. remote[p].data \in Content \ {{}} /\ \A i \in 1..Len(sidecars[d][p]) : sidecars[d][p][i] \in Content \ {{}}
      BY <1>0, <2>1, <3>1 DEF Recorded
    <3>3. \A i \in 1..Len(Append(sidecars[d][p], remote[p].data)) :
             Append(sidecars[d][p], remote[p].data)[i] \in Content \ {{}}
      BY <3>1, <3>2, AddedSidecar
    <3> QED
      BY <2>1, <3>3
  <2> QED
    BY <1>0, <2>1, <2>2, <2>3 DEF Recorded, Linked, Outdated, Restored, Tracked
<1>4. CASE PushRecord(d, p) \/ PullRecord(d, p) \/ PullUnion(d, p)
  <2>1. /\ UNCHANGED <<saved, remote, bin, clock>>
        /\ \/ mem'[d][p] = mem[d][p]
           \/ /\ Exists(remote[p]) /\ mem'[d][p].ver = remote[p].ver
              /\ mem'[d][p].hash \in {remote[p].data, {}}
    BY <1>4, NewEntry
  <2>2. UNCHANGED sidecars /\ sidecars[d][p] = <<>>
    BY <1>4 DEF PushRecord, PullRecord, PullUnion, StateInv, Underway
  <2>3. CASE mem'[d][p] = mem[d][p]
    BY <1>0, <2>1, <2>2, <2>3, RecordedStays
  <2>4. CASE /\ Exists(remote[p]) /\ mem'[d][p].ver = remote[p].ver
             /\ mem'[d][p].hash \in {remote[p].data, {}}
    <3>1. remote[p].ver \in 1..clock
      BY <2>4 DEF BinInv, StoreStamped, TypeOK, Object, Time
    <3>2. Linked(mem[d][p], p)'
      BY <2>1, <2>4, <3>1 DEF Linked
    <3>3. Linked(saved[d][p], p)'
      BY <1>0, <2>1 DEF Recorded, Linked, Restored, Tracked
    <3> QED
      BY <2>2, <3>2, <3>3 DEF Recorded
  <2> QED
    BY <2>1, <2>3, <2>4
<1>5. CASE FileStep(d, p) /\ ~PullConflict(d, p) /\ ~PushRecord(d, p) /\ ~PullRecord(d, p) /\ ~PullUnion(d, p)
  <2>1. UNCHANGED sidecars /\ mem'[d][p] \in {mem[d][p], Untracked}
    BY <1>5 DEF FileStep, PushSend, PushSendFails, DeleteCheck, DeleteCopy, DeleteObject, DeleteFails,
         PullWrite, PullStepFails, PullTrash, TypeOK
  <2>2. saved' = saved /\ task[d][p] \notin {"none", "restore"}
    BY <1>5, FileStepWorks DEF Work
  <2>3. sidecars[d][p] = <<>>
    BY <2>2 DEF StateInv, Underway
  <2> QED
    BY <1>0, <2>1, <2>2, <2>3, RecordedStays
<1>6. ASSUME NEW e \in Devices,
             \/ PushFinish(e) \/ PullFinish(e) \/ Crash(e)
             \/ \E q \in Paths : PullPanics(e, q)
      PROVE Recorded(d, p)'
  <2>1. /\ UNCHANGED sidecars
        /\ \/ UNCHANGED mem /\ saved' = [saved EXCEPT ![e] = mem[e]]
           \/ UNCHANGED saved /\ mem' = [mem EXCEPT ![e] = saved[e]]
    BY <1>6 DEF PushFinish, PullFinish, Crash, PullPanics
  <2>2. mem'[d][p] \in {mem[d][p], saved[d][p]} /\ saved'[d][p] \in {saved[d][p], mem[d][p]}
    BY <2>1 DEF TypeOK
  <2> QED
    BY <1>0, <2>1, <2>2, RecordedStays
<1>7. ASSUME NEW e \in Devices, NEW q \in Paths, NEW k \in 1..Len(sidecars[e][q]),
             KeepLocal(e, q, k) \/ KeepRemote(e, q, k)
      PROVE Recorded(d, p)'
  <2>1. /\ sidecars' = [sidecars EXCEPT ![e][q] = RemoveAt(@, k)]
        /\ UNCHANGED store /\ cmd[e] = "idle"
        /\ Resolved(e, q, sidecars[e][q][k]) \/ UNCHANGED <<mem, saved>>
    BY <1>7 DEF KeepLocal, KeepRemote, MayStart
  <2>2. mem[e] = saved[e]
    BY <2>1 DEF DownloadInv, IdleSaved
  <2>3. CASE e # d \/ q # p
    <3>1. sidecars'[d][p] = sidecars[d][p]
      BY <2>1, <2>3 DEF TypeOK
    <3>2. mem'[d][p] = mem[d][p]
      BY <2>1, <2>3 DEF Resolved, TypeOK
    <3>3. saved'[d][p] \in {saved[d][p], mem[d][p]}
      BY <2>1, <2>2, <2>3, <3>2 DEF Resolved, TypeOK
    <3> QED
      BY <1>0, <3>1, <3>2, <3>3, RecordedStays
  <2>4. CASE e = d /\ q = p
    <3> DEFINE other == sidecars[d][p][k]
    <3>1. sidecars[d][p] # <<>> /\ sidecars[d][p] \in Seq(Content) /\ other # {}
      <4>1. sidecars[d][p] \in Seq(Content) /\ k \in 1..Len(sidecars[d][p])
        BY <2>4 DEF TypeOK
      <4> QED
        BY <1>0, <4>1 DEF Recorded
    <3>2. Outdated(mem[d][p], p)
      BY <1>0, <3>1 DEF Recorded
    <3>3. \A i \in 1..Len(sidecars'[d][p]) : sidecars'[d][p][i] # {}
      <4>1. \A i \in 1..Len(sidecars[d][p]) : sidecars[d][p][i] \in Content \ {{}}
        BY <1>0, <3>1 DEF Recorded
      <4>2. sidecars'[d][p] = RemoveAt(sidecars[d][p], k)
        BY <2>1, <2>4 DEF TypeOK
      <4>3. \A i \in 1..Len(RemoveAt(sidecars[d][p], k)) : RemoveAt(sidecars[d][p], k)[i] \in Content \ {{}}
        BY <1>7, <2>4, <3>1, <4>1, RemovedSidecar
      <4> QED
        BY <4>2, <4>3
    <3>4. \/ mem'[d][p] = mem[d][p] /\ saved'[d][p] = saved[d][p]
          \/ /\ mem'[d][p] = [hash |-> other, ver |-> mem[d][p].ver, time |-> clock]
             /\ saved'[d][p] = mem'[d][p]
      BY <2>1, <2>4 DEF Resolved, TypeOK
    <3>5. CASE mem'[d][p] = mem[d][p] /\ saved'[d][p] = saved[d][p]
      BY <1>0, <2>1, <3>1, <3>3, <3>5 DEF Recorded, Linked, Outdated, Restored, Tracked
    <3>6. CASE /\ mem'[d][p] = [hash |-> other, ver |-> mem[d][p].ver, time |-> clock]
               /\ saved'[d][p] = mem'[d][p]
      <4>1. mem'[d][p].hash = other /\ mem'[d][p].ver = mem[d][p].ver
        BY <3>6
      <4> HIDE DEF other
      <4> QED
        BY <2>1, <3>1, <3>2, <3>3, <3>6, <4>1, HashedIsTracked DEF Recorded, Linked, Outdated, Restored
    <3> QED
      BY <3>4, <3>5, <3>6
  <2> QED
    BY <2>3, <2>4
<1>8. ASSUME NEW e \in Devices,
             \/ User(e) \/ PushStart(e) \/ PullStart(e) \/ PullEmpty(e) \/ RestoreStart(e) \/ Restore(e)
             \/ PushList(e) \/ PullScan(e) \/ \E q \in Paths : PullMerge(e, q)
      PROVE UNCHANGED <<sidecars, saved, mem>>
  BY <1>8 DEF User, Edit, Delete, PushStart, PullStart, PullEmpty, RestoreStart, Restore, RestoreCopy,
       RestoreFails, RestoreFinish, PushList, PullScan, PullMerge
<1>9. CASE UNCHANGED vars
  BY <1>1, <1>9 DEF vars
<1>10. ASSUME NEW e \in Devices, NEW q \in Paths, FileStep(e, q) PROVE Recorded(d, p)'
  <2>1. CASE e # d \/ q # p
    BY <1>2, <1>10, <2>1
  <2>2. CASE e = d /\ q = p
    BY <1>3, <1>4, <1>5, <1>10, <2>2
  <2> QED
    BY <2>1, <2>2
<1> QED
  BY <1>1, <1>6, <1>7, <1>8, <1>9, <1>10 DEF Next, Push, Pull, Resolve, FileStep

\* While commands never overlap, a step that leaves a device in the middle of a
\* command is a user's elsewhere or at a file, or a step of that command.
LEMMA OneActs ==
    ASSUME "Exclusive" \in Discipline, TypeOK, PhaseInv, Alone, [Next]_vars,
           NEW d \in Devices, cmd'[d] # "idle"
    PROVE  \/ UNCHANGED vars
           \/ \E e \in Devices, p \in Paths : Edit(e, p) \/ Delete(e, p)
           \/ PushStart(d) \/ PullStart(d) \/ RestoreStart(d) \/ PushList(d) \/ PullScan(d)
           \/ \E p \in Paths : FileStep(d, p) \/ PullMerge(d, p) \/ RestoreCopy(d, p) \/ RestoreFails(d, p)
<1> USE DEF device, command, store, history
<1>0. Alone'
  BY StepAlone
<1>1. ASSUME NEW e \in Devices, PushStart(e) \/ PullStart(e) \/ RestoreStart(e) \/ PushList(e) \/ PullScan(e)
      PROVE e = d
  <2>1. cmd'[e] # "idle"
    BY <1>1 DEF PushStart, PullStart, RestoreStart, PushList, PullScan, TypeOK
  <2> QED
    BY <1>0, <2>1 DEF Alone
<1>2. ASSUME NEW e \in Devices, Reset(e), cmd[e] # "idle" PROVE FALSE
  <2>1. cmd'[e] = "idle" /\ (e # d => cmd'[d] = cmd[d])
    BY <1>2 DEF Reset, TypeOK
  <2> QED
    BY <1>2, <2>1 DEF Alone
<1>3. ASSUME NEW e \in Devices,
             \/ PushFinish(e) \/ PullFinish(e) \/ RestoreFinish(e) \/ Crash(e)
             \/ \E p \in Paths : PullPanics(e, p)
      PROVE Reset(e)
  BY <1>3 DEF PushFinish, PullFinish, RestoreFinish, Crash, PullPanics
<1>4. ASSUME NEW e \in Devices,
             \/ PushFinish(e) \/ PullFinish(e) \/ RestoreFinish(e) \/ Crash(e)
             \/ \E p \in Paths : PullPanics(e, p)
      PROVE FALSE
  <2>1. cmd[e] # "idle"
    BY <1>4 DEF PushFinish, PullFinish, RestoreFinish, Crash, PullPanics, PhaseInv, TasksOf
  <2> QED
    BY <1>2, <1>3, <1>4, <2>1
<1>5. ASSUME NEW e \in Devices, PullEmpty(e) \/ Resolve(e) PROVE FALSE
  <2>1. cmd' = cmd /\ \A c \in Devices : cmd[c] = "idle"
    BY <1>5 DEF PullEmpty, Resolve, KeepLocal, KeepRemote, MaySync, MayStart
  <2> QED
    BY <2>1
<1>6. ASSUME NEW e \in Devices, NEW p \in Paths,
             FileStep(e, p) \/ PullMerge(e, p) \/ RestoreCopy(e, p) \/ RestoreFails(e, p)
      PROVE e = d
  <2>1. CASE FileStep(e, p)
    <3>1. cmd' = cmd /\ task[e][p] # "none"
      BY <2>1, FileStepWorks DEF Work
    <3> QED
      BY <3>1 DEF PhaseInv, TasksOf, Alone
  <2>2. CASE PullMerge(e, p) \/ RestoreCopy(e, p) \/ RestoreFails(e, p)
    <3>1. cmd' = cmd /\ task[e][p] # "none"
      BY <2>2 DEF PullMerge, RestoreCopy, RestoreFails
    <3> QED
      BY <3>1 DEF PhaseInv, TasksOf, Alone
  <2> QED
    BY <1>6, <2>1, <2>2
<1>7. ASSUME NEW e \in Devices, Push(e)
      PROVE PushList(e) \/ PushFinish(e) \/ \E p \in Paths : FileStep(e, p)
  BY <1>7 DEF Push, FileStep
<1>8. ASSUME NEW e \in Devices, Pull(e)
      PROVE \/ PullScan(e) \/ PullFinish(e)
            \/ \E p \in Paths : FileStep(e, p) \/ PullMerge(e, p) \/ PullPanics(e, p)
  BY <1>8 DEF Pull, FileStep
<1>9. ASSUME NEW e \in Devices, Restore(e)
      PROVE RestoreFinish(e) \/ \E p \in Paths : RestoreCopy(e, p) \/ RestoreFails(e, p)
  BY <1>9 DEF Restore
<1>10. ASSUME Next
       PROVE  \/ \E e \in Devices, p \in Paths : Edit(e, p) \/ Delete(e, p)
              \/ \E e \in Devices : PushStart(e) \/ PullStart(e) \/ RestoreStart(e) \/ PushList(e) \/ PullScan(e)
              \/ \E e \in Devices, p \in Paths :
                   FileStep(e, p) \/ PullMerge(e, p) \/ RestoreCopy(e, p) \/ RestoreFails(e, p)
  BY <1>4, <1>5, <1>7, <1>8, <1>9, <1>10 DEF Next, User
<1> QED
  BY <1>1, <1>6, <1>10

\* The entries of a device stay outdated while nothing they speak of changes.
LEMMA OutdatedStays ==
    ASSUME NEW d \in Devices, NEW p \in Paths,
           UNCHANGED <<saved, mem, remote, bin, clock>>,
           Outdated(saved[d][p], p) /\ Outdated(mem[d][p], p)
    PROVE  Outdated(saved[d][p], p)' /\ Outdated(mem[d][p], p)'
  BY DEF Outdated, Restored, Tracked

\* A step about another file of the device leaves this one alone.
LEMMA OtherFile ==
    ASSUME TypeOK, NEW d \in Devices, NEW p \in Paths, NEW q \in Paths, q # p,
           FileStep(d, q) \/ PullMerge(d, q) \/ RestoreCopy(d, q) \/ RestoreFails(d, q)
    PROVE  /\ task'[d][p] = task[d][p] /\ seen'[d][p] = seen[d][p] /\ union'[d][p] = union[d][p]
           /\ mem'[d][p] = mem[d][p] /\ disk'[d][p] = disk[d][p] /\ sidecars'[d][p] = sidecars[d][p]
           /\ UNCHANGED <<cmd, saved>> /\ remote'[p] = remote[p]
<1> USE DEF device, command, store, history
<1>1. CASE FileStep(d, q)
  BY <1>1, FileStepWorks, FileStepLeaves DEF Work
<1>2. CASE PullMerge(d, q)
  BY <1>2 DEF PullMerge, Becomes, TypeOK
<1>3. CASE RestoreCopy(d, q) \/ RestoreFails(d, q)
  BY <1>3 DEF RestoreCopy, RestoreFails, Done, TypeOK
<1> QED
  BY <1>1, <1>2, <1>3

LEMMA StepUnderway ==
    ASSUME Versions, {"Exclusive", "Quiet", "ResolveFirst"} \subseteq Discipline,
           TypeOK, PhaseInv, Alone, BinInv, DownloadInv, StateInv, [Next]_vars,
           NEW d \in Devices, NEW p \in Paths
    PROVE  Underway(d, p)'
<1> USE DEF device, command, store, history
<1>0. TypeOK' /\ PhaseInv' /\ StoreMoves(p) /\ Recorded(d, p) /\ Underway(d, p)
  BY StepType, StepPhase, StoreSteps DEF StateInv
<1>1. CASE cmd'[d] = "idle"
  <2>1. task'[d][p] = "none"
    BY <1>0, <1>1 DEF PhaseInv, TasksOf
  <2> QED
    BY <1>1, <2>1 DEF Underway
<1>2. CASE UNCHANGED vars
  BY <1>0, <1>2, OutdatedStays DEF vars, Underway
<1>3. ASSUME cmd'[d] # "idle", NEW e \in Devices, NEW q \in Paths, Edit(e, q) \/ Delete(e, q)
      PROVE Underway(d, p)'
  <2>1. UNCHANGED <<sidecars, saved, mem, command, store>>
    BY <1>3 DEF Edit, Delete
  <2>2. task[d][p] = "rehash" => disk'[d][p] \in {disk[d][p], NoFile}
    BY <1>3, EditsWhenIdle, DeletesLeaveNothing
  <2>3. task'[d][p] = "rehash" => disk'[d][p].data \in {remote'[p].data, {}}
    BY <1>0, <2>1, <2>2 DEF Underway, NoFile
  <2> QED
    BY <1>0, <2>1, <2>3, OutdatedStays DEF Underway
<1>4. CASE PushStart(d)
  <2>1. sidecars'[d][p] = <<>> /\ cmd'[d] = "push"
    BY <1>4 DEF PushStart, MaySync, TypeOK
  <2>2. task'[d][p] \in {"none", "upload", "check"}
    <3>1. PICK force \in {FALSE} \cup {"Force" \in Events} :
            task' = [task EXCEPT ![d] = [x \in Paths |-> PushTask(d, x, force)]]
      BY <1>4 DEF PushStart
    <3>2. PushTask(d, p, force) \in {"none", "upload", "check"}
      BY DEF PushTask
    <3> QED
      BY <3>1, <3>2 DEF TypeOK
  <2> QED
    BY <2>1, <2>2 DEF Underway
<1>5. CASE PullStart(d)
  <2>1. /\ sidecars'[d][p] = <<>> /\ cmd[d] = "idle"
        /\ seen'[d][p] = remote[p] /\ UNCHANGED <<saved, mem, remote, bin, clock>>
        /\ task'[d][p] = PullTask(d, p)
    BY <1>5 DEF PullStart, MaySync, MayStart, TypeOK
  <2>2. PullTask(d, p) \notin {"head", "rehash", "write"}
    BY DEF PullTask
  <2>3. ASSUME PullTask(d, p) = "conflict" PROVE Outdated(saved[d][p], p) /\ Outdated(mem[d][p], p)
    <3>1. Exists(remote[p]) /\ Tracked(saved[d][p]) /\ remoteChanged(remote[p], saved[d][p])
      BY <2>3 DEF PullTask
    <3>2. saved[d][p].ver \in 1..clock /\ remote[p].ver # 0 /\ clock \in Nat
      BY <1>0, <3>1 DEF Recorded, Linked, BinInv, StoreStamped, TypeOK, Time
    <3>3. Outdated(saved[d][p], p)
      BY <3>1, <3>2 DEF Outdated, remoteChanged
    <3>4. mem[d][p] = saved[d][p]
      BY <2>1 DEF DownloadInv, IdleSaved
    <3> QED
      BY <3>3, <3>4
  <2> QED
    BY <2>1, <2>2, <2>3, OutdatedStays DEF Underway
<1>6. CASE RestoreStart(d)
  <2>1. task'[d][p] \in {"none", "restore"} /\ cmd'[d] = "restore"
    BY <1>6, RestorePlan DEF RestoreStart, TypeOK
  <2> QED
    BY <2>1 DEF Underway
<1>7. CASE PushList(d)
  <2>1. task[d][p] \in {"none", "check"} /\ cmd'[d] = "delete" /\ UNCHANGED sidecars
    BY <1>7 DEF PushList, PhaseInv, TasksOf, Left, TypeOK
  <2>2. task'[d][p] \in {task[d][p], "none"}
    BY <1>7 DEF PushList, TypeOK
  <2> QED
    BY <1>0, <2>1, <2>2 DEF Underway
<1>8. CASE PullScan(d)
  <2>1. cmd[d] = "pull" /\ UNCHANGED <<device, seen, remote>>
    BY <1>8 DEF PullScan
  <2>2. task'[d][p] = "none" \/ (task'[d][p] = "trash" /\ task[d][p] = "stale")
    BY <1>8 DEF PullScan, TypeOK
  <2> QED
    BY <1>0, <2>1, <2>2 DEF Underway
<1>9. ASSUME NEW q \in Paths, q # p,
             FileStep(d, q) \/ PullMerge(d, q) \/ RestoreCopy(d, q) \/ RestoreFails(d, q)
      PROVE Underway(d, p)'
  <2>1. /\ task'[d][p] = task[d][p] /\ seen'[d][p] = seen[d][p] /\ union'[d][p] = union[d][p]
        /\ mem'[d][p] = mem[d][p] /\ disk'[d][p] = disk[d][p] /\ sidecars'[d][p] = sidecars[d][p]
        /\ UNCHANGED <<cmd, saved>> /\ remote'[p] = remote[p]
    BY <1>9, OtherFile
  <2>2. ASSUME Outdated(saved[d][p], p), Outdated(mem[d][p], p)
        PROVE  Outdated(saved[d][p], p)' /\ Outdated(mem[d][p], p)'
    <3>1. Restored(p) => Restored(p)'
      <4>1. bin \subseteq bin'
        BY <1>9 DEF FileStep, PushSend, PushSendFails, PushRecord, DeleteCheck, DeleteCopy, DeleteObject,
             DeleteFails, PullConflict, PullWrite, PullRecord, PullUnion, PullStepFails, PullTrash,
             PullMerge, RestoreCopy, RestoreFails
      <4> QED
        BY <2>1, <4>1 DEF Restored
    <3>2. clock \in Nat /\ clock' \in Nat /\ clock <= clock'
      BY <1>0 DEF StoreMoves
    <3> QED
      BY <2>1, <2>2, <3>1, <3>2 DEF Outdated, Tracked
  <2> QED
    BY <1>0, <2>1, <2>2 DEF Underway
<1>10. CASE PushSend(d, p)
  <2>1. /\ task'[d][p] \in {"head", "none"} /\ seen'[d][p] = remote'[p] /\ sidecars' = sidecars
        /\ Exists(remote[p])'
    BY <1>10 DEF PushSend, Becomes, Done, Stamped, Exists, TypeOK
  <2>2. task[d][p] = "upload" /\ cmd' = cmd /\ cmd[d] = "push"
    BY <1>10 DEF PushSend, PhaseInv, TasksOf
  <2> QED
    BY <1>0, <2>1, <2>2 DEF Underway
<1>11. CASE PullWrite(d, p)
  <2>1. task'[d][p] = "rehash" /\ disk'[d][p].data = remote'[p].data /\ Exists(remote[p])'
        /\ UNCHANGED <<cmd, seen, remote, sidecars>> /\ task[d][p] = "download"
    BY <1>11 DEF PullWrite, Becomes, Exists, TypeOK
  <2> QED
    BY <1>0, <2>1 DEF Underway
<1>12. CASE PullMerge(d, p)
  <2>1. /\ task'[d][p] = "write" /\ union'[d][p].hash = remote'[p].data /\ Exists(remote[p])'
        /\ UNCHANGED <<cmd, seen, remote, sidecars>> /\ task[d][p] \in {"merge", "adopt"}
    BY <1>12 DEF PullMerge, Becomes, Merged, Exists, TypeOK
  <2> QED
    BY <1>0, <2>1 DEF Underway
<1>13. CASE DeleteCheck(d, p) \/ DeleteCopy(d, p)
  <2>1. task'[d][p] \in {"none", "copy", "erase"} /\ UNCHANGED <<cmd, sidecars>>
    BY <1>13 DEF DeleteCheck, DeleteCopy, Becomes, Done, TypeOK
  <2>2. cmd[d] = "delete" /\ task[d][p] \in {"check", "copy"}
    BY <1>13 DEF DeleteCheck, DeleteCopy, PhaseInv, TasksOf
  <2> QED
    BY <1>0, <2>1, <2>2 DEF Underway
\* The other steps of this file end its task.
<1>14. CASE \/ PushSendFails(d, p) \/ PushRecord(d, p) \/ DeleteObject(d, p) \/ DeleteFails(d, p)
            \/ PullConflict(d, p) \/ PullRecord(d, p) \/ PullUnion(d, p) \/ PullStepFails(d, p)
            \/ PullTrash(d, p) \/ RestoreCopy(d, p) \/ RestoreFails(d, p)
  <2>1. task'[d][p] = "none" /\ cmd' = cmd
    BY <1>14 DEF PushSendFails, PushRecord, DeleteObject, DeleteFails, PullConflict, PullRecord,
         PullUnion, PullStepFails, PullTrash, RestoreCopy, RestoreFails, Done, TypeOK
  <2>2. cmd[d] \in {"pull", "remove"} => seen'[d][p] = seen[d][p] /\ remote' = remote
    <3>1. CASE PushSendFails(d, p) \/ PushRecord(d, p) \/ DeleteFails(d, p) \/ PullConflict(d, p)
               \/ PullRecord(d, p) \/ PullUnion(d, p) \/ PullStepFails(d, p) \/ PullTrash(d, p)
      BY <3>1 DEF PushSendFails, PushRecord, DeleteFails, PullConflict, PullRecord, PullUnion,
           PullStepFails, PullTrash
    <3>2. CASE DeleteObject(d, p) \/ RestoreCopy(d, p) \/ RestoreFails(d, p)
      BY <3>2 DEF DeleteObject, RestoreCopy, RestoreFails, PhaseInv, TasksOf
    <3> QED
      BY <1>14, <3>1, <3>2
  <2> QED
    BY <1>0, <2>1, <2>2 DEF Underway
<1> QED
  BY <1>1, <1>2, <1>3, <1>4, <1>5, <1>6, <1>7, <1>8, <1>9, <1>10, <1>11, <1>12, <1>13, <1>14, OneActs
  DEF FileStep

\* While commands never overlap, Codex leaves files alone under a running one,
\* conflicts are resolved first, and every Head reports a version: what diff
\* calls synced is the remote's content, for any number of devices and paths,
\* whatever requests are lost, and whenever a command dies or a file vanishes.
THEOREM CleanIsEqual ==
    ASSUME Versions, {"Exclusive", "Quiet", "ResolveFirst"} \subseteq Discipline,
           {"HeadFails", "SameETag"} \cap Events = {}
    PROVE  Spec => []CleanMeansEqual
<1> DEFINE Inv == TypeOK /\ PhaseInv /\ Alone /\ BinInv /\ DownloadInv /\ StateInv
<1>1. Init => Inv
  BY InitType, InitPhase, InitRestore, InitBin, InitDownload, InitState DEF RestoreInv
<1>2. Inv /\ [Next]_vars => Inv'
  <2> SUFFICES ASSUME Inv, [Next]_vars PROVE Inv'
    OBVIOUS
  <2>1. TypeOK' /\ PhaseInv' /\ Alone' /\ BinInv' /\ DownloadInv'
    BY StepType, StepPhase, StepAlone, StepBin, StepDownload
  <2>2. StateInv'
    BY StepRecorded, StepUnderway DEF StateInv
  <2> QED
    BY <2>1, <2>2
<1>3. Inv => CleanMeansEqual
  <2> SUFFICES ASSUME Inv, NEW d \in Devices, NEW p \in Paths, Diff(d, p) = "synced"
               PROVE  disk[d][p].data = remote[p].data
    BY DEF CleanMeansEqual
  <2>1. /\ Exists(remote[p]) /\ disk[d][p].data = saved[d][p].hash /\ saved[d][p].hash # {}
        /\ ~remoteChanged(remote[p], saved[d][p])
    BY DEF Diff, LocallyChanged, Exists
  <2>2. Tracked(saved[d][p]) /\ Linked(saved[d][p], p) /\ ~Restored(p)
    BY <2>1 DEF remoteChanged, StateInv, Recorded, Restored
  <2>3. saved[d][p].ver \in 1..clock /\ remote[p].ver # 0 /\ clock \in Nat
    BY <2>1, <2>2 DEF Linked, BinInv, StoreStamped, TypeOK, Time
  <2>4. saved[d][p].ver = remote[p].ver
    BY <2>1, <2>3 DEF remoteChanged
  <2> QED
    BY <2>1, <2>2, <2>4 DEF Linked
<1> QED
  BY <1>1, <1>2, <1>3, PTL DEF Spec

-----------------------------------------------------------------------------
(* A user who keeps the rules loses no work, merged file or not.           *)

\* How the tool is meant to be used, with a provider that has versions and
\* requests that either fail or succeed.
Disciplined ==
    /\ Versions
    /\ Rules \subseteq Discipline
    /\ {"Crash", "Lost", "HeadFails", "Vanish"} \cap Events = {}

\* An edit that a user gave up, or that a trash directory or the bin holds.
PutAway(n) == n \in trashed \cup discarded \/ \E b \in bin : n \in b.data

\* A device has what the remote holds, though the user may have given it up.
Covered(d, p) ==
    \A n \in remote[p].data :
        \/ n \in disk[d][p].data
        \/ \E i \in 1..Len(sidecars[d][p]) : n \in sidecars[d][p][i]
        \/ PutAway(n)

\* So it has what state.json says it has synced.
HashKept(d, p) ==
    task[d][p] # "rehash" => \A n \in mem[d][p].hash : n \in disk[d][p].data \/ PutAway(n)

\* The bin holds what a delete is about to remove.
Copied(p) == Exists(remote[p]) => \E b \in bin : b.path = p /\ b.data = remote[p].data

\* Nobody else touches the file, or the object, that a task is about.
FileHeld(d, p) ==
    /\ task[d][p] = "erase" => Copied(p)
    /\ task[d][p] \in {"check", "copy", "erase"} => ~Exists(disk[d][p])
    /\ task[d][p] = "head" => Exists(disk[d][p]) /\ disk[d][p].data = seen[d][p].data
    /\ task[d][p] = "rehash" => Exists(disk[d][p]) /\ disk[d][p].data = remote[p].data
    /\ task[d][p] = "write" => Exists(remote[p]) /\ remote[p].data \subseteq union[d][p].data
    /\ task[d][p] \in {"merge", "adopt", "write"} => p \in Mergeable
    /\ task[d][p] \in {"download", "rehash", "conflict"} => p \notin Mergeable

\* A push follows a pull, which leaves nothing of the remote behind.
PulledBefore(d, p) ==
    /\ task[d][p] = "upload" => Covered(d, p)
    /\ cmd[d] \in {"pull", "remove"} /\ ~failed[d] /\ task[d][p] \in {"none", "stale", "trash"} =>
         Covered(d, p)
    /\ cmd[d] \in {"push", "delete"} => pulled = {}
    /\ d \in pulled => Covered(d, p)

\* The remote holds the path, or held it.
Known(p) == Exists(remote[p]) \/ \E b \in bin : b.path = p

\* A file that is not merged and that its device does not track is nowhere else.
Fresh(d, p) ==
    /\ Tracked(mem[d][p]) => Known(p) /\ mem[d][p].hash # {}
    /\ /\ p \notin Mergeable /\ task[d][p] \notin {"head", "rehash"}
       /\ Exists(disk[d][p]) /\ ~Tracked(mem[d][p])
       => /\ ~Known(p)
          /\ \A e \in Devices \ {d} : ~Exists(disk[e][p]) /\ ~Tracked(mem[e][p])

\* What an upload has carried is still in the store, or put away.
PublishedKept ==
    \A n \in published : PutAway(n) \/ \E p \in Paths : n \in remote[p].data

\* The rest of the work is in a file, or put away.
WorkKept ==
    \A n \in 1..edits :
        n \in published \/ PutAway(n) \/ \E d \in Devices, p \in Paths : n \in disk[d][p].data

LossInv ==
    /\ \A d \in Devices, p \in Paths :
         HashKept(d, p) /\ FileHeld(d, p) /\ PulledBefore(d, p) /\ Fresh(d, p)
    /\ PublishedKept /\ WorkKept

\* What the proof of LossInv rests on.
BaseInv ==
    /\ TypeOK /\ PhaseInv /\ BinInv /\ RestoreInv
    /\ PublishedInv /\ DownloadInv /\ StateInv

LEMMA InitBase == Init => BaseInv
  BY InitType, InitPhase, InitBin, InitRestore, InitPublished, InitDownload, InitState DEF BaseInv

LEMMA StepBase == ASSUME Disciplined, BaseInv, [Next]_vars PROVE BaseInv'
<1>1. Versions /\ {"Exclusive", "Quiet", "ResolveFirst"} \subseteq Discipline /\ "HeadFails" \notin Events
  BY DEF Disciplined, Rules
<1>2. TypeOK' /\ PhaseInv' /\ BinInv' /\ RestoreInv' /\ PublishedInv' /\ DownloadInv'
  BY <1>1, StepType, StepPhase, StepBin, StepRestore, StepPublished, StepDownload DEF BaseInv
<1>3. StateInv'
  BY <1>1, StepRecorded, StepUnderway DEF StateInv, BaseInv, RestoreInv
<1> QED
  BY <1>2, <1>3 DEF BaseInv

LEMMA InitLoss == Init => LossInv
  BY DEF Init, LossInv, HashKept, FileHeld, PulledBefore, Fresh, PublishedKept, WorkKept, Exists, Gone,
     NoFile, Untracked, Tracked

-----------------------------------------------------------------------------
(* How work moves. *)

\* A copy stays in the recycle bin.
LEMMA BinGrows == ASSUME TypeOK, PhaseInv, [Next]_vars PROVE bin \subseteq bin'
<1> USE DEF device, command, store, history
<1>1. ASSUME NEW d \in Devices, NEW p \in Paths,
             PushSend(d, p) \/ DeleteCheck(d, p) \/ DeleteCopy(d, p) \/ DeleteObject(d, p) \/ RestoreCopy(d, p)
      PROVE bin \subseteq bin'
  BY <1>1 DEF PushSend, DeleteCheck, DeleteCopy, DeleteObject, RestoreCopy
<1>2. ASSUME NEW d \in Devices, RestoreStart(d) PROVE bin' = bin
  BY <1>2 DEF RestoreStart
<1> QED
  BY <1>1, <1>2, MostMoveNothing DEF NoMove

LEMMA PutAwayStays ==
    ASSUME TypeOK, PhaseInv, [Next]_vars, NEW n, PutAway(n)
    PROVE  PutAway(n)'
  BY BinGrows, HistoryGrows DEF PutAway

\* Who writes an object.
LEMMA RemoteChanges ==
    ASSUME TypeOK, PhaseInv, [Next]_vars, NEW p \in Paths, remote'[p] # remote[p]
    PROVE  \E d \in Devices : PushSend(d, p) \/ DeleteObject(d, p) \/ RestoreCopy(d, p)
<1> USE DEF device, command, store, history
<1>1. ~NoMove
  BY DEF NoMove
<1>2. ASSUME NEW d \in Devices, NEW q \in Paths, DeleteCheck(d, q) \/ DeleteCopy(d, q) \/ RestoreStart(d)
      PROVE FALSE
  BY <1>2 DEF DeleteCheck, DeleteCopy, RestoreStart
<1>3. ASSUME NEW d \in Devices, NEW q \in Paths, PushSend(d, q) \/ DeleteObject(d, q) \/ RestoreCopy(d, q)
      PROVE  q = p
  <2>1. \E o : remote' = [remote EXCEPT ![q] = o]
    BY <1>3 DEF PushSend, DeleteObject, RestoreCopy
  <2> QED
    BY <2>1 DEF TypeOK
<1>4. ASSUME NEW d \in Devices, RestoreStart(d) PROVE FALSE
  BY <1>4 DEF RestoreStart
<1> QED
  BY <1>1, <1>2, <1>3, <1>4, MostMoveNothing

\* A delete leaves a copy of the object in the bin.
LEMMA DeletedKept ==
    ASSUME TypeOK, LossInv, NEW d \in Devices, NEW p \in Paths, DeleteObject(d, p)
    PROVE  /\ ~Exists(remote'[p]) /\ bin' = bin
           /\ Exists(remote[p]) => \E b \in bin : b.path = p /\ b.data = remote[p].data
<1> USE DEF device, command, store, history
<1>1. ~Exists(remote'[p]) /\ bin' = bin
  BY DEF DeleteObject, Exists, Gone, TypeOK
<1>2. Copied(p)
  BY DEF DeleteObject, LossInv, FileHeld
<1> QED
  BY <1>1, <1>2 DEF Copied

\* A path the remote has held stays known.
LEMMA KnownStays ==
    ASSUME Versions, TypeOK, PhaseInv, BinInv, LossInv, [Next]_vars, NEW p \in Paths, Known(p)
    PROVE  Known(p)'
<1>1. CASE \E b \in bin : b.path = p
  BY <1>1, BinGrows DEF Known
<1>2. CASE Exists(remote[p])
  <2>1. CASE Exists(remote'[p])
    BY <2>1 DEF Known, Exists
  <2>2. CASE ~Exists(remote'[p])
    <3>1. PICK d \in Devices : DeleteObject(d, p)
      BY <1>2, <2>2, OnlyDeleted
    <3> QED
      BY <1>2, <3>1, DeletedKept DEF Known
  <2> QED
    BY <2>1, <2>2
<1> QED
  BY <1>1, <1>2 DEF Known

\* An edit leaves a file for a trash directory, because a user gives it up, or
\* when a download takes the file's place.
LEMMA DiskOrAway ==
    ASSUME TypeOK, DownloadInv, [Next]_vars, NEW d \in Devices, NEW p \in Paths, ~PullWrite(d, p),
           NEW n \in disk[d][p].data
    PROVE  n \in disk'[d][p].data \/ n \in trashed' \cup discarded'
<1>1. CASE disk'[d][p] = disk[d][p]
  BY <1>1
<1>2. CASE Edit(d, p)
  BY <1>2 DEF Edit, TypeOK
<1>3. CASE Delete(d, p)
  BY <1>3 DEF Delete
<1>5. CASE PullUnion(d, p)
  <2>1. disk'[d][p].data = union[d][p].data
    BY <1>5 DEF PullUnion, TypeOK
  <2> QED
    BY <1>5, <2>1 DEF PullUnion, DownloadInv, Untouched
<1>6. CASE PullTrash(d, p)
  BY <1>6 DEF PullTrash
<1>7. ASSUME NEW k \in 1..Len(sidecars[d][p]), KeepRemote(d, p, k)
      PROVE  n \in disk'[d][p].data \/ n \in discarded'
  BY <1>7 DEF KeepRemote, TypeOK
<1> QED
  BY <1>1, <1>2, <1>3, <1>5, <1>6, <1>7, DiskChanges

\* Removing a sidecar leaves the others.
LEMMA OtherSidecars ==
    ASSUME NEW S, NEW s \in Seq(S), NEW k \in 1..Len(s), NEW i \in 1..Len(s), i # k
    PROVE  \E j \in 1..Len(RemoveAt(s, k)) : RemoveAt(s, k)[j] = s[i]
<1> DEFINE before == SubSeq(s, 1, k - 1)
           after == SubSeq(s, k + 1, Len(s))
<1>1. /\ before \in Seq(S) /\ Len(before) = k - 1
      /\ \A j \in 1..(k - 1) : before[j] = s[j]
  OBVIOUS
<1>2. /\ after \in Seq(S) /\ Len(after) = Len(s) - k
      /\ \A j \in 1..(Len(s) - k) : after[j] = s[k + j]
  OBVIOUS
<1> HIDE DEF before, after
<1>3. RemoveAt(s, k) = before \o after
  BY DEF RemoveAt, before, after
<1>4. CASE i < k
  <2>1. i \in 1..Len(before \o after) /\ (before \o after)[i] = s[i]
    BY <1>1, <1>2, <1>4
  <2> QED
    BY <1>3, <2>1
<1>5. CASE i > k
  <2>1. (i - 1) \in 1..Len(before \o after) /\ (before \o after)[i - 1] = after[i - k]
    BY <1>1, <1>2, <1>5
  <2>2. after[i - k] = s[i]
    BY <1>2, <1>5
  <2> QED
    BY <1>3, <2>1, <2>2
<1> QED
  BY <1>4, <1>5

\* An edit leaves a sidecar for the file, or because a user resolves against it.
LEMMA SidecarOrAway ==
    ASSUME TypeOK, [Next]_vars, NEW d \in Devices, NEW p \in Paths,
           NEW i \in 1..Len(sidecars[d][p]), NEW n \in sidecars[d][p][i]
    PROVE  \/ n \in disk'[d][p].data \cup discarded'
           \/ \E j \in 1..Len(sidecars'[d][p]) : n \in sidecars'[d][p][j]
<1> USE DEF device, command, store, history
<1>1. CASE sidecars'[d][p] = sidecars[d][p]
  BY <1>1
<1>2. CASE PullConflict(d, p)
  <2>1. sidecars[d][p] \in Seq(Content) /\ sidecars'[d][p] = Append(sidecars[d][p], remote[p].data)
    BY <1>2 DEF PullConflict, TypeOK
  <2>2. i \in 1..Len(sidecars'[d][p]) /\ sidecars'[d][p][i] = sidecars[d][p][i]
    BY <2>1
  <2> QED
    BY <2>2
<1>3. ASSUME NEW k \in 1..Len(sidecars[d][p]), KeepLocal(d, p, k) \/ KeepRemote(d, p, k)
      PROVE  \/ n \in disk'[d][p].data \cup discarded'
             \/ \E j \in 1..Len(sidecars'[d][p]) : n \in sidecars'[d][p][j]
  <2>1. sidecars[d][p] \in Seq(Content) /\ sidecars'[d][p] = RemoveAt(sidecars[d][p], k)
    BY <1>3 DEF KeepLocal, KeepRemote, TypeOK
  <2>2. CASE i # k
    <3>1. PICK j \in 1..Len(RemoveAt(sidecars[d][p], k)) : RemoveAt(sidecars[d][p], k)[j] = sidecars[d][p][i]
      BY <2>1, <2>2, OtherSidecars
    <3> QED
      BY <2>1, <3>1
  <2>3. CASE i = k /\ KeepLocal(d, p, k)
    BY <2>3 DEF KeepLocal
  <2>4. CASE i = k /\ KeepRemote(d, p, k)
    <3>1. disk'[d][p].data = sidecars[d][p][k]
      BY <2>4 DEF KeepRemote, TypeOK
    <3> QED
      BY <2>4, <3>1
  <2> QED
    BY <1>3, <2>2, <2>3, <2>4
<1>4. ASSUME NEW e \in Devices, NEW q \in Paths, e # d \/ q # p,
             \/ FileStep(e, q)
             \/ \E k \in 1..Len(sidecars[e][q]) : KeepLocal(e, q, k) \/ KeepRemote(e, q, k)
      PROVE  sidecars'[d][p] = sidecars[d][p]
  <2>1. CASE FileStep(e, q)
    BY <1>4, <2>1, FileStepLeaves
  <2>2. ASSUME NEW k \in 1..Len(sidecars[e][q]), KeepLocal(e, q, k) \/ KeepRemote(e, q, k)
        PROVE  sidecars'[d][p] = sidecars[d][p]
    <3>1. \E x : sidecars' = [sidecars EXCEPT ![e][q] = x]
      BY <2>2 DEF KeepLocal, KeepRemote
    <3> QED
      BY <1>4, <3>1 DEF TypeOK
  <2> QED
    BY <1>4, <2>1, <2>2
<1>5. ASSUME FileStep(d, p), ~PullConflict(d, p) PROVE sidecars'[d][p] = sidecars[d][p]
  BY <1>5 DEF FileStep, PushSend, PushSendFails, PushRecord, DeleteCheck, DeleteCopy, DeleteObject,
       DeleteFails, PullWrite, PullRecord, PullUnion, PullStepFails, PullTrash
<1>6. ASSUME NEW e \in Devices,
             \/ User(e) \/ PushStart(e) \/ PullStart(e) \/ PullEmpty(e) \/ RestoreStart(e) \/ Restore(e)
             \/ PushList(e) \/ PushFinish(e) \/ PullScan(e) \/ PullFinish(e) \/ Crash(e)
             \/ \E q \in Paths : PullMerge(e, q) \/ PullPanics(e, q)
      PROVE UNCHANGED sidecars
  BY <1>6 DEF User, Edit, Delete, PushStart, PullStart, PullEmpty, RestoreStart, Restore, RestoreCopy,
       RestoreFails, RestoreFinish, PushList, PushFinish, PullScan, PullFinish, Crash, PullMerge, PullPanics
<1>7. CASE UNCHANGED vars
  BY <1>1, <1>7 DEF vars
<1>8. CASE \E e \in Devices, q \in Paths :
             \/ FileStep(e, q)
             \/ \E k \in 1..Len(sidecars[e][q]) : KeepLocal(e, q, k) \/ KeepRemote(e, q, k)
  BY <1>1, <1>2, <1>3, <1>4, <1>5, <1>8
<1>9. ASSUME NEW e \in Devices, Push(e) \/ Pull(e)
      PROVE  \/ PushList(e) \/ PushFinish(e) \/ PullScan(e) \/ PullFinish(e)
             \/ \E q \in Paths : FileStep(e, q) \/ PullMerge(e, q) \/ PullPanics(e, q)
  BY <1>9 DEF Push, Pull, FileStep
<1> QED
  BY <1>1, <1>6, <1>7, <1>8, <1>9 DEF Next, Resolve

\* What covers an object covers it until a push replaces it.
LEMMA CoveredStays ==
    ASSUME TypeOK, PhaseInv, BinInv, DownloadInv, LossInv, [Next]_vars,
           NEW d \in Devices, NEW p \in Paths, Covered(d, p),
           \A e \in Devices : ~PushSend(e, p)
    PROVE  Covered(d, p)'
<1> USE DEF device, command, store, history
<1> SUFFICES ASSUME NEW n \in remote'[p].data
             PROVE  \/ n \in disk'[d][p].data
                    \/ \E i \in 1..Len(sidecars'[d][p]) : n \in sidecars'[d][p][i]
                    \/ PutAway(n)'
  BY DEF Covered
<1>1. CASE n \notin remote[p].data
  <2>1. PICK e \in Devices : DeleteObject(e, p) \/ RestoreCopy(e, p)
    BY <1>1, RemoteChanges
  <2>2. ~DeleteObject(e, p)
    BY DeletedKept DEF Exists
  <2>3. remote'[p].data = seen[e][p].data /\ task[e][p] = "restore"
    BY <2>1, <2>2 DEF RestoreCopy, TypeOK
  <2>4. PutAway(n)
    BY <2>3 DEF BinInv, Backed, PutAway
  <2> QED
    BY <2>4, PutAwayStays
<1>2. CASE n \in remote[p].data /\ PullWrite(d, p)
  BY <1>2 DEF PullWrite, TypeOK
<1>3. CASE n \in remote[p].data /\ ~PullWrite(d, p)
  <2>1. CASE n \in disk[d][p].data
    BY <1>3, <2>1, DiskOrAway DEF PutAway
  <2>2. CASE \E i \in 1..Len(sidecars[d][p]) : n \in sidecars[d][p][i]
    BY <2>2, SidecarOrAway DEF PutAway
  <2>3. CASE PutAway(n)
    BY <2>3, PutAwayStays
  <2> QED
    BY <1>3, <2>1, <2>2, <2>3 DEF Covered
<1> QED
  BY <1>1, <1>2, <1>3

-----------------------------------------------------------------------------
(* What each part of LossInv becomes in a step. *)

\* Under a running command nobody touches a file of its device.
LEMMA UsersElsewhere ==
    ASSUME Disciplined, TypeOK, NEW d \in Devices, cmd[d] # "idle",
           NEW e \in Devices, NEW p \in Paths, Edit(e, p) \/ Delete(e, p)
    PROVE  /\ disk'[d] = disk[d]
           /\ UNCHANGED <<sidecars, saved, mem, command, store, published, pulled>>
<1> USE DEF command, store
<1>1. cmd[e] = "idle"
  BY DEF Edit, Delete, Undisturbed, Disciplined, Rules
<1>2. UNCHANGED <<sidecars, saved, mem, command, store, published, pulled>>
  BY DEF Edit, Delete
<1>3. \E f : disk' = [disk EXCEPT ![e][p] = f]
  BY DEF Edit, Delete
<1> QED
  BY <1>1, <1>2, <1>3 DEF TypeOK

\* Who writes the state in memory, if no command dies.
LEMMA MemSteps ==
    ASSUME Disciplined, BaseInv, LossInv, [Next]_vars, NEW d \in Devices, NEW p \in Paths,
           mem'[d][p] # mem[d][p]
    PROVE  \/ mem'[d][p] = Untracked /\ ~Exists(disk'[d][p])
           \/ /\ PushRecord(d, p) \/ PullRecord(d, p) \/ PullUnion(d, p)
              /\ mem'[d][p].hash \subseteq disk'[d][p].data /\ mem'[d][p].hash = remote[p].data
              /\ Tracked(mem'[d][p]) /\ Exists(remote[p])
           \/ /\ \E k \in 1..Len(sidecars[d][p]) : KeepLocal(d, p, k) \/ KeepRemote(d, p, k)
              /\ Tracked(mem[d][p]) /\ mem'[d][p].hash # {}
              /\ \A n \in mem'[d][p].hash : n \in disk'[d][p].data \cup discarded'
<1> USE DEF device, command, store, history
<1>0. TypeOK /\ PhaseInv /\ BinInv /\ StateInv /\ DownloadInv /\ "HeadFails" \notin Events
  BY DEF BaseInv, Disciplined
<1>1. ASSUME NEW e \in Devices, NEW q \in Paths, FileStep(e, q) PROVE e = d /\ q = p
  BY <1>0, <1>1, FileStepWorks DEF Work
<1>2. CASE PushRecord(d, p) \/ PullRecord(d, p) \/ PullUnion(d, p)
  <2>1. mem'[d][p].hash = remote[p].data
    BY <1>0, <1>2, NewEntry DEF LossInv, FileHeld
  <2>2. mem'[d][p].hash \subseteq disk'[d][p].data
    <3>1. CASE PushRecord(d, p)
      <4>1. ~UNCHANGED mem
        OBVIOUS
      <4>2. UNCHANGED disk /\ disk[d][p].data = seen[d][p].data
        BY <3>1, <4>1 DEF PushRecord
      <4>3. seen[d][p] = remote[p]
        BY <1>0, <3>1 DEF PushRecord, StateInv, Underway
      <4> QED
        BY <2>1, <4>2, <4>3
    <3>2. CASE PullRecord(d, p)
      BY <1>0, <3>2 DEF PullRecord, TypeOK
    <3>3. CASE PullUnion(d, p)
      <4>1. disk'[d][p].data = union[d][p].data
        BY <1>0, <3>3 DEF PullUnion, TypeOK
      <4>2. remote[p].data \subseteq union[d][p].data
        BY <3>3 DEF PullUnion, LossInv, FileHeld
      <4> QED
        BY <2>1, <4>1, <4>2
    <3> QED
      BY <1>2, <3>1, <3>2, <3>3
  <2>3. remote[p].data # {}
    <3>1. CASE PushRecord(d, p)
      BY <1>0, <3>1 DEF PushRecord, StateInv, Underway, LossInv, FileHeld, Exists
    <3>2. CASE PullRecord(d, p)
      BY <3>2 DEF PullRecord, LossInv, FileHeld, Exists
    <3>3. CASE PullUnion(d, p)
      BY <3>3 DEF PullUnion, LossInv, FileHeld, Exists
    <3> QED
      BY <1>2, <3>1, <3>2, <3>3
  <2> QED
    BY <1>2, <2>1, <2>2, <2>3, HashedIsTracked DEF Exists
<1>3. CASE DeleteCheck(d, p) \/ DeleteObject(d, p)
  <2>1. UNCHANGED disk /\ task[d][p] \in {"check", "erase"} /\ mem' = [mem EXCEPT ![d][p] = Untracked]
    BY <1>3 DEF DeleteCheck, DeleteObject
  <2> QED
    BY <1>0, <2>1 DEF LossInv, FileHeld, TypeOK
<1>4. CASE PullTrash(d, p)
  BY <1>0, <1>4 DEF PullTrash, TypeOK, Exists, NoFile
<1>5. CASE FileStep(d, p) /\ ~DeleteCheck(d, p) /\ ~DeleteObject(d, p) /\ ~PullTrash(d, p)
           /\ ~PushRecord(d, p) /\ ~PullRecord(d, p) /\ ~PullUnion(d, p)
  <2>1. UNCHANGED mem
    BY <1>5 DEF FileStep, PushSend, PushSendFails, DeleteCopy, DeleteFails, PullConflict, PullWrite, PullStepFails
  <2> QED
    BY <2>1
<1>6. ASSUME NEW e \in Devices, NEW q \in Paths, NEW k \in 1..Len(sidecars[e][q]),
             KeepLocal(e, q, k) \/ KeepRemote(e, q, k)
      PROVE  /\ e = d /\ q = p
             /\ Tracked(mem[d][p]) /\ mem'[d][p].hash # {}
             /\ \A n \in mem'[d][p].hash : n \in disk'[d][p].data \cup discarded'
  <2> DEFINE other == sidecars[e][q][k]
             entry == [hash |-> other, ver |-> mem[e][q].ver, time |-> clock]
  <2>1. UNCHANGED mem \/ mem' = [mem EXCEPT ![e][q] = entry]
    BY <1>6 DEF KeepLocal, KeepRemote, Resolved, Disciplined
  <2>2. mem' = [mem EXCEPT ![e][q] = entry]
    BY <2>1
  <2>3. e = d /\ q = p /\ mem'[d][p] = entry
    <3> HIDE DEF entry
    <3> QED
      BY <1>0, <2>2 DEF TypeOK
  <2>4. mem'[d][p].hash = sidecars[d][p][k]
    BY <2>3
  <2>5. sidecars[d][p] # <<>>
    <3>1. sidecars[d][p] \in Seq(Content)
      BY <1>0 DEF TypeOK
    <3> QED
      BY <1>6, <2>3, <3>1
  <2>6. Tracked(mem[d][p]) /\ sidecars[d][p][k] # {}
    BY <1>0, <1>6, <2>3, <2>5 DEF StateInv, Recorded, Outdated
  <2>7. \A n \in sidecars[d][p][k] : n \in disk'[d][p].data \cup discarded'
    <3>1. CASE KeepLocal(d, p, k)
      BY <3>1 DEF KeepLocal
    <3>2. CASE KeepRemote(d, p, k)
      BY <1>0, <3>2 DEF KeepRemote, TypeOK
    <3> QED
      BY <1>6, <2>3, <3>1, <3>2
  <2> QED
    BY <2>3, <2>4, <2>6, <2>7, HashedIsTracked
<1>7. ASSUME NEW e \in Devices,
             \/ User(e) \/ PushStart(e) \/ PullStart(e) \/ PullEmpty(e) \/ RestoreStart(e) \/ Restore(e)
             \/ PushList(e) \/ PushFinish(e) \/ PullScan(e) \/ PullFinish(e) \/ Crash(e)
             \/ \E q \in Paths : PullMerge(e, q) \/ PullPanics(e, q)
      PROVE FALSE
  <2>1. CASE \E q \in Paths : PullPanics(e, q)
    BY <2>1 DEF PullPanics, LossInv, FileHeld
  <2>2. CASE ~\E q \in Paths : PullPanics(e, q)
    <3>1. UNCHANGED mem
      BY <1>7, <2>2 DEF User, Edit, Delete, PushStart, PullStart, PullEmpty, RestoreStart, Restore, RestoreCopy,
           RestoreFails, RestoreFinish, PushList, PushFinish, PullScan, PullFinish, Crash, PullMerge, Disciplined
    <3> QED
      BY <3>1
  <2> QED
    BY <2>1, <2>2
<1>8. ~UNCHANGED vars
  BY DEF vars
<1>9. ASSUME NEW e \in Devices, Push(e) \/ Pull(e)
      PROVE  \/ PushList(e) \/ PushFinish(e) \/ PullScan(e) \/ PullFinish(e)
             \/ \E q \in Paths : FileStep(e, q) \/ PullMerge(e, q) \/ PullPanics(e, q)
  BY <1>9 DEF Push, Pull, FileStep
<1>10. \/ FileStep(d, p)
       \/ \E k \in 1..Len(sidecars[d][p]) : KeepLocal(d, p, k) \/ KeepRemote(d, p, k)
  BY <1>1, <1>6, <1>7, <1>8, <1>9 DEF Next, Resolve
<1>11. CASE FileStep(d, p)
  BY <1>2, <1>3, <1>4, <1>5, <1>11
<1>12. CASE \E k \in 1..Len(sidecars[d][p]) : KeepLocal(d, p, k) \/ KeepRemote(d, p, k)
  BY <1>6, <1>12
<1> QED
  BY <1>10, <1>11, <1>12

\* A command ends in its own time, or looks for a file that is not there.
LEMMA RunEnds ==
    ASSUME Disciplined, BaseInv, LossInv, [Next]_vars,
           NEW d \in Devices, cmd[d] # "idle", cmd'[d] = "idle"
    PROVE  PushFinish(d) \/ PullFinish(d) \/ RestoreFinish(d)
<1> USE DEF device, command, store, history
<1>0. TypeOK
  BY DEF BaseInv
<1>1. ASSUME NEW e \in Devices, NEW c \in Commands \ {"idle"}, cmd' = [cmd EXCEPT ![e] = c] PROVE FALSE
  BY <1>0, <1>1 DEF TypeOK
<1>2. ASSUME NEW e \in Devices, PushStart(e) \/ PullStart(e) \/ RestoreStart(e) \/ PushList(e) \/ PullScan(e)
      PROVE FALSE
  <2>1. \E c \in Commands \ {"idle"} : cmd' = [cmd EXCEPT ![e] = c]
    BY <1>2 DEF PushStart, PullStart, RestoreStart, PushList, PullScan, Commands
  <2> QED
    BY <1>1, <2>1
<1>3. ASSUME NEW e \in Devices, Reset(e) PROVE e = d
  BY <1>0, <1>3 DEF Reset, TypeOK
<1>4. ASSUME NEW e \in Devices, NEW p \in Paths, PullPanics(e, p) PROVE FALSE
  BY <1>4 DEF PullPanics, LossInv, FileHeld
<1>5. ASSUME NEW e \in Devices, PushFinish(e) \/ PullFinish(e) \/ RestoreFinish(e) PROVE e = d
  BY <1>3, <1>5 DEF PushFinish, PullFinish, RestoreFinish
<1>6. ~\E e \in Devices : Crash(e)
  BY DEF Crash, Disciplined
<1>7. ASSUME NEW e \in Devices, NEW p \in Paths, FileStep(e, p) PROVE UNCHANGED cmd
  BY <1>0, <1>7, FileStepWorks DEF Work
<1>8. ASSUME NEW e \in Devices, NEW p \in Paths,
             \/ Edit(e, p) \/ Delete(e, p) \/ PullMerge(e, p) \/ RestoreCopy(e, p) \/ RestoreFails(e, p)
             \/ \E k \in 1..Len(sidecars[e][p]) : KeepLocal(e, p, k) \/ KeepRemote(e, p, k)
      PROVE UNCHANGED cmd
  BY <1>8 DEF Edit, Delete, PullMerge, RestoreCopy, RestoreFails, KeepLocal, KeepRemote
<1>9. ASSUME NEW e \in Devices, PullEmpty(e) PROVE UNCHANGED cmd
  BY <1>9 DEF PullEmpty
<1>10. ~UNCHANGED cmd
  OBVIOUS
<1>11. ~UNCHANGED vars
  BY <1>10 DEF vars
<1>12. ASSUME NEW e \in Devices, Push(e) \/ Pull(e)
       PROVE  \/ PushList(e) \/ PushFinish(e) \/ PullScan(e) \/ PullFinish(e)
              \/ \E q \in Paths : FileStep(e, q) \/ PullMerge(e, q) \/ PullPanics(e, q)
  BY <1>12 DEF Push, Pull, FileStep
<1>13. \E e \in Devices : PushFinish(e) \/ PullFinish(e) \/ RestoreFinish(e)
  BY <1>2, <1>4, <1>6, <1>7, <1>8, <1>9, <1>10, <1>11, <1>12 DEF Next, User, Resolve, Restore
<1> QED
  BY <1>5, <1>13

\* An upload or a download that has gone through is recorded.
LEMMA WrittenIsRecorded ==
    ASSUME Disciplined, BaseInv, LossInv, [Next]_vars, NEW d \in Devices, NEW p \in Paths,
           task[d][p] \in {"head", "rehash"}, task'[d][p] # task[d][p]
    PROVE  PushRecord(d, p) \/ PullRecord(d, p)
<1> USE DEF device, command, store, history
<1>0. TypeOK /\ PhaseInv /\ Alone /\ "Exclusive" \in Discipline
  BY DEF BaseInv, RestoreInv, Disciplined, Rules
<1>1. cmd[d] \in {"push", "pull"}
  BY <1>0 DEF PhaseInv, TasksOf
<1>2. CASE cmd'[d] = "idle"
  <2>1. PushFinish(d) \/ PullFinish(d) \/ RestoreFinish(d)
    BY <1>1, <1>2, RunEnds
  <2> QED
    BY <1>1, <2>1 DEF PushFinish, PullFinish, RestoreFinish, Left, Tasks
<1>3. CASE cmd'[d] # "idle"
  <2>1. CASE UNCHANGED vars \/ \E e \in Devices, q \in Paths : Edit(e, q) \/ Delete(e, q)
    BY <2>1 DEF vars, Edit, Delete
  <2>2. CASE PushStart(d) \/ PullStart(d) \/ RestoreStart(d)
    BY <1>1, <2>2 DEF PushStart, PullStart, RestoreStart, MaySync, MayStart
  <2>3. CASE PushList(d) \/ PullScan(d)
    BY <1>0, <2>3 DEF PushList, PullScan, Left, Tasks, PhaseInv, TasksOf
  <2>4. ASSUME NEW q \in Paths, q # p,
               FileStep(d, q) \/ PullMerge(d, q) \/ RestoreCopy(d, q) \/ RestoreFails(d, q)
        PROVE  FALSE
    BY <1>0, <2>4, OtherFile
  <2>5. CASE FileStep(d, p) \/ PullMerge(d, p) \/ RestoreCopy(d, p) \/ RestoreFails(d, p)
    BY <2>5 DEF FileStep, PushSend, PushSendFails, DeleteCheck, DeleteCopy, DeleteObject, DeleteFails,
         PullConflict, PullWrite, PullUnion, PullStepFails, PullTrash, PullMerge, RestoreCopy, RestoreFails
  <2> QED
    BY <1>0, <1>3, <2>1, <2>2, <2>3, <2>4, <2>5, OneActs
<1> QED
  BY <1>2, <1>3

LEMMA StepHashKept ==
    ASSUME Disciplined, BaseInv, LossInv, [Next]_vars, NEW d \in Devices, NEW p \in Paths
    PROVE  HashKept(d, p)'
<1> USE DEF device, command, store, history
<1>0. TypeOK /\ PhaseInv /\ DownloadInv /\ HashKept(d, p)
  BY DEF BaseInv, LossInv
<1> SUFFICES ASSUME task'[d][p] # "rehash", NEW n \in mem'[d][p].hash
             PROVE  n \in disk'[d][p].data \/ PutAway(n)'
  BY DEF HashKept
<1>1. CASE mem'[d][p] # mem[d][p]
  BY <1>1, MemSteps DEF Untracked, PutAway
<1>2. CASE mem'[d][p] = mem[d][p] /\ task[d][p] # "rehash"
  <2>1. ~PullWrite(d, p)
    BY <1>0 DEF PullWrite, Becomes, TypeOK
  <2>2. n \in disk[d][p].data \/ PutAway(n)
    BY <1>0, <1>2 DEF HashKept
  <2> QED
    BY <1>0, <2>1, <2>2, DiskOrAway, PutAwayStays DEF PutAway
<1>3. CASE mem'[d][p] = mem[d][p] /\ task[d][p] = "rehash"
  <2>1. PullRecord(d, p)
    BY <1>3, WrittenIsRecorded DEF PushRecord
  <2> QED
    BY <1>0, <2>1 DEF PullRecord, TypeOK
<1> QED
  BY <1>1, <1>2, <1>3

LEMMA StepFileHeld ==
    ASSUME Disciplined, BaseInv, LossInv, [Next]_vars, NEW d \in Devices, NEW p \in Paths
    PROVE  FileHeld(d, p)'
<1> USE DEF device, command, store, history
<1>0. /\ TypeOK /\ PhaseInv /\ Alone /\ "Exclusive" \in Discipline
      /\ TypeOK' /\ PhaseInv' /\ FileHeld(d, p)
  BY StepBase DEF BaseInv, RestoreInv, Disciplined, Rules, LossInv
<1>1. CASE task'[d][p] = "none" \/ cmd'[d] = "idle"
  BY <1>0, <1>1 DEF PhaseInv, TasksOf, FileHeld
<1>2. CASE UNCHANGED vars
  BY <1>0, <1>2 DEF vars, FileHeld, Copied, Exists
<1>3. ASSUME cmd'[d] # "idle", NEW e \in Devices, NEW q \in Paths, Edit(e, q) \/ Delete(e, q)
      PROVE FileHeld(d, p)'
  <2>1. cmd[d] # "idle"
    BY <1>3 DEF Edit, Delete
  <2>2. disk'[d] = disk[d] /\ UNCHANGED <<command, store>>
    BY <1>0, <1>3, <2>1, UsersElsewhere
  <2> QED
    BY <1>0, <2>2 DEF FileHeld, Copied, Exists
<1>4. CASE PushStart(d)
  <2>1. PICK force \in {FALSE} \cup {"Force" \in Events} :
          task' = [task EXCEPT ![d] = [x \in Paths |-> PushTask(d, x, force)]]
    BY <1>4 DEF PushStart
  <2>2. task'[d][p] = PushTask(d, p, force) /\ UNCHANGED disk
    BY <1>0, <1>4, <2>1 DEF PushStart, TypeOK
  <2> QED
    BY <2>2 DEF FileHeld, PushTask, Exists
<1>5. CASE PullStart(d)
  <2>1. task'[d][p] = PullTask(d, p)
    BY <1>0, <1>5 DEF PullStart, TypeOK
  <2> QED
    BY <2>1 DEF FileHeld, PullTask
<1>6. CASE RestoreStart(d) \/ PullScan(d)
  <2>1. task'[d][p] \in {"none", "trash", "restore"}
    <3>1. CASE RestoreStart(d)
      BY <1>0, <3>1, RestorePlan
    <3>2. CASE PullScan(d)
      BY <1>0, <3>2 DEF PullScan, TypeOK
    <3> QED
      BY <1>6, <3>1, <3>2
  <2> QED
    BY <2>1 DEF FileHeld
<1>7. CASE PushList(d)
  <2>1. UNCHANGED <<device, union, remote, bin>> /\ task'[d][p] \in {task[d][p], "none"} /\ task[d][p] # "head"
    BY <1>0, <1>7 DEF PushList, Left, TypeOK
  <2> QED
    BY <1>0, <2>1 DEF FileHeld, Copied, Exists
<1>8. ASSUME NEW q \in Paths, q # p,
             FileStep(d, q) \/ PullMerge(d, q) \/ RestoreCopy(d, q) \/ RestoreFails(d, q)
      PROVE FileHeld(d, p)'
  <2>1. bin \subseteq bin'
    BY <1>0, BinGrows
  <2> QED
    BY <1>0, <1>8, <2>1, OtherFile DEF FileHeld, Copied, Exists
<1>9. CASE PushSend(d, p)
  <2>1. /\ task'[d][p] \in {"head", "none"} /\ UNCHANGED disk /\ Exists(disk[d][p])
        /\ seen'[d][p].data = disk[d][p].data
    BY <1>0, <1>9 DEF PushSend, Becomes, Done, Stamped, TypeOK
  <2> QED
    BY <2>1 DEF FileHeld, Exists
<1>10. CASE DeleteCheck(d, p) \/ DeleteCopy(d, p)
  <2>1. task'[d][p] \in {"none", "copy", "erase"} /\ UNCHANGED disk /\ task[d][p] \in {"check", "copy"}
    BY <1>0, <1>10 DEF DeleteCheck, DeleteCopy, Becomes, Done, TypeOK
  <2>2. task'[d][p] = "erase" => Copied(p)'
    <3>1. CASE DeleteCheck(d, p)
      BY <1>0, <3>1 DEF DeleteCheck, Becomes, Done, TypeOK
    <3>2. CASE DeleteCopy(d, p)
      <4> DEFINE copy == [path |-> p, data |-> remote[p].data, ver |-> remote[p].ver]
      <4>1. copy.path = p /\ copy.data = remote[p].data
        OBVIOUS
      <4>2. CASE bin' = bin \cup {copy}
        <5> HIDE DEF copy
        <5> QED
          BY <3>2, <4>1, <4>2 DEF DeleteCopy, Copied
      <4>3. CASE Done(d, p)
        BY <1>0, <4>3 DEF Done, TypeOK
      <4> QED
        BY <3>2, <4>2, <4>3 DEF DeleteCopy
    <3> QED
      BY <1>10, <3>1, <3>2
  <2> QED
    BY <1>0, <2>1, <2>2 DEF FileHeld, Exists
<1>11. CASE PullWrite(d, p)
  <2>1. /\ task'[d][p] = "rehash" /\ task[d][p] = "download" /\ UNCHANGED remote /\ Exists(remote[p])
        /\ disk'[d][p].data = remote[p].data
    BY <1>0, <1>11 DEF PullWrite, Becomes, TypeOK
  <2> QED
    BY <1>0, <2>1 DEF FileHeld, Exists
<1>12. CASE PullMerge(d, p)
  <2>1. /\ task'[d][p] = "write" /\ task[d][p] \in {"merge", "adopt"} /\ UNCHANGED remote
        /\ Exists(remote[p]) /\ remote[p].data \subseteq union'[d][p].data
    BY <1>0, <1>12 DEF PullMerge, Becomes, Merged, MergeJSONL, TypeOK
  <2> QED
    BY <1>0, <2>1 DEF FileHeld, Exists
<1>13. CASE \/ PushSendFails(d, p) \/ PushRecord(d, p) \/ DeleteObject(d, p) \/ DeleteFails(d, p)
            \/ PullConflict(d, p) \/ PullRecord(d, p) \/ PullUnion(d, p) \/ PullStepFails(d, p)
            \/ PullTrash(d, p) \/ RestoreCopy(d, p) \/ RestoreFails(d, p)
  <2>1. task'[d][p] = "none"
    BY <1>0, <1>13 DEF PushSendFails, PushRecord, DeleteObject, DeleteFails, PullConflict, PullRecord,
         PullUnion, PullStepFails, PullTrash, RestoreCopy, RestoreFails, Done, TypeOK
  <2> QED
    BY <1>1, <2>1
<1> QED
  BY <1>0, <1>1, <1>2, <1>3, <1>4, <1>5, <1>6, <1>7, <1>8, <1>9, <1>10, <1>11, <1>12, <1>13, OneActs
  DEF FileStep

\* A pull has no work for a file only if the device has what the remote holds.
LEMMA NothingToPull ==
    ASSUME Disciplined, BaseInv, LossInv, NEW d \in Devices, NEW p \in Paths,
           cmd[d] = "idle", PullTask(d, p) \in {"none", "stale"}
    PROVE  Covered(d, p)
<1>0. /\ TypeOK /\ mem[d] = saved[d] /\ task[d][p] = "none" /\ Recorded(d, p)
      /\ HashKept(d, p) /\ Fresh(d, p)
  BY DEF BaseInv, DownloadInv, IdleSaved, PhaseInv, TasksOf, StateInv, LossInv
<1>1. CASE ~Exists(remote[p])
  BY <1>1 DEF Covered, Exists
<1>2. CASE Exists(remote[p])
  <2>1. Exists(disk[d][p])
    BY <1>2 DEF PullTask
  <2>2. Tracked(saved[d][p])
    <3>1. CASE p \in Mergeable
      BY <1>2, <2>1, <3>1 DEF PullTask, remoteChanged
    <3>2. CASE p \notin Mergeable
      BY <1>0, <1>2, <2>1, <3>2 DEF Fresh, Known
    <3> QED
      BY <3>1, <3>2
  <2>3. ~remoteChanged(remote[p], saved[d][p])
    BY <1>2, <2>1, <2>2 DEF PullTask
  <2>4. saved[d][p].ver = remote[p].ver
    <3>1. saved[d][p].ver \in 1..clock /\ remote[p].ver # 0 /\ clock \in Nat
      BY <1>0, <1>2, <2>2 DEF Recorded, Linked, BaseInv, BinInv, StoreStamped, TypeOK, Time
    <3> QED
      BY <2>3, <3>1 DEF remoteChanged
  <2>5. CASE Restored(p)
    BY <2>5 DEF Restored, Covered, PutAway
  <2>6. CASE saved[d][p].hash = remote[p].data
    BY <1>0, <2>6 DEF HashKept, Covered
  <2> QED
    BY <1>0, <2>2, <2>4, <2>5, <2>6 DEF Recorded, Linked, Fresh
<1> QED
  BY <1>1, <1>2

\* A device has pulled when a pull of its has ended.
LEMMA PulledGrows ==
    ASSUME Disciplined, TypeOK, [Next]_vars, NEW d \in Devices, d \in pulled', d \notin pulled
    PROVE  PullEmpty(d) \/ PullFinish(d)
<1> USE DEF device, command, store, history
<1>1. ASSUME NEW e \in Devices, PullEmpty(e) \/ PullFinish(e) PROVE e = d
  BY <1>1 DEF PullEmpty, PullFinish
<1>2. ASSUME NEW e \in Devices, NEW p \in Paths, FileStep(e, p) PROVE FALSE
  BY <1>2, FileStepLeaves
<1>3. ASSUME NEW e \in Devices,
             \/ User(e) \/ Resolve(e) \/ PushStart(e) \/ PullStart(e) \/ RestoreStart(e) \/ Restore(e)
             \/ PushList(e) \/ PushFinish(e) \/ PullScan(e) \/ Crash(e)
             \/ \E q \in Paths : PullMerge(e, q) \/ PullPanics(e, q)
      PROVE FALSE
  BY <1>3 DEF User, Edit, Delete, Resolve, KeepLocal, KeepRemote, PushStart, PullStart, RestoreStart, Restore,
       RestoreCopy, RestoreFails, RestoreFinish, PushList, PushFinish, PullScan, Crash, PullMerge, PullPanics
<1>4. ~UNCHANGED vars
  BY DEF vars
<1>5. ASSUME NEW e \in Devices, Push(e) \/ Pull(e)
      PROVE  \/ PushList(e) \/ PushFinish(e) \/ PullScan(e) \/ PullFinish(e)
             \/ \E q \in Paths : FileStep(e, q) \/ PullMerge(e, q) \/ PullPanics(e, q)
  BY <1>5 DEF Push, Pull, FileStep
<1> QED
  BY <1>1, <1>2, <1>3, <1>4, <1>5 DEF Next

LEMMA StepPulledBefore ==
    ASSUME Disciplined, BaseInv, LossInv, [Next]_vars, NEW d \in Devices, NEW p \in Paths
    PROVE  PulledBefore(d, p)'
<1> USE DEF device, command, store, history
<1>0. /\ TypeOK /\ PhaseInv /\ Alone /\ "Exclusive" \in Discipline /\ "PullFirst" \in Discipline
      /\ TypeOK' /\ PhaseInv' /\ \A e \in Devices : PulledBefore(e, p)
  BY StepBase DEF BaseInv, RestoreInv, Disciplined, Rules, LossInv
\* An upload of p: another device that runs, or has pulled since, there is none.
<1>1. ASSUME NEW e \in Devices, PushSend(e, p) PROVE PulledBefore(d, p)'
  <2>1. cmd[e] = "push" /\ cmd' = cmd /\ pulled' = pulled
    BY <1>0, <1>1 DEF PushSend, PhaseInv, TasksOf
  <2>2. pulled = {}
    BY <1>0, <2>1 DEF PulledBefore
  <2>3. CASE d = e
    <3>1. task'[d][p] \in {"head", "none"}
      BY <1>0, <1>1, <2>3 DEF PushSend, Becomes, Done, TypeOK
    <3> QED
      BY <2>1, <2>2, <2>3, <3>1 DEF PulledBefore
  <2>4. CASE d # e
    <3>1. cmd'[d] = "idle"
      BY <1>0, <2>1, <2>4 DEF Alone
    <3>2. task'[d][p] = "none"
      BY <1>0, <3>1 DEF PhaseInv, TasksOf
    <3> QED
      BY <2>1, <2>2, <3>1, <3>2 DEF PulledBefore
  <2> QED
    BY <2>3, <2>4
<1>2. ASSUME \A e \in Devices : ~PushSend(e, p) PROVE PulledBefore(d, p)'
  <2>1. Covered(d, p) => Covered(d, p)'
    BY <1>2, CoveredStays DEF BaseInv, Disciplined
  <2>2. d \in pulled' => Covered(d, p)'
    <3>1. CASE d \in pulled
      BY <1>0, <2>1, <3>1 DEF PulledBefore
    <3>2. CASE PullEmpty(d)
      BY <3>2 DEF PullEmpty, Covered, Exists
    <3>3. CASE PullFinish(d) /\ ~failed[d]
      <4>1. cmd[d] = "remove" /\ task[d][p] = "none"
        BY <1>0, <3>3 DEF PullFinish, Left, PhaseInv, TasksOf
      <4> QED
        BY <1>0, <2>1, <3>3, <4>1 DEF PulledBefore
    <3>4. CASE PullFinish(d) /\ failed[d]
      BY <3>4 DEF PullFinish
    <3> QED
      BY <1>0, <3>1, <3>2, <3>3, <3>4, PulledGrows
  <2> SUFFICES ASSUME cmd'[d] # "idle"
               PROVE  /\ task'[d][p] = "upload" => Covered(d, p)'
                      /\ cmd'[d] \in {"pull", "remove"} /\ ~failed'[d] /\ task'[d][p] \in {"none", "stale", "trash"} =>
                           Covered(d, p)'
                      /\ cmd'[d] \in {"push", "delete"} => pulled' = {}
    BY <1>0, <2>2 DEF PulledBefore, PhaseInv, TasksOf
  \* A step that leaves the command and the task.
  <2>3. ASSUME cmd'[d] = cmd[d], task'[d][p] = task[d][p], failed[d] => failed'[d], pulled' = pulled
        PROVE  /\ task'[d][p] = "upload" => Covered(d, p)'
               /\ cmd'[d] \in {"pull", "remove"} /\ ~failed'[d] /\ task'[d][p] \in {"none", "stale", "trash"} =>
                    Covered(d, p)'
               /\ cmd'[d] \in {"push", "delete"} => pulled' = {}
    BY <1>0, <2>1, <2>3 DEF PulledBefore
  <2>4. CASE UNCHANGED vars \/ \E e \in Devices, q \in Paths : Edit(e, q) \/ Delete(e, q)
    BY <2>3, <2>4 DEF vars, Edit, Delete
  <2>5. CASE PushStart(d)
    <3>1. cmd'[d] = "push" /\ pulled' = {} /\ d \in pulled
      BY <1>0, <2>5 DEF PushStart, TypeOK
    <3> QED
      BY <1>0, <2>1, <3>1 DEF PulledBefore
  <2>6. CASE PullStart(d)
    <3>1. cmd'[d] = "pull" /\ cmd[d] = "idle" /\ task'[d][p] = PullTask(d, p)
      BY <1>0, <2>6 DEF PullStart, MaySync, MayStart, TypeOK
    <3>2. PullTask(d, p) \notin {"upload", "trash"}
      BY DEF PullTask
    <3> QED
      BY <2>1, <3>1, <3>2, NothingToPull
  <2>7. CASE RestoreStart(d)
    <3>1. cmd'[d] = "restore"
      BY <1>0, <2>7 DEF RestoreStart, TypeOK
    <3> QED
      BY <1>0, <3>1 DEF PhaseInv, TasksOf
  <2>8. CASE PushList(d)
    <3>1. cmd'[d] = "delete" /\ cmd[d] = "push" /\ pulled' = pulled
      BY <1>0, <2>8 DEF PushList, TypeOK
    <3> QED
      BY <1>0, <3>1 DEF PulledBefore, PhaseInv, TasksOf
  <2>9. CASE PullScan(d)
    <3>1. /\ cmd'[d] = "remove" /\ cmd[d] = "pull" /\ task[d][p] \in {"none", "stale"}
          /\ ~failed'[d] => ~failed[d]
      BY <1>0, <2>9 DEF PullScan, Left, TypeOK
    <3> QED
      BY <1>0, <2>1, <3>1 DEF PulledBefore, PhaseInv, TasksOf
  <2>10. ASSUME NEW q \in Paths, FileStep(d, q) \/ PullMerge(d, q) \/ RestoreCopy(d, q) \/ RestoreFails(d, q)
         PROVE  cmd' = cmd /\ pulled' = pulled /\ (failed[d] => failed'[d])
    BY <1>0, <2>10 DEF FileStep, PushSend, PushSendFails, PushRecord, DeleteCheck, DeleteCopy, DeleteObject,
         DeleteFails, PullConflict, PullWrite, PullRecord, PullUnion, PullStepFails, PullTrash, PullMerge,
         RestoreCopy, RestoreFails, TypeOK
  <2>11. ASSUME NEW q \in Paths, q # p,
                FileStep(d, q) \/ PullMerge(d, q) \/ RestoreCopy(d, q) \/ RestoreFails(d, q)
         PROVE  /\ task'[d][p] = "upload" => Covered(d, p)'
                /\ cmd'[d] \in {"pull", "remove"} /\ ~failed'[d] /\ task'[d][p] \in {"none", "stale", "trash"} =>
                     Covered(d, p)'
                /\ cmd'[d] \in {"push", "delete"} => pulled' = {}
    BY <1>0, <2>3, <2>10, <2>11, OtherFile
  <2>12. CASE FileStep(d, p) \/ PullMerge(d, p) \/ RestoreCopy(d, p) \/ RestoreFails(d, p)
    <3>1. cmd' = cmd /\ (cmd[d] \in {"push", "delete"} => pulled' = {}) /\ (failed[d] => failed'[d])
      BY <1>0, <2>10, <2>12 DEF PulledBefore
    <3>2. task'[d][p] # "upload"
      BY <1>0, <2>12 DEF FileStep, PushSend, PushSendFails, PushRecord, DeleteCheck, DeleteCopy, DeleteObject,
           DeleteFails, PullConflict, PullWrite, PullRecord, PullUnion, PullStepFails, PullTrash, PullMerge,
           RestoreCopy, RestoreFails, Done, Becomes, TypeOK
    <3>3. ASSUME cmd[d] \in {"pull", "remove"}, ~failed'[d], task'[d][p] \in {"none", "stale", "trash"}
          PROVE  Covered(d, p)'
      <4>1. CASE PullConflict(d, p)
        <5>1. /\ sidecars'[d][p] = Append(sidecars[d][p], remote[p].data) /\ remote' = remote
              /\ sidecars[d][p] \in Seq(Content)
          BY <1>0, <4>1 DEF PullConflict, TypeOK
        <5> DEFINE i == Len(sidecars[d][p]) + 1
        <5>2. i \in 1..Len(sidecars'[d][p]) /\ sidecars'[d][p][i] = remote[p].data
          BY <5>1
        <5> HIDE DEF i
        <5> QED
          BY <5>1, <5>2 DEF Covered
      <4>2. CASE PullRecord(d, p)
        BY <2>1, <4>2 DEF PullRecord, LossInv, FileHeld, Covered
      <4>3. CASE PullUnion(d, p)
        BY <1>0, <4>3 DEF PullUnion, LossInv, FileHeld, Covered, TypeOK
      <4>4. CASE PullTrash(d, p)
        BY <1>0, <2>1, <3>1, <3>3, <4>4 DEF PullTrash, PulledBefore
      <4>5. CASE PullStepFails(d, p)
        BY <1>0, <3>3, <4>5 DEF PullStepFails, TypeOK
      <4>6. CASE PullWrite(d, p) \/ PullMerge(d, p)
        BY <1>0, <3>3, <4>6 DEF PullWrite, PullMerge, Becomes, TypeOK
      <4>7. CASE \/ PushSend(d, p) \/ PushSendFails(d, p) \/ PushRecord(d, p) \/ DeleteCheck(d, p)
                 \/ DeleteCopy(d, p) \/ DeleteObject(d, p) \/ DeleteFails(d, p)
                 \/ RestoreCopy(d, p) \/ RestoreFails(d, p)
        <5>1. task[d][p] \in {"upload", "head", "check", "copy", "erase", "restore"}
          BY <4>7 DEF PushSend, PushSendFails, PushRecord, DeleteCheck, DeleteCopy, DeleteObject, DeleteFails,
               RestoreCopy, RestoreFails
        <5> QED
          BY <1>0, <3>3, <5>1 DEF PhaseInv, TasksOf
      <4> QED
        BY <2>12, <4>1, <4>2, <4>3, <4>4, <4>5, <4>6, <4>7 DEF FileStep
    <3> QED
      BY <3>1, <3>2, <3>3
  <2> QED
    BY <1>0, <2>4, <2>5, <2>6, <2>7, <2>8, <2>9, <2>11, <2>12, OneActs
<1> QED
  BY <1>1, <1>2

\* Where a sidecar waits, the device tracks the file.
LEMMA SidecarsTracked ==
    ASSUME BaseInv, NEW d \in Devices, NEW p \in Paths, NEW k \in 1..Len(sidecars[d][p])
    PROVE  Tracked(mem[d][p])
<1>1. sidecars[d][p] # <<>>
  BY DEF BaseInv, TypeOK
<1> QED
  BY <1>1 DEF BaseInv, StateInv, Recorded, Outdated

\* Where a file comes from, if there was none.
LEMMA FileAppears ==
    ASSUME Disciplined, BaseInv, LossInv, [Next]_vars, NEW d \in Devices, NEW p \in Paths,
           p \notin Mergeable, ~Exists(disk[d][p]), Exists(disk'[d][p]), ~Tracked(mem[d][p])
    PROVE  \/ PullWrite(d, p)
           \/ Edit(d, p) /\ ~Known(p) /\ \A e \in Devices : ~Exists(disk[e][p])
<1> USE DEF device, command, store, history
<1>0. TypeOK /\ "Quiet" \in Discipline /\ "FreshNames" \in Discipline
  BY DEF BaseInv, Disciplined, Rules
<1>1. CASE Edit(d, p)
  <2>1. cmd[d] = "idle" /\ MayCreate(d, p)
    BY <1>0, <1>1 DEF Edit, Undisturbed
  <2>2. mem[d] = saved[d]
    BY <2>1 DEF BaseInv, DownloadInv, IdleSaved
  <2> QED
    BY <1>0, <1>1, <2>1, <2>2 DEF MayCreate, Known
<1>2. CASE Delete(d, p) \/ PullTrash(d, p)
  BY <1>0, <1>2 DEF Delete, PullTrash
<1>3. CASE PullUnion(d, p)
  BY <1>3 DEF PullUnion, LossInv, FileHeld
<1>4. ASSUME NEW k \in 1..Len(sidecars[d][p]), KeepRemote(d, p, k) PROVE FALSE
  BY <1>4, SidecarsTracked
<1>5. disk'[d][p] # disk[d][p]
  BY DEF Exists
<1> QED
  BY <1>0, <1>1, <1>2, <1>3, <1>4, <1>5, DiskChanges

\* A path becomes known when the first upload of it goes through.
LEMMA BecomesKnown ==
    ASSUME TypeOK, PhaseInv, BinInv, LossInv, [Next]_vars, NEW p \in Paths, ~Known(p), Known(p)'
    PROVE  \E d \in Devices : PushSend(d, p)
<1> USE DEF device, command, store, history
<1>1. ASSUME NEW d \in Devices, RestoreCopy(d, p) PROVE FALSE
  BY <1>1 DEF RestoreCopy, BinInv, Backed, Known
<1>2. CASE Exists(remote'[p])
  <2>1. remote'[p] # remote[p]
    BY <1>2 DEF Known, Exists
  <2>2. PICK d \in Devices : PushSend(d, p) \/ DeleteObject(d, p)
    BY <1>1, <2>1, RemoteChanges
  <2> QED
    BY <1>2, <2>2, DeletedKept
<1>3. CASE ~Exists(remote'[p])
  <2>1. PICK b \in bin' : b.path = p
    BY <1>3 DEF Known, Exists
  <2>2. b \notin bin
    BY <2>1 DEF Known
  <2>3. ASSUME NEW d \in Devices, NEW q \in Paths, DeleteCopy(d, q) PROVE FALSE
    <3>1. /\ bin' \subseteq bin \cup {[path |-> q, data |-> remote[q].data, ver |-> remote[q].ver]}
          /\ Exists(remote[q]) \/ UNCHANGED bin
      BY <2>3 DEF DeleteCopy
    <3>2. q = p /\ Exists(remote[p])
      BY <2>1, <2>2, <3>1
    <3> QED
      BY <3>2 DEF Known
  <2>4. ASSUME NEW d \in Devices, NEW q \in Paths,
               PushSend(d, q) \/ DeleteCheck(d, q) \/ DeleteObject(d, q) \/ RestoreCopy(d, q)
        PROVE  UNCHANGED bin
    BY <2>4 DEF PushSend, DeleteCheck, DeleteObject, RestoreCopy
  <2>5. ASSUME NEW d \in Devices, RestoreStart(d) PROVE UNCHANGED bin
    BY <2>5 DEF RestoreStart
  <2> QED
    BY <2>1, <2>2, <2>3, <2>4, <2>5, MostMoveNothing DEF NoMove
<1> QED
  BY <1>2, <1>3

LEMMA StepFresh ==
    ASSUME Disciplined, BaseInv, LossInv, [Next]_vars, NEW d \in Devices, NEW p \in Paths
    PROVE  Fresh(d, p)'
<1> USE DEF device, command, store, history
<1>0. /\ TypeOK /\ PhaseInv /\ BinInv /\ Versions
      /\ \A e \in Devices : Fresh(e, p) /\ FileHeld(e, p)
  BY DEF BaseInv, LossInv, Disciplined
<1>1. Tracked(mem'[d][p]) => Known(p)' /\ mem'[d][p].hash # {}
  <2>1. Known(p) => Known(p)'
    BY <1>0, KnownStays
  <2>2. CASE mem'[d][p] = mem[d][p]
    BY <1>0, <2>1, <2>2 DEF Fresh
  <2>3. CASE mem'[d][p] # mem[d][p]
    BY <1>0, <2>1, <2>3, MemSteps DEF Fresh, Known, Exists, Tracked, Untracked
  <2> QED
    BY <2>2, <2>3
<1> SUFFICES ASSUME p \notin Mergeable, task'[d][p] \notin {"head", "rehash"},
                    Exists(disk'[d][p]), ~Tracked(mem'[d][p])
             PROVE  ~Known(p)' /\ \A e \in Devices \ {d} : ~Exists(disk'[e][p]) /\ ~Tracked(mem'[e][p])
  BY <1>1 DEF Fresh, Tracked, Exists
<1>2. task[d][p] \notin {"head", "rehash"}
  <2> SUFFICES ASSUME task[d][p] \in {"head", "rehash"} PROVE FALSE
    OBVIOUS
  <2>1. PushRecord(d, p) \/ PullRecord(d, p)
    BY WrittenIsRecorded
  <2>2. CASE PushRecord(d, p)
    <3>1. disk[d][p].data = seen[d][p].data /\ Exists(disk[d][p])
      BY <1>0, <2>2 DEF PushRecord, FileHeld
    <3>2. \E ver \in {remote[p].ver} \cup OutcomeOf("HeadFails", 0) :
             mem' = [mem EXCEPT ![d][p] = [hash |-> seen[d][p].data, ver |-> ver, time |-> clock]]
      BY <2>2, <3>1 DEF PushRecord
    <3>3. mem'[d][p].hash = seen[d][p].data
      BY <1>0, <3>2 DEF TypeOK
    <3> QED
      BY <3>1, <3>3, HashedIsTracked DEF Exists
  <2>3. CASE PullRecord(d, p)
    <3>1. mem'[d][p].hash = disk[d][p].data /\ Exists(disk[d][p])
      BY <1>0, <2>3 DEF PullRecord, FileHeld, TypeOK
    <3> QED
      BY <3>1, HashedIsTracked DEF Exists
  <2> QED
    BY <2>1, <2>2, <2>3
<1>3. ~Tracked(mem[d][p])
  <2>1. CASE mem'[d][p] = mem[d][p]
    BY <2>1
  <2>2. CASE mem'[d][p] # mem[d][p]
    BY <2>2, MemSteps, HashedIsTracked
  <2> QED
    BY <2>1, <2>2
\* The file is new.
<1>4. CASE ~Exists(disk[d][p])
  <2>1. Edit(d, p) /\ ~Known(p) /\ \A e \in Devices : ~Exists(disk[e][p])
    <3>1. ~PullWrite(d, p)
      BY <1>0 DEF PullWrite, Becomes, TypeOK
    <3> QED
      BY <1>3, <1>4, <3>1, FileAppears
  <2>2. UNCHANGED <<mem, store>> /\ \A e \in Devices \ {d} : disk'[e][p] = disk[e][p]
    BY <1>0, <2>1 DEF Edit, TypeOK
  <2>3. \A e \in Devices : ~Tracked(mem[e][p])
    BY <1>0, <2>1 DEF Fresh
  <2> QED
    BY <2>1, <2>2, <2>3 DEF Known, Exists, Tracked
\* The file was new already.
<1>5. CASE Exists(disk[d][p])
  <2>1. ~Known(p) /\ \A e \in Devices \ {d} : ~Exists(disk[e][p]) /\ ~Tracked(mem[e][p])
    BY <1>0, <1>2, <1>3, <1>5 DEF Fresh
  <2>2. ASSUME NEW e \in Devices, PushSend(e, p) PROVE FALSE
    <3>1. e = d
      BY <2>1, <2>2 DEF PushSend
    <3>2. task'[d][p] = "head"
      BY <1>0, <2>2, <3>1 DEF PushSend, Becomes, TypeOK, Disciplined
    <3> QED
      BY <3>2
  <2>3. ~Known(p)'
    BY <1>0, <2>1, <2>2, BecomesKnown
  <2>4. ASSUME NEW e \in Devices \ {d} PROVE ~Exists(disk'[e][p]) /\ ~Tracked(mem'[e][p])
    <3>1. ~PullWrite(e, p)
      BY <2>1 DEF PullWrite, Known
    <3>2. ~Exists(disk'[e][p])
      BY <1>5, <2>1, <3>1, FileAppears
    <3>3. CASE mem'[e][p] = mem[e][p]
      BY <2>1, <3>2, <3>3
    <3>4. CASE mem'[e][p] # mem[e][p]
      BY <2>1, <3>2, <3>4, MemSteps DEF Known, Tracked, Untracked
    <3> QED
      BY <3>2, <3>3, <3>4
  <2> QED
    BY <2>3, <2>4
<1> QED
  BY <1>4, <1>5

\* What is uploaded is what the upload leaves under the key.
LEMMA PublishedGrows ==
    ASSUME TypeOK, PhaseInv, [Next]_vars
    PROVE  /\ published \subseteq published'
           /\ \A n \in published' \ published : \E p \in Paths : n \in remote'[p].data
<1> USE DEF device, command, store, history
<1>1. ASSUME NEW d \in Devices, NEW p \in Paths, PushSend(d, p)
      PROVE  published' = published \cup disk[d][p].data /\ remote'[p].data = disk[d][p].data
  BY <1>1 DEF PushSend, Stamped, TypeOK
<1>2. ASSUME NEW d \in Devices, NEW p \in Paths, FileStep(d, p), ~PushSend(d, p) PROVE UNCHANGED published
  BY <1>2 DEF FileStep, PushSendFails, PushRecord, DeleteCheck, DeleteCopy, DeleteObject, DeleteFails,
       PullConflict, PullWrite, PullRecord, PullUnion, PullStepFails, PullTrash
<1>3. ASSUME NEW d \in Devices,
             \/ User(d) \/ Resolve(d) \/ PushStart(d) \/ PullEmpty(d) \/ PullStart(d) \/ RestoreStart(d)
             \/ Restore(d) \/ PushList(d) \/ PushFinish(d) \/ PullScan(d) \/ PullFinish(d) \/ Crash(d)
             \/ \E q \in Paths : PullMerge(d, q) \/ PullPanics(d, q)
      PROVE UNCHANGED published
  BY <1>3 DEF User, Edit, Delete, Resolve, KeepLocal, KeepRemote, PushStart, PullEmpty, PullStart, RestoreStart,
       Restore, RestoreCopy, RestoreFails, RestoreFinish, PushList, PushFinish, PullScan, PullFinish, Crash,
       PullMerge, PullPanics
<1>4. CASE UNCHANGED vars
  BY <1>4 DEF vars
<1>5. ASSUME NEW e \in Devices, Push(e) \/ Pull(e)
      PROVE  \/ PushList(e) \/ PushFinish(e) \/ PullScan(e) \/ PullFinish(e)
             \/ \E q \in Paths : FileStep(e, q) \/ PullMerge(e, q) \/ PullPanics(e, q)
  BY <1>5 DEF Push, Pull, FileStep
<1> QED
  BY <1>1, <1>2, <1>3, <1>4, <1>5 DEF Next

LEMMA StepPublishedKept ==
    ASSUME Disciplined, BaseInv, LossInv, [Next]_vars
    PROVE  PublishedKept'
<1> USE DEF device, command, store, history
<1>0. TypeOK /\ PhaseInv /\ BinInv /\ RestoreInv
  BY DEF BaseInv, Disciplined
<1> SUFFICES ASSUME NEW n \in published'
             PROVE  PutAway(n)' \/ \E p \in Paths : n \in remote'[p].data
  BY DEF PublishedKept
<1>1. CASE n \notin published
  BY <1>0, <1>1, PublishedGrows
<1>2. CASE PutAway(n)
  BY <1>0, <1>2, PutAwayStays
<1>3. ASSUME NEW p \in Paths, n \in remote[p].data
      PROVE  PutAway(n)' \/ n \in remote'[p].data
  <2>1. CASE remote'[p] = remote[p]
    BY <1>3, <2>1
  <2>2. ASSUME NEW d \in Devices, PushSend(d, p) PROVE PutAway(n)' \/ n \in remote'[p].data
    <3>1. task[d][p] = "upload" /\ remote'[p].data = disk[d][p].data
      BY <1>0, <2>2 DEF PushSend, Stamped, TypeOK
    <3>2. Covered(d, p) /\ sidecars[d][p] = <<>>
      BY <3>1 DEF LossInv, PulledBefore, BaseInv, StateInv, Underway
    <3>3. n \in disk[d][p].data \/ PutAway(n)
      BY <1>3, <3>2 DEF Covered
    <3> QED
      BY <1>0, <3>1, <3>3, PutAwayStays
  <2>3. ASSUME NEW d \in Devices, DeleteObject(d, p) PROVE PutAway(n)'
    <3>1. \E b \in bin : n \in b.data
      BY <1>0, <1>3, <2>3, DeletedKept DEF Exists
    <3> QED
      BY <1>0, <3>1, PutAwayStays DEF PutAway
  <2>4. ASSUME NEW d \in Devices, RestoreCopy(d, p) PROVE FALSE
    BY <1>0, <1>3, <2>4 DEF RestoreCopy, RestoreInv, Exists
  <2> QED
    BY <1>0, <2>1, <2>2, <2>3, <2>4, RemoteChanges
<1> QED
  BY <1>1, <1>2, <1>3 DEF LossInv, PublishedKept

LEMMA StepWorkKept ==
    ASSUME Disciplined, BaseInv, LossInv, [Next]_vars
    PROVE  WorkKept'
<1> USE DEF device, command, store, history
<1>0. TypeOK /\ PhaseInv /\ DownloadInv /\ PublishedInv /\ published \subseteq published'
  BY PublishedGrows DEF BaseInv
<1> SUFFICES ASSUME NEW n \in 1..edits'
             PROVE  \/ n \in published' \/ PutAway(n)'
                    \/ \E d \in Devices, p \in Paths : n \in disk'[d][p].data
  BY DEF WorkKept
<1>1. CASE n \in published
  BY <1>0, <1>1
<1>2. CASE PutAway(n)
  BY <1>0, <1>2, PutAwayStays
<1>3. ASSUME NEW d \in Devices, NEW p \in Paths, n \in disk[d][p].data
      PROVE  n \in published \/ n \in disk'[d][p].data \/ PutAway(n)'
  <2>1. CASE ~PullWrite(d, p)
    BY <1>0, <1>3, <2>1, DiskOrAway DEF PutAway
  <2>2. CASE PullWrite(d, p)
    <3>1. Exists(disk[d][p]) /\ Exists(remote[p]) /\ task[d][p] = "download" /\ p \notin Mergeable
      BY <1>3, <2>2 DEF PullWrite, LossInv, FileHeld, Exists
    <3>2. Tracked(mem[d][p])
      BY <3>1 DEF LossInv, Fresh, Known
    <3>3. disk[d][p].data = mem[d][p].hash
      BY <1>0, <3>1, <3>2 DEF DownloadInv, Untouched
    <3> QED
      BY <1>0, <1>3, <3>3 DEF PublishedInv, DevicePublished
  <2> QED
    BY <2>1, <2>2
<1>4. CASE n \notin 1..edits
  <2>1. edits \in Nat
    BY <1>0, BoundType DEF TypeOK
  <2>2. /\ n = edits + 1
        /\ \E d \in Devices, p \in Paths : Edit(d, p) \/ Delete(d, p)
    BY <1>0, <1>4, <2>1, HistoryGrows
  <2>3. ASSUME NEW d \in Devices, NEW p \in Paths, Edit(d, p)
        PROVE  \E e \in Devices, q \in Paths : n \in disk'[e][q].data
    <3>1. disk'[d][p].data = disk[d][p].data \cup {edits + 1}
      BY <1>0, <2>3 DEF Edit, TypeOK
    <3> QED
      BY <2>2, <3>1
  <2>4. ASSUME NEW d \in Devices, NEW p \in Paths, Delete(d, p) PROVE PutAway(n)'
    BY <2>2, <2>4 DEF Delete, PutAway
  <2> QED
    BY <2>2, <2>3, <2>4
<1> QED
  BY <1>0, <1>1, <1>2, <1>3, <1>4 DEF LossInv, WorkKept

LEMMA StepLoss == ASSUME Disciplined, BaseInv, LossInv, [Next]_vars PROVE LossInv'
<1>1. \A d \in Devices, p \in Paths :
        HashKept(d, p)' /\ FileHeld(d, p)' /\ PulledBefore(d, p)' /\ Fresh(d, p)'
  BY StepHashKept, StepFileHeld, StepPulledBefore, StepFresh
<1> QED
  BY <1>1, StepPublishedKept, StepWorkKept DEF LossInv

LEMMA StoreKept ==
    /\ \A p \in Paths : remote[p].data \subseteq Kept
    /\ \A b \in bin : b.data \subseteq Kept
<1> DEFINE Files == {disk[d][p].data : d \in Devices, p \in Paths}
           Copies == Files \cup {remote[p].data : p \in Paths} \cup {copy.data : copy \in bin}
           Sidecars == {ToSet(sidecars[d][p]) : d \in Devices, p \in Paths}
<1>1. Kept = trashed \cup UNION (Copies \cup UNION Sidecars)
  BY DEF Kept
<1>2. (\A p \in Paths : remote[p].data \in Copies) /\ (\A b \in bin : b.data \in Copies)
  OBVIOUS
<1> HIDE DEF Copies, Sidecars
<1> QED
  BY <1>1, <1>2

\* No edit disappears unless a user gave it up, for any number of devices and
\* paths, merged or not, if the user keeps the rules, the provider has versions
\* and a request fails or succeeds as it says: pushes,
\* forced ones too, pulls, restores and resolutions in any order.
THEOREM NothingIsLost == ASSUME Disciplined PROVE Spec => []NoLostWork
<1>1. Init => BaseInv /\ LossInv
  BY InitBase, InitLoss
<1>2. BaseInv /\ LossInv /\ [Next]_vars => BaseInv' /\ LossInv'
  BY StepBase, StepLoss
<1>3. LossInv => NoLostWork
  <2> SUFFICES ASSUME LossInv, NEW n \in 1..edits
               PROVE  n \in Kept \cup discarded
    BY DEF NoLostWork
  <2>1. \A m : PutAway(m) => m \in Kept \cup discarded
    BY FilesKept, StoreKept DEF PutAway
  <2>2. CASE n \in published
    BY <2>1, <2>2, StoreKept DEF LossInv, PublishedKept
  <2>3. CASE n \notin published
    BY <2>1, <2>3, FilesKept DEF LossInv, WorkKept
  <2> QED
    BY <2>2, <2>3
<1> QED
  BY <1>1, <1>2, <1>3, PTL DEF Spec
================================================================================
