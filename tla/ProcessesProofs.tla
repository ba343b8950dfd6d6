---------------------------- MODULE ProcessesProofs ----------------------------
(***************************************************************************)
(* What any number of codex-sync processes that share state.json and the   *)
(* files of one device never do, wherever they die.                        *)
(***************************************************************************)
EXTENDS Processes, TLAPS

\* In each phase a process has only the tasks of that phase, and none between
\* two commands.
PhaseTasks(s) ==
    IF s = "push" THEN {"none", "upload", "record"}
    ELSE IF s = "pull" THEN {"none", "fetch", "write", "rehash", "conflict"}
    ELSE IF s = "trash" THEN {"none", "trash"}
    ELSE {"none"}

Phase(r) == \A p \in Paths : task[r][p] \in PhaseTasks(step[r])

\* Whoever renames a temporary file has written all of it.
Written(r) == step[r] = "rename" => tmp[r].kind = "state"

\* No file, or a content that some upload has carried.
Sent(c) == c \in published \cup {NoFile}
AllSent(files) == \A p \in Paths : Sent(files[p].hash)

\* What a process has loaded, holds, is going to replace and has just written.
Uploaded(r) ==
    /\ AllSent(tmp[r].files) /\ AllSent(mem[r])
    /\ \A p \in Paths :
         /\ Sent(held[r][p])
         /\ task[r][p] \in {"fetch", "write"} /\ Tracked(r, p) => Sent(disk[p])
         /\ task[r][p] = "rehash" => Sent(disk[p])

\* The path has an object, or another device has removed it.
Known(p) == remote[p] # NoObject \/ p \in removed
AllKnown(files) == \A p \in Paths : files[p] # NoEntry => Known(p)

\* Entries are of known paths, and a path that has an entry and is missing from
\* the listing was removed by another device.
Accounted(r) ==
    /\ AllKnown(tmp[r].files) /\ AllKnown(mem[r])
    /\ \A p \in Paths :
         /\ seen[r][p] # NoObject => Known(p)
         /\ task[r][p] = "record" => Known(p)
         /\ task[r][p] \in {"fetch", "write", "rehash", "conflict"} => seen[r][p] # NoObject
         /\ step[r] \in {"list", "pull", "trash"} /\ seen[r][p] = NoObject /\ mem[r][p] # NoEntry
              => p \in removed
         /\ task[r][p] = "trash" => p \in removed

Shared ==
    /\ AllSent(saved.files) /\ AllKnown(saved.files)
    /\ \A p \in Paths : Sent(remote[p].data)

Own(r) == Phase(r) /\ Written(r) /\ Uploaded(r) /\ Accounted(r)

Inv == TypeOK /\ Shared /\ \A r \in Processes : Own(r)

-----------------------------------------------------------------------------
LEMMA DataTypes ==
    /\ NoFile \in Content /\ NoObject \in Object
    /\ NoEntry \in Entry /\ NewState \in State
    /\ Missing \in Files /\ Torn \in Files
    /\ \A f \in State : Whole(f) \in Files
    /\ \A f \in Files : f.files \in State
    /\ \A c \in Content, v \in 0..MaxUploads : [hash |-> c, ver |-> v] \in Entry
    /\ \A o \in Object : o.data \in Content /\ o.ver \in 0..MaxUploads
    /\ NoTask \in [Paths -> Tasks] /\ Nothing \in [Paths -> Content]
    /\ NoneSeen \in [Paths -> Object]
<1>1. NoFile \in Content /\ NoObject \in Object /\ 0 \in 0..MaxUploads
  BY ProcessesAssumption DEF Content, NoFile, NoObject, Object
<1>2. NoEntry \in Entry /\ NewState \in State
  BY <1>1 DEF NoEntry, Entry, NewState, State
<1>3. Missing \in Files /\ Torn \in Files
  BY <1>2 DEF Missing, Torn, Files
<1>4. \A f \in State : Whole(f) \in Files
  BY DEF Whole, Files
<1>5. \A f \in Files : f.files \in State
  BY <1>2 DEF Files
<1>6. \A c \in Content, v \in 0..MaxUploads : [hash |-> c, ver |-> v] \in Entry
  BY DEF Entry
<1>7. \A o \in Object : o.data \in Content /\ o.ver \in 0..MaxUploads
  BY DEF Object
<1>8. /\ NoTask \in [Paths -> Tasks] /\ Nothing \in [Paths -> Content]
      /\ NoneSeen \in [Paths -> Object]
  BY <1>1 DEF NoTask, Nothing, NoneSeen, Tasks
<1> QED
  BY <1>1, <1>2, <1>3, <1>4, <1>5, <1>6, <1>7, <1>8

LEMMA InitType == Init => TypeOK
<1> SUFFICES ASSUME Init PROVE TypeOK
  OBVIOUS
<1>1. "idle" \in Steps
  BY DEF Steps
<1>2. 0 \in Content /\ 0 \in 0..MaxUploads
  BY ProcessesAssumption DEF Content
<1> QED
  BY <1>1, <1>2, DataTypes DEF Init, TypeOK

LEMMA GoesType ==
    ASSUME TypeOK, NEW r \in Processes, NEW to \in Steps, Goes(r, to)
    PROVE  step' \in [Processes -> Steps]
  BY DEF Goes, TypeOK

LEMMA DoesType ==
    ASSUME TypeOK, NEW r \in Processes, NEW p \in Paths, NEW what \in Tasks, Does(r, p, what)
    PROVE  task' \in [Processes -> [Paths -> Tasks]]
  BY DEF Does, TypeOK

LEMMA EndsType ==
    ASSUME TypeOK, NEW r \in Processes, Ends(r)
    PROVE  /\ step' \in [Processes -> Steps]
           /\ mem' \in [Processes -> State] /\ seen' \in [Processes -> [Paths -> Object]]
           /\ local' \in [Processes -> SUBSET Paths]
           /\ task' \in [Processes -> [Paths -> Tasks]]
           /\ held' \in [Processes -> [Paths -> Content]]
<1>1. "idle" \in Steps
  BY DEF Steps
<1> QED
  BY <1>1, DataTypes DEF Ends, Forgets, Goes, TypeOK

LEMMA StateFileType ==
    ASSUME TypeOK, NEW r \in Processes,
           Load(r) \/ BackUp(r) \/ CreateTemp(r) \/ WriteTemp(r) \/ RenameTemp(r) \/ Dies(r)
    PROVE  TypeOK'
<1> USE DEF device, stateFile, process, history
<1>1. CASE Load(r)
  <2>1. step' \in [Processes -> Steps]
    BY <1>1 DEF Load, Goes, TypeOK, Steps
  <2>2. mem' \in [Processes -> State]
    BY <1>1, DataTypes DEF Load, TypeOK
  <2> QED
    BY <1>1, <2>1, <2>2 DEF Load, TypeOK
<1>2. CASE BackUp(r)
  <2>1. step' \in [Processes -> Steps]
    BY <1>2 DEF BackUp, Goes, TypeOK, Steps
  <2> QED
    BY <1>2, <2>1, DataTypes DEF BackUp, TypeOK
<1>3. CASE CreateTemp(r)
  <2>1. step' \in [Processes -> Steps]
    BY <1>3 DEF CreateTemp, Goes, TypeOK, Steps
  <2> QED
    BY <1>3, <2>1, DataTypes DEF CreateTemp, TypeOK
<1>4. CASE WriteTemp(r)
  <2>1. step' \in [Processes -> Steps]
    BY <1>4 DEF WriteTemp, Goes, TypeOK, Steps
  <2>2. tmp' \in [Processes -> Files]
    BY <1>4, DataTypes DEF WriteTemp, TypeOK
  <2> QED
    BY <1>4, <2>1, <2>2 DEF WriteTemp, TypeOK
<1>5. CASE RenameTemp(r)
  <2>1. saved' \in Files /\ tmp' \in [Processes -> Files]
    BY <1>5, DataTypes DEF RenameTemp, TempName, TypeOK
  <2> QED
    BY <1>5, <2>1, EndsType DEF RenameTemp, TypeOK
<1>6. CASE Dies(r)
  <2>1. tmp' \in [Processes -> Files]
    BY <1>6, DataTypes DEF Dies, TypeOK
  <2> QED
    BY <1>6, <2>1, EndsType DEF Dies, TypeOK
<1> QED
  BY <1>1, <1>2, <1>3, <1>4, <1>5, <1>6

LEMMA PhaseType ==
    ASSUME TypeOK, NEW r \in Processes,
           \/ PushStart(r) \/ PushEnds(r)
           \/ PullList(r) \/ PullDecide(r) \/ PullScan(r) \/ PullEnds(r)
    PROVE  TypeOK'
<1> USE DEF device, stateFile, process, history
<1>1. CASE PushStart(r)
  <2>1. CASE Ends(r)
    BY <1>1, <2>1, EndsType DEF PushStart, TypeOK
  <2>2. CASE ~Ends(r)
    <3>1. step' \in [Processes -> Steps]
      BY <1>1, <2>2 DEF PushStart, Goes, TypeOK, Steps
    <3>2. task' \in [Processes -> [Paths -> Tasks]]
      BY <1>1, <2>2 DEF PushStart, TypeOK, Tasks
    <3> QED
      BY <1>1, <2>2, <3>1, <3>2 DEF PushStart, TypeOK
  <2> QED
    BY <2>1, <2>2
<1>2. CASE PushEnds(r)
  <2>1. step' \in [Processes -> Steps]
    BY <1>2 DEF PushEnds, Goes, TypeOK, Steps
  <2> QED
    BY <1>2, <2>1 DEF PushEnds, TypeOK
<1>3. CASE PullList(r)
  <2>1. CASE Ends(r)
    BY <1>3, <2>1, EndsType DEF PullList, TypeOK
  <2>2. CASE ~Ends(r)
    <3>1. step' \in [Processes -> Steps]
      BY <1>3, <2>2 DEF PullList, Goes, TypeOK, Steps
    <3> QED
      BY <1>3, <2>2, <3>1 DEF PullList, TypeOK
  <2> QED
    BY <2>1, <2>2
<1>4. CASE PullDecide(r)
  <2>1. step' \in [Processes -> Steps]
    BY <1>4 DEF PullDecide, Goes, TypeOK, Steps
  <2>2. task' \in [Processes -> [Paths -> Tasks]]
    BY <1>4 DEF PullDecide, TypeOK, Tasks
  <2> QED
    BY <1>4, <2>1, <2>2 DEF PullDecide, TypeOK
<1>5. CASE PullScan(r)
  <2>1. step' \in [Processes -> Steps]
    BY <1>5 DEF PullScan, Goes, TypeOK, Steps
  <2>2. task' \in [Processes -> [Paths -> Tasks]]
    BY <1>5 DEF PullScan, TypeOK, Tasks
  <2> QED
    BY <1>5, <2>1, <2>2 DEF PullScan, TypeOK
<1>6. CASE PullEnds(r)
  <2>1. step' \in [Processes -> Steps]
    BY <1>6 DEF PullEnds, Goes, TypeOK, Steps
  <2> QED
    BY <1>6, <2>1 DEF PullEnds, TypeOK
<1> QED
  BY <1>1, <1>2, <1>3, <1>4, <1>5, <1>6

LEMMA TaskType ==
    ASSUME TypeOK, NEW r \in Processes, NEW p \in Paths,
           \/ PushSend(r, p) \/ PushRecord(r, p) \/ StepFails(r, p)
           \/ PullFetch(r, p) \/ PullWrite(r, p) \/ PullRecord(r, p) \/ PullConflict(r, p)
           \/ PullTrash(r, p)
    PROVE  TypeOK'
<1> USE DEF device, stateFile, process, history
<1>1. CASE PushSend(r, p)
  <2>1. uploads' \in 0..MaxUploads /\ disk[p] \in Content
    BY <1>1, ProcessesAssumption DEF PushSend, TypeOK
  <2>2. remote' \in [Paths -> Object]
    BY <1>1, <2>1 DEF PushSend, TypeOK, Object
  <2>3. published' \subseteq Content /\ held' \in [Processes -> [Paths -> Content]]
    BY <1>1, <2>1 DEF PushSend, TypeOK
  <2>4. task' \in [Processes -> [Paths -> Tasks]]
    BY <1>1, DoesType DEF PushSend, Tasks
  <2> QED
    BY <1>1, <2>1, <2>2, <2>3, <2>4 DEF PushSend, TypeOK
<1>2. CASE PushRecord(r, p)
  <2>1. [hash |-> held[r][p], ver |-> remote[p].ver] \in Entry
    BY <1>2, DataTypes DEF PushRecord, HeadVersion, TypeOK
  <2>2. mem' \in [Processes -> State]
    BY <1>2, <2>1 DEF PushRecord, HeadVersion, TypeOK, State
  <2>3. task' \in [Processes -> [Paths -> Tasks]]
    BY <1>2, DoesType DEF PushRecord, Tasks
  <2>4. held' \in [Processes -> [Paths -> Content]]
    BY <1>2, DataTypes DEF PushRecord, TypeOK
  <2> QED
    BY <1>2, <2>2, <2>3, <2>4 DEF PushRecord, TypeOK
<1>3. CASE StepFails(r, p)
  <2>1. task' \in [Processes -> [Paths -> Tasks]]
    BY <1>3, DoesType DEF StepFails, Tasks
  <2>2. held' \in [Processes -> [Paths -> Content]]
    BY <1>3, DataTypes DEF StepFails, TypeOK
  <2> QED
    BY <1>3, <2>1, <2>2 DEF StepFails, TypeOK
<1>4. CASE PullFetch(r, p)
  <2>1. task' \in [Processes -> [Paths -> Tasks]]
    BY <1>4, DoesType DEF PullFetch, Tasks
  <2>2. held' \in [Processes -> [Paths -> Content]]
    BY <1>4, DataTypes DEF PullFetch, TypeOK
  <2> QED
    BY <1>4, <2>1, <2>2 DEF PullFetch, TypeOK
<1>5. CASE PullWrite(r, p)
  <2>1. task' \in [Processes -> [Paths -> Tasks]]
    BY <1>5, DoesType DEF PullWrite, Tasks
  <2>2. held' \in [Processes -> [Paths -> Content]] /\ disk' \in [Paths -> Content]
    BY <1>5, DataTypes DEF PullWrite, TypeOK
  <2> QED
    BY <1>5, <2>1, <2>2 DEF PullWrite, TypeOK
<1>6. CASE PullRecord(r, p)
  <2>1. [hash |-> disk[p], ver |-> seen[r][p].ver] \in Entry
    BY <1>6, DataTypes DEF PullRecord, TypeOK
  <2>2. mem' \in [Processes -> State]
    BY <1>6, <2>1 DEF PullRecord, TypeOK, State
  <2>3. task' \in [Processes -> [Paths -> Tasks]]
    BY <1>6, DoesType DEF PullRecord, Tasks
  <2> QED
    BY <1>6, <2>2, <2>3 DEF PullRecord, TypeOK
<1>7. CASE PullConflict(r, p)
  <2>1. task' \in [Processes -> [Paths -> Tasks]]
    BY <1>7, DoesType DEF PullConflict, Tasks
  <2> QED
    BY <1>7, <2>1 DEF PullConflict, TypeOK
<1>8. CASE PullTrash(r, p)
  <2>1. task' \in [Processes -> [Paths -> Tasks]]
    BY <1>8, DoesType DEF PullTrash, Tasks
  <2>2. disk' \in [Paths -> Content] /\ mem' \in [Processes -> State]
    BY <1>8, DataTypes DEF PullTrash, TypeOK, State
  <2> QED
    BY <1>8, <2>1, <2>2 DEF PullTrash, TypeOK
<1> QED
  BY <1>1, <1>2, <1>3, <1>4, <1>5, <1>6, <1>7, <1>8

LEMMA WorldType ==
    ASSUME TypeOK, NEW p \in Paths, World(p)
    PROVE  TypeOK'
<1> USE DEF device, stateFile, process, history
<1>1. CASE Edit(p)
  <2>1. edits + 1 \in Content
    BY <1>1, ProcessesAssumption DEF Edit, TypeOK, Content
  <2> QED
    BY <1>1, <2>1 DEF Edit, TypeOK
<1>2. CASE Delete(p)
  BY <1>2, DataTypes DEF Delete, TypeOK
<1>3. CASE DropSidecar(p)
  BY <1>3 DEF DropSidecar, TypeOK
<1>4. CASE OthersPush(p)
  <2>1. edits + 1 \in Content /\ uploads + 1 \in 0..MaxUploads
    BY <1>4, ProcessesAssumption DEF OthersPush, TypeOK, Content
  <2>2. [data |-> edits + 1, ver |-> uploads + 1] \in Object
    BY <2>1 DEF Object
  <2> QED
    BY <1>4, <2>1, <2>2 DEF OthersPush, TypeOK
<1>5. CASE OthersRemove(p)
  BY <1>5, DataTypes DEF OthersRemove, TypeOK
<1> QED
  BY <1>1, <1>2, <1>3, <1>4, <1>5 DEF World

LEMMA StepType ==
    ASSUME TypeOK, [Next]_vars
    PROVE  TypeOK'
<1>1. ASSUME NEW r \in Processes, Command(r) PROVE TypeOK'
  <2>1. CASE Load(r) \/ BackUp(r) \/ CreateTemp(r) \/ WriteTemp(r) \/ RenameTemp(r) \/ Dies(r)
    BY <2>1, StateFileType
  <2>2. CASE PushStart(r) \/ PushEnds(r) \/ PullList(r) \/ PullDecide(r) \/ PullScan(r) \/ PullEnds(r)
    BY <2>2, PhaseType
  <2>3. ASSUME NEW p \in Paths,
               \/ PushSend(r, p) \/ PushRecord(r, p) \/ StepFails(r, p)
               \/ PullFetch(r, p) \/ PullWrite(r, p) \/ PullRecord(r, p) \/ PullConflict(r, p)
               \/ PullTrash(r, p)
        PROVE  TypeOK'
    BY <2>3, TaskType
  <2> QED
    BY <1>1, <2>1, <2>2, <2>3 DEF Command
<1>2. ASSUME NEW p \in Paths, World(p) PROVE TypeOK'
  BY <1>2, WorldType
<1>3. CASE UNCHANGED vars
  BY <1>3 DEF vars, device, stateFile, process, history, TypeOK
<1> QED
  BY <1>1, <1>2, <1>3 DEF Next

-----------------------------------------------------------------------------
LEMMA InitInv == Init => Inv
<1> SUFFICES ASSUME Init PROVE Inv
  OBVIOUS
<1>1. NewState \in State /\ \A p \in Paths : NewState[p] = NoEntry
  BY DataTypes DEF NewState, State
<1>2. AllSent(NewState) /\ AllKnown(NewState)
  BY <1>1 DEF AllSent, AllKnown, Sent, NoEntry, NoFile
<1>3. Missing.files = NewState /\ Torn.files = NewState
  BY DEF Missing, Torn
<1>4. Shared
  BY <1>2, <1>3 DEF Init, Shared, NoneSeen, NoObject, Sent, NoFile
<1>5. ASSUME NEW r \in Processes PROVE Own(r)
  <2>1. Phase(r) /\ Written(r)
    BY DEF Init, Phase, PhaseTasks, Written, NoTask
  <2>2. Uploaded(r)
    BY <1>2, <1>3 DEF Init, Uploaded, NoTask, Nothing, Sent
  <2>3. Accounted(r)
    BY <1>2, <1>3 DEF Init, Accounted, NoTask, NoneSeen
  <2> QED
    BY <2>1, <2>2, <2>3 DEF Own
<1> QED
  BY <1>4, <1>5, InitType DEF Inv

-----------------------------------------------------------------------------
(* What a step leaves to the processes that do not take it. *)

Same(r) ==
    /\ step'[r] = step[r] /\ mem'[r] = mem[r] /\ seen'[r] = seen[r]
    /\ task'[r] = task[r] /\ held'[r] = held[r] /\ tmp'[r] = tmp[r]

LEMMA OthersSame ==
    ASSUME TypeOK, NEW r \in Processes, NEW s \in Processes \ {r}, Command(r)
    PROVE  Same(s)
<1> USE DEF device, stateFile, process, history, Same, Goes, Does, Ends, Forgets, TypeOK
<1>1. CASE Load(r) \/ BackUp(r)
  BY <1>1 DEF Load, BackUp
<1>2. CASE CreateTemp(r) \/ WriteTemp(r) \/ RenameTemp(r) \/ Dies(r)
  BY <1>2 DEF CreateTemp, WriteTemp, RenameTemp, Dies, TempName
<1>3. CASE PushStart(r) \/ PushEnds(r)
  BY <1>3 DEF PushStart, PushEnds
<1>4. CASE PullList(r) \/ PullDecide(r) \/ PullScan(r) \/ PullEnds(r)
  BY <1>4 DEF PullList, PullDecide, PullScan, PullEnds
<1>5. ASSUME NEW p \in Paths, PushSend(r, p) \/ PushRecord(r, p) \/ StepFails(r, p) PROVE Same(s)
  BY <1>5 DEF PushSend, PushRecord, StepFails
<1>6. ASSUME NEW p \in Paths, PullFetch(r, p) \/ PullWrite(r, p) \/ PullRecord(r, p) PROVE Same(s)
  BY <1>6 DEF PullFetch, PullWrite, PullRecord
<1>7. ASSUME NEW p \in Paths, PullConflict(r, p) \/ PullTrash(r, p) PROVE Same(s)
  BY <1>7 DEF PullConflict, PullTrash
<1> QED
  BY <1>1, <1>2, <1>3, <1>4, <1>5, <1>6, <1>7 DEF Command

\* What has been uploaded stays uploaded, what is known stays known, and a
\* command writes to a file only what has been uploaded.
Monotone ==
    /\ published \subseteq published' /\ removed \subseteq removed'
    /\ \A p \in Paths : Known(p) => Known(p)'
    /\ \A p \in Paths : disk'[p] = disk[p] \/ Sent(disk'[p])

LEMMA CommandMonotone ==
    ASSUME Inv, NEW r \in Processes, Command(r)
    PROVE  Monotone
<1> USE DEF device, stateFile, process, history, Monotone, Known, Sent, Inv, TypeOK
<1>1. CASE Load(r) \/ BackUp(r) \/ CreateTemp(r) \/ WriteTemp(r) \/ RenameTemp(r) \/ Dies(r)
  BY <1>1 DEF Load, BackUp, CreateTemp, WriteTemp, RenameTemp, Dies
<1>2. CASE PushStart(r) \/ PushEnds(r) \/ PullList(r) \/ PullDecide(r) \/ PullScan(r) \/ PullEnds(r)
  BY <1>2 DEF PushStart, PushEnds, PullList, PullDecide, PullScan, PullEnds
<1>3. ASSUME NEW p \in Paths, PushSend(r, p) PROVE Monotone
  <2>1. uploads + 1 # 0
    BY DEF TypeOK
  <2>2. [data |-> disk[p], ver |-> uploads + 1] # NoObject
    BY <2>1 DEF NoObject
  <2> QED
    BY <1>3, <2>2 DEF PushSend
<1>4. ASSUME NEW p \in Paths, PushRecord(r, p) \/ StepFails(r, p) PROVE Monotone
  BY <1>4 DEF PushRecord, StepFails
<1>5. ASSUME NEW p \in Paths, PullWrite(r, p) PROVE Monotone
  <2>1. Sent(held[r][p])
    BY DEF Own, Uploaded
  <2> QED
    BY <1>5, <2>1 DEF PullWrite
<1>6. ASSUME NEW p \in Paths, PullFetch(r, p) \/ PullRecord(r, p) \/ PullConflict(r, p) PROVE Monotone
  BY <1>6 DEF PullFetch, PullRecord, PullConflict
<1>7. ASSUME NEW p \in Paths, PullTrash(r, p) PROVE Monotone
  BY <1>7 DEF PullTrash
<1> QED
  BY <1>1, <1>2, <1>3, <1>4, <1>5, <1>6, <1>7 DEF Command

\* A process keeps its invariant while others take steps.
LEMMA SameOwn ==
    ASSUME Inv, NEW s \in Processes, Same(s), Monotone
    PROVE  Own(s)'
<1> USE DEF Same, Inv, Own
<1>1. Phase(s)' /\ Written(s)'
  BY DEF Phase, Written
<1>2. AllSent(tmp[s].files)' /\ AllSent(mem[s])'
  BY DEF Uploaded, AllSent, Sent, Monotone
<1>3. Uploaded(s)'
  BY <1>2 DEF Uploaded, Sent, Monotone, Tracked
<1>4. AllKnown(tmp[s].files)' /\ AllKnown(mem[s])'
  BY DEF Accounted, AllKnown, Monotone
<1>5. Accounted(s)'
  BY <1>4 DEF Accounted, Monotone
<1> QED
  BY <1>1, <1>3, <1>5

-----------------------------------------------------------------------------
(* What a step leaves to the process that takes it. *)

LEMMA Fresh ==
    /\ \A p \in Paths : NewState[p] = NoEntry
    /\ AllSent(NewState) /\ AllKnown(NewState)
    /\ AllSent(NewState)' /\ AllKnown(NewState)'
    /\ Missing.files = NewState /\ Torn.files = NewState
    /\ \A files : Whole(files).files = files /\ Whole(files).kind = "state"
  BY DEF NewState, NoEntry, NoFile, AllSent, Sent, AllKnown, Missing, Torn, Whole

LEMMA EndsOwn ==
    ASSUME Inv, NEW r \in Processes, Ends(r), Monotone,
           AllSent(tmp[r].files)', AllKnown(tmp[r].files)'
    PROVE  Own(r)'
<1>1. /\ step'[r] = "idle" /\ mem'[r] = NewState /\ seen'[r] = NoneSeen
      /\ task'[r] = NoTask /\ held'[r] = Nothing
  BY DEF Ends, Forgets, Goes, Inv, TypeOK
<1>2. Phase(r)' /\ Written(r)'
  BY <1>1 DEF Phase, PhaseTasks, NoTask, Written
<1>3. AllSent(mem[r])' /\ AllKnown(mem[r])'
  BY <1>1, Fresh DEF AllSent, Sent, AllKnown, NoEntry, NoFile
<1>4. Uploaded(r)'
  BY <1>1, <1>3 DEF Uploaded, NoTask, Nothing, Sent
<1>5. Accounted(r)'
  BY <1>1, <1>3 DEF Accounted, NoTask, NoneSeen
<1> QED
  BY <1>2, <1>4, <1>5 DEF Own

LEMMA StateFileOwn ==
    ASSUME Inv, NEW r \in Processes, Monotone,
           Load(r) \/ BackUp(r) \/ CreateTemp(r) \/ WriteTemp(r) \/ RenameTemp(r) \/ Dies(r)
    PROVE  Own(r)' /\ Shared'
<1> USE DEF device, stateFile, process, history, Inv
<1>1. TypeOK /\ Shared /\ Own(r)
  OBVIOUS
<1>2. CASE Load(r)
  <2>1. /\ step'[r] \in {"corrupt", "loaded"} /\ mem'[r] = saved.files
        /\ UNCHANGED <<saved, tmp, remote, seen, task, held, published, removed, disk>>
    BY <1>2 DEF Load, Goes, TypeOK
  <2>2. Phase(r)' /\ Written(r)'
    BY <1>2, <2>1 DEF Phase, PhaseTasks, Written, Own, Load
  <2>3. Uploaded(r)'
    BY <1>2, <2>1 DEF Uploaded, Own, Shared, AllSent, Sent, Phase, PhaseTasks, Load
  <2>4. Accounted(r)'
    BY <1>2, <2>1 DEF Accounted, Own, Shared, AllKnown, Known, Load
  <2>5. Shared'
    BY <2>1 DEF Shared, AllSent, Sent, AllKnown, Known
  <2> QED
    BY <2>2, <2>3, <2>4, <2>5 DEF Own
<1>3. CASE BackUp(r)
  <2>1. /\ step'[r] = "loaded" /\ saved' = Missing
        /\ UNCHANGED <<tmp, remote, mem, seen, task, held, published, removed, disk>>
    BY <1>3 DEF BackUp, Goes, TypeOK
  <2>2. Phase(r)' /\ Written(r)'
    BY <1>3, <2>1 DEF Phase, PhaseTasks, Written, Own, BackUp
  <2>3. Uploaded(r)' /\ Accounted(r)'
    BY <1>3, <2>1 DEF Uploaded, Accounted, Own, AllSent, Sent, AllKnown, Known, Tracked, BackUp
  <2>4. Shared'
    BY <2>1, Fresh DEF Shared, AllSent, Sent, AllKnown, Known
  <2> QED
    BY <2>2, <2>3, <2>4 DEF Own
<1>4. CASE CreateTemp(r)
  <2>1. /\ step[r] = "create" /\ step'[r] = "write" /\ tmp'[r] = Torn
        /\ UNCHANGED <<saved, remote, mem, seen, task, held, published, removed, disk>>
    BY <1>4 DEF CreateTemp, TempName, Goes, TypeOK
  <2>2. Phase(r)' /\ Written(r)'
    BY <2>1 DEF Phase, PhaseTasks, Written, Own
  <2>3. Uploaded(r)' /\ Accounted(r)'
    BY <2>1, Fresh DEF Uploaded, Accounted, Own, AllSent, Sent, AllKnown, Known, Tracked
  <2>4. Shared'
    BY <2>1 DEF Shared, AllSent, Sent, AllKnown, Known
  <2> QED
    BY <2>2, <2>3, <2>4 DEF Own
<1>5. CASE WriteTemp(r)
  <2>1. /\ step[r] = "write" /\ step'[r] = "rename" /\ tmp'[r] = Whole(mem[r])
        /\ UNCHANGED <<saved, remote, mem, seen, task, held, published, removed, disk>>
    BY <1>5 DEF WriteTemp, TempName, Goes, TypeOK
  <2>2. Phase(r)' /\ Written(r)'
    BY <2>1, Fresh DEF Phase, PhaseTasks, Written, Own
  <2>3. Uploaded(r)' /\ Accounted(r)'
    BY <2>1, Fresh DEF Uploaded, Accounted, Own, AllSent, Sent, AllKnown, Known, Tracked
  <2>4. Shared'
    BY <2>1 DEF Shared, AllSent, Sent, AllKnown, Known
  <2> QED
    BY <2>2, <2>3, <2>4 DEF Own
<1>6. CASE RenameTemp(r)
  <2>1. /\ saved' = tmp[r] /\ tmp'[r] = Missing /\ Ends(r)
        /\ UNCHANGED <<remote, published, removed>>
    BY <1>6 DEF RenameTemp, TempName, TypeOK
  <2>2. AllSent(tmp[r].files)' /\ AllKnown(tmp[r].files)'
    BY <2>1, Fresh DEF AllSent, Sent, AllKnown
  <2>3. Shared'
    BY <2>1 DEF Shared, Own, Uploaded, Accounted, AllSent, Sent, AllKnown, Known
  <2> QED
    BY <2>1, <2>2, <2>3, EndsOwn
<1>7. CASE Dies(r)
  <2>1. /\ tmp'[r] = Missing /\ Ends(r)
        /\ UNCHANGED <<saved, remote, published, removed>>
    BY <1>7 DEF Dies, TempName, TypeOK
  <2>2. AllSent(tmp[r].files)' /\ AllKnown(tmp[r].files)'
    BY <2>1, Fresh DEF AllSent, Sent, AllKnown
  <2>3. Shared'
    BY <2>1 DEF Shared, AllSent, Sent, AllKnown, Known
  <2> QED
    BY <2>1, <2>2, <2>3, EndsOwn
<1> QED
  BY <1>2, <1>3, <1>4, <1>5, <1>6, <1>7

LEMMA PushOwn ==
    ASSUME Inv, NEW r \in Processes, NEW p \in Paths, Monotone,
           PushSend(r, p) \/ PushRecord(r, p) \/ StepFails(r, p)
    PROVE  Own(r)' /\ Shared'
<1> USE DEF device, stateFile, process, history, Inv
<1>1. TypeOK /\ Shared /\ Own(r) /\ Monotone
  OBVIOUS
<1>2. CASE PushSend(r, p)
  <2>1. /\ step[r] = "push" /\ task[r][p] = "upload"
        /\ remote' = [remote EXCEPT ![p] = [data |-> disk[p], ver |-> uploads + 1]]
        /\ published' = published \cup {disk[p]}
        /\ held'[r] = [held[r] EXCEPT ![p] = disk[p]]
        /\ task'[r] = [task[r] EXCEPT ![p] = "record"]
        /\ UNCHANGED <<saved, tmp, step, mem, seen, removed, disk>>
    BY <1>2 DEF PushSend, Does, TypeOK
  <2>2. Phase(r)' /\ Written(r)'
    BY <2>1 DEF Phase, PhaseTasks, Written, Own, TypeOK
  <2>3. Uploaded(r)'
    BY <2>1 DEF Uploaded, Own, AllSent, Sent, Tracked, TypeOK
  <2>4. Known(p)'
    BY <2>1, ProcessesAssumption DEF Known, NoObject, TypeOK
  <2>5. Accounted(r)'
    BY <2>1, <2>4 DEF Accounted, Own, AllKnown, Monotone, TypeOK
  <2>6. Shared'
    BY <2>1 DEF Shared, AllSent, Sent, AllKnown, Monotone, TypeOK
  <2> QED
    BY <2>2, <2>3, <2>5, <2>6 DEF Own
<1>3. CASE PushRecord(r, p)
  <2>1. /\ step[r] = "push" /\ task[r][p] = "record"
        /\ mem'[r] = [mem[r] EXCEPT ![p] = [hash |-> held[r][p], ver |-> remote[p].ver]]
        /\ held'[r] = [held[r] EXCEPT ![p] = NoFile]
        /\ task'[r] = [task[r] EXCEPT ![p] = "none"]
        /\ UNCHANGED <<saved, tmp, remote, step, seen, published, removed, disk>>
    BY <1>3 DEF PushRecord, HeadVersion, Does, TypeOK
  <2>2. Phase(r)' /\ Written(r)'
    BY <2>1 DEF Phase, PhaseTasks, Written, Own, TypeOK
  <2>3. Uploaded(r)'
    BY <2>1 DEF Uploaded, Own, AllSent, Sent, Tracked, TypeOK, State, Phase, PhaseTasks
  <2>4. Accounted(r)'
    BY <2>1 DEF Accounted, Own, AllKnown, Known, TypeOK, State
  <2>5. Shared'
    BY <2>1 DEF Shared, AllSent, Sent, AllKnown, Known
  <2> QED
    BY <2>2, <2>3, <2>4, <2>5 DEF Own
<1>4. CASE StepFails(r, p)
  <2>1. /\ held'[r] = [held[r] EXCEPT ![p] = NoFile]
        /\ task'[r] = [task[r] EXCEPT ![p] = "none"]
        /\ UNCHANGED <<saved, tmp, remote, step, mem, seen, published, removed, disk>>
    BY <1>4 DEF StepFails, Does, TypeOK
  <2>2. Phase(r)' /\ Written(r)'
    BY <2>1 DEF Phase, PhaseTasks, Written, Own, TypeOK
  <2>3. Uploaded(r)'
    BY <2>1 DEF Uploaded, Own, AllSent, Sent, Tracked, TypeOK
  <2>4. Accounted(r)'
    BY <2>1 DEF Accounted, Own, AllKnown, Known, TypeOK
  <2>5. Shared'
    BY <2>1 DEF Shared, AllSent, Sent, AllKnown, Known
  <2> QED
    BY <2>2, <2>3, <2>4, <2>5 DEF Own
<1> QED
  BY <1>2, <1>3, <1>4

LEMMA PhaseKept ==
    ASSUME NEW r \in Processes, Phase(r), step' = step,
           \A q \in Paths : task'[r][q] \in {"none", task[r][q]}
    PROVE  Phase(r)'
  BY DEF Phase, PhaseTasks

LEMMA PullOwn ==
    ASSUME Inv, NEW r \in Processes, NEW p \in Paths, Monotone,
           \/ PullFetch(r, p) \/ PullWrite(r, p) \/ PullRecord(r, p)
           \/ PullConflict(r, p) \/ PullTrash(r, p)
    PROVE  Own(r)' /\ Shared'
<1> USE DEF device, stateFile, process, history, Inv
<1>1. TypeOK /\ Shared /\ Own(r)
  OBVIOUS
<1>2. UNCHANGED <<saved, tmp, remote, step, seen, published, removed>>
  BY DEF PullFetch, PullWrite, PullRecord, PullConflict, PullTrash
<1>3. Shared'
  BY <1>2 DEF Shared, AllSent, Sent, AllKnown, Known
<1>4. CASE PullFetch(r, p)
  <2>1. /\ step[r] = "pull" /\ task[r][p] = "fetch"
        /\ held'[r] = [held[r] EXCEPT ![p] = remote[p].data]
        /\ task'[r] = [task[r] EXCEPT ![p] = "write"]
        /\ UNCHANGED <<mem, disk>>
    BY <1>4 DEF PullFetch, Does, TypeOK
  <2>2. Phase(r)' /\ Written(r)'
    <3>1. \A q \in Paths : task'[r][q] \in {"write", task[r][q]}
      BY <2>1 DEF TypeOK
    <3>2. Phase(r)'
      BY <1>2, <2>1, <3>1 DEF Own, Phase, PhaseTasks
    <3>3. Written(r)'
      BY <1>2 DEF Written, Own
    <3> QED
      BY <3>2, <3>3
  <2>3. Uploaded(r)'
    BY <1>2, <2>1 DEF Uploaded, Own, Shared, AllSent, Sent, Tracked, TypeOK
  <2>4. Accounted(r)'
    BY <1>2, <2>1 DEF Accounted, Own, AllKnown, Known, TypeOK
  <2> QED
    BY <1>3, <2>2, <2>3, <2>4 DEF Own
<1>5. CASE PullWrite(r, p)
  <2>1. /\ step[r] = "pull" /\ task[r][p] = "write"
        /\ disk' = [disk EXCEPT ![p] = held[r][p]]
        /\ held'[r] = [held[r] EXCEPT ![p] = NoFile]
        /\ task'[r] = [task[r] EXCEPT ![p] = "rehash"]
        /\ UNCHANGED mem
    BY <1>5 DEF PullWrite, Does, TypeOK
  <2>2. Phase(r)' /\ Written(r)'
    <3>1. \A q \in Paths : task'[r][q] \in {"rehash", task[r][q]}
      BY <2>1 DEF TypeOK
    <3>2. Phase(r)'
      BY <1>2, <2>1, <3>1 DEF Own, Phase, PhaseTasks
    <3>3. Written(r)'
      BY <1>2 DEF Written, Own
    <3> QED
      BY <3>2, <3>3
  <2>3. Uploaded(r)'
    BY <1>2, <2>1 DEF Uploaded, Own, AllSent, Sent, Tracked, TypeOK
  <2>4. Accounted(r)'
    BY <1>2, <2>1 DEF Accounted, Own, AllKnown, Known, TypeOK
  <2> QED
    BY <1>3, <2>2, <2>3, <2>4 DEF Own
<1>6. CASE PullRecord(r, p)
  <2>1. /\ step[r] = "pull" /\ task[r][p] = "rehash"
        /\ mem'[r] = [mem[r] EXCEPT ![p] = [hash |-> disk[p], ver |-> seen[r][p].ver]]
        /\ task'[r] = [task[r] EXCEPT ![p] = "none"]
        /\ UNCHANGED <<held, disk>>
    BY <1>6 DEF PullRecord, Does, TypeOK
  <2>2. Phase(r)' /\ Written(r)'
    <3>1. \A q \in Paths : task'[r][q] \in {"none", task[r][q]}
      BY <2>1 DEF TypeOK
    <3>2. Phase(r)'
      BY <1>2, <3>1, PhaseKept DEF Own
    <3>3. Written(r)'
      BY <1>2 DEF Written, Own
    <3> QED
      BY <3>2, <3>3
  <2>3. Uploaded(r)'
    BY <1>2, <2>1 DEF Uploaded, Own, AllSent, Sent, Tracked, TypeOK, State
  <2>4. Accounted(r)'
    BY <1>2, <2>1 DEF Accounted, Own, AllKnown, Known, TypeOK, State
  <2> QED
    BY <1>3, <2>2, <2>3, <2>4 DEF Own
<1>7. CASE PullConflict(r, p)
  <2>1. /\ task'[r] = [task[r] EXCEPT ![p] = "none"]
        /\ UNCHANGED <<mem, held, disk>>
    BY <1>7 DEF PullConflict, Does, TypeOK
  <2>2. Phase(r)' /\ Written(r)'
    <3>1. \A q \in Paths : task'[r][q] \in {"none", task[r][q]}
      BY <2>1 DEF TypeOK
    <3>2. Phase(r)'
      BY <1>2, <3>1, PhaseKept DEF Own
    <3>3. Written(r)'
      BY <1>2 DEF Written, Own
    <3> QED
      BY <3>2, <3>3
  <2>3. Uploaded(r)' /\ Accounted(r)'
    BY <1>2, <2>1 DEF Uploaded, Accounted, Own, AllSent, Sent, AllKnown, Known, Tracked, TypeOK
  <2> QED
    BY <1>3, <2>2, <2>3 DEF Own
<1>8. CASE PullTrash(r, p)
  <2>1. /\ disk' = [disk EXCEPT ![p] = NoFile]
        /\ mem'[r] = [mem[r] EXCEPT ![p] = NoEntry]
        /\ task'[r] = [task[r] EXCEPT ![p] = "none"]
        /\ UNCHANGED held
    BY <1>8 DEF PullTrash, Does, TypeOK
  <2>2. Phase(r)' /\ Written(r)'
    <3>1. \A q \in Paths : task'[r][q] \in {"none", task[r][q]}
      BY <2>1 DEF TypeOK
    <3>2. Phase(r)'
      BY <1>2, <3>1, PhaseKept DEF Own
    <3>3. Written(r)'
      BY <1>2 DEF Written, Own
    <3> QED
      BY <3>2, <3>3
  <2>3. NoEntry.hash = NoFile
    BY DEF NoEntry
  <2>4. Uploaded(r)'
    BY <1>2, <2>1, <2>3 DEF Uploaded, Own, AllSent, Sent, Tracked, TypeOK, State
  <2>5. Accounted(r)'
    BY <1>2, <2>1 DEF Accounted, Own, AllKnown, Known, TypeOK, State
  <2> QED
    BY <1>3, <2>2, <2>4, <2>5 DEF Own
<1> QED
  BY <1>4, <1>5, <1>6, <1>7, <1>8

LEMMA PhaseOwn ==
    ASSUME Inv, NEW r \in Processes, Monotone,
           \/ PushStart(r) \/ PushEnds(r)
           \/ PullList(r) \/ PullDecide(r) \/ PullScan(r) \/ PullEnds(r)
    PROVE  Own(r)' /\ Shared'
<1> USE DEF device, stateFile, process, history, Inv
<1>1. TypeOK /\ Shared /\ Own(r)
  OBVIOUS
<1>2. UNCHANGED <<saved, tmp, remote, published, removed, disk>>
  BY DEF PushStart, PushEnds, PullList, PullDecide, PullScan, PullEnds
<1>3. Shared'
  BY <1>2 DEF Shared, AllSent, Sent, AllKnown, Known
<1>4. CASE Ends(r)
  <2>1. AllSent(tmp[r].files)' /\ AllKnown(tmp[r].files)'
    BY <1>2 DEF Own, Uploaded, Accounted, AllSent, Sent, AllKnown, Known
  <2> QED
    BY <1>3, <1>4, <2>1, EndsOwn
<1>5. CASE ~Ends(r) /\ PushStart(r)
  <2>1. /\ step'[r] = "push"
        /\ \A p \in Paths : task'[r][p] \in {"upload", "none"}
        /\ UNCHANGED <<mem, seen, held>>
    BY <1>5 DEF PushStart, Goes, TypeOK
  <2>2. Phase(r)' /\ Written(r)'
    BY <2>1 DEF Phase, PhaseTasks, Written
  <2>3. Uploaded(r)' /\ Accounted(r)'
    BY <1>2, <2>1 DEF Uploaded, Accounted, Own, AllSent, Sent, AllKnown, Known
  <2> QED
    BY <1>3, <2>2, <2>3 DEF Own
<1>6. CASE PushEnds(r) \/ PullEnds(r)
  <2>1. /\ step'[r] = "create" /\ task[r] = NoTask
        /\ UNCHANGED <<mem, seen, task, held>>
    BY <1>6 DEF PushEnds, PullEnds, AllDone, Goes, TypeOK
  <2>2. Phase(r)' /\ Written(r)'
    BY <2>1 DEF Phase, PhaseTasks, Written, NoTask
  <2>3. Uploaded(r)' /\ Accounted(r)'
    BY <1>2, <2>1 DEF Uploaded, Accounted, Own, AllSent, Sent, AllKnown, Known, Tracked
  <2> QED
    BY <1>3, <2>2, <2>3 DEF Own
<1>7. CASE ~Ends(r) /\ PullList(r)
  <2>1. /\ step[r] = "loaded" /\ step'[r] = "list" /\ seen'[r] = remote
        /\ UNCHANGED <<mem, task, held>>
    BY <1>7 DEF PullList, Goes, TypeOK
  <2>2. Phase(r)' /\ Written(r)' /\ \A p \in Paths : task[r][p] = "none"
    BY <2>1 DEF Phase, PhaseTasks, Written, Own
  <2>3. Uploaded(r)' /\ Accounted(r)'
    BY <1>2, <2>1, <2>2 DEF Uploaded, Accounted, Own, AllSent, Sent, AllKnown, Known, Tracked
  <2> QED
    BY <1>3, <2>2, <2>3 DEF Own
<1>8. CASE PullDecide(r)
  <2>1. PICK t \in [Paths -> {"none", "fetch", "conflict"}] :
          /\ \A p \in Paths :
               IF seen[r][p] = NoObject THEN t[p] = "none" ELSE t[p] \in Decision(r, p)
          /\ task' = [task EXCEPT ![r] = t]
    BY <1>8 DEF PullDecide
  <2>2. /\ step[r] = "list" /\ step'[r] = "pull" /\ task'[r] = t
        /\ UNCHANGED <<mem, seen, held>>
    BY <1>8, <2>1 DEF PullDecide, Goes, TypeOK
  <2>3. Phase(r)' /\ Written(r)'
    BY <2>2 DEF Phase, PhaseTasks, Written
  <2>4. \A p \in Paths : t[p] = "fetch" /\ Tracked(r, p) => Sent(disk[p])
    BY <2>1 DEF Decision, Exists, Changed, Own, Uploaded, AllSent, Sent
  <2>5. Uploaded(r)'
    BY <1>2, <2>2, <2>4 DEF Uploaded, Own, AllSent, Sent, Tracked
  <2>6. Accounted(r)'
    BY <1>2, <2>1, <2>2 DEF Accounted, Own, AllKnown, Known
  <2> QED
    BY <1>3, <2>3, <2>5, <2>6 DEF Own
<1>9. CASE PullScan(r)
  <2>1. /\ step[r] = "pull" /\ step'[r] = "trash"
        /\ \A p \in Paths : \/ task'[r][p] = "none"
                            \/ /\ task'[r][p] = "trash"
                               /\ mem[r][p] # NoEntry /\ seen[r][p] = NoObject
        /\ UNCHANGED <<mem, seen, held>>
    BY <1>9 DEF PullScan, Candidates, KnownState, Goes, TypeOK
  <2>2. Phase(r)' /\ Written(r)'
    BY <2>1 DEF Phase, PhaseTasks, Written
  <2>3. Uploaded(r)'
    BY <1>2, <2>1 DEF Uploaded, Own, AllSent, Sent
  <2>4. Accounted(r)'
    BY <1>2, <2>1 DEF Accounted, Own, AllKnown, Known
  <2> QED
    BY <1>3, <2>2, <2>3, <2>4 DEF Own
<1> QED
  BY <1>4, <1>5, <1>6, <1>7, <1>8, <1>9 DEF PushEnds

-----------------------------------------------------------------------------
(* The user, who writes files only while no command runs, and other devices. *)

LEMMA WorldOwn ==
    ASSUME Inv, NEW p \in Paths, World(p)
    PROVE  Shared' /\ \A r \in Processes : Own(r)'
<1> USE DEF device, stateFile, process, history, Inv
<1>1. /\ UNCHANGED <<saved, tmp, step, mem, seen, task, held>>
      /\ published \subseteq published' /\ removed \subseteq removed'
  BY DEF World, Edit, Delete, DropSidecar, OthersPush, OthersRemove
<1>2. \A q \in Paths : Known(q) => Known(q)'
  <2>1. CASE OthersPush(p)
    <3>1. [data |-> edits + 1, ver |-> uploads + 1] # NoObject
      BY DEF NoObject, TypeOK
    <3> QED
      BY <2>1, <3>1 DEF OthersPush, Known, TypeOK
  <2>2. CASE OthersRemove(p)
    BY <2>2 DEF OthersRemove, Known, TypeOK
  <2>3. CASE Edit(p) \/ Delete(p) \/ DropSidecar(p)
    BY <2>3 DEF Edit, Delete, DropSidecar, Known
  <2> QED
    BY <2>1, <2>2, <2>3 DEF World
<1>3. \A q \in Paths : Sent(remote[q].data)'
  BY DEF World, Edit, Delete, DropSidecar, OthersPush, OthersRemove, Shared, Sent,
         NoObject, TypeOK
<1>4. Shared'
  BY <1>1, <1>2, <1>3 DEF Shared, AllSent, Sent, AllKnown
<1>5. \/ disk' = disk
      \/ \A r \in Processes, q \in Paths : task[r][q] = "none"
  BY DEF World, Edit, Delete, DropSidecar, OthersPush, OthersRemove, Quiet, Own, Phase, PhaseTasks
<1>6. ASSUME NEW r \in Processes PROVE Own(r)'
  <2>1. Phase(r)' /\ Written(r)'
    BY <1>1 DEF Own, Phase, Written
  <2>2. Uploaded(r)'
    BY <1>1, <1>5 DEF Own, Uploaded, AllSent, Sent, Tracked
  <2>3. Accounted(r)'
    BY <1>1, <1>2 DEF Own, Accounted, AllKnown
  <2> QED
    BY <2>1, <2>2, <2>3 DEF Own
<1> QED
  BY <1>4, <1>6

-----------------------------------------------------------------------------
LEMMA StepInv ==
    ASSUME Inv, [Next]_vars
    PROVE  Inv'
<1>1. TypeOK'
  BY StepType DEF Inv
<1>2. ASSUME NEW r \in Processes, Command(r) PROVE (Shared /\ \A s \in Processes : Own(s))'
  <2>1. Monotone
    BY <1>2, CommandMonotone
  <2>2. Own(r)' /\ Shared'
    BY <1>2, <2>1, StateFileOwn, PushOwn, PullOwn, PhaseOwn DEF Command
  <2>3. ASSUME NEW s \in Processes \ {r} PROVE Own(s)'
    <3>1. Same(s)
      BY <1>2, OthersSame DEF Inv
    <3> QED
      BY <2>1, <3>1, SameOwn
  <2> QED
    BY <2>2, <2>3
<1>3. ASSUME NEW p \in Paths, World(p) PROVE (Shared /\ \A s \in Processes : Own(s))'
  BY <1>3, WorldOwn
<1>4. ASSUME UNCHANGED vars PROVE (Shared /\ \A r \in Processes : Own(r))'
  <2>1. Shared'
    BY <1>4 DEF vars, device, stateFile, process, history, Inv, Shared, AllSent, Sent,
                AllKnown, Known
  <2>2. ASSUME NEW r \in Processes PROVE Own(r)'
    BY <1>4 DEF vars, device, stateFile, process, history, Inv, Own, Phase, Written,
                Uploaded, Accounted, AllSent, Sent, AllKnown, Known, Tracked
  <2> QED
    BY <2>1, <2>2
<1>5. (Shared /\ \A r \in Processes : Own(r))'
  BY <1>2, <1>3, <1>4 DEF Next
<1> QED
  BY <1>1, <1>5 DEF Inv

LEMMA AlwaysInv == Spec => []Inv
  BY InitInv, StepInv, PTL DEF Spec

-----------------------------------------------------------------------------
\* Every variable keeps its type, for any processes, paths and bounds.
THEOREM TypeCorrect == Spec => []TypeOK
  BY AlwaysInv, PTL DEF Inv

\* However many processes save and die, what others load is never half-written.
THEOREM StateIsNeverTorn == Spec => NeverTorn
<1>1. Inv /\ [Next]_vars => [saved # Torn => saved' # Torn]_vars
  <2> SUFFICES ASSUME Inv, [Next]_vars, saved # Torn PROVE saved' # Torn
    OBVIOUS
  <2> USE DEF device, stateFile, process, history
  <2>1. ASSUME NEW r \in Processes, RenameTemp(r) PROVE saved' # Torn
    BY <2>1 DEF RenameTemp, TempName, Inv, Own, Written, Torn
  <2>2. ASSUME NEW r \in Processes, BackUp(r) PROVE saved' # Torn
    BY <2>2 DEF BackUp, Missing, Torn
  <2>3. ASSUME NEW r \in Processes, Command(r), ~RenameTemp(r), ~BackUp(r) PROVE saved' = saved
    BY <2>3 DEF Command, Load, CreateTemp, WriteTemp, Dies, PushStart, PushSend, PushRecord,
                PushEnds, StepFails, PullList, PullDecide, PullFetch, PullWrite, PullRecord,
                PullConflict, PullScan, PullTrash, PullEnds
  <2>4. ASSUME NEW p \in Paths, World(p) PROVE saved' = saved
    BY <2>4 DEF World, Edit, Delete, DropSidecar, OthersPush, OthersRemove
  <2> QED
    BY <2>1, <2>2, <2>3, <2>4 DEF Next, vars
<1> QED
  BY <1>1, AlwaysInv, PTL DEF Spec, NeverTorn

\* Processes that undo each other's entries never make state.json call a
\* content synced that has not been uploaded.
THEOREM SyncedIsPublished == Spec => []SyncedMeansPublished
<1>1. Inv => SyncedMeansPublished
  BY DEF Inv, Shared, AllSent, Sent, SyncedMeansPublished
<1> QED
  BY <1>1, AlwaysInv, PTL

\* A pull with an outdated state drops nothing from a file it knows that has
\* not been uploaded.
THEOREM PullKeepsUnpublished == Spec => PullOverwritesPublished
<1>1. Inv /\ [Next]_vars
      => [\A r \in Processes, p \in Paths :
            /\ task[r][p] = "write" /\ task'[r][p] = "rehash"
            /\ Tracked(r, p)
            => disk[p] \in published \cup {NoFile}]_vars
  BY DEF Inv, Own, Uploaded, Sent
<1> QED
  BY <1>1, AlwaysInv, PTL DEF Spec, PullOverwritesPublished

\* No pull moves a file to the trash because its listing is older than another
\* process's push.
THEOREM TrashedIsRemoved == Spec => TrashedWasRemoved
<1> DEFINE Removed == \A r \in Processes, p \in Paths :
         task[r][p] = "trash" /\ Exists(p) /\ disk'[p] = NoFile => p \in removed
<1>1. Inv => Removed
  BY DEF Inv, Own, Accounted
<1> QED
  BY <1>1, AlwaysInv, PTL DEF TrashedWasRemoved
================================================================================
