---------------------------- MODULE SyncScopeProofs ----------------------------
(***************************************************************************)
(* What the paths commands, push --force and pull never do, for any paths, *)
(* scopes and files.                                                       *)
(***************************************************************************)
EXTENDS SyncScope, TLAPS

LEMMA BoundType == MaxEdits \in Nat /\ Contents \subseteq Nat
  BY ScopeAssumption DEF Contents

LEMMA ListedPaths ==
    ASSUME TypeOK
    PROVE  /\ ScopedSyncPaths \subseteq Paths /\ Listed \subseteq Paths
           /\ Listed \subseteq syncPaths \cup ScopedSyncPaths
  BY ScopeAssumption DEF TypeOK, ScopedSyncPaths, Listed, Paths

-----------------------------------------------------------------------------
LEMMA InitType == Init => TypeOK
  BY BoundType DEF Init, TypeOK, Contents

LEMMA RemoveType ==
    ASSUME TypeOK, NEW p \in Paths, Remove(p)
    PROVE  syncPaths' \subseteq Paths /\ exclude' \subseteq Patterns
<1>1. syncPaths' \subseteq Paths
  BY ListedPaths DEF Remove
<1>2. CASE p \notin ScopedSyncPaths
  BY <1>1, <1>2 DEF Remove, TypeOK
<1>3. CASE p \in ScopedSyncPaths
  <2>1. PICK form \in {"name"} \cup (IF p \in Dirs THEN {"star"} ELSE {}) :
          exclude' = exclude \cup {[path |-> p, form |-> form]}
    BY <1>3 DEF Remove
  <2>2. [path |-> p, form |-> form] \in Patterns
    BY <2>1 DEF Patterns
  <2> QED
    BY <1>1, <2>1, <2>2 DEF TypeOK
<1> QED
  BY <1>2, <1>3

LEMMA StepType == TypeOK /\ [Next]_vars => TypeOK'
<1> SUFFICES ASSUME TypeOK, [Next]_vars PROVE TypeOK'
  OBVIOUS
<1> USE DEF config, data
<1>1. ASSUME NEW p \in Paths, PathsAdd(p) PROVE TypeOK'
  BY <1>1, ListedPaths DEF PathsAdd, Add, TypeOK
<1>2. ASSUME NEW p \in Paths, PathsRemove(p) PROVE TypeOK'
  BY <1>2, RemoveType DEF PathsRemove, TypeOK
<1>3. ASSUME NEW g \in Patterns, PathsExclude(g) \/ PathsUnexclude(g) PROVE TypeOK'
  BY <1>3 DEF PathsExclude, AddExclude, PathsUnexclude, RemoveExclude, TypeOK
<1>4. CASE PathsReset \/ SetScope
  BY <1>4, ScopeAssumption DEF PathsReset, SetScope, TypeOK, ScopedSyncPaths, Paths
<1>5. ASSUME NEW f \in Files, Edit(f) \/ EditElsewhere(f) PROVE TypeOK'
  BY <1>5, BoundType DEF Edit, EditElsewhere, TypeOK, Contents
<1>6. ASSUME NEW force \in BOOLEAN, Push(force) PROVE TypeOK'
  BY <1>6, BoundType DEF Push, TypeOK, Contents, Deleted
<1>7. CASE Pull
  BY <1>7, BoundType DEF Pull, TypeOK, Contents, Conflicts, RemoteFiles
<1>8. CASE UNCHANGED vars
  BY <1>8 DEF vars, TypeOK
<1> QED
  BY <1>1, <1>2, <1>3, <1>4, <1>5, <1>6, <1>7, <1>8 DEF Next

\* Every variable keeps its type.
THEOREM TypeCorrect == Spec => []TypeOK
  BY InitType, StepType, PTL DEF Spec

-----------------------------------------------------------------------------
\* A removed path that is listed, or would be by falling back to the defaults,
\* has a filter.
OffInv ==
    \A p \in off : p \in syncPaths \cup ScopedSyncPaths => \E g \in exclude : g.path = p

LEMMA StepOff == TypeOK /\ OffInv /\ [Next]_vars => OffInv'
<1> SUFFICES ASSUME TypeOK, OffInv, [Next]_vars PROVE OffInv'
  OBVIOUS
<1> USE DEF config, data
<1>1. ASSUME NEW p \in Paths, PathsAdd(p) PROVE OffInv'
  BY <1>1, ListedPaths DEF PathsAdd, Add, OffInv, ScopedSyncPaths
<1>2. ASSUME NEW p \in Paths, PathsRemove(p) PROVE OffInv'
  <2>1. off' = off \cup {p} /\ syncPaths' = Listed \ {p} /\ ScopedSyncPaths' = ScopedSyncPaths
    BY <1>2 DEF PathsRemove, Remove, ScopedSyncPaths
  <2>2. exclude \subseteq exclude'
    BY <1>2 DEF PathsRemove, Remove
  <2>3. ASSUME p \in ScopedSyncPaths PROVE \E g \in exclude' : g.path = p
    <3>1. PICK form : exclude' = exclude \cup {[path |-> p, form |-> form]}
      BY <1>2, <2>3 DEF PathsRemove, Remove
    <3> DEFINE filter == [path |-> p, form |-> form]
    <3>2. filter \in exclude' /\ filter.path = p
      BY <3>1
    <3> HIDE DEF filter
    <3> QED
      BY <3>2
  <2> QED
    BY <2>1, <2>2, <2>3, ListedPaths DEF OffInv
<1>3. ASSUME NEW g \in Patterns, PathsExclude(g) \/ PathsUnexclude(g) PROVE OffInv'
  BY <1>3 DEF PathsExclude, AddExclude, PathsUnexclude, RemoveExclude, OffInv, ScopedSyncPaths
<1>4. CASE PathsReset \/ SetScope
  BY <1>4 DEF PathsReset, SetScope, OffInv
<1>5. CASE UNCHANGED <<config, off>>
  BY <1>5 DEF OffInv, ScopedSyncPaths
<1> QED
  BY <1>1, <1>2, <1>3, <1>4, <1>5 DEF Next, Edit, EditElsewhere, Push, Pull, vars

\* A removed path stays out of the sync set until it is asked for again, however
\* lists are emptied and filters are added meanwhile (Manager.Remove, NewManager).
THEOREM RemovedIsOff == Spec => []RemovedStaysOff
<1>1. Init => OffInv
  BY DEF Init, OffInv
<1>2. TypeOK /\ OffInv => RemovedStaysOff
  BY ListedPaths
  DEF OffInv, RemovedStaysOff, SyncSet, Skipped, GetEffectiveSyncPaths
<1> QED
  BY <1>1, <1>2, InitType, StepType, StepOff, PTL DEF Spec

-----------------------------------------------------------------------------
\* Nothing is recorded of an object that this device erased.
EraseInv == \A f \in erased : synced[f] = 0 /\ remote[f] = 0

LEMMA StepErase == TypeOK /\ EraseInv /\ [Next]_vars => EraseInv'
<1> SUFFICES ASSUME TypeOK, EraseInv, [Next]_vars PROVE EraseInv'
  OBVIOUS
<1> USE DEF config, data
<1>1. ASSUME NEW f \in Files, EditElsewhere(f) PROVE EraseInv'
  BY <1>1 DEF EditElsewhere, EraseInv, TypeOK
<1>2. ASSUME NEW force \in BOOLEAN, Push(force) PROVE EraseInv'
  <2> SUFFICES ASSUME NEW f \in erased' PROVE synced'[f] = 0 /\ remote'[f] = 0
    BY DEF EraseInv
  <2>1. f \in Files /\ f \notin Changed
    BY <1>2 DEF Push, TypeOK, Changed, Deleted
  <2>2. f \in erased \/ (f \in Deleted /\ force /\ remote[f] # 0 /\ ~remoteChanged(f))
    BY <1>2 DEF Push
  <2> QED
    BY <1>2, <2>1, <2>2 DEF Push, EraseInv, Forgotten
<1>3. CASE Pull
  BY <1>3 DEF Pull, EraseInv, TypeOK, Downloads, RemoteFiles, Stale
<1>4. CASE UNCHANGED <<synced, remote, erased>>
  BY <1>4 DEF EraseInv
<1> QED
  BY <1>1, <1>2, <1>3, <1>4
  DEF Next, Edit, PathsAdd, PathsRemove, PathsExclude, PathsUnexclude, PathsReset, SetScope, vars

\* Only edits and pulls touch the files of the device.
LEMMA LocalChanges ==
    ASSUME TypeOK, [Next]_vars, edits' = edits
    PROVE  UNCHANGED local \/ Pull
<1>1. ASSUME NEW f \in Files PROVE ~Edit(f)
  BY BoundType DEF Edit, TypeOK
<1> QED
  BY <1>1 DEF Next, vars, config, data, PathsAdd, PathsRemove, PathsExclude, PathsUnexclude,
       PathsReset, SetScope, EditElsewhere, Push

\* A forced push never comes back to remove a file of the device that ran it.
THEOREM EraseSparesFile == Spec => OwnEraseSparesFile
<1>1. Init => EraseInv
  BY DEF Init, EraseInv
<1>2. TypeOK /\ EraseInv /\ [Next]_vars =>
        [\A f \in erased : local'[f] = 0 /\ local[f] # 0 => edits' # edits]_vars
  <2> SUFFICES ASSUME TypeOK, EraseInv, [Next]_vars, NEW f \in erased,
                      local'[f] = 0, local[f] # 0, edits' = edits
               PROVE  FALSE
    OBVIOUS
  <2>1. Pull
    BY LocalChanges
  <2> QED
    BY <2>1 DEF Pull, EraseInv, TypeOK, Downloads, RemoteFiles, Stale
<1> QED
  BY <1>1, <1>2, InitType, StepType, StepErase, PTL DEF Spec, OwnEraseSparesFile

-----------------------------------------------------------------------------
\* A pull replaces a file of the sync set only if that loses nothing this device
\* alone has (Pull's decision, staleLocalFiles).
THEOREM PullIsCareful == Spec => PullKeepsEdits
<1>1. TypeOK /\ [Next]_vars =>
        [\A f \in SyncSet :
           local[f] # 0 /\ local'[f] # local[f] /\ edits' = edits =>
              \/ local[f] = synced[f]
              \/ synced[f] = 0 /\ local[f] < remote[f]]_vars
  <2> SUFFICES ASSUME TypeOK, [Next]_vars, NEW f \in SyncSet,
                      local[f] # 0, local'[f] # local[f], edits' = edits
               PROVE  local[f] = synced[f] \/ (synced[f] = 0 /\ local[f] < remote[f])
    OBVIOUS
  <2>1. Pull /\ f \in GetLocalFiles
    BY LocalChanges DEF GetLocalFiles
  <2>2. f \in Downloads \cup Stale
    BY <2>1 DEF Pull, SyncSet
  <2> QED
    BY <2>1, <2>2 DEF Downloads, Stale
<1> QED
  BY <1>1, InitType, StepType, PTL DEF Spec, PullKeepsEdits

-----------------------------------------------------------------------------
\* A filter is of a path the user has taken out, and a list lacks no other path of
\* the scope.
TakenInv ==
    /\ \A g \in exclude : g.path \in taken
    /\ syncPaths = {} \/ ScopedSyncPaths \subseteq syncPaths \cup taken

LEMMA StepTaken == TypeOK /\ TakenInv /\ [Next]_vars => TakenInv'
<1> SUFFICES ASSUME TypeOK, TakenInv, [Next]_vars PROVE TakenInv'
  OBVIOUS
<1> USE DEF config, data
<1>1. ASSUME NEW p \in Paths, PathsAdd(p) PROVE TakenInv'
  BY <1>1 DEF PathsAdd, Add, TakenInv, ScopedSyncPaths, Listed
<1>2. ASSUME NEW p \in Paths, PathsRemove(p) PROVE TakenInv'
  <2>1. /\ taken' = taken \cup {p} /\ syncPaths' = Listed \ {p}
        /\ ScopedSyncPaths' = ScopedSyncPaths
    BY <1>2 DEF PathsRemove, Remove, ScopedSyncPaths
  <2>2. \A g \in exclude' : g \in exclude \/ g.path = p
    BY <1>2 DEF PathsRemove, Remove
  <2> QED
    BY <2>1, <2>2 DEF TakenInv, Listed
<1>3. ASSUME NEW g \in Patterns, PathsExclude(g) \/ PathsUnexclude(g) PROVE TakenInv'
  BY <1>3 DEF PathsExclude, AddExclude, PathsUnexclude, RemoveExclude, TakenInv, ScopedSyncPaths
<1>4. CASE PathsReset \/ SetScope
  BY <1>4 DEF PathsReset, SetScope, TakenInv, ScopedSyncPaths
<1>5. CASE UNCHANGED <<config, taken>>
  BY <1>5 DEF TakenInv, ScopedSyncPaths
<1> QED
  BY <1>1, <1>2, <1>3, <1>4, <1>5 DEF Next, Edit, EditElsewhere, Push, Pull, vars

\* A forced push removes no object whose file is here, unless the user took the
\* path out: no sequence of paths commands and scopes drops a path on its own
\* (NewManager, Manager.Add, GetEffectiveSyncPaths).
THEOREM ErasesAreChosen == Spec => EraseIsChosen
<1>1. Init => TakenInv
  BY DEF Init, TakenInv
<1>2. TypeOK /\ TakenInv /\ [Next]_vars =>
        [\A f \in Files :
           /\ f.path \in ScopedSyncPaths \ taken
           /\ local[f] # 0 /\ remote[f] # 0 /\ remote'[f] = 0
           => edits' # edits]_vars
  <2> SUFFICES ASSUME TypeOK, TakenInv, [Next]_vars, NEW f \in Files,
                      f.path \in ScopedSyncPaths \ taken,
                      local[f] # 0, remote[f] # 0, remote'[f] = 0, edits' = edits
               PROVE  FALSE
    OBVIOUS
  <2>1. PICK force \in BOOLEAN : Push(force)
    <3>1. \A q \in Files : ~EditElsewhere(q)
      BY BoundType DEF EditElsewhere, TypeOK
    <3> QED
      BY <3>1 DEF Next, vars, config, data, PathsAdd, PathsRemove, PathsExclude,
           PathsUnexclude, PathsReset, SetScope, Edit, Pull
  <2>2. f \notin GetLocalFiles
    BY <2>1 DEF Push, Changed, Deleted, GetLocalFiles, SyncSet
  <2>3. f.path \in GetEffectiveSyncPaths /\ ~Skipped(f)
    BY DEF TakenInv, GetEffectiveSyncPaths, Listed, ScopedSyncPaths, Skipped
  <2> QED
    BY <2>2, <2>3 DEF GetLocalFiles, SyncSet
<1> QED
  BY <1>1, <1>2, InitType, StepType, StepTaken, PTL DEF Spec, EraseIsChosen
================================================================================
