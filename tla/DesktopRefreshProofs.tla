-------------------------- MODULE DesktopRefreshProofs -------------------------
(***************************************************************************)
(* What a refresh never does to the threads, their names and the backups,  *)
(* for any number of threads, refreshes and backup directories.            *)
(***************************************************************************)
EXTENDS DesktopRefresh, TLAPS

\* Past its look at the processes, or with an engine that outlives it.
Inside(r) == step[r] \notin {"idle", "check"} \/ engine[r]

\* No refresh is inside while the app is open, or the run does not count.
Alone == ~raced /\ app => \A r \in Refreshers : ~Inside(r)

-----------------------------------------------------------------------------
\* What a refresh has promised is in the table, and the app shows it or is
\* going to sweep.
Visible ==
    /\ catalog = "unknown" => promised = {}
    /\ \A r \in Refreshers : scanned[r] \subseteq state.rows
    /\ promised \subseteq state.rows
    /\ ~raced => promised \subseteq sidebar \/ (~app /\ catalog \in {"empty", "due"})

-----------------------------------------------------------------------------
Protected == \E d \in DOMAIN backups : original \in backups[d]

\* A directory in use is one refresh's own, and empty.
DirInv ==
    \A r \in Refreshers :
        /\ step[r] \notin {"copy", "copying"} => dir[r] = {}
        /\ step[r] \in {"copy", "copying"} =>
             \E d \in DOMAIN backups :
                /\ dir[r] = {d} /\ backups[d] = {}
                /\ \A s \in Refreshers \ {r} : d \notin dir[s]

\* A refresh with a backup changes the table only when some backup can undo it.
BackupInv ==
    ~raced =>
      /\ state # original => Protected
      /\ \A r \in Refreshers :
           /\ step[r] = "copying" => copied[r] = {original} \/ Protected
           /\ r \notin noBackup /\ Inside(r) /\ step[r] \notin {"mkdir", "copy", "copying"}
                => Protected

\* No backup is made with the flag, nor while the engine runs.
FlagInv ==
    /\ \A r \in noBackup : step[r] \notin {"mkdir", "copy", "copying"}
    /\ \A r \in Refreshers : engine[r] => step[r] \in {"idle", "engine", "listed"}

Inv == TypeOK /\ Alone /\ Visible /\ DirInv /\ FlagInv /\ BackupInv

-----------------------------------------------------------------------------
LEMMA CopyTypes ==
    /\ {} \in Copies
    /\ \A s \in State : {s} \in Copies
    /\ [t \in Threads |-> "none"] \in NamesOf
    /\ \A s \in State : s.rows \subseteq Threads /\ s.names \in NamesOf
  BY DEF Copies, State, NamesOf, Names

LEMMA NewStates ==
    ASSUME NEW s \in State
    PROVE  /\ \A ts \in SUBSET Threads :
                LET new == [s EXCEPT !.rows = @ \cup ts]
                IN  new \in State /\ new.rows = s.rows \cup ts /\ new.names = s.names
           /\ \A t \in Threads :
                LET new == [s EXCEPT !.names[t] = "user"]
                IN  new \in State /\ new.rows = s.rows
                    /\ new.names = [s.names EXCEPT ![t] = "user"]
           /\ \A n \in NamesOf :
                /\ Named(s, n) \in State /\ Named(s, n).rows = s.rows
                /\ \A t \in Threads : s.names[t] # "none" => Named(s, n).names[t] = s.names[t]
  BY DEF State, NamesOf, Names, Named

LEMMA InitType == Init => TypeOK
<1> SUFFICES ASSUME Init PROVE TypeOK
  OBVIOUS
<1>1. Nothing \in State /\ Unread \in NamesOf
  BY CopyTypes DEF Nothing, Unread, State
<1>2. index \in [Threads -> {"none", "synced"}]
  BY DEF Init, Unread
<1>3. DOMAIN backups = {}
  BY DEF Init
<1>4. step \in [Refreshers -> Steps] /\ engine \in [Refreshers -> BOOLEAN]
  BY DEF Init, Steps
<1>5. /\ dir \in [Refreshers -> SUBSET Dir] /\ copied \in [Refreshers -> Copies]
      /\ scanned \in [Refreshers -> SUBSET Threads] /\ read \in [Refreshers -> NamesOf]
  BY <1>1, CopyTypes DEF Init
<1> QED
  BY <1>1, <1>2, <1>3, <1>4, <1>5 DEF Init, TypeOK

-----------------------------------------------------------------------------
LEMMA WritesType ==
    ASSUME TypeOK, NEW new \in State, Writes(new)
    PROVE  state' \in State /\ copied' \in [Refreshers -> Copies]
  BY CopyTypes DEF Writes, TypeOK

LEMMA MovesType ==
    ASSUME TypeOK, NEW r \in Refreshers, NEW to \in Steps, Moves(r, to)
    PROVE  /\ step' \in [Refreshers -> Steps]
           /\ noBackup' \subseteq Refreshers /\ noNames' \subseteq Refreshers
  BY DEF Moves, TypeOK

LEMMA EndsType ==
    ASSUME TypeOK, NEW r \in Refreshers, Ends(r)
    PROVE  /\ step' \in [Refreshers -> Steps]
           /\ noBackup' \subseteq Refreshers /\ noNames' \subseteq Refreshers
           /\ dir' \in [Refreshers -> SUBSET Dir]
           /\ copied' \in [Refreshers -> Copies]
           /\ scanned' \in [Refreshers -> SUBSET Threads]
           /\ read' \in [Refreshers -> NamesOf]
  BY CopyTypes DEF Ends, TypeOK, Steps, Unread

LEMMA StepType ==
    ASSUME TypeOK, [Next]_vars
    PROVE  TypeOK'
<1> USE DEF machine, database, desktop, run, history
<1>1. ASSUME NEW r \in Refreshers, Begin(r) PROVE TypeOK'
  BY <1>1 DEF Begin, TypeOK, Steps
<1>2. ASSUME NEW r \in Refreshers, Pull(r) PROVE TypeOK'
  <2>1. PICK ts \in SUBSET (Threads \ rollouts), named, failed, requested \in BOOLEAN :
         /\ rollouts' = rollouts \cup ts
         /\ index' = [t \in Threads |-> IF t \in ts /\ named THEN "synced" ELSE index[t]]
         /\ step' = [step EXCEPT ![r] = IF requested /\ ~failed THEN "check" ELSE "idle"]
    BY <1>2 DEF Pull
  <2>2. rollouts' \subseteq Threads /\ index' \in [Threads -> {"none", "synced"}]
    BY <2>1 DEF TypeOK
  <2>3. step' \in [Refreshers -> Steps]
    BY <2>1 DEF TypeOK, Steps
  <2> QED
    BY <1>2, <2>2, <2>3 DEF Pull, TypeOK
<1>3. ASSUME NEW r \in Refreshers, Check(r) \/ StartEngine(r) \/ Listed(r) PROVE TypeOK'
  BY <1>3 DEF Check, StartEngine, Listed, Moves, TypeOK, Steps
<1>4. ASSUME NEW r \in Refreshers, MakeDir(r) PROVE TypeOK'
  <2>1. PICK d \in Dir :
          /\ dir' = [dir EXCEPT ![r] = {d}]
          /\ backups' = [e \in DOMAIN backups \cup {d} |-> IF e = d THEN {} ELSE backups[e]]
    BY <1>4 DEF MakeDir
  <2>2. /\ dir' \in [Refreshers -> SUBSET Dir] /\ DOMAIN backups' \subseteq Dir
        /\ \A e \in DOMAIN backups' : backups'[e] \in Copies
    BY <2>1, CopyTypes DEF TypeOK
  <2>3. step' \in [Refreshers -> Steps] /\ noBackup' \subseteq Refreshers /\ noNames' \subseteq Refreshers
    BY <1>4, MovesType DEF MakeDir, Steps
  <2> QED
    BY <1>4, <2>2, <2>3 DEF MakeDir, TypeOK
<1>5. ASSUME NEW r \in Refreshers, CopyBegins(r) PROVE TypeOK'
  BY <1>5, CopyTypes DEF CopyBegins, Moves, TypeOK, Steps
<1>6. ASSUME NEW r \in Refreshers, CopyEnds(r) PROVE TypeOK'
  <2>1. DOMAIN backups' \subseteq Dir /\ \A e \in DOMAIN backups' : backups'[e] \in Copies
    BY <1>6 DEF CopyEnds, TypeOK
  <2>2. dir' \in [Refreshers -> SUBSET Dir] /\ copied' \in [Refreshers -> Copies]
    BY <1>6, CopyTypes DEF CopyEnds, TypeOK
  <2>3. step' \in [Refreshers -> Steps] /\ noBackup' \subseteq Refreshers /\ noNames' \subseteq Refreshers
    BY <1>6, MovesType DEF CopyEnds, Steps
  <2> QED
    BY <1>6, <2>1, <2>2, <2>3 DEF CopyEnds, TypeOK
<1>7. ASSUME NEW r \in Refreshers, NEW new \in State, RefreshWrites(r, new)
      PROVE  /\ state' \in State /\ copied' \in [Refreshers -> Copies]
             /\ original' \in State /\ raced' \in BOOLEAN
  BY <1>7, WritesType DEF RefreshWrites, TypeOK
<1>8. ASSUME NEW r \in Refreshers, EngineScans(r) PROVE TypeOK'
  <2> DEFINE new == [state EXCEPT !.rows = @ \cup rollouts]
  <2>1. new \in State /\ RefreshWrites(r, new)
    BY <1>8, NewStates DEF EngineScans, TypeOK
  <2>2. scanned' \in [Refreshers -> SUBSET Threads]
    BY <1>8 DEF EngineScans, TypeOK
  <2>3. PICK to \in Steps : Moves(r, to)
    BY <1>8 DEF EngineScans, TypeOK, Steps
  <2> HIDE DEF new
  <2> QED
    BY <1>7, <1>8, <2>1, <2>2, <2>3, MovesType DEF EngineScans, TypeOK
<1>9. ASSUME NEW r \in Refreshers, EngineEnds(r) PROVE TypeOK'
  BY <1>9 DEF EngineEnds, TypeOK
<1>10. ASSUME NEW r \in Refreshers, ReadNames(r) PROVE TypeOK'
  <2>1. index \in NamesOf
    BY DEF TypeOK, NamesOf, Names
  <2> QED
    BY <1>10, <2>1 DEF ReadNames, Moves, TypeOK, Steps
<1>11. ASSUME NEW r \in Refreshers, UpdateNames(r) PROVE TypeOK'
  <2>1. Named(state, read[r]) \in State /\ RefreshWrites(r, Named(state, read[r]))
    BY <1>11, NewStates DEF UpdateNames, TypeOK
  <2>2. read' \in [Refreshers -> NamesOf]
    BY <1>11, CopyTypes DEF UpdateNames, TypeOK, Unread
  <2>3. Moves(r, "catalog") /\ "catalog" \in Steps
    BY <1>11 DEF UpdateNames, Steps
  <2> QED
    BY <1>7, <1>11, <2>1, <2>2, <2>3, MovesType DEF UpdateNames, TypeOK
<1>12. ASSUME NEW r \in Refreshers, ResetCatalog(r) PROVE TypeOK'
  <2>1. catalog' \in Catalogs /\ promised' \subseteq Threads
    BY <1>12 DEF ResetCatalog, Reset, Catalogs, TypeOK
  <2> QED
    BY <1>12, <2>1, EndsType DEF ResetCatalog, TypeOK
<1>13. ASSUME NEW r \in Refreshers, Error(r) \/ Crash(r) PROVE TypeOK'
  BY <1>13, EndsType DEF Error, Crash, TypeOK
<1>14. CASE Launch \/ Quit
  BY <1>14, CopyTypes DEF Launch, Quit, TypeOK, Catalogs
<1>15. ASSUME NEW t \in Threads, Rename(t) \/ Create(t) PROVE TypeOK'
  <2>1. PICK new \in State : Writes(new)
    BY <1>15, NewStates DEF Rename, Create, TypeOK
  <2> QED
    BY <1>15, <2>1, WritesType DEF Rename, Create, TypeOK
<1>16. CASE UNCHANGED vars
  BY <1>16 DEF vars, TypeOK
<1> QED
  BY <1>1, <1>2, <1>3, <1>4, <1>5, <1>6, <1>8, <1>9, <1>10, <1>11, <1>12, <1>13, <1>14, <1>15, <1>16
     DEF Next, Refresh

\* Every variable keeps its type.
THEOREM TypeCorrect == Spec => []TypeOK
  BY InitType, StepType, PTL DEF Spec

-----------------------------------------------------------------------------
\* A step that leaves the names of the table alone keeps the user's.
LEMMA NamesStay ==
    ASSUME TypeOK, [Next]_vars, NEW t \in Threads, state.names[t] = "user"
    PROVE  state'.names[t] = "user"
<1> USE DEF machine, database, desktop, run, history
<1>1. ASSUME NEW r \in Refreshers, EngineScans(r) PROVE state'.names[t] = "user"
  BY <1>1, NewStates DEF EngineScans, RefreshWrites, Writes, TypeOK
<1>2. ASSUME NEW r \in Refreshers, UpdateNames(r) PROVE state'.names[t] = "user"
  <2>1. state' = Named(state, read[r]) /\ read[r] \in NamesOf /\ state \in State
    BY <1>2 DEF UpdateNames, RefreshWrites, Writes, TypeOK
  <2> QED
    BY <2>1, NewStates
<1>3. ASSUME NEW s \in Threads, Rename(s) \/ Create(s) PROVE state'.names[t] = "user"
  <2>1. /\ Rename(s) => state' = [state EXCEPT !.names[s] = "user"]
        /\ Create(s) => state' = [state EXCEPT !.rows = @ \cup {s}]
    BY DEF Rename, Create, Writes
  <2>2. state.names \in NamesOf
    BY CopyTypes DEF TypeOK
  <2>3. state \in State
    BY DEF TypeOK
  <2>4. CASE Rename(s)
    <3>1. state'.names = [state.names EXCEPT ![s] = "user"]
      BY <2>1, <2>3, <2>4, NewStates
    <3> QED
      BY <2>2, <3>1 DEF NamesOf
  <2>5. CASE Create(s)
    <3>1. {s} \in SUBSET Threads
      OBVIOUS
    <3> QED
      BY <2>1, <2>3, <2>5, <3>1, NewStates
  <2> QED
    BY <1>3, <2>4, <2>5
<1>4. CASE UNCHANGED state
  BY <1>4
<1> QED
  BY <1>1, <1>2, <1>3, <1>4 DEF Next, Refresh, Begin, Pull, Check, MakeDir, CopyBegins, CopyEnds,
     StartEngine, EngineEnds, Listed, ReadNames, ResetCatalog, Error, Crash, Launch, Quit, vars

\* No refresh takes away a name the user gave.
THEOREM NamesAreKept == Spec => UserNamesKept
<1>1. TypeOK /\ [Next]_vars
        => [\A t \in Threads : state.names[t] = "user" => state'.names[t] = "user"]_vars
  BY NamesStay
<1> QED
  BY <1>1, InitType, StepType, PTL DEF Spec, UserNamesKept

-----------------------------------------------------------------------------
\* The steps of a refresh, by what they do to the places the invariants read.
LEMMA Stepping ==
    ASSUME TypeOK, NEW r \in Refreshers, NEW to, Moves(r, to)
    PROVE  /\ step'[r] = to /\ \A s \in Refreshers \ {r} : step'[s] = step[s]
           /\ UNCHANGED <<noBackup, noNames>>
  BY DEF Moves, TypeOK

LEMMA Ending ==
    ASSUME TypeOK, NEW r \in Refreshers, Ends(r)
    PROVE  /\ step'[r] = "idle" /\ \A s \in Refreshers \ {r} : step'[s] = step[s]
           /\ noBackup' \subseteq noBackup /\ noBackup \ noBackup' \subseteq {r}
           /\ engine[r] => noBackup' = noBackup
           /\ dir'[r] = {} /\ \A s \in Refreshers \ {r} : dir'[s] = dir[s]
           /\ scanned'[r] = {} /\ \A s \in Refreshers \ {r} : scanned'[s] = scanned[s]
           /\ copied'[r] = {} /\ \A s \in Refreshers \ {r} : copied'[s] = copied[s]
  BY DEF Ends, TypeOK

LEMMA StepAlone ==
    ASSUME TypeOK, Alone, [Next]_vars
    PROVE  Alone'
<1> USE DEF machine, database, desktop, run, history, Alone, Inside
<1>1. ASSUME NEW r \in Refreshers, Begin(r) \/ Pull(r) PROVE Alone'
  <2>1. /\ UNCHANGED <<raced, app, engine>>
        /\ step'[r] \in {"idle", "check"} /\ step[r] = "idle"
        /\ \A s \in Refreshers \ {r} : step'[s] = step[s]
    BY <1>1 DEF Begin, Pull, TypeOK
  <2> QED
    BY <2>1
<1>2. ASSUME NEW r \in Refreshers, Check(r) PROVE Alone'
  BY <1>2 DEF Check, HoldsDatabases
<1>3. ASSUME NEW r \in Refreshers,
             MakeDir(r) \/ CopyBegins(r) \/ CopyEnds(r) \/ StartEngine(r) \/ EngineScans(r)
             \/ Listed(r) \/ ReadNames(r) \/ UpdateNames(r)
      PROVE Alone'
  <2>1. app' = app /\ (raced => raced') /\ Inside(r)
    BY <1>3 DEF MakeDir, CopyBegins, CopyEnds, StartEngine, EngineScans, Listed, ReadNames,
       UpdateNames, RefreshWrites
  <2> QED
    BY <2>1 DEF TypeOK
<1>4. ASSUME NEW r \in Refreshers, EngineEnds(r) PROVE Alone'
  BY <1>4 DEF EngineEnds, TypeOK
<1>5. ASSUME NEW r \in Refreshers, ResetCatalog(r) \/ Error(r) \/ Crash(r) PROVE Alone'
  <2>1. Ends(r) /\ UNCHANGED <<app, raced, engine>>
    BY <1>5 DEF ResetCatalog, Error, Crash
  <2> QED
    BY <2>1, Ending
<1>6. CASE Launch
  BY <1>6 DEF Launch, AtWork
<1>7. CASE Quit
  BY <1>7 DEF Quit
<1>8. CASE UNCHANGED <<app, raced, step, engine>>
  BY <1>8
<1> QED
  BY <1>1, <1>2, <1>3, <1>4, <1>5, <1>6, <1>7, <1>8 DEF Next, Refresh, Rename, Create, vars

-----------------------------------------------------------------------------
LEMMA InitVisible == Init => Visible
  BY DEF Init, Visible, Nothing

\* The table only grows.
LEMMA RowsGrow ==
    ASSUME TypeOK, [Next]_vars
    PROVE  state.rows \subseteq state'.rows
<1> USE DEF machine, database, desktop, run, history
<1>1. state \in State
  BY DEF TypeOK
<1>2. ASSUME NEW r \in Refreshers, EngineScans(r) PROVE state.rows \subseteq state'.rows
  <2>1. state' = [state EXCEPT !.rows = @ \cup rollouts] /\ rollouts \in SUBSET Threads
    BY <1>2 DEF EngineScans, RefreshWrites, Writes, TypeOK
  <2> QED
    BY <1>1, <2>1, NewStates
<1>3. ASSUME NEW r \in Refreshers, UpdateNames(r) PROVE state.rows \subseteq state'.rows
  <2>1. state' = Named(state, read[r]) /\ read[r] \in NamesOf
    BY <1>3 DEF UpdateNames, RefreshWrites, Writes, TypeOK
  <2> QED
    BY <1>1, <2>1, NewStates
<1>4. ASSUME NEW t \in Threads, Rename(t) PROVE state.rows \subseteq state'.rows
  BY <1>1, <1>4, NewStates DEF Rename, Writes
<1>5. ASSUME NEW t \in Threads, Create(t) PROVE state.rows \subseteq state'.rows
  <2>1. state' = [state EXCEPT !.rows = @ \cup {t}] /\ {t} \in SUBSET Threads
    BY <1>5 DEF Create, Writes
  <2> QED
    BY <1>1, <2>1, NewStates
<1>6. CASE UNCHANGED state
  BY <1>6
<1> QED
  BY <1>2, <1>3, <1>4, <1>5, <1>6 DEF Next, Refresh, Begin, Pull, Check, MakeDir, CopyBegins, CopyEnds,
     StartEngine, EngineEnds, Listed, ReadNames, ResetCatalog, Error, Crash, Launch, Quit, vars

LEMMA StepVisible ==
    ASSUME TypeOK, Alone, Visible, [Next]_vars
    PROVE  Visible'
<1> USE DEF machine, database, desktop, run, history
<1>0. state.rows \subseteq state'.rows
  BY RowsGrow
<1>1. ASSUME NEW r \in Refreshers, EngineScans(r) PROVE Visible'
  <2>1. state'.rows = state.rows \cup rollouts
    BY <1>1, NewStates DEF EngineScans, RefreshWrites, Writes, TypeOK
  <2>2. \A s \in Refreshers : scanned'[s] \subseteq state'.rows
    BY <1>1, <2>1 DEF EngineScans, Visible, TypeOK
  <2> QED
    BY <1>0, <1>1, <2>2 DEF EngineScans, RefreshWrites, Visible
<1>2. ASSUME NEW r \in Refreshers, UpdateNames(r) PROVE Visible'
  BY <1>0, <1>2 DEF UpdateNames, RefreshWrites, Visible
<1>3. ASSUME NEW r \in Refreshers, ResetCatalog(r) PROVE Visible'
  <2>1. \A s \in Refreshers : scanned'[s] \subseteq state'.rows
    BY <1>3, Ending DEF ResetCatalog, Visible
  <2>2. promised' \subseteq state'.rows /\ (catalog' = "unknown" => promised' = {})
    BY <1>3 DEF ResetCatalog, Reset, Visible
  <2>3. ~raced' => ~app'
    BY <1>3 DEF ResetCatalog, Alone, Inside
  <2>4. catalog' \in {"unknown", "empty", "due"}
    BY <1>3 DEF ResetCatalog, Reset, TypeOK, Catalogs
  <2> QED
    BY <2>1, <2>2, <2>3, <2>4 DEF Visible
<1>4. CASE Launch
  BY <1>4 DEF Launch, Visible, TypeOK, Catalogs
<1>5. CASE Quit
  BY <1>5 DEF Quit, Visible
<1>6. ASSUME NEW t \in Threads, Rename(t) \/ Create(t) PROVE Visible'
  BY <1>0, <1>6 DEF Rename, Create, Writes, Visible
<1>7. ASSUME NEW r \in Refreshers, Error(r) \/ Crash(r) PROVE Visible'
  BY <1>7, Ending DEF Error, Crash, Visible
<1>8. CASE UNCHANGED <<catalog, promised, scanned, state, sidebar, app, raced>>
  BY <1>8 DEF Visible
<1> QED
  BY <1>1, <1>2, <1>3, <1>4, <1>5, <1>6, <1>7, <1>8 DEF Next, Refresh, Begin, Pull, Check, MakeDir,
     CopyBegins, CopyEnds, StartEngine, EngineEnds, Listed, ReadNames, vars

\* The app, once opened again, shows every thread a refresh has promised.
THEOREM PulledAreShown == Spec => []PulledThreadsShown
<1>1. Init => Alone
  BY DEF Init, Alone
<1>2. Visible => PulledThreadsShown
  BY DEF Visible, PulledThreadsShown
<1> QED
  BY <1>1, <1>2, InitType, StepType, StepAlone, InitVisible, StepVisible, PTL DEF Spec

-----------------------------------------------------------------------------
LEMMA InitBackup == Init => DirInv /\ FlagInv /\ BackupInv
  BY DEF Init, DirInv, FlagInv, BackupInv, Inside

LEMMA StepDir ==
    ASSUME TypeOK, DirInv, [Next]_vars
    PROVE  DirInv'
<1> USE DEF machine, database, desktop, run, history
<1>1. ASSUME NEW r \in Refreshers, MakeDir(r) PROVE DirInv'
  <2>1. PICK d \in Dir \ DOMAIN backups :
          /\ dir' = [dir EXCEPT ![r] = {d}]
          /\ backups' = [e \in DOMAIN backups \cup {d} |-> IF e = d THEN {} ELSE backups[e]]
    BY <1>1 DEF MakeDir
  <2>2. step'[r] = "copy" /\ \A s \in Refreshers \ {r} : step'[s] = step[s] /\ dir'[s] = dir[s]
    BY <1>1, <2>1, Stepping DEF MakeDir, TypeOK
  <2>3. \A s \in Refreshers : d \notin dir[s]
    BY <2>1 DEF DirInv
  <2>4. /\ dir'[r] = {d} /\ d \in DOMAIN backups' /\ backups'[d] = {}
        /\ \A e \in DOMAIN backups : e \in DOMAIN backups' /\ backups'[e] = backups[e]
    BY <2>1 DEF TypeOK
  <2>5. dir[r] = {}
    BY <1>1 DEF MakeDir, DirInv
  <2> QED
    BY <2>2, <2>3, <2>4, <2>5 DEF DirInv
<1>2. ASSUME NEW r \in Refreshers, CopyBegins(r) PROVE DirInv'
  BY <1>2, Stepping DEF CopyBegins, DirInv
<1>3. ASSUME NEW r \in Refreshers, CopyEnds(r) PROVE DirInv'
  <2>1. /\ step'[r] = "start" /\ dir'[r] = {}
        /\ \A s \in Refreshers \ {r} : step'[s] = step[s] /\ dir'[s] = dir[s]
    BY <1>3, Stepping DEF CopyEnds, TypeOK
  <2>2. /\ DOMAIN backups' = DOMAIN backups
        /\ \A d \in DOMAIN backups \ dir[r] : backups'[d] = backups[d]
    BY <1>3 DEF CopyEnds
  <2> QED
    BY <2>1, <2>2 DEF DirInv
<1>4. ASSUME NEW r \in Refreshers, ResetCatalog(r) \/ Error(r) \/ Crash(r) PROVE DirInv'
  BY <1>4, Ending DEF ResetCatalog, Error, Crash, DirInv
<1>5. ASSUME NEW r \in Refreshers,
             Begin(r) \/ Pull(r) \/ Check(r) \/ StartEngine(r) \/ EngineScans(r) \/ Listed(r)
             \/ ReadNames(r) \/ UpdateNames(r)
      PROVE DirInv'
  <2>1. /\ step'[r] = step[r] \/ {step[r], step'[r]} \cap {"copy", "copying"} = {}
        /\ \A s \in Refreshers \ {r} : step'[s] = step[s]
        /\ UNCHANGED <<dir, backups>>
    BY <1>5 DEF Begin, Pull, Check, StartEngine, EngineScans, Listed, ReadNames, UpdateNames, Moves, TypeOK
  <2> QED
    BY <2>1 DEF DirInv
<1>6. CASE UNCHANGED <<step, dir, backups>>
  BY <1>6 DEF DirInv
<1> QED
  BY <1>1, <1>2, <1>3, <1>4, <1>5, <1>6 DEF Next, Refresh, EngineEnds, Launch, Quit, Rename, Create, vars

LEMMA StepFlag ==
    ASSUME TypeOK, FlagInv, [Next]_vars
    PROVE  FlagInv'
<1> USE DEF machine, database, desktop, run, history
<1>1. ASSUME NEW r \in Refreshers, Begin(r) \/ Pull(r) PROVE FlagInv'
  <2>1. /\ step'[r] \in {"idle", "check"} /\ ~engine[r] /\ UNCHANGED engine
        /\ \A s \in Refreshers \ {r} : step'[s] = step[s]
        /\ noBackup' \subseteq noBackup \cup {r}
    BY <1>1 DEF Begin, Pull, TypeOK
  <2> QED
    BY <2>1 DEF FlagInv, TypeOK
<1>2. ASSUME NEW r \in Refreshers,
             Check(r) \/ MakeDir(r) \/ CopyBegins(r) \/ CopyEnds(r) \/ Listed(r) \/ ReadNames(r)
             \/ UpdateNames(r)
      PROVE FlagInv'
  <2>1. /\ UNCHANGED <<engine, noBackup>> /\ \A s \in Refreshers \ {r} : step'[s] = step[s]
        /\ step'[r] \in {"mkdir", "copy", "copying"} =>
             step[r] \in {"mkdir", "copy", "copying"} \/ r \notin noBackup
        /\ step[r] \notin {"idle", "engine"} /\ (step[r] = "listed" => ~engine[r])
    BY <1>2 DEF Check, MakeDir, CopyBegins, CopyEnds, Listed, ReadNames, UpdateNames, Moves, TypeOK
  <2> QED
    BY <2>1 DEF FlagInv, TypeOK
<1>3. ASSUME NEW r \in Refreshers, StartEngine(r) PROVE FlagInv'
  BY <1>3, Stepping DEF StartEngine, FlagInv, TypeOK
<1>4. ASSUME NEW r \in Refreshers, EngineScans(r) PROVE FlagInv'
  BY <1>4, Stepping DEF EngineScans, FlagInv, TypeOK
<1>5. ASSUME NEW r \in Refreshers, EngineEnds(r) PROVE FlagInv'
  BY <1>5 DEF EngineEnds, FlagInv, TypeOK
<1>6. ASSUME NEW r \in Refreshers, ResetCatalog(r) \/ Error(r) \/ Crash(r) PROVE FlagInv'
  BY <1>6, Ending DEF ResetCatalog, Error, Crash, FlagInv, TypeOK
<1>7. CASE UNCHANGED <<step, engine, noBackup>>
  BY <1>7 DEF FlagInv
<1> QED
  BY <1>1, <1>2, <1>3, <1>4, <1>5, <1>6, <1>7 DEF Next, Refresh, Launch, Quit, Rename, Create, vars

-----------------------------------------------------------------------------
\* A backup that can undo everything stays while the original does: only the
\* directory a refresh is filling changes, and that one was empty.
LEMMA ProtectedStays ==
    ASSUME TypeOK, DirInv, [Next]_vars, UNCHANGED original, Protected
    PROVE  Protected'
<1> USE DEF machine, database, desktop, run, history
<1>1. PICK d \in DOMAIN backups : original \in backups[d]
  BY DEF Protected
<1>2. ASSUME NEW r \in Refreshers, MakeDir(r) PROVE Protected'
  <2>1. PICK e \in Dir \ DOMAIN backups :
          backups' = [f \in DOMAIN backups \cup {e} |-> IF f = e THEN {} ELSE backups[f]]
    BY <1>2 DEF MakeDir
  <2> QED
    BY <1>1, <2>1 DEF Protected
<1>3. ASSUME NEW r \in Refreshers, CopyEnds(r) PROVE Protected'
  <2>1. d \notin dir[r]
    BY <1>1, <1>3 DEF CopyEnds, DirInv
  <2>2. d \in DOMAIN backups' /\ backups'[d] = backups[d]
    BY <1>1, <1>3, <2>1 DEF CopyEnds
  <2> QED
    BY <1>1, <2>2 DEF Protected
<1>4. CASE UNCHANGED backups
  BY <1>1, <1>4 DEF Protected
<1> QED
  BY <1>2, <1>3, <1>4 DEF Next, Refresh, Begin, Pull, Check, CopyBegins, StartEngine, EngineScans,
     EngineEnds, Listed, ReadNames, UpdateNames, ResetCatalog, Error, Crash, Launch, Quit, Rename,
     Create, vars

\* The engine or the names of a refresh change the table.
LEMMA WriteBackup ==
    ASSUME TypeOK, DirInv, FlagInv, BackupInv, [Next]_vars,
           NEW r \in Refreshers, NEW new \in State, RefreshWrites(r, new),
           engine[r] \/ step[r] = "update",
           \/ step' = step
           \/ step[r] \in {"engine", "update"} /\ step'[r] \in {"listed", "catalog"}
               /\ \A s \in Refreshers \ {r} : step'[s] = step[s],
           UNCHANGED <<noBackup, engine, backups>>
    PROVE  BackupInv'
<1> USE DEF RefreshWrites, Writes
<1> SUFFICES ASSUME ~raced' PROVE BackupInv'
  BY DEF BackupInv
<1>1. ~raced
  BY DEF TypeOK
<1>2. /\ Inside(r) /\ step[r] \notin {"mkdir", "copy", "copying"}
      /\ step'[r] \notin {"mkdir", "copy", "copying"}
  BY DEF Inside, FlagInv
<1>3. CASE new = state
  <2>1. UNCHANGED <<original, copied, state>>
    BY <1>3
  <2>2. Protected => Protected'
    BY <2>1, ProtectedStays
  <2>3. \A s \in Refreshers \ {r} : step'[s] = step[s]
    OBVIOUS
  <2>4. r \notin noBackup => Protected
    BY <1>1, <1>2 DEF BackupInv
  <2> QED
    BY <1>1, <1>2, <2>1, <2>2, <2>3, <2>4 DEF BackupInv, Inside
<1>4. CASE new # state /\ r \notin noBackup
  <2>1. Protected /\ UNCHANGED original
    BY <1>1, <1>2, <1>4 DEF BackupInv
  <2>2. Protected'
    BY <2>1, ProtectedStays
  <2> QED
    BY <2>2 DEF BackupInv
<1>5. CASE new # state /\ r \in noBackup
  <2>1. original' = state' /\ \A s \in Refreshers \ {r} : ~AtWork(s) /\ ~engine[s]
    BY <1>5 DEF OthersAtWork
  <2>2. \A s \in Refreshers \ {r} : step'[s] = "idle" /\ ~engine'[s]
    BY <2>1 DEF AtWork
  <2> QED
    BY <1>2, <1>5, <2>1, <2>2 DEF BackupInv, Inside
<1> QED
  BY <1>3, <1>4, <1>5

LEMMA StepBackup ==
    ASSUME Inv, [Next]_vars
    PROVE  BackupInv'
<1> USE DEF machine, database, desktop, run, history, Inv
<1> SUFFICES ASSUME ~raced' PROVE BackupInv'
  BY DEF BackupInv
<1>1. ASSUME NEW r \in Refreshers, EngineScans(r) PROVE BackupInv'
  <2> DEFINE new == [state EXCEPT !.rows = @ \cup rollouts]
  <2>1. new \in State /\ RefreshWrites(r, new)
    BY <1>1, NewStates DEF EngineScans, TypeOK
  <2>2. \/ step' = step
        \/ step[r] = "engine" /\ step'[r] = "listed" /\ \A s \in Refreshers \ {r} : step'[s] = step[s]
    BY <1>1 DEF EngineScans, Moves, TypeOK
  <2>3. engine[r] /\ UNCHANGED <<noBackup, engine, backups>>
    BY <1>1 DEF EngineScans, Moves
  <2> HIDE DEF new
  <2> QED
    BY <2>1, <2>2, <2>3, WriteBackup
<1>2. ASSUME NEW r \in Refreshers, UpdateNames(r) PROVE BackupInv'
  <2>1. Named(state, read[r]) \in State /\ RefreshWrites(r, Named(state, read[r]))
    BY <1>2, NewStates DEF UpdateNames, TypeOK
  <2>2. /\ step[r] = "update" /\ step'[r] = "catalog" /\ \A s \in Refreshers \ {r} : step'[s] = step[s]
        /\ UNCHANGED <<noBackup, engine, backups>>
    BY <1>2, Stepping DEF UpdateNames
  <2> QED
    BY <2>1, <2>2, WriteBackup
<1>3. ASSUME NEW t \in Threads, Rename(t) \/ Create(t) PROVE BackupInv'
  <2>1. \A r \in Refreshers : ~Inside(r)
    BY <1>3 DEF Rename, Create, Alone
  <2>2. UNCHANGED <<step, engine, noBackup>> /\ original' = state'
    BY <1>3 DEF Rename, Create
  <2> QED
    BY <2>1, <2>2 DEF BackupInv, Inside
<1>4. ASSUME UNCHANGED <<state, original>> PROVE BackupInv'
  <2>1. Protected => Protected'
    BY <1>4, ProtectedStays
  <2>2. ASSUME NEW r \in Refreshers, CopyBegins(r) PROVE BackupInv'
    <3>1. copied'[r] = {state} /\ \A s \in Refreshers \ {r} : copied'[s] = copied[s]
      BY <2>2 DEF CopyBegins, TypeOK
    <3>2. /\ step'[r] = "copying" /\ \A s \in Refreshers \ {r} : step'[s] = step[s]
          /\ UNCHANGED <<noBackup, engine, raced>>
      BY <2>2, Stepping DEF CopyBegins
    <3> QED
      BY <1>4, <2>1, <3>1, <3>2 DEF BackupInv, Inside
  <2>3. ASSUME NEW r \in Refreshers, CopyEnds(r) PROVE BackupInv'
    <3>1. copied[r] = {original} => Protected'
      <4>1. PICK d \in DOMAIN backups : dir[r] = {d}
        BY <2>3 DEF CopyEnds, DirInv
      <4>2. d \in DOMAIN backups' /\ backups'[d] = copied[r]
        BY <2>3, <4>1 DEF CopyEnds
      <4> QED
        BY <1>4, <4>2 DEF Protected
    <3>2. Protected'
      BY <2>1, <2>3, <3>1 DEF CopyEnds, BackupInv
    <3> QED
      BY <3>2 DEF BackupInv
  <2>4. ASSUME NEW r \in Refreshers, Begin(r) \/ Pull(r) PROVE BackupInv'
    <3>1. /\ step'[r] \in {"idle", "check"} /\ ~engine'[r]
          /\ \A s \in Refreshers \ {r} : step'[s] = step[s] /\ (s \in noBackup' <=> s \in noBackup)
          /\ UNCHANGED <<engine, copied, raced>>
      BY <2>4 DEF Begin, Pull, TypeOK
    <3> QED
      BY <1>4, <2>1, <3>1 DEF BackupInv, Inside
  <2>5. ASSUME NEW r \in Refreshers, Check(r) \/ MakeDir(r) \/ StartEngine(r) \/ Listed(r) \/ ReadNames(r)
        PROVE BackupInv'
    <3>1. /\ \A s \in Refreshers \ {r} : step'[s] = step[s] /\ engine'[s] = engine[s]
          /\ UNCHANGED <<noBackup, copied, raced>>
      BY <2>5 DEF Check, MakeDir, StartEngine, Listed, ReadNames, Moves, TypeOK
    <3>2. /\ step'[r] # "copying"
          /\ \/ step'[r] \in {"mkdir", "copy"} \/ r \in noBackup
             \/ Inside(r) /\ step[r] \notin {"mkdir", "copy", "copying"}
      BY <2>5 DEF Check, MakeDir, StartEngine, Listed, ReadNames, Moves, Inside, TypeOK
    <3> QED
      BY <1>4, <2>1, <3>1, <3>2 DEF BackupInv, Inside
  <2>6. ASSUME NEW r \in Refreshers, EngineEnds(r) PROVE BackupInv'
    <3>1. /\ ~engine'[r] /\ (AtWork(r) => noBackup' = noBackup)
          /\ \A s \in Refreshers \ {r} : engine'[s] = engine[s] /\ (s \in noBackup' <=> s \in noBackup)
          /\ UNCHANGED <<step, copied, raced>>
      BY <2>6 DEF EngineEnds, TypeOK
    <3> QED
      BY <1>4, <2>1, <3>1 DEF BackupInv, Inside, AtWork
  <2>7. ASSUME NEW r \in Refreshers, ResetCatalog(r) \/ Error(r) \/ Crash(r) PROVE BackupInv'
    <3>1. Ends(r) /\ UNCHANGED <<engine, raced>> /\ (engine[r] => AtWork(r))
      BY <2>7 DEF ResetCatalog, Error, Crash, Ends, AtWork, FlagInv
    <3>2. engine[r] => step[r] \notin {"mkdir", "copy", "copying"}
      BY DEF FlagInv
    <3> QED
      BY <1>4, <2>1, <3>1, <3>2, Ending DEF BackupInv, Inside
  <2>8. CASE UNCHANGED <<step, engine, noBackup, copied, raced>>
    BY <1>4, <2>1, <2>8 DEF BackupInv, Inside
  <2>9. CASE Launch \/ Quit
    BY <1>4, <2>1, <2>9 DEF Launch, Quit, BackupInv, Inside, TypeOK
  <2> QED
    BY <1>1, <1>2, <1>3, <2>2, <2>3, <2>4, <2>5, <2>6, <2>7, <2>8, <2>9 DEF Next, Refresh, vars
<1> QED
  BY <1>1, <1>2, <1>3, <1>4 DEF Next, Refresh, Begin, Pull, Check, MakeDir, CopyBegins, CopyEnds,
     StartEngine, EngineEnds, Listed, ReadNames, ResetCatalog, Error, Crash, Launch, Quit, vars

\* What refreshes changed in state_5.sqlite can be put back from some backup,
\* though refreshes overlap, die and name their backups after one second.
THEOREM OriginalIsKept == Spec => []OriginalKept
<1>1. Init => Inv
  BY InitType, InitVisible, InitBackup DEF Init, Inv, Alone
<1>2. Inv /\ [Next]_vars => Inv'
  BY StepType, StepAlone, StepVisible, StepDir, StepFlag, StepBackup DEF Inv
<1>3. Inv => OriginalKept
  BY DEF Inv, BackupInv, Protected, OriginalKept
<1> QED
  BY <1>1, <1>2, <1>3, PTL DEF Spec
================================================================================
