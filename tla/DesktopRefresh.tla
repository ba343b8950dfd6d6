----------------------------- MODULE DesktopRefresh ----------------------------
(***************************************************************************)
(* `desktop refresh` and `pull --desktop` (internal/desktop, desktop.go of *)
(* cmd/codex-sync): several refreshes, which may overlap, crash and be     *)
(* repeated, beside the desktop app and its user.                          *)
(*                                                                         *)
(* The engine run of a refresh is used here as module Listing promises it: *)
(* it returns when its engine has gone, and successfully only after the    *)
(* engine has gone through the rollouts.  The app is not part of the       *)
(* repository: it is modelled from what the package comment, ResetCatalog  *)
(* and the help text say of it.                                            *)
(***************************************************************************)
EXTENDS Naturals

CONSTANTS
    Threads,     \* threads that may come to this machine
    Refreshers,  \* runs of the command, one after the other or at a time
    Seconds,     \* times a backup directory may be named after
    MaxDirs      \* directories of one second; bounds the model

ASSUME RefreshAssumption == MaxDirs \in Nat

Names == {"none", "synced", "user"}
NamesOf == [Threads -> Names]
\* The thread table of state_5.sqlite, and a copy of it.
State == [rows : SUBSET Threads, names : NamesOf]
\* A copy is the state it restores, or nothing if it is torn or incomplete.
Copies == SUBSET State
Dir == [second : Seconds, n : 0..(MaxDirs - 1)]

VARIABLES
    rollouts,  \* threads with a rollout under sessions/
    index,     \* index[t]: the name session_index.jsonl has for t
    state,     \* state_5.sqlite
    catalog,   \* the app's catalog: of another schema, empty (no file, or no row
               \* for the local host), swept, or due for a full sweep
    sidebar,   \* threads the app shows
    app,       \* the app is open
    engine,    \* engine[r]: the engine that r started is running
    backups,   \* backups[d]: what the backup directory d holds
    step,      \* step[r]: what r does next
    noBackup, noNames,   \* refreshes with these flags
    dir,       \* dir[r]: the backup directory r is filling
    copied,    \* copied[r]: what its copy of state_5.sqlite is going to be
    scanned,   \* scanned[r]: the rollouts r's engine went through
    read,      \* read[r]: the names r read from the index and has not applied
    original,  \* state_5.sqlite as the app, or a refresh without backup, left it
    promised,  \* threads of refreshes that succeeded
    raced      \* the app was opened, or a refresh without backup wrote, while
               \* another refresh was at work

machine == <<rollouts, index>>
database == <<state, catalog, backups>>
desktop == <<sidebar, app>>
run == <<step, noBackup, noNames, dir, copied, scanned, read>>
history == <<original, promised, raced>>
vars == <<machine, database, desktop, engine, run, history>>

Steps == {"idle", "check", "mkdir", "copy", "copying", "start", "engine", "listed",
          "names", "update", "catalog"}
Catalogs == {"unknown", "empty", "swept", "due"}

TypeOK ==
    /\ rollouts \subseteq Threads /\ index \in [Threads -> {"none", "synced"}]
    /\ state \in State /\ catalog \in Catalogs
    /\ DOMAIN backups \subseteq Dir
    /\ \A d \in DOMAIN backups : backups[d] \in Copies
    /\ sidebar \subseteq Threads /\ app \in BOOLEAN
    /\ engine \in [Refreshers -> BOOLEAN]
    /\ step \in [Refreshers -> Steps]
    /\ noBackup \subseteq Refreshers /\ noNames \subseteq Refreshers
    /\ dir \in [Refreshers -> SUBSET Dir]
    /\ copied \in [Refreshers -> Copies]
    /\ scanned \in [Refreshers -> SUBSET Threads]
    /\ read \in [Refreshers -> NamesOf]
    /\ original \in State /\ promised \subseteq Threads /\ raced \in BOOLEAN

Unread == [t \in Threads |-> "none"]
Nothing == [rows |-> {}, names |-> Unread]

Init ==
    /\ rollouts = {} /\ index = Unread
    /\ state = Nothing /\ catalog \in Catalogs
    /\ backups = [d \in {} |-> {}]
    /\ sidebar = {} /\ app = FALSE
    /\ engine = [r \in Refreshers |-> FALSE]
    /\ step = [r \in Refreshers |-> "idle"]
    /\ noBackup = {} /\ noNames = {}
    /\ dir = [r \in Refreshers |-> {}]
    /\ copied = [r \in Refreshers |-> {}]
    /\ scanned = [r \in Refreshers |-> {}]
    /\ read = [r \in Refreshers |-> Unread]
    /\ original = state /\ promised = {} /\ raced = FALSE

AtWork(r) == step[r] # "idle"
OthersAtWork(r) == \E s \in Refreshers \ {r} : AtWork(s) \/ engine[s]

\* parseProcessLines finds the app or an engine.
HoldsDatabases == app \/ \E r \in Refreshers : engine[r]

Moves(r, to) ==
    /\ step' = [step EXCEPT ![r] = to]
    /\ UNCHANGED <<noBackup, noNames>>

-----------------------------------------------------------------------------
(* What the steps do to the databases.                                     *)

\* A copy of state_5.sqlite that is under way while the database is written
\* mixes the file of before with the log of after.
Writes(new) ==
    /\ state' = new
    /\ copied' = IF new = state THEN copied
                 ELSE [r \in Refreshers |-> IF step[r] = "copying" THEN {} ELSE copied[r]]

RefreshWrites(r, new) ==
    /\ Writes(new)
    /\ original' = IF r \in noBackup /\ new # state THEN new ELSE original
    /\ raced' = (raced \/ (r \in noBackup /\ new # state /\ OthersAtWork(r)))

\* Mutant: a pulled name replaces the one the thread has.
OverwriteNames(current, names) ==
    [current EXCEPT !.names = [t \in Threads |->
        IF t \in current.rows /\ names[t] # "none" THEN names[t] ELSE current.names[t]]]

\* The UPDATE of ReconcileNames: threads of the table that have no name yet.
Named(current, names) ==
    [current EXCEPT !.names = [t \in Threads |->
        IF t \in current.rows /\ current.names[t] = "none" THEN names[t] ELSE current.names[t]]]

\* Mutant: the first sweep counts as full for ever.
OnlyEmptyReset == IF catalog = "empty" THEN "due" ELSE catalog

\* ResetCatalog: a catalog without a row for this host sweeps by itself, a
\* schema that is not recognised is left alone.
Reset == IF catalog = "swept" THEN "due" ELSE catalog

-----------------------------------------------------------------------------
(* The command *)

\* desktop refresh.
Begin(r) ==
    /\ step[r] = "idle" /\ ~engine[r]
    /\ step' = [step EXCEPT ![r] = "check"]
    /\ noBackup' \in {noBackup, noBackup \cup {r}}
    /\ noNames' \in {noNames, noNames \cup {r}}
    /\ UNCHANGED <<machine, database, desktop, engine, dir, copied, scanned, read, history>>

\* pull, and with --desktop the refresh after a pull that brought something
\* and met no error (refreshAfterPull).
Pull(r) ==
    /\ step[r] = "idle" /\ ~engine[r]
    /\ \E ts \in SUBSET (Threads \ rollouts), named, failed, requested \in BOOLEAN :
         /\ ts # {}
         /\ rollouts' = rollouts \cup ts
         /\ index' = [t \in Threads |-> IF t \in ts /\ named THEN "synced" ELSE index[t]]
         /\ step' = [step EXCEPT ![r] = IF requested /\ ~failed THEN "check" ELSE "idle"]
    /\ UNCHANGED <<noBackup, noNames>>
    /\ UNCHANGED <<database, desktop, engine, dir, copied, scanned, read, history>>

\* The only look at the processes.  An engine that is running fails the
\* command, and so do the errors of every later step: see Error.
Check(r) ==
    /\ step[r] = "check" /\ ~HoldsDatabases
    /\ Moves(r, IF r \in noBackup THEN "start" ELSE "mkdir")
    /\ UNCHANGED <<machine, database, desktop, engine, dir, copied, scanned, read, history>>

\* Mutant: a directory of the same second is used again.
ReuseDir(r) ==
    /\ step[r] = "mkdir"
    /\ \E d \in [second : Seconds, n : {0}] :
       /\ dir' = [dir EXCEPT ![r] = {d}]
       /\ backups' = [e \in DOMAIN backups \cup {d} |-> IF e = d THEN {} ELSE backups[e]]
    /\ Moves(r, "copy")
    /\ UNCHANGED <<machine, state, catalog, desktop, engine, copied, scanned, read, history>>

\* Mutant: the suffix counts from one.
SuffixFromOne(r) ==
    /\ step[r] = "mkdir"
    /\ \E d \in [second : Seconds, n : 1..MaxDirs] \ DOMAIN backups :
         /\ dir' = [dir EXCEPT ![r] = {d}]
         /\ backups' = [e \in DOMAIN backups \cup {d} |-> IF e = d THEN {} ELSE backups[e]]
    /\ Moves(r, "copy")
    /\ UNCHANGED <<machine, state, catalog, desktop, engine, copied, scanned, read, history>>

\* newBackupDir: Mkdir refuses a name that exists, and the next one is tried.
MakeDir(r) ==
    /\ step[r] = "mkdir"
    /\ \E d \in Dir \ DOMAIN backups :
         /\ \A m \in 0..(d.n - 1) : [d EXCEPT !.n = m] \in DOMAIN backups
         /\ dir' = [dir EXCEPT ![r] = {d}]
         /\ backups' = [e \in DOMAIN backups \cup {d} |-> IF e = d THEN {} ELSE backups[e]]
    /\ Moves(r, "copy")
    /\ UNCHANGED <<machine, state, catalog, desktop, engine, copied, scanned, read, history>>

\* Backup copies the database and then its log.
CopyBegins(r) ==
    /\ step[r] = "copy"
    /\ copied' = [copied EXCEPT ![r] = {state}]
    /\ Moves(r, "copying")
    /\ UNCHANGED <<machine, database, desktop, engine, dir, scanned, read, history>>

CopyEnds(r) ==
    /\ step[r] = "copying"
    /\ backups' = [d \in DOMAIN backups |-> IF d \in dir[r] THEN copied[r] ELSE backups[d]]
    /\ dir' = [dir EXCEPT ![r] = {}] /\ copied' = [copied EXCEPT ![r] = {}]
    /\ Moves(r, "start")
    /\ UNCHANGED <<machine, state, catalog, desktop, engine, scanned, read, history>>

StartEngine(r) ==
    /\ step[r] = "start"
    /\ engine' = [engine EXCEPT ![r] = TRUE]
    /\ Moves(r, "engine")
    /\ UNCHANGED <<machine, database, desktop, dir, copied, scanned, read, history>>

\* The engine indexes the rollouts it finds, whether its client is still there
\* or not.  Only then can every page have been listed.
EngineScans(r) ==
    /\ engine[r]
    /\ RefreshWrites(r, [state EXCEPT !.rows = @ \cup rollouts])
    /\ scanned' = IF AtWork(r) THEN [scanned EXCEPT ![r] = rollouts] ELSE scanned
    /\ Moves(r, IF step[r] = "engine" THEN "listed" ELSE step[r])
    /\ UNCHANGED <<machine, catalog, backups, desktop, engine, dir, read, promised>>

EngineEnds(r) ==
    /\ engine[r]
    /\ engine' = [engine EXCEPT ![r] = FALSE]
    /\ noBackup' = IF AtWork(r) THEN noBackup ELSE noBackup \ {r}
    /\ UNCHANGED <<machine, database, desktop, step, noNames, dir, copied, scanned, read, history>>

\* IndexRollouts returns, and threadRows counts.
Listed(r) ==
    /\ step[r] = "listed" /\ ~engine[r]
    /\ Moves(r, IF r \in noNames THEN "catalog" ELSE "names")
    /\ UNCHANGED <<machine, database, desktop, engine, dir, copied, scanned, read, history>>

\* indexNames.
ReadNames(r) ==
    /\ step[r] = "names"
    /\ read' = [read EXCEPT ![r] = index]
    /\ Moves(r, "update")
    /\ UNCHANGED <<machine, database, desktop, engine, dir, copied, scanned, history>>

UpdateNames(r) ==
    /\ step[r] = "update"
    /\ RefreshWrites(r, Named(state, read[r]))
    /\ read' = [read EXCEPT ![r] = Unread]
    /\ Moves(r, "catalog")
    /\ UNCHANGED <<machine, catalog, backups, desktop, engine, dir, scanned, promised>>

\* The command is over: what its variables hold no longer matters.
Ends(r) ==
    /\ step' = [step EXCEPT ![r] = "idle"]
    /\ noNames' = noNames \ {r} /\ noBackup' = IF engine[r] THEN noBackup ELSE noBackup \ {r}
    /\ dir' = [dir EXCEPT ![r] = {}] /\ copied' = [copied EXCEPT ![r] = {}]
    /\ scanned' = [scanned EXCEPT ![r] = {}] /\ read' = [read EXCEPT ![r] = Unread]

ResetCatalog(r) ==
    /\ step[r] = "catalog"
    /\ catalog' = Reset
    /\ promised' = IF catalog = "unknown" THEN promised ELSE promised \cup scanned[r]
    /\ Ends(r)
    /\ UNCHANGED <<machine, state, backups, desktop, engine, original, raced>>

\* A step fails, and what the steps before it did stays.  IndexRollouts
\* returns an error, too, only when its engine has gone.
Error(r) ==
    /\ AtWork(r) /\ ~engine[r]
    /\ Ends(r)
    /\ UNCHANGED <<machine, database, desktop, engine, history>>

\* The engine goes on until it finds its stdin closed.
Crash(r) ==
    /\ AtWork(r) /\ engine[r]
    /\ Ends(r)
    /\ UNCHANGED <<machine, database, desktop, engine, history>>

-----------------------------------------------------------------------------
(* The app and its user *)

\* The first scan is a full one while none has been recorded.
Launch ==
    /\ ~app /\ app' = TRUE
    /\ catalog' = IF catalog = "unknown" THEN catalog ELSE "swept"
    /\ sidebar' = IF catalog \in {"unknown", "swept"} THEN sidebar ELSE sidebar \cup state.rows
    /\ raced' = (raced \/ \E r \in Refreshers : AtWork(r) \/ engine[r])
    /\ UNCHANGED <<machine, state, backups, engine, run, original, promised>>

Quit ==
    /\ app /\ app' = FALSE
    /\ UNCHANGED <<machine, database, sidebar, engine, run, history>>

Rename(t) ==
    /\ app /\ t \in state.rows
    /\ Writes([state EXCEPT !.names[t] = "user"])
    /\ original' = state'
    /\ UNCHANGED <<machine, catalog, backups, desktop, engine, step, noBackup, noNames,
                   dir, scanned, read, promised, raced>>

Create(t) ==
    /\ app /\ t \notin rollouts
    /\ rollouts' = rollouts \cup {t}
    /\ sidebar' = sidebar \cup {t}
    /\ Writes([state EXCEPT !.rows = @ \cup {t}])
    /\ original' = state'
    /\ UNCHANGED <<index, catalog, backups, app, engine, step, noBackup, noNames,
                   dir, scanned, read, promised, raced>>

-----------------------------------------------------------------------------

Refresh(r) ==
    \/ Begin(r) \/ Pull(r) \/ Check(r) \/ MakeDir(r) \/ CopyBegins(r) \/ CopyEnds(r)
    \/ StartEngine(r) \/ EngineScans(r) \/ EngineEnds(r) \/ Listed(r)
    \/ ReadNames(r) \/ UpdateNames(r) \/ ResetCatalog(r) \/ Error(r) \/ Crash(r)

Next ==
    \/ \E r \in Refreshers : Refresh(r)
    \/ Launch \/ Quit \/ (\E t \in Threads : Rename(t) \/ Create(t))

Spec == Init /\ [][Next]_vars

-----------------------------------------------------------------------------

\* A refresh that succeeded makes the threads that were pulled visible: the
\* next time the app is open it shows every thread the engine went through,
\* whatever refreshes failed, died or ran beside it, unless the app was opened
\* before the refresh was over (refresh.go:66-105, catalog.go:24-56).
PulledThreadsShown == app /\ ~raced => promised \subseteq sidebar

\* What refreshes changed can be put back: while state_5.sqlite is not as the
\* app left it, some backup holds an intact copy of how the app left it, even
\* if several refreshes overlap, die and share a second (backup.go:18-72,
\* refresh.go:83-90).
OriginalKept ==
    ~raced /\ state # original => \E d \in DOMAIN backups : original \in backups[d]

\* No refresh takes away a name the user gave a thread, not even one the user
\* gives while the refresh is between reading the index and its update
\* (names.go:25-82).
UserNamesKept ==
    [][\A t \in Threads : state.names[t] = "user" => state'.names[t] = "user"]_vars
================================================================================
