------------------------------- MODULE MergedFile ------------------------------
(***************************************************************************)
(* The content of the two files that pull merges, history.jsonl and        *)
(* session_index.jsonl, line by line: MergeJSONL of internal/sync/merge.go,*)
(* the translation of paths of internal/sync/paths.go that lies between a  *)
(* device's copy and the remote's, and the pushes and pulls in which the   *)
(* two meet.  CodexSync has every step of a push and a pull, and takes a   *)
(* merge for the union of two sets; here the steps are whole, Codex is      *)
(* quiet meanwhile, and the order, the duplicates and the bytes of the     *)
(* lines are what matters.  Nothing makes a push follow a pull: it may     *)
(* replace an object its device has not merged.                            *)
(*                                                                         *)
(* A file is a sequence of lines, and no file is the empty one.  A line is *)
(* what the merge reads of it (its id and its timestamp, if it is a JSON   *)
(* object) and its text, which stands for the rest of its bytes.           *)
(***************************************************************************)
EXTENDS Naturals, Sequences, FiniteSets, SequencesExt

CONSTANTS
    Devices,
    Appended,   \* Appended[p]: lines Codex may append to p, with portable text
    ByteOrder,  \* ByteOrder[t]: the place of text t in the order of bytes
    MaxAppends  \* bounds the model

History == "history.jsonl"
Index == "session_index.jsonl"
Paths == {History, Index}

\* Texts: without a path, with the home directory of a device, and with the
\* token that stands for the home directory of the device that reads it.
Plain(x) == <<"plain", x>>
Home(d) == <<"home", d>>
Token == <<"token", "HOME">>

\* A line that mentions the home directory of the device it is written on.
Mine == <<"mine", "HOME">>

Time == [parses : BOOLEAN, at : Nat, str : Nat]
Line == [object : BOOLEAN, id : Nat, time : Time, text : DOMAIN ByteOrder]

ASSUME MergeAssumption ==
    /\ MaxAppends \in Nat
    /\ ByteOrder \in Injection(DOMAIN ByteOrder, Nat)
    /\ {Token} \cup {Home(d) : d \in Devices} \subseteq DOMAIN ByteOrder
    /\ Appended \in [Paths -> SUBSET [object : BOOLEAN, id : Nat, time : Time,
                                     text : {Mine} \cup DOMAIN ByteOrder]]
    \* What is written says what instant it is.
    /\ \A p \in Paths : \A a, b \in Appended[p] : a.time.str = b.time.str => a.time = b.time

VARIABLES
    file,     \* file[d][p]: the lines of d's copy
    base,     \* base[d][p]: the lines whose hash state.json records
    remote,   \* remote[p]: the lines of the object
    stale,    \* pairs <<d, p>>: the object is newer than d's last push or pull
    appends,  \* lines appended so far
    written   \* written[p]: the lines appended, with portable text

vars == <<file, base, remote, stale, appends, written>>

-----------------------------------------------------------------------------
(* Path tokens.  One mapping is modelled, of HOME, which every device has. *)

\* Mutant: the token loses its braces.
BareToken(d, text) == IF text = Home(d) THEN Plain("HOME") ELSE text

Normalize(d, text) == IF text = Home(d) THEN Token ELSE text

Resolve(d, text) == IF text = Token THEN Home(d) ELSE text

NormalizeContent(d, lines) == [i \in DOMAIN lines |-> [lines[i] EXCEPT !.text = Normalize(d, @)]]
ResolveContent(d, lines) == [i \in DOMAIN lines |-> [lines[i] EXCEPT !.text = Resolve(d, @)]]

-----------------------------------------------------------------------------
(* MergeJSONL *)

\* A timestamp: an instant if it parses, and a place in the order of strings.
Stamp(at, str) == [parses |-> TRUE, at |-> at, str |-> str]
Unparsable(str) == [parses |-> FALSE, at |-> 0, str |-> str]
Missing == Unparsable(0)

\* laterTimestamp.
Later(a, b) == IF a.parses /\ b.parses THEN a.at > b.at ELSE a.str > b.str

\* bytes.Compare of two lines.
BytesLess(a, b) ==
    \/ ByteOrder[a.text] < ByteOrder[b.text]
    \/ /\ a.text = b.text
       /\ \/ a.id < b.id
          \/ a.id = b.id /\ a.time.str < b.time.str

Objects(lines) == {l \in ToSet(lines) : l.object}
Others(lines) == {l \in ToSet(lines) : ~l.object}

\* sort.Slice: n - 1 others belong before the n-th line of S.  R has the pairs
\* of lines of which the first belongs before the second.
Sorted(S, R) ==
    [n \in 1..Cardinality(S) |-> CHOOSE l \in S : Cardinality({k \in S : <<k, l>> \in R}) = n - 1]

sortedLines[S \in SUBSET Line] == Sorted(S, {ab \in S \X S : BytesLess(ab[1], ab[2])})

\* Mutant: on a tie the line that was read first stays.
FirstWins(line, current) == Later(line.time, current.time)

\* An entry replaces the one of its id that was read before it.
Replaces(line, current) ==
    \/ Later(line.time, current.time)
    \/ ~Later(current.time, line.time) /\ BytesLess(current, line)

Collect(entries, line) ==
    LET same == {e \in entries : e.id = line.id} IN
    IF ~line.object \/ \E e \in same : ~Replaces(line, e) THEN entries
    ELSE (entries \ same) \cup {line}

IndexBefore(a, b) == Later(b.time, a.time) \/ (~Later(a.time, b.time) /\ a.id < b.id)

sortedEntries[S \in SUBSET Line] == Sorted(S, {ab \in S \X S : IndexBefore(ab[1], ab[2])})

mergeSessionIndex(local, theirs) ==
    LET lines == local \o theirs IN
    sortedEntries[FoldLeft(Collect, {}, lines)] \o sortedLines[Others(lines)]

HistoryBefore(a, b) ==
    IF a.time.parses # b.time.parses THEN b.time.parses
    ELSE IF a.time.parses /\ a.time.at # b.time.at THEN a.time.at < b.time.at
    ELSE BytesLess(a, b)

sortedHistory[S \in SUBSET Line] == Sorted(S, {ab \in S \X S : HistoryBefore(ab[1], ab[2])})

mergeHistory(local, theirs) ==
    LET lines == local \o theirs IN
    sortedHistory[Objects(lines)] \o sortedLines[Others(lines)]

MergeJSONL(p, local, theirs) ==
    IF p = Index THEN mergeSessionIndex(local, theirs) ELSE mergeHistory(local, theirs)

-----------------------------------------------------------------------------

None == [p \in Paths |-> <<>>]

Init ==
    /\ file = [d \in Devices |-> None] /\ base = file
    /\ remote = None
    /\ stale = {} /\ appends = 0
    /\ written = [p \in Paths |-> {}]

OnDevice(d, line) == [line EXCEPT !.text = IF @ = Mine THEN Home(d) ELSE @]
Portable(line) == [line EXCEPT !.text = IF @ = Mine THEN Token ELSE @]

\* Codex appends a line, at the end whatever its timestamp.  No two lines it
\* writes are the same.
AppendLine(d, p) ==
    /\ appends < MaxAppends
    /\ appends' = appends + 1
    /\ \E line \in Appended[p] :
         /\ Portable(line) \notin written[p]
         /\ file' = [file EXCEPT ![d][p] = Append(@, OnDevice(d, line))]
         /\ written' = [written EXCEPT ![p] = @ \cup {Portable(line)}]
    /\ UNCHANGED <<base, remote, stale>>

\* DetectChanges: the file's hash is not the recorded one.
Changed(d, p) == file[d][p] # base[d][p]

\* uploadFile records the version it wrote, whatever object it replaced.
Push(d, p) ==
    /\ Changed(d, p)
    /\ remote' = [remote EXCEPT ![p] = NormalizeContent(d, file[d][p])]
    /\ base' = [base EXCEPT ![d][p] = file[d][p]]
    /\ stale' = (stale \ {<<d, p>>}) \cup ((Devices \ {d}) \X {p})
    /\ UNCHANGED <<file, appends, written>>

\* Mutant: the hash recorded is that of the merged file.
MergedHash(d, p) ==
    LET theirs == ResolveContent(d, remote[p]) IN
    /\ <<d, p>> \in stale
    /\ file' = [file EXCEPT ![d][p] = MergeJSONL(p, @, theirs)]
    /\ base' = [base EXCEPT ![d][p] = file'[d][p]]
    /\ stale' = stale \ {<<d, p>>}
    /\ UNCHANGED <<remote, appends, written>>

\* Mutant: a file that was synced before is downloaded, not merged.
DownloadInstead(d, p) ==
    LET theirs == ResolveContent(d, remote[p]) IN
    /\ <<d, p>> \in stale
    /\ file' = [file EXCEPT ![d][p] = theirs]
    /\ base' = [base EXCEPT ![d][p] = theirs]
    /\ stale' = stale \ {<<d, p>>}
    /\ UNCHANGED <<remote, appends, written>>

\* mergeRemote: state.json records the hash of the remote's content, so that
\* the next push uploads the union when this device adds to it.
Pull(d, p) ==
    LET theirs == ResolveContent(d, remote[p]) IN
    /\ <<d, p>> \in stale
    /\ file' = [file EXCEPT ![d][p] = MergeJSONL(p, @, theirs)]
    /\ base' = [base EXCEPT ![d][p] = theirs]
    /\ stale' = stale \ {<<d, p>>}
    /\ UNCHANGED <<remote, appends, written>>

Next == \E d \in Devices, p \in Paths : AppendLine(d, p) \/ Push(d, p) \/ Pull(d, p)

Spec == Init /\ [][Next]_vars

\* Every device goes on running codex-sync.
Fairness == \A d \in Devices, p \in Paths : WF_vars(Push(d, p)) /\ WF_vars(Pull(d, p))

FairSpec == Spec /\ Fairness

-----------------------------------------------------------------------------

TypeOK ==
    /\ file \in [Devices -> [Paths -> Seq(Line)]] /\ base \in [Devices -> [Paths -> Seq(Line)]]
    /\ remote \in [Paths -> Seq(Line)] /\ written \in [Paths -> SUBSET Line]
    /\ stale \subseteq Devices \X Paths
    /\ appends \in 0..MaxAppends

Pending(d, p) == Changed(d, p) \/ <<d, p>> \in stale

\* The entry of its id that a copy of the session index shows, or the line
\* itself: what a reader of the file still finds of a line.
Shown(p, lines, line) ==
    \/ line \in ToSet(lines)
    \/ /\ p = Index /\ line.object
       /\ \E l \in ToSet(lines) :
            l.object /\ l.id = line.id /\ ~Later(line.time, l.time)

\* What a file must be when every device has seen every line.
Kept(p) ==
    IF p = History THEN written[p]
    ELSE {l \in written[p] : ~l.object \/
            \A k \in written[p] : k.object /\ k.id = l.id /\ k # l => ~Later(k.time, l.time)}

\* No pull loses a line: what a device's copy shows it goes on showing, up to
\* a newer entry for the same thread, though a push may take a line from the
\* remote until its writer pushes again (merge.go:42-215, sync.go:894-924).
NothingLost ==
    [][\A d \in Devices, p \in Paths : \A l \in written[p] :
         Shown(p, NormalizeContent(d, file[d][p]), l)
           => Shown(p, NormalizeContent(d, file'[d][p]), l)]_vars

\* When no device has anything left to push or pull, every copy is the same
\* file: it shows every line that was ever appended, holds none twice and
\* none that nobody wrote (merge.go:35-41).
QuietMeansMerged ==
    \A p \in Paths :
        (\A d \in Devices : ~Pending(d, p)) /\ Cardinality(Devices) > 1 =>
            \A d \in Devices :
                LET lines == NormalizeContent(d, file[d][p]) IN
                /\ lines = remote[p]
                /\ ToSet(lines) \subseteq Kept(p)
                /\ \A l \in written[p] : Shown(p, lines, l)
                /\ Len(lines) = Cardinality(ToSet(lines))

\* Once Codex stops appending, pushes and pulls come to an end
\* (merge.go:35-39, "so both devices converge").
Settles == <>[](\A d \in Devices, p \in Paths : ~Pending(d, p))
================================================================================
