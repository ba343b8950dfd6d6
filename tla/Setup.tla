--------------------------------- MODULE Setup ---------------------------------
(***************************************************************************)
(* init, init --passphrase and reset: how config.yaml, the age key and     *)
(* state.json of a device come and go, how the key is verified against the *)
(* bucket, and which key the objects of the bucket end up under when       *)
(* several devices set up, push, pull, clear the bucket and start over.    *)
(*                                                                         *)
(* There is one bucket.  A key stands for the passphrase it is derived     *)
(* from.  A device runs one command at a time.  init and reset are one     *)
(* step per prompt or request; a push sends its files one by one and the   *)
(* manifest last; a pull is one step (see CodexSync).                      *)
(***************************************************************************)
EXTENDS Naturals

CONSTANTS
    Devices, Files,
    Passphrases,   \* the keys that passphrases give
    RandomKeys     \* keys that are generated

Keys == Passphrases \cup RandomKeys
NoKey == "none"

ASSUME SetupAssumption == NoKey \notin Keys

VARIABLES
    config,       \* devices with a config.yaml
    key,          \* key[d]: age-key.txt
    local,        \* local[d]: the files under ~/.codex
    clean,        \* clean[d]: those that are as state.json has them
    dirty,        \* devices whose state.json says ManifestDirty
    remote,       \* remote[f]: the key of the object, none if there is no object
    manifest,     \* the key of the manifest object
    step,         \* step[d]: where the command of d is
    full,         \* full[d]: it is a full setup
    clearing,     \* clearing[d]: the user chose to clear the bucket
    sent,         \* sent[d]: the files d's push has sent
    excused,      \* something happened that lets the bucket hold several keys
    unguarded,    \* the bucket lost its manifest, or a push ended without one
    stale,        \* devices whose state.json is older than the last clearing
    fresh         \* devices that cleared the bucket in init, until they push or pull

files == <<local, clean, dirty>>
bucket == <<remote, manifest>>
wizard == <<step, full, clearing>>
history == <<excused, unguarded, stale, fresh>>
vars == <<config, key, files, bucket, wizard, sent, history>>

Steps == {"idle", "verify", "mismatch", "retry", "connect", "clear", "check", "save",
          "reset", "push"}

TypeOK ==
    /\ config \subseteq Devices
    /\ key \in [Devices -> Keys \cup {NoKey}]
    /\ local \in [Devices -> SUBSET Files] /\ clean \in [Devices -> SUBSET Files]
    /\ dirty \subseteq Devices /\ sent \in [Devices -> SUBSET Files]
    /\ remote \in [Files -> Keys \cup {NoKey}] /\ manifest \in Keys \cup {NoKey}
    /\ step \in [Devices -> Steps]
    /\ full \in [Devices -> BOOLEAN] /\ clearing \in [Devices -> BOOLEAN]
    /\ excused \in BOOLEAN /\ unguarded \in BOOLEAN
    /\ stale \subseteq Devices /\ fresh \subseteq Devices

Init ==
    /\ config = {}
    /\ key = [d \in Devices |-> NoKey]
    /\ local \in [Devices -> SUBSET Files] /\ clean = [d \in Devices |-> {}]
    /\ dirty = {} /\ sent = clean
    /\ remote = [f \in Files |-> NoKey] /\ manifest = NoKey
    /\ step = [d \in Devices |-> "idle"]
    /\ full = [d \in Devices |-> FALSE] /\ clearing = full
    /\ excused = FALSE /\ unguarded = FALSE
    /\ stale = {} /\ fresh = {}

-----------------------------------------------------------------------------
(* The bucket, the key file, and where a wizard goes next. *)

Objects == {remote[f] : f \in Files} \cup {manifest}
Populated == Objects # {NoKey}

Moves(d, next) == step' = [step EXCEPT ![d] = next] /\ UNCHANGED <<full, clearing>>
Starts(d, next, wanted) ==
    /\ step' = [step EXCEPT ![d] = next]
    /\ full' = [full EXCEPT ![d] = wanted]
    /\ UNCHANGED clearing
Ends(d) ==
    /\ step' = [step EXCEPT ![d] = "idle"]
    /\ full' = [full EXCEPT ![d] = FALSE]
    /\ clearing' = [clearing EXCEPT ![d] = FALSE]
MovesOrEnds(d, moves, next) == IF moves THEN Moves(d, next) ELSE Ends(d)

SetKey(d, k) == key' = [key EXCEPT ![d] = k]

\* Mutant: the key file is emptied rather than removed.
Truncated(d) == SetKey(d, "")

Forget(d) == SetKey(d, NoKey)

Excuse(because) == excused' = (excused \/ because)

\* Mutant: nothing is tried.
Unverified(d, fits) == fits /\ UNCHANGED excused

\* One object is tried, whichever is listed first and is small.  Without objects,
\* or if a request fails, the key is taken to fit.
verifyKeyMatchesRemote(d, fits) ==
    \/ ~Populated /\ fits /\ UNCHANGED excused
    \/ \E k \in Objects \ {NoKey} : fits = (k = key[d]) /\ UNCHANGED excused
    \/ Populated /\ fits /\ Excuse(TRUE)

\* Some objects may stay when a listing or a delete fails, or when a push overlaps.
Clears(d) ==
    /\ \E left \in SUBSET {f \in Files : remote[f] # NoKey}, kept \in {NoKey, manifest} :
         /\ remote' = [f \in Files |-> IF f \in left THEN remote[f] ELSE NoKey]
         /\ manifest' = kept
         /\ unguarded' = (left # {} /\ kept = NoKey)
    /\ Excuse(TRUE)
    /\ stale' = Devices

-----------------------------------------------------------------------------
(* init *)

\* A device sets up when no other does, and once another one that is set up has pushed.
InTurn(d) ==
    /\ \A e \in Devices \ {d} : step[e] \in {"idle", "push"}
    /\ Populated \/ config \subseteq {d}

\* A passphrase is derived into the key file at once, over a key that is there.
\* With a configuration, --passphrase changes the key only.
EnterPassphrase(d) ==
    /\ step[d] = "idle"
    /\ \E wanted \in BOOLEAN : (wanted \/ d \in config) /\ Starts(d, "verify", wanted)
    /\ \E k \in Passphrases : SetKey(d, k)
    /\ Excuse(~InTurn(d))
    /\ UNCHANGED <<config, files, bucket, sent, unguarded, stale, fresh>>

EnterAgain(d) ==
    /\ step[d] = "retry"
    /\ \E k \in Passphrases : SetKey(d, k)
    /\ Moves(d, "verify")
    /\ UNCHANGED <<config, files, bucket, sent, history>>

\* A full setup may keep the key that is there or, if none is, generate one.
KeepOrGenerateKey(d) ==
    /\ step[d] = "idle"
    /\ \/ key[d] # NoKey /\ UNCHANGED key /\ Excuse(~InTurn(d))
       \/ /\ key[d] = NoKey /\ Excuse(~InTurn(d) \/ d \in config)
          /\ \E k \in RandomKeys \ (Objects \cup {key[e] : e \in Devices}) : SetKey(d, k)
    /\ Starts(d, "connect", TRUE)
    /\ UNCHANGED <<config, files, bucket, sent, unguarded, stale, fresh>>

Verify(d) ==
    /\ step[d] = "verify"
    /\ \/ verifyKeyMatchesRemote(d, FALSE) /\ Moves(d, "mismatch")
       \/ verifyKeyMatchesRemote(d, TRUE) /\ MovesOrEnds(d, full[d], "connect")
    /\ UNCHANGED <<config, key, files, bucket, sent, unguarded, stale, fresh>>

\* handleKeyMismatch: try another passphrase, clear the bucket, or abort.
AnswerMismatch(d) ==
    /\ step[d] = "mismatch"
    /\ \/ Forget(d) /\ Moves(d, "retry")
       \/ /\ step' = [step EXCEPT ![d] = IF full[d] THEN "connect" ELSE "clear"]
          /\ clearing' = [clearing EXCEPT ![d] = TRUE]
          /\ UNCHANGED <<key, full>>
       \/ Forget(d) /\ Ends(d)
    /\ UNCHANGED <<config, files, bucket, sent, history>>

\* BucketExists; a failure ends the setup with the key in place.
Connect(d) ==
    /\ step[d] = "connect"
    /\ \/ Moves(d, IF clearing[d] THEN "clear" ELSE "check") /\ UNCHANGED excused
       \/ Ends(d) /\ Excuse(clearing[d])
    /\ UNCHANGED <<config, key, files, bucket, sent, unguarded, stale, fresh>>

\* clearRemoteStorage: a failure is only a warning.
ClearRemote(d) ==
    /\ step[d] = "clear"
    /\ Clears(d)
    /\ fresh' = fresh \cup {d}
    /\ MovesOrEnds(d, full[d], "save")
    /\ UNCHANGED <<config, key, files, sent>>

\* The key is verified once more; a mismatch ends the setup, the key stays.
Check(d) ==
    /\ step[d] = "check"
    /\ \E fits \in BOOLEAN : verifyKeyMatchesRemote(d, fits) /\ MovesOrEnds(d, fits, "save")
    /\ UNCHANGED <<config, key, files, bucket, sent, unguarded, stale, fresh>>

SaveConfig(d) ==
    /\ step[d] = "save"
    /\ config' = config \cup {d}
    /\ Ends(d)
    /\ UNCHANGED <<key, files, bucket, sent, history>>

Interrupted(d) ==
    /\ step[d] \notin {"idle", "reset", "push"}
    /\ Ends(d)
    /\ Excuse(clearing[d] \/ step[d] \in {"verify", "mismatch"})
    /\ UNCHANGED <<config, key, files, bucket, sent, unguarded, stale, fresh>>

-----------------------------------------------------------------------------
(* reset *)

\* With --remote and a configuration the bucket is cleared first.
Reset(d) ==
    /\ step[d] = "idle"
    /\ \/ d \in config /\ Clears(d) /\ UNCHANGED fresh
       \/ UNCHANGED <<bucket, history>>
    /\ Moves(d, "reset")
    /\ UNCHANGED <<config, key, files, sent>>

\* state.json goes, and with it the note that a manifest is due.
ForgetState(d) ==
    /\ clean' = [clean EXCEPT ![d] = {}]
    /\ dirty' = dirty \ {d}
    /\ unguarded' = (unguarded \/ d \in dirty)
    /\ stale' = stale \ {d}

\* The configuration goes, then the key, then the state; an interrupt or an error
\* leaves the rest.
resetLocalFiles(d) ==
    /\ step[d] = "reset"
    /\ config' = config \ {d}
    /\ \/ Forget(d) /\ ForgetState(d)
       \/ Forget(d) /\ UNCHANGED <<clean, dirty, unguarded, stale>>
       \/ UNCHANGED <<key, clean, dirty, unguarded, stale>>
    /\ Ends(d)
    /\ UNCHANGED <<local, bucket, sent, excused, fresh>>

-----------------------------------------------------------------------------
(* Codex, push and pull *)

Edit(d, f) ==
    /\ step[d] = "idle"
    /\ local' = [local EXCEPT ![d] = @ \cup {f}]
    /\ clean' = [clean EXCEPT ![d] = @ \ {f}]
    /\ UNCHANGED <<config, key, dirty, bucket, wizard, sent, history>>

Ready(d) == step[d] = "idle" /\ d \in config /\ key[d] # NoKey

Pending(d) == local[d] \ clean[d]

PushStart(d) ==
    /\ Ready(d)
    /\ Pending(d) # {} \/ d \in dirty
    /\ Moves(d, "push")
    /\ fresh' = fresh \ {d}
    /\ UNCHANGED <<config, key, files, bucket, sent, excused, unguarded, stale>>

\* An upload that is stored may still be answered with an error.
PushSend(d, f) ==
    /\ step[d] = "push" /\ f \in Pending(d) \ sent[d]
    /\ remote' = [remote EXCEPT ![f] = key[d]]
    /\ \/ sent' = [sent EXCEPT ![d] = @ \cup {f}] /\ UNCHANGED unguarded
       \/ unguarded' = TRUE /\ UNCHANGED sent
    /\ UNCHANGED <<config, key, files, manifest, wizard, excused, stale, fresh>>

ManifestDue(d) == sent[d] # {} \/ d \in dirty

\* Mutant: a manifest that was not published is only logged.
OnlyLogged(d) ==
    /\ manifest' \in {manifest, key[d]}
    /\ dirty' = dirty \ {d}
    /\ unguarded' = (unguarded /\ manifest' = manifest)

\* It is published, or the next push is to do it.
pushManifest(d) ==
    \/ manifest' = key[d] /\ dirty' = dirty \ {d} /\ unguarded' = FALSE
    \/ manifest' \in {manifest, key[d]} /\ dirty' = dirty \cup {d} /\ UNCHANGED unguarded

\* Mutant: an upload that failed is recorded like one that did not.
AllOfThem(d) == Pending(d)

Recorded(d) == sent[d]

\* What could not be sent stays pending.
PushEnds(d) ==
    /\ step[d] = "push"
    /\ IF ManifestDue(d) THEN pushManifest(d) ELSE UNCHANGED <<manifest, dirty, unguarded>>
    /\ clean' = [clean EXCEPT ![d] = @ \cup Recorded(d)]
    /\ sent' = [sent EXCEPT ![d] = {}]
    /\ Moves(d, "idle")
    /\ UNCHANGED <<config, key, local, remote, excused, stale, fresh>>

\* A push dies before it saves its state, with the manifest sent or not.
PushDies(d) ==
    /\ step[d] = "push"
    /\ manifest' \in {manifest} \cup (IF ManifestDue(d) THEN {key[d]} ELSE {})
    /\ unguarded' = (unguarded \/ sent[d] # {})
    /\ sent' = [sent EXCEPT ![d] = {}]
    /\ Moves(d, "idle")
    /\ UNCHANGED <<config, key, files, remote, excused, stale, fresh>>

\* Mutant: a manifest that cannot be read is ignored.
AnyManifest(d) == TRUE

\* downloadManifest: one that cannot be decrypted ends the pull.
ManifestReads(d) == manifest \in {NoKey, key[d]}

\* Mutant: an object that does not open counts as gone.
OpensNot(d, f) == remote[f] # key[d]

HasVanished(d, f) == remote[f] = NoKey

\* Objects under the device's key replace what is missing or, if newer, what was
\* never synced.  What was synced and has no object goes to the trash.
Pull(d) ==
    /\ Ready(d) /\ Populated /\ ManifestReads(d)
    /\ LET opens   == {f \in Files : remote[f] = key[d]}
           vanished == {f \in clean[d] : HasVanished(d, f)}
       IN \E got \in SUBSET (opens \ clean[d]) :
            /\ opens \ local[d] \subseteq got
            /\ local' = [local EXCEPT ![d] = (@ \cup got) \ vanished]
            /\ clean' = [clean EXCEPT ![d] = (@ \cup got) \ vanished]
    /\ fresh' = fresh \ {d}
    /\ UNCHANGED <<config, key, dirty, bucket, wizard, sent, excused, unguarded, stale>>

-----------------------------------------------------------------------------
Act(d) ==
    \/ EnterPassphrase(d) \/ EnterAgain(d) \/ KeepOrGenerateKey(d) \/ Verify(d)
    \/ AnswerMismatch(d) \/ Connect(d) \/ ClearRemote(d) \/ Check(d) \/ SaveConfig(d)
    \/ Interrupted(d) \/ Reset(d) \/ resetLocalFiles(d)
    \/ PushStart(d) \/ PushEnds(d) \/ PushDies(d) \/ Pull(d)
    \/ \E f \in Files : Edit(d, f) \/ PushSend(d, f)

Next == \E d \in Devices : Act(d)

Spec == Init /\ [][Next]_vars

-----------------------------------------------------------------------------
(* Properties *)

\* Devices that set up in turn and verify their keys as init does never leave a
\* bucket with objects under two keys: whoever can read one object can read them
\* all.  Excused is what init and reset do not prevent: the bucket was cleared, a
\* setup was interrupted before its key was verified, a request of the
\* verification failed, two devices set up at once or before either had pushed, or
\* a key was generated under a configuration that is there.
NoMixedKeys ==
    ~excused => \A k, l \in Objects \ {NoKey} : k = l

\* A pull takes files away only on a device whose state.json is older than the
\* last clearing of the bucket.  A device that has reset since, or is new, loses
\* none, whatever other devices push with whatever key, and whichever uploads fail
\* or pushes die: what it calls synced is in the bucket (sync.go:283-297, :827-862).
OnlyOldStateTrashes ==
    [][\A d \in Devices \ stale : Pull(d) => local[d] \subseteq local'[d]]_vars

\* A pull with a key that opens nothing in the bucket leaves the device's files
\* alone: that the bucket lists none of them is no reason to remove them, and the
\* manifest stops the pull.  A push sends the manifest last, so this takes that no
\* push has sent a part of its files, no failed manifest waits for the next push
\* (ManifestDirty), and the manifest was not lost otherwise: by a clearing that
\* failed halfway, a push that died, an upload whose answer was lost, or a reset
\* that forgot ManifestDirty.
ForeignKeyRemovesNothing ==
    [][~unguarded /\ dirty = {} /\ (\A e \in Devices : sent[e] = {}) =>
          \A d \in Devices : Pull(d) /\ key[d] \notin Objects => local' = local]_vars

\* init, when the user clears the bucket: "Clear remote files and start fresh (your
\* local ~/.codex will be pushed)".
ClearStartsOver == \A d \in fresh : Ready(d) => Pending(d) = local[d]
=============================================================================
