------------------------------ MODULE SetupProofs ------------------------------
(* What setups, resets, pushes and pulls keep of keys and files, for any number  *)
(* of devices, files and keys.                                                   *)
EXTENDS Setup, TLAPS

LEMMA StringsDiffer ==
    /\ "idle" \in Steps /\ "verify" \in Steps /\ "mismatch" \in Steps /\ "retry" \in Steps
    /\ "connect" \in Steps /\ "clear" \in Steps /\ "check" \in Steps /\ "save" \in Steps
    /\ "reset" \in Steps /\ "push" \in Steps
  BY DEF Steps

LEMMA InitType == Init => TypeOK
<1> SUFFICES ASSUME Init PROVE TypeOK
  OBVIOUS
<1>1. key \in [Devices -> Keys \cup {NoKey}] /\ clean \in [Devices -> SUBSET Files]
  BY DEF Init
<1>2. remote \in [Files -> Keys \cup {NoKey}] /\ manifest \in Keys \cup {NoKey}
  BY DEF Init
<1>3. step \in [Devices -> Steps] /\ sent \in [Devices -> SUBSET Files]
  BY <1>1, StringsDiffer DEF Init
<1>4. full \in [Devices -> BOOLEAN] /\ clearing \in [Devices -> BOOLEAN]
  BY DEF Init
<1> QED
  BY <1>1, <1>2, <1>3, <1>4 DEF Init, TypeOK

\* Where the wizard of a device goes, the others stay.
LEMMA Goes ==
    ASSUME TypeOK, NEW d \in Devices, NEW next \in Steps, NEW choice \in BOOLEAN,
           \/ Moves(d, next) \/ Starts(d, next, choice) \/ Ends(d) \/ MovesOrEnds(d, choice, next)
    PROVE  /\ step' \in [Devices -> Steps]
           /\ full' \in [Devices -> BOOLEAN] /\ clearing' \in [Devices -> BOOLEAN]
           /\ \A e \in Devices \ {d} : step'[e] = step[e] /\ clearing'[e] = clearing[e]
           /\ step'[d] \in {next, "idle"}
  BY StringsDiffer DEF Moves, Starts, Ends, MovesOrEnds, TypeOK

LEMMA VerifyType ==
    ASSUME TypeOK, NEW d, NEW fits, verifyKeyMatchesRemote(d, fits) PROVE excused' \in BOOLEAN
  BY DEF verifyKeyMatchesRemote, Excuse, TypeOK

LEMMA ClearsType ==
    ASSUME TypeOK, NEW d \in Devices, Clears(d)
    PROVE  /\ remote' \in [Files -> Keys \cup {NoKey}] /\ manifest' \in Keys \cup {NoKey}
           /\ excused' /\ excused' \in BOOLEAN /\ unguarded' \in BOOLEAN
           /\ stale' = Devices
           /\ ~unguarded' /\ manifest' = NoKey => \A f \in Files : remote'[f] = NoKey
<1>1. PICK left \in SUBSET {f \in Files : remote[f] # NoKey}, kept \in {NoKey, manifest} :
         /\ remote' = [f \in Files |-> IF f \in left THEN remote[f] ELSE NoKey]
         /\ manifest' = kept
         /\ unguarded' = (left # {} /\ kept = NoKey)
  BY DEF Clears
<1>2. unguarded' \in BOOLEAN
  BY <1>1
<1>3. excused' /\ excused' \in BOOLEAN /\ stale' = Devices
  BY DEF Clears, Excuse
<1>4. ~unguarded' /\ manifest' = NoKey => left = {}
  BY <1>1
<1> QED
  BY <1>1, <1>2, <1>3, <1>4 DEF TypeOK

LEMMA StepType == TypeOK /\ [Next]_vars => TypeOK'
<1> SUFFICES ASSUME TypeOK, [Next]_vars PROVE TypeOK'
  OBVIOUS
<1>0. CASE UNCHANGED vars
  BY <1>0 DEF vars, files, bucket, wizard, history, TypeOK
<1> SUFFICES ASSUME NEW d \in Devices, Act(d) PROVE TypeOK'
  BY <1>0 DEF Next
<1> USE StringsDiffer DEF files, bucket, wizard, history
<1>1. CASE EnterPassphrase(d)
  <2>1. PICK wanted \in BOOLEAN : Starts(d, "verify", wanted)
    BY <1>1 DEF EnterPassphrase
  <2>2. /\ step' \in [Devices -> Steps]
        /\ full' \in [Devices -> BOOLEAN] /\ clearing' \in [Devices -> BOOLEAN]
    BY <2>1, Goes
  <2> QED
    BY <1>1, <2>2 DEF EnterPassphrase, SetKey, Excuse, TypeOK, Keys
<1>2. CASE EnterAgain(d)
  <2>1. /\ step' \in [Devices -> Steps]
        /\ full' \in [Devices -> BOOLEAN] /\ clearing' \in [Devices -> BOOLEAN]
    BY <1>2, Goes DEF EnterAgain
  <2> QED
    BY <1>2, <2>1 DEF EnterAgain, SetKey, TypeOK, Keys
<1>3. CASE KeepOrGenerateKey(d)
  <2>1. /\ step' \in [Devices -> Steps]
        /\ full' \in [Devices -> BOOLEAN] /\ clearing' \in [Devices -> BOOLEAN]
    BY <1>3, Goes DEF KeepOrGenerateKey
  <2> QED
    BY <1>3, <2>1 DEF KeepOrGenerateKey, SetKey, Excuse, TypeOK, Keys
<1>4. CASE Verify(d)
  <2>1. /\ step' \in [Devices -> Steps]
        /\ full' \in [Devices -> BOOLEAN] /\ clearing' \in [Devices -> BOOLEAN]
    BY <1>4, Goes DEF Verify, TypeOK
  <2>2. excused' \in BOOLEAN
    BY <1>4, VerifyType DEF Verify
  <2> QED
    BY <1>4, <2>1, <2>2 DEF Verify, TypeOK
<1>5. CASE AnswerMismatch(d)
  <2>1. CASE Forget(d) /\ (Moves(d, "retry") \/ Ends(d))
    <3>1. /\ step' \in [Devices -> Steps]
          /\ full' \in [Devices -> BOOLEAN] /\ clearing' \in [Devices -> BOOLEAN]
      BY <2>1, Goes DEF MovesOrEnds
    <3>2. key' \in [Devices -> Keys \cup {NoKey}]
      BY <2>1 DEF Forget, SetKey, TypeOK
    <3> QED
      BY <1>5, <3>1, <3>2 DEF AnswerMismatch, TypeOK
  <2>2. CASE /\ step' = [step EXCEPT ![d] = IF full[d] THEN "connect" ELSE "clear"]
             /\ clearing' = [clearing EXCEPT ![d] = TRUE]
             /\ UNCHANGED <<key, full>>
    <3>1. step' \in [Devices -> Steps] /\ clearing' \in [Devices -> BOOLEAN]
      BY <2>2 DEF TypeOK
    <3>2. UNCHANGED <<config, files, bucket, sent, history, key, full>>
      BY <1>5, <2>2 DEF AnswerMismatch
    <3> QED
      BY <3>1, <3>2 DEF TypeOK
  <2> QED
    BY <1>5, <2>1, <2>2 DEF AnswerMismatch
<1>6. CASE Connect(d)
  BY <1>6 DEF Connect, Moves, Ends, Excuse, TypeOK
<1>7. CASE ClearRemote(d)
  <2>1. /\ step' \in [Devices -> Steps]
        /\ full' \in [Devices -> BOOLEAN] /\ clearing' \in [Devices -> BOOLEAN]
    BY <1>7, Goes DEF ClearRemote, TypeOK
  <2>2. Clears(d) /\ fresh' \subseteq Devices
    BY <1>7 DEF ClearRemote, TypeOK
  <2> QED
    BY <1>7, <2>1, <2>2, ClearsType DEF ClearRemote, TypeOK
<1>8. CASE Check(d)
  <2>1. PICK fits \in BOOLEAN : verifyKeyMatchesRemote(d, fits) /\ MovesOrEnds(d, fits, "save")
    BY <1>8 DEF Check
  <2>2. /\ step' \in [Devices -> Steps]
        /\ full' \in [Devices -> BOOLEAN] /\ clearing' \in [Devices -> BOOLEAN]
    BY <2>1, Goes
  <2>3. excused' \in BOOLEAN
    BY <2>1, VerifyType
  <2> QED
    BY <1>8, <2>2, <2>3 DEF Check, TypeOK
<1>9. CASE SaveConfig(d)
  BY <1>9 DEF SaveConfig, Ends, TypeOK
<1>10. CASE Interrupted(d)
  BY <1>10 DEF Interrupted, Ends, Excuse, TypeOK
<1>11. CASE Reset(d)
  <2>1. step' \in [Devices -> Steps] /\ UNCHANGED <<full, clearing>>
    BY <1>11 DEF Reset, Moves, TypeOK
  <2>2. CASE Clears(d) /\ UNCHANGED fresh
    BY <1>11, <2>1, <2>2, ClearsType DEF Reset, TypeOK
  <2>3. CASE UNCHANGED <<bucket, history>>
    BY <1>11, <2>1, <2>3 DEF Reset, TypeOK
  <2> QED
    BY <1>11, <2>2, <2>3 DEF Reset
<1>12. CASE resetLocalFiles(d)
  BY <1>12 DEF resetLocalFiles, Forget, SetKey, ForgetState, Ends, TypeOK
<1>13. ASSUME NEW f \in Files, Edit(d, f) PROVE TypeOK'
  BY <1>13 DEF Edit, TypeOK
<1>14. CASE PushStart(d)
  BY <1>14 DEF PushStart, Moves, TypeOK
<1>15. ASSUME NEW f \in Files, PushSend(d, f) PROVE TypeOK'
  <2>1. remote' \in [Files -> Keys \cup {NoKey}]
    BY <1>15 DEF PushSend, TypeOK
  <2>2. sent' = sent \/ sent' = [sent EXCEPT ![d] = @ \cup {f}]
    BY <1>15 DEF PushSend
  <2>3. sent' \in [Devices -> SUBSET Files]
    BY <2>2 DEF TypeOK
  <2>4. unguarded' = unguarded \/ unguarded' = TRUE
    BY <1>15 DEF PushSend
  <2>5. unguarded' \in BOOLEAN
    BY <2>4 DEF TypeOK
  <2> QED
    BY <1>15, <2>1, <2>3, <2>5 DEF PushSend, TypeOK
<1>16. CASE PushEnds(d)
  <2>1. manifest' \in Keys \cup {NoKey} /\ dirty' \subseteq Devices /\ unguarded' \in BOOLEAN
    BY <1>16 DEF PushEnds, pushManifest, TypeOK
  <2>2. clean' \in [Devices -> SUBSET Files] /\ sent' \in [Devices -> SUBSET Files]
    BY <1>16 DEF PushEnds, Recorded, TypeOK
  <2>3. step' \in [Devices -> Steps] /\ UNCHANGED <<full, clearing>>
    BY <1>16 DEF PushEnds, Moves, TypeOK
  <2> QED
    BY <1>16, <2>1, <2>2, <2>3 DEF PushEnds, TypeOK
<1>17. CASE PushDies(d)
  BY <1>17 DEF PushDies, Moves, TypeOK
<1>18. CASE Pull(d)
  BY <1>18 DEF Pull, TypeOK
<1> QED
  BY <1>1, <1>2, <1>3, <1>4, <1>5, <1>6, <1>7, <1>8, <1>9, <1>10, <1>11, <1>12, <1>13, <1>14,
     <1>15, <1>16, <1>17, <1>18 DEF Act

\* Every variable keeps its type.
THEOREM TypeCorrect == Spec => []TypeOK
  BY InitType, StepType, PTL DEF Spec

-----------------------------------------------------------------------------
(* What a pull removes, and what the manifest guards. *)

\* A step of init or reset.
Wizard(d) ==
    \/ EnterPassphrase(d) \/ EnterAgain(d) \/ KeepOrGenerateKey(d) \/ Verify(d)
    \/ AnswerMismatch(d) \/ Connect(d) \/ Check(d) \/ SaveConfig(d) \/ Interrupted(d)

\* But for the clearing, init changes neither files nor the bucket.
LEMMA WizardKeeps ==
    ASSUME TypeOK, NEW d \in Devices, Wizard(d)
    PROVE  /\ UNCHANGED <<files, bucket, sent, unguarded, stale, fresh>>
           /\ step[d] \notin {"reset", "push"}
           /\ step' \in [Devices -> Steps] /\ step'[d] # "push"
           /\ \A e \in Devices \ {d} : step'[e] = step[e] /\ clearing'[e] = clearing[e]
           /\ \A e \in Devices \ {d} : key'[e] = key[e] /\ (e \in config' <=> e \in config)
           /\ excused => excused'
<1> USE StringsDiffer DEF files, bucket, history, SetKey, Forget, Excuse
<1>1. CASE EnterPassphrase(d)
  BY <1>1 DEF EnterPassphrase, Starts, TypeOK
<1>2. CASE EnterAgain(d)
  BY <1>2 DEF EnterAgain, Moves, TypeOK
<1>3. CASE KeepOrGenerateKey(d)
  BY <1>3 DEF KeepOrGenerateKey, Starts, TypeOK
<1>4. CASE Verify(d)
  BY <1>4 DEF Verify, verifyKeyMatchesRemote, MovesOrEnds, Moves, Ends, TypeOK
<1>5. CASE AnswerMismatch(d)
  BY <1>5 DEF AnswerMismatch, Moves, Ends, TypeOK
<1>6. CASE Connect(d)
  BY <1>6 DEF Connect, Moves, Ends, TypeOK
<1>7. CASE Check(d)
  BY <1>7 DEF Check, verifyKeyMatchesRemote, MovesOrEnds, Moves, Ends, TypeOK
<1>8. CASE SaveConfig(d)
  BY <1>8 DEF SaveConfig, Ends, TypeOK
<1>9. CASE Interrupted(d)
  BY <1>9 DEF Interrupted, Ends, TypeOK
<1> QED
  BY <1>1, <1>2, <1>3, <1>4, <1>5, <1>6, <1>7, <1>8, <1>9 DEF Wizard

LEMMA StepCases ==
    ASSUME TypeOK, [Next]_vars
    PROVE  \/ UNCHANGED vars
           \/ \E d \in Devices :
                \/ Wizard(d) \/ ClearRemote(d) \/ Reset(d) \/ resetLocalFiles(d)
                \/ (\E f \in Files : Edit(d, f) \/ PushSend(d, f))
                \/ PushStart(d) \/ PushEnds(d) \/ PushDies(d) \/ Pull(d)
  BY DEF Next, Act, Wizard

\* A device that pushes is set up, and a push that is over has nothing to record.
PushInv ==
    /\ \A d \in Devices : step[d] = "push" => d \in config /\ key[d] # NoKey
    /\ \A d \in Devices : step[d] # "push" => sent[d] = {}

LEMMA StepPush == TypeOK /\ PushInv /\ [Next]_vars => PushInv'
<1> SUFFICES ASSUME TypeOK, PushInv, [Next]_vars PROVE PushInv'
  OBVIOUS
<1>1. CASE UNCHANGED vars
  BY <1>1 DEF vars, wizard, PushInv
<1>2. ASSUME NEW d \in Devices, Wizard(d) PROVE PushInv'
  BY <1>2, WizardKeeps DEF PushInv
<1>3. ASSUME NEW d \in Devices, ClearRemote(d) \/ Reset(d) PROVE PushInv'
  BY <1>3 DEF ClearRemote, Reset, Moves, Ends, MovesOrEnds, PushInv, TypeOK
<1>4. ASSUME NEW d \in Devices, resetLocalFiles(d) PROVE PushInv'
  BY <1>4 DEF resetLocalFiles, Forget, SetKey, Ends, PushInv, TypeOK
<1>5. ASSUME NEW d \in Devices, (\E f \in Files : Edit(d, f)) \/ Pull(d) PROVE PushInv'
  BY <1>5 DEF Edit, Pull, wizard, PushInv
<1>6. ASSUME NEW d \in Devices, PushStart(d) PROVE PushInv'
  BY <1>6 DEF PushStart, Ready, Moves, PushInv, TypeOK
<1>7. ASSUME NEW d \in Devices, NEW f \in Files, PushSend(d, f) PROVE PushInv'
  BY <1>7 DEF PushSend, wizard, PushInv, TypeOK
<1>8. ASSUME NEW d \in Devices, PushEnds(d) \/ PushDies(d) PROVE PushInv'
  BY <1>8 DEF PushEnds, PushDies, Moves, PushInv, TypeOK
<1> QED
  BY <1>1, <1>2, <1>3, <1>4, <1>5, <1>6, <1>7, <1>8, StepCases

\* What a device calls synced since the last clearing has an object.
StaleInv == \A d \in Devices \ stale : \A f \in clean[d] \cup sent[d] : remote[f] # NoKey

LEMMA StepStale == TypeOK /\ PushInv /\ StaleInv /\ [Next]_vars => StaleInv'
<1> SUFFICES ASSUME TypeOK, PushInv, StaleInv, [Next]_vars PROVE StaleInv'
  OBVIOUS
<1>1. ASSUME UNCHANGED <<clean, sent, remote, stale>> PROVE StaleInv'
  BY <1>1 DEF StaleInv
<1>2. CASE UNCHANGED vars
  BY <1>1, <1>2 DEF vars, files, bucket, history
<1>3. ASSUME NEW d \in Devices, Wizard(d) PROVE StaleInv'
  BY <1>1, <1>3, WizardKeeps DEF files, bucket
<1>4. ASSUME NEW d \in Devices, ClearRemote(d) \/ Reset(d) PROVE StaleInv'
  <2>1. CASE Clears(d)
    BY <2>1, ClearsType DEF StaleInv
  <2>2. CASE UNCHANGED <<bucket, history>>
    BY <1>1, <1>4, <2>2 DEF ClearRemote, Reset, files, bucket, history
  <2> QED
    BY <1>4, <2>1, <2>2 DEF ClearRemote, Reset
<1>5. ASSUME NEW d \in Devices, resetLocalFiles(d) PROVE StaleInv'
  <2>1. sent[d] = {} /\ UNCHANGED <<remote, sent>>
    BY <1>5, StringsDiffer DEF resetLocalFiles, PushInv, bucket
  <2>2. CASE ForgetState(d)
    BY <2>1, <2>2 DEF ForgetState, StaleInv, TypeOK
  <2>3. CASE UNCHANGED <<clean, stale>>
    BY <1>1, <2>1, <2>3
  <2> QED
    BY <1>5, <2>2, <2>3 DEF resetLocalFiles
<1>6. ASSUME NEW d \in Devices, NEW f \in Files, Edit(d, f) PROVE StaleInv'
  BY <1>6 DEF Edit, StaleInv, TypeOK, bucket, history
<1>7. ASSUME NEW d \in Devices, PushStart(d) PROVE StaleInv'
  BY <1>1, <1>7 DEF PushStart, files, bucket
<1>8. ASSUME NEW d \in Devices, NEW f \in Files, PushSend(d, f) PROVE StaleInv'
  <2>1. key[d] # NoKey /\ UNCHANGED <<clean, stale>>
    BY <1>8 DEF PushSend, PushInv, files
  <2>2. \A g \in Files : remote[g] # NoKey \/ g = f => remote'[g] # NoKey
    BY <1>8, <2>1 DEF PushSend, TypeOK
  <2>3. \A e \in Devices : sent'[e] \subseteq sent[e] \cup {f}
    BY <1>8 DEF PushSend, TypeOK
  <2> QED
    BY <2>1, <2>2, <2>3 DEF StaleInv, TypeOK
<1>9. ASSUME NEW d \in Devices, PushEnds(d) \/ PushDies(d) PROVE StaleInv'
  <2>1. \A e \in Devices : clean'[e] \cup sent'[e] \subseteq clean[e] \cup sent[e]
    BY <1>9 DEF PushEnds, PushDies, Recorded, files, TypeOK
  <2>2. UNCHANGED <<remote, stale>>
    BY <1>9 DEF PushEnds, PushDies
  <2> QED
    BY <2>1, <2>2 DEF StaleInv
<1>10. ASSUME NEW d \in Devices, Pull(d) PROVE StaleInv'
  <2>1. key[d] # NoKey /\ UNCHANGED <<remote, sent, stale>>
    BY <1>10 DEF Pull, Ready, bucket
  <2>2. \A e \in Devices \ {d} : clean'[e] = clean[e]
    BY <1>10 DEF Pull, TypeOK
  <2>3. \A f \in clean'[d] : f \in clean[d] \/ remote[f] = key[d]
    BY <1>10 DEF Pull, TypeOK
  <2> QED
    BY <2>1, <2>2, <2>3 DEF StaleInv
<1> QED
  BY <1>2, <1>3, <1>4, <1>5, <1>6, <1>7, <1>8, <1>9, <1>10, StepCases

\* A pull takes files away only on a device whose state is older than the last
\* clearing of the bucket.
THEOREM OldStateHolds == Spec => OnlyOldStateTrashes
<1>1. Init => PushInv /\ StaleInv
  BY StringsDiffer DEF Init, PushInv, StaleInv
<1>2. ASSUME TypeOK, StaleInv, NEW d \in Devices \ stale, Pull(d)
      PROVE  local[d] \subseteq local'[d]
  <2>1. {f \in clean[d] : HasVanished(d, f)} = {}
    BY <1>2 DEF StaleInv, HasVanished
  <2> QED
    BY <1>2, <2>1 DEF Pull, TypeOK
<1>3. TypeOK /\ StaleInv /\ [Next]_vars =>
        [\A d \in Devices \ stale : Pull(d) => local[d] \subseteq local'[d]]_vars
  BY <1>2
<1> QED
  BY <1>1, <1>3, StepPush, StepStale, TypeCorrect, PTL DEF Spec, OnlyOldStateTrashes

\* A bucket with files and no manifest is one where a push is under way, where a
\* manifest is still due, or whose manifest was lost.
Open == unguarded \/ dirty # {} \/ \E d \in Devices : sent[d] # {}
ManifestInv == manifest = NoKey /\ (\E f \in Files : remote[f] # NoKey) => Open

LEMMA StepManifest == TypeOK /\ PushInv /\ ManifestInv /\ [Next]_vars => ManifestInv'
<1> SUFFICES ASSUME TypeOK, PushInv, ManifestInv, [Next]_vars PROVE ManifestInv'
  OBVIOUS
<1>1. ASSUME UNCHANGED <<bucket, dirty, sent, unguarded>> PROVE ManifestInv'
  BY <1>1 DEF bucket, ManifestInv, Open
<1>2. CASE UNCHANGED vars
  BY <1>1, <1>2 DEF vars, files, history
<1>3. ASSUME NEW d \in Devices, Wizard(d) PROVE ManifestInv'
  BY <1>1, <1>3, WizardKeeps DEF files
<1>4. ASSUME NEW d \in Devices, ClearRemote(d) \/ Reset(d) PROVE ManifestInv'
  <2>1. CASE Clears(d)
    BY <2>1, ClearsType DEF ManifestInv, Open
  <2>2. CASE UNCHANGED <<bucket, history>>
    BY <1>1, <1>4, <2>2 DEF ClearRemote, Reset, files, history
  <2> QED
    BY <1>4, <2>1, <2>2 DEF ClearRemote, Reset
<1>5. ASSUME NEW d \in Devices, resetLocalFiles(d) PROVE ManifestInv'
  <2>1. UNCHANGED <<bucket, sent>>
    BY <1>5 DEF resetLocalFiles
  <2>2. CASE UNCHANGED <<dirty, unguarded>>
    BY <1>1, <2>1, <2>2
  <2>3. CASE ForgetState(d)
    <3>1. Open => Open'
      BY <2>1, <2>3 DEF ForgetState, Open, TypeOK
    <3> QED
      BY <2>1, <3>1 DEF ManifestInv, bucket
  <2> QED
    BY <1>5, <2>2, <2>3 DEF resetLocalFiles
<1>6. ASSUME NEW d \in Devices, (\E f \in Files : Edit(d, f)) \/ PushStart(d) \/ Pull(d)
      PROVE  ManifestInv'
  BY <1>1, <1>6 DEF Edit, PushStart, Pull, files, history
<1>7. ASSUME NEW d \in Devices, NEW f \in Files, PushSend(d, f) PROVE ManifestInv'
  BY <1>7 DEF PushSend, ManifestInv, Open, TypeOK
<1>8. ASSUME NEW d \in Devices, PushEnds(d) PROVE ManifestInv'
  <2>1. key[d] # NoKey /\ UNCHANGED remote
    BY <1>8 DEF PushEnds, PushInv
  <2>2. \A e \in Devices \ {d} : sent'[e] = sent[e]
    BY <1>8 DEF PushEnds, TypeOK
  <2>3. CASE ManifestDue(d)
    <3>1. pushManifest(d)
      BY <1>8, <2>3 DEF PushEnds
    <3> QED
      BY <2>1, <3>1 DEF pushManifest, ManifestInv, Open
  <2>4. CASE ~ManifestDue(d)
    BY <1>8, <2>1, <2>2, <2>4 DEF PushEnds, ManifestDue, ManifestInv, Open
  <2> QED
    BY <2>3, <2>4
<1>9. ASSUME NEW d \in Devices, PushDies(d) PROVE ManifestInv'
  <2>1. key[d] # NoKey /\ UNCHANGED <<remote, dirty>> /\ manifest' \in {manifest, key[d]}
    BY <1>9 DEF PushDies, PushInv, files
  <2>2. \A e \in Devices \ {d} : sent'[e] = sent[e]
    BY <1>9 DEF PushDies, TypeOK
  <2>3. Open => Open'
    BY <1>9, <2>1, <2>2 DEF PushDies, Open
  <2> QED
    BY <2>1, <2>3 DEF ManifestInv
<1> QED
  BY <1>2, <1>3, <1>4, <1>5, <1>6, <1>7, <1>8, <1>9, StepCases

\* A pull with a key that opens nothing leaves the device's files alone, while no
\* manifest is due or lost.
THEOREM ForeignKeyIsSafe == Spec => ForeignKeyRemovesNothing
<1> DEFINE Guarded == ~unguarded /\ dirty = {} /\ (\A e \in Devices : sent[e] = {})
<1>1. Init => PushInv /\ ManifestInv
  BY StringsDiffer DEF Init, PushInv, ManifestInv
<1>2. ASSUME TypeOK, ManifestInv, Guarded, NEW d \in Devices, Pull(d), key[d] \notin Objects
      PROVE  FALSE
  <2>1. manifest = NoKey
    BY <1>2 DEF Pull, ManifestReads, Objects
  <2>2. Objects = {NoKey}
    BY <1>2, <2>1 DEF ManifestInv, Open, Objects
  <2> QED
    BY <1>2, <2>2 DEF Pull, Populated
<1>3. TypeOK /\ ManifestInv /\ [Next]_vars =>
        [Guarded => \A d \in Devices :
            Pull(d) /\ key[d] \notin Objects => local' = local]_vars
  BY <1>2
<1> QED
  BY <1>1, <1>3, StepPush, StepManifest, TypeCorrect, PTL DEF Spec, ForeignKeyRemovesNothing

-----------------------------------------------------------------------------
(* One key for the whole bucket.  The key of a device that may go on to push     *)
(* opens all there is; while there is nothing to try it on, only one device is   *)
(* set up or setting up.                                                         *)

OneKey == \A k, l \in Objects \ {NoKey} : k = l
Fits(d) == key[d] # NoKey => Objects \subseteq {NoKey, key[d]}

Trusted(d) ==
    \/ step[d] = "save"
    \/ d \in config /\ step[d] \in {"idle", "push", "reset", "retry", "check"}
    \/ d \in config /\ step[d] = "connect" /\ ~clearing[d]

Busy(d) == d \in config \/ step[d] \notin {"idle", "push", "reset"}

TrustInv == \A d \in Devices : Trusted(d) => Fits(d)
AloneInv == ~Populated => \A d, e \in Devices : Busy(d) /\ Busy(e) => d = e
KeyInv == ~excused => OneKey /\ TrustInv /\ AloneInv

\* A device clears the bucket because its user chose to.
ClearingInv == \A d \in Devices : step[d] = "clear" => clearing[d]

LEMMA StepClearing == TypeOK /\ ClearingInv /\ [Next]_vars => ClearingInv'
<1> SUFFICES ASSUME TypeOK, ClearingInv, [Next]_vars PROVE ClearingInv'
  OBVIOUS
<1>1. CASE UNCHANGED vars
  BY <1>1 DEF vars, wizard, ClearingInv
<1>2. ASSUME NEW d \in Devices, Wizard(d), step'[d] = "clear" PROVE clearing'[d]
  <2> USE DEF TypeOK, Moves, Starts, Ends, MovesOrEnds
  <2>1. CASE AnswerMismatch(d)
    BY <1>2, <2>1 DEF AnswerMismatch
  <2>2. CASE Connect(d)
    BY <1>2, <2>2 DEF Connect
  <2>3. CASE EnterPassphrase(d) \/ EnterAgain(d) \/ KeepOrGenerateKey(d)
    BY <1>2, <2>3 DEF EnterPassphrase, EnterAgain, KeepOrGenerateKey
  <2>4. CASE Verify(d) \/ Check(d)
    BY <1>2, <2>4 DEF Verify, Check
  <2>5. CASE SaveConfig(d) \/ Interrupted(d)
    BY <1>2, <2>5 DEF SaveConfig, Interrupted
  <2> QED
    BY <1>2, <2>1, <2>2, <2>3, <2>4, <2>5 DEF Wizard
<1>3. ASSUME NEW d \in Devices, Wizard(d) PROVE ClearingInv'
  BY <1>2, <1>3, WizardKeeps DEF ClearingInv
<1>4. ASSUME NEW d \in Devices, ClearRemote(d) \/ Reset(d) \/ resetLocalFiles(d) PROVE ClearingInv'
  BY <1>4 DEF ClearRemote, Reset, resetLocalFiles, Moves, Ends, MovesOrEnds, ClearingInv, TypeOK
<1>5. ASSUME NEW d \in Devices, (\E f \in Files : Edit(d, f) \/ PushSend(d, f)) \/ Pull(d)
      PROVE  ClearingInv'
  BY <1>5 DEF Edit, PushSend, Pull, wizard, ClearingInv
<1>6. ASSUME NEW d \in Devices, PushStart(d) \/ PushEnds(d) \/ PushDies(d) PROVE ClearingInv'
  BY <1>6, StringsDiffer DEF PushStart, PushEnds, PushDies, Moves, ClearingInv, TypeOK
<1> QED
  BY <1>1, <1>3, <1>4, <1>5, <1>6, StepCases

LEMMA ObjectsType == TypeOK => Objects \subseteq Keys \cup {NoKey}
  BY DEF TypeOK, Objects

\* A key that opens one object opens all, if all are under one key.
LEMMA VerifiedFits ==
    ASSUME OneKey, ~excused', NEW d \in Devices, verifyKeyMatchesRemote(d, TRUE) PROVE Fits(d)
<1>1. CASE ~Populated
  BY <1>1 DEF Populated, Fits
<1>2. CASE \E k \in Objects \ {NoKey} : TRUE = (k = key[d])
  <2>1. key[d] \in Objects \ {NoKey}
    BY <1>2
  <2> QED
    BY <2>1 DEF OneKey, Fits
<1> QED
  BY <1>1, <1>2 DEF verifyKeyMatchesRemote, Excuse

\* What one device does for itself keeps KeyInv if its own part of it stays.
LEMMA OwnStep ==
    ASSUME TypeOK, KeyInv, ~excused, UNCHANGED bucket, NEW d \in Devices,
           \A e \in Devices \ {d} : step'[e] = step[e] /\ clearing'[e] = clearing[e],
           \A e \in Devices \ {d} : key'[e] = key[e] /\ (e \in config' <=> e \in config),
           Trusted(d)' => Fits(d)',
           ~Populated /\ Busy(d)' => Busy(d) \/ \A e \in Devices \ {d} : ~Busy(e)
    PROVE  KeyInv'
<1>1. Objects' = Objects /\ (Populated' <=> Populated) /\ OneKey'
  BY DEF Objects, Populated, bucket, OneKey, KeyInv
<1>2. TrustInv'
  BY <1>1 DEF KeyInv, TrustInv, Trusted, Fits
<1>3. \A e \in Devices \ {d} : Busy(e)' => Busy(e)
  BY DEF Busy
<1>4. AloneInv'
  BY <1>1, <1>3 DEF KeyInv, AloneInv
<1> QED
  BY <1>1, <1>2, <1>4 DEF KeyInv

LEMMA WizardKey ==
    ASSUME TypeOK, KeyInv, ClearingInv, NEW d \in Devices, Wizard(d), ~excused' PROVE KeyInv'
<1>1. /\ ~excused /\ UNCHANGED bucket
      /\ \A e \in Devices \ {d} : step'[e] = step[e] /\ clearing'[e] = clearing[e]
      /\ \A e \in Devices \ {d} : key'[e] = key[e] /\ (e \in config' <=> e \in config)
  BY WizardKeeps
<1>2. OneKey /\ (Trusted(d) => Fits(d)) /\ Objects' = Objects
  BY <1>1 DEF KeyInv, TrustInv, Objects, bucket
<1>3. ASSUME InTurn(d) PROVE ~Populated => \A e \in Devices \ {d} : ~Busy(e)
  BY <1>3 DEF InTurn, Busy
<1> SUFFICES /\ Trusted(d)' => Fits(d)'
             /\ ~Populated /\ Busy(d)' => Busy(d) \/ \A e \in Devices \ {d} : ~Busy(e)
  BY <1>1, OwnStep
<1> USE DEF TypeOK, Trusted, Busy
<1>4. CASE EnterPassphrase(d)
  BY <1>3, <1>4 DEF EnterPassphrase, Starts, Excuse
<1>5. CASE EnterAgain(d)
  BY <1>5 DEF EnterAgain, Moves
<1>6. CASE KeepOrGenerateKey(d)
  <2>1. InTurn(d) /\ (d \in config' => d \in config /\ key' = key) /\ step'[d] = "connect"
    BY <1>6 DEF KeepOrGenerateKey, Starts, Excuse
  <2>2. d \in config' => Trusted(d)
    BY <1>6, <2>1 DEF KeepOrGenerateKey
  <2>3. Trusted(d)' => Fits(d)'
    BY <1>2, <2>1, <2>2 DEF Fits
  <2> QED
    BY <1>3, <2>1, <2>3
<1>7. CASE Verify(d)
  <2>1. UNCHANGED key /\ Busy(d)
    BY <1>7 DEF Verify
  <2>2. CASE verifyKeyMatchesRemote(d, FALSE) /\ Moves(d, "mismatch")
    BY <2>1, <2>2 DEF Moves
  <2>3. CASE verifyKeyMatchesRemote(d, TRUE)
    BY <1>2, <2>1, <2>3, VerifiedFits DEF Fits
  <2> QED
    BY <1>7, <2>2, <2>3 DEF Verify
<1>8. CASE AnswerMismatch(d)
  BY <1>8 DEF AnswerMismatch, Forget, SetKey, Moves, Ends, Fits
<1>9. CASE Connect(d)
  BY <1>2, <1>9 DEF Connect, Moves, Ends, Excuse, Fits
<1>10. CASE Check(d)
  <2>1. PICK fits \in BOOLEAN : verifyKeyMatchesRemote(d, fits) /\ MovesOrEnds(d, fits, "save")
    BY <1>10 DEF Check
  <2>2. UNCHANGED <<key, config>> /\ step[d] = "check"
    BY <1>10 DEF Check
  <2>3. CASE fits
    BY <1>2, <2>1, <2>2, <2>3, VerifiedFits DEF Fits
  <2>4. CASE ~fits
    BY <1>2, <2>1, <2>2, <2>4 DEF MovesOrEnds, Ends, Fits
  <2> QED
    BY <2>3, <2>4
<1>11. CASE SaveConfig(d)
  BY <1>2, <1>11 DEF SaveConfig, Ends, Fits
<1>12. CASE Interrupted(d)
  BY <1>2, <1>12 DEF Interrupted, Ends, Excuse, Fits, ClearingInv, Steps
<1> QED
  BY <1>4, <1>5, <1>6, <1>7, <1>8, <1>9, <1>10, <1>11, <1>12 DEF Wizard

\* What a device that is set up writes to the bucket is under the key of all the rest.
LEMMA PushKey ==
    ASSUME TypeOK, KeyInv, ~excused, NEW d \in Devices,
           d \in config, key[d] # NoKey, step[d] = "push",
           UNCHANGED <<config, key, clearing>>,
           step' = step \/ step' = [step EXCEPT ![d] = "idle"],
           \/ UNCHANGED bucket
           \/ Objects' \subseteq Objects \cup {key[d]} /\ key[d] \in Objects'
    PROVE  KeyInv'
<1>1. \A e \in Devices : (Trusted(e)' <=> Trusted(e)) /\ (Busy(e)' <=> Busy(e))
  BY DEF Trusted, Busy, TypeOK
<1>2. CASE UNCHANGED bucket
  <2>1. Objects' = Objects /\ (Populated' <=> Populated)
    BY <1>2 DEF Objects, Populated, bucket
  <2> QED
    BY <1>1, <2>1 DEF KeyInv, OneKey, TrustInv, Fits, AloneInv
<1>3. CASE Objects' \subseteq Objects \cup {key[d]} /\ key[d] \in Objects'
  <2>1. Objects \subseteq {NoKey, key[d]}
    BY DEF KeyInv, TrustInv, Trusted, Fits
  <2>2. Objects' \subseteq {NoKey, key[d]} /\ key[d] \in Objects'
    BY <1>3, <2>1
  <2>3. OneKey' /\ AloneInv'
    BY <2>2 DEF OneKey, AloneInv, Populated
  <2>4. ASSUME NEW e \in Devices, Trusted(e), key[e] # NoKey PROVE key[e] = key[d]
    <3>1. Objects \subseteq {NoKey, key[e]}
      BY <2>4 DEF KeyInv, TrustInv, Fits
    <3>2. CASE Populated
      BY <2>1, <2>4, <3>1, <3>2 DEF Populated, Objects
    <3>3. CASE ~Populated
      BY <2>4, <3>3 DEF KeyInv, AloneInv, Busy, Trusted
    <3> QED
      BY <3>2, <3>3
  <2>5. TrustInv'
    BY <1>1, <2>2, <2>4 DEF TrustInv, Fits
  <2> QED
    BY <2>3, <2>5 DEF KeyInv
<1> QED
  BY <1>2, <1>3

LEMMA StepKey == TypeOK /\ PushInv /\ KeyInv /\ ClearingInv /\ [Next]_vars => KeyInv'
<1> SUFFICES ASSUME TypeOK, PushInv, KeyInv, ClearingInv, [Next]_vars, ~excused' PROVE KeyInv'
  BY DEF KeyInv
<1>1. ASSUME UNCHANGED <<config, key, bucket, step, clearing, excused>> PROVE KeyInv'
  <2>1. Objects' = Objects /\ (Populated' <=> Populated)
    BY <1>1 DEF Objects, Populated, bucket
  <2>2. \A e \in Devices : (Trusted(e)' <=> Trusted(e)) /\ (Busy(e)' <=> Busy(e))
    BY <1>1 DEF Trusted, Busy
  <2> QED
    BY <1>1, <2>1, <2>2 DEF KeyInv, OneKey, TrustInv, Fits, AloneInv
<1>2. CASE UNCHANGED vars
  BY <1>1, <1>2 DEF vars, wizard, history
<1>3. ASSUME NEW d \in Devices, (\E f \in Files : Edit(d, f)) \/ Pull(d) PROVE KeyInv'
  BY <1>1, <1>3 DEF Edit, Pull, wizard, history, bucket
<1>4. ASSUME NEW d \in Devices, Wizard(d) PROVE KeyInv'
  BY <1>4, WizardKey
<1>5. ASSUME NEW d \in Devices, NEW f \in Files, PushSend(d, f) PROVE KeyInv'
  <2>1. d \in config /\ key[d] # NoKey /\ step[d] = "push" /\ ~excused
    BY <1>5 DEF PushSend, PushInv
  <2>2. Objects' \subseteq Objects \cup {key[d]} /\ key[d] \in Objects'
    BY <1>5 DEF PushSend, Objects, TypeOK
  <2> QED
    BY <1>5, <2>1, <2>2, PushKey DEF PushSend, wizard
<1>9. ASSUME NEW d \in Devices, PushEnds(d) \/ PushDies(d) PROVE KeyInv'
  <2>1. d \in config /\ key[d] # NoKey /\ step[d] = "push" /\ ~excused
    BY <1>9 DEF PushEnds, PushDies, PushInv
  <2>2. UNCHANGED <<config, key, remote, clearing>> /\ step' = [step EXCEPT ![d] = "idle"]
    BY <1>9 DEF PushEnds, PushDies, Moves
  <2>3. manifest' \in {manifest, key[d]}
    BY <1>9 DEF PushEnds, PushDies, pushManifest
  <2>4. \/ UNCHANGED bucket
        \/ Objects' \subseteq Objects \cup {key[d]} /\ key[d] \in Objects'
    BY <2>2, <2>3 DEF bucket, Objects
  <2> QED
    BY <2>1, <2>2, <2>4, PushKey
<1>10. ASSUME NEW d \in Devices, PushStart(d) PROVE KeyInv'
  <2>1. UNCHANGED <<bucket, excused, config, key, clearing>> /\ d \in config /\ step[d] = "idle"
    BY <1>10 DEF PushStart, Ready, Moves
  <2>2. step' = [step EXCEPT ![d] = "push"]
    BY <1>10 DEF PushStart, Moves
  <2>3. \A e \in Devices : (Trusted(e)' <=> Trusted(e)) /\ (Busy(e)' <=> Busy(e))
    BY <2>1, <2>2 DEF Trusted, Busy, TypeOK
  <2>4. Objects' = Objects /\ (Populated' <=> Populated)
    BY <2>1 DEF Objects, Populated, bucket
  <2> QED
    BY <2>1, <2>3, <2>4 DEF KeyInv, OneKey, TrustInv, Fits, AloneInv
<1>6. ASSUME NEW d \in Devices, ClearRemote(d) PROVE KeyInv'
  BY <1>6, ClearsType DEF ClearRemote
<1>7. ASSUME NEW d \in Devices, Reset(d) PROVE KeyInv'
  <2>1. UNCHANGED <<bucket, excused, config, key>> /\ step[d] = "idle"
    BY <1>7, ClearsType DEF Reset, history
  <2>2. step' = [step EXCEPT ![d] = "reset"] /\ UNCHANGED clearing
    BY <1>7 DEF Reset, Moves
  <2>3. \A e \in Devices : (Trusted(e)' => Trusted(e)) /\ (Busy(e)' => Busy(e))
    BY <2>1, <2>2 DEF Trusted, Busy, TypeOK
  <2>4. Objects' = Objects /\ (Populated' <=> Populated)
    BY <2>1 DEF Objects, Populated, bucket
  <2> QED
    BY <2>1, <2>3, <2>4 DEF KeyInv, OneKey, TrustInv, Fits, AloneInv
<1>8. ASSUME NEW d \in Devices, resetLocalFiles(d) PROVE KeyInv'
  <2>1. UNCHANGED <<bucket, excused>> /\ d \notin config' /\ step'[d] = "idle"
    BY <1>8 DEF resetLocalFiles, Ends, TypeOK, bucket
  <2>2. /\ \A e \in Devices \ {d} : step'[e] = step[e] /\ clearing'[e] = clearing[e]
        /\ \A e \in Devices \ {d} : key'[e] = key[e] /\ (e \in config' <=> e \in config)
    BY <1>8 DEF resetLocalFiles, Ends, Forget, SetKey, TypeOK
  <2> QED
    BY <2>1, <2>2, OwnStep DEF Trusted, Busy
<1> QED
  BY <1>2, <1>3, <1>4, <1>5, <1>6, <1>7, <1>8, <1>9, <1>10, StepCases

\* Devices that set up in turn leave a bucket under one key.
THEOREM OneKeyHolds == Spec => []NoMixedKeys
<1>1. Init => PushInv /\ KeyInv /\ ClearingInv
  BY DEF Init, PushInv, KeyInv, ClearingInv, OneKey, TrustInv, Trusted, Fits, AloneInv, Busy, Objects
<1>2. KeyInv => NoMixedKeys
  BY DEF KeyInv, OneKey, NoMixedKeys
<1> QED
  BY <1>1, <1>2, StepPush, StepKey, StepClearing, TypeCorrect, PTL DEF Spec
=============================================================================
