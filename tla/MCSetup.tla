-------------------------------- MODULE MCSetup --------------------------------
(* Setup on two devices with two files, a passphrase and a generated key.        *)
(* Devices and files are interchangeable; fresh matters for ClearStartsOver only. *)
EXTENDS Setup, FiniteSets, TLC

Alike == Permutations(Devices) \cup Permutations(Files)
ExceptFresh == <<config, key, files, bucket, wizard, sent, excused, unguarded, stale>>

\* Setups and resets overlap as long as no device has a file.  Later, while one device
\* sets up or resets, it has at most one file, and the others may pull but have nothing
\* to push.
SetsUpAlone ==
    \/ \A d \in Devices : local[d] = {}
    \/ \A d \in Devices : step[d] \in {"idle", "push"}
    \/ \E d \in Devices :
         /\ Cardinality(local[d]) <= 1
         /\ \A e \in Devices \ {d} : step[e] = "idle" /\ Pending(e) = {}
=============================================================================
