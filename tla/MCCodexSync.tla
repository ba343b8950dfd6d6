------------------------------ MODULE MCCodexSync ------------------------------
(* CodexSync on small instances.  Devices are interchangeable, and so are paths *)
(* that are all merged or all not.                                              *)
EXTENDS CodexSync

DeviceSymmetry == Permutations(Devices)
FullSymmetry == Permutations(Devices) \cup Permutations(Paths)

\* Variables that no guard reads in a run without PullFirst are left out of the
\* states TLC tells apart; this keeps the one a property reads.
Undisciplined == <<device, cmd, task, seen, union, store, edits, published>>

\* A bound: the last edit happens only where a single path is in use.
InUse(p) == Exists(remote[p]) \/ \E d \in Devices : Exists(disk[d][p])
FourOfOne == edits < MaxEdits \/ \E p \in Paths : \A q \in Paths \ {p} : ~InUse(q)

\* A bound: no file is edited once more after a pull has recorded one that was gone.
LastEditHashed ==
    \/ edits < MaxEdits
    \/ \A d \in Devices, p \in Paths : Tracked(mem[d][p]) => mem[d][p].hash # {}
=============================================================================
