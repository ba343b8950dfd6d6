------------------------------ MODULE MCFirstPull ------------------------------
(* FirstPull for TLC.  A preview and a backup that no later step reads are not *)
(* told apart.                                                                 *)
EXTENDS FirstPull

Reread ==
    <<data, noDelete, edits, step, calm, IF calm \/ step = "asked" THEN shown ELSE Nothing,
      calm /\ upToDate, IF step = "backed up" THEN <<backup, since>> ELSE <<>>>>
=============================================================================
