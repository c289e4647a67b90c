------------------------- MODULE CheckpointLifecycle -------------------------
(***************************************************************************)
(* What docs/CHECKPOINT_RESUME.md promises of the status of one review     *)
(* checkpoint, whatever the workers and the store do: once it says that    *)
(* the review is paused or completed it never says pending again, until    *)
(* its time to live has passed and the store drops it.                     *)
(***************************************************************************)

VARIABLE status

LifecycleInit == status = "absent"

Saved == status = "absent" /\ status' = "pending"
Paused == status # "rate_limited" /\ status' = "rate_limited"
Completed == status # "completed" /\ status' = "completed"
Dropped == status # "absent" /\ status' = "absent"

LifecycleNext == Saved \/ Paused \/ Completed \/ Dropped

LifecycleSpec == LifecycleInit /\ [][LifecycleNext]_status
=============================================================================
