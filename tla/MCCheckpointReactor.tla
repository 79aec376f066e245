-------------------------- MODULE MCCheckpointReactor --------------------------
(* What may happen in the run of the checkpoints. *)
EXTENDS CheckpointReactor

\* Hooks, turns and diffs against failing git commands and restarts, without reverts;
\* all at once, and of a user who waits for what was asked before.
Hooks == {"turns", "diffs", "faults", "restart"}
Waiting == Hooks \cup {"sequential"}

\* Reverts, captures and diffs of a user who waits.
Reverts == {"reverts", "turns", "diffs", "sequential"}

\* Reverts that fail, against everything else.
Failing == {"reverts", "faults"}

AllFeatures == {Hooks, Waiting, Reverts, Failing}
=============================================================================
