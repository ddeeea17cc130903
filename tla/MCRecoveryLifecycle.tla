------------------------- MODULE MCRecoveryLifecycle -------------------------
(* Instances of RecoveryLifecycle for TLC. *)
EXTENDS RecoveryLifecycle, TLC

CONSTANTS a, b, p, q

\* Pull request numbers are compared for equality only.
PullSymmetry == Permutations(Pull)
================================================================================
