---------------------------- MODULE MCTaskBounty ----------------------------
(* The contract with a handful of tasks and submissions.                   *)
EXTENDS TaskBounty, TLC

MCSymmetry == Permutations(Users)
=============================================================================
