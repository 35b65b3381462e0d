------------------------- MODULE MCAutoShareGroups -------------------------
(* Groups and administration with a handful of payments.                   *)
EXTENDS AutoShareGroups, TLC

MCSymmetry == Permutations(Users)
=============================================================================
