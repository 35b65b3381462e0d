---------------------------- MODULE MCRetryQueue ----------------------------
(* The retry queue on a small instance, with the shipped failure classes   *)
(* and priority weights.                                                   *)
EXTENDS RetryQueue

MCRetryable == DefaultRetryableFailureTypes

\* DEFAULTS.priorityWeights: low 1, medium 2, high 5
MCPriorityWeights == [p \in Priority |-> CASE p = 0 -> 1 [] p = 1 -> 2 [] p = 2 -> 5]
=============================================================================
