---------------------------- MODULE MCCallActor -----------------------------
(* CallActor for TLC: a few Transition calls, small queues.                *)
EXTENDS CallActor, TLC

RequestSymmetry == Permutations(Requests)
=============================================================================
