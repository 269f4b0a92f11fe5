----------------------------- MODULE MCSeedTree -----------------------------
(* SeedTree with the trees of the "f" parameter sets (16 parties) and two  *)
(* repetitions, so that the second one meets what the first left behind.   *)
EXTENDS SeedTree

MCT == 2
MCLogN == 4
MCPow2 == [d \in 0 .. MCLogN |-> 2 ^ d]
=============================================================================
