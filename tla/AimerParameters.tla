--------------------------- MODULE AimerParameters ---------------------------
(* The dimensions of an AIMer parameter set (vendor/AIMer/params).         *)
EXTENDS Integers

CONSTANTS
  T,      \* AIMER_T, parallel repetitions
  LogN,   \* AIMER_LOGN, depth of a tree
  Pow2    \* Pow2[d] is 1 << d

ASSUME AimerParametersAssumption ==
  /\ T \in Nat \ {0}
  /\ LogN \in Nat \ {0}
  /\ Pow2 \in [0 .. LogN -> Nat]
  /\ Pow2[0] = 1
  /\ \A d \in 0 .. LogN - 1 : Pow2[d + 1] = 2 * Pow2[d]

N == Pow2[LogN]                 \* AIMER_N
Reps == 0 .. T - 1
Parties == 0 .. N - 1
=============================================================================
