---------------------------- MODULE MCTestEntropy ----------------------------
(* Two threads, two schemes: draws that end inside a block, and a key      *)
(* generation that draws until it succeeds.                                *)
EXTENDS TestEntropy, TLC

CONSTANTS t1, t2, seed1, seed2

MCThreads == {t1, t2}
MCSchemes == {"aimer192f", "ntruplus864"}
MCSeeds == {seed1, seed2}
MCContextLengths == {20}
MCMaxAsked == 2

MCSymmetry == Permutations(MCThreads) \cup Permutations(MCSeeds)
=============================================================================
