--------------------------- MODULE MCHaetaeNonces ---------------------------
(* A counter of three bits: a key candidate uses 2 nonces, which divides   *)
(* its range, a signature candidate 3, which does not; both wrap.          *)
EXTENDS HaetaeNonces

MCWide == 8
MCK == 1
MCL == 2
=============================================================================
