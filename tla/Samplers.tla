------------------------------ MODULE Samplers ------------------------------
(***************************************************************************)
(* The rejection samplers of HAETAE (vendor/HAETAE/src/sampler.c, poly.c): *)
(* poly_uniform, poly_uniform_eta and sample_gauss_N.  Each reads its      *)
(* stream in windows of Width bytes after SignBytes bytes for the signs,   *)
(* and a window is accepted or not; an accepted one yields up to Batch     *)
(* samples.                                                                *)
(***************************************************************************)
EXTENDS Integers, Sequences

CONSTANTS
  Names,     \* the samplers
  Width,     \* bytes of an attempt: 2, 1, GAUSS_RAND_BYTES
  SignBytes, \* bytes taken before the first attempt: 0, 0, len / 8
  Batch,     \* samples of an accepted attempt: 1, 5, 1
  Count      \* samples wanted, len

ASSUME SamplersAssumption ==
  /\ Width \in [Names -> Nat \ {0}]
  /\ SignBytes \in [Names -> Nat]
  /\ Batch \in [Names -> Nat \ {0}]
  /\ Count \in [Names -> Nat \ {0}]

(* The stream bytes of attempt t (from 0).                                 *)
Window(s, t) == [k \in 1 .. Width[s] |-> SignBytes[s] + t * Width[s] + k - 1]

(* The n samples an accepted window yields.                                *)
Samples(window, n) == [j \in 1 .. n |-> <<window, j>>]

(* "if (ctr >= len) break": no more than are still wanted.                 *)
Least(a, b) == IF a < b THEN a ELSE b
=============================================================================
