---------------------------- MODULE HaetaeNonces ----------------------------
(***************************************************************************)
(* The 16-bit nonces of HAETAE's rejection loops (vendor/HAETAE/src/       *)
(* sign.c).  Key generation and signing each expand one seed into many     *)
(* streams, one per polynomial and nonce; a candidate that is rejected is  *)
(* replaced by one from fresh nonces.  Signing has two loops: the inner    *)
(* one, in polyfixveclk_sample_hyperball, retries a vector outside the     *)
(* ball, and the outer one a signature that is too large or would leak.    *)
(* The inner loop's caller continues from the counter it returns; key      *)
(* generation advances its own counter by what it believes was used.       *)
(*                                                                         *)
(* Seed, key and message are fixed during a call, so what a candidate is   *)
(* worth is a function of the nonce it starts from.  `verdict` discovers   *)
(* that function as the call goes: an attempt from a nonce seen before     *)
(* meets the same verdict.                                                 *)
(*                                                                         *)
(* samples, signs and drawn record the use of the nonces, for the          *)
(* properties; they are capped, the first two at 2, drawn at Wide + 1.     *)
(***************************************************************************)
EXTENDS Integers

CONSTANTS
  Wide,   \* values of a uint16_t
  K,      \* HAETAE_K
  L       \* HAETAE_L; HAETAE_M is L - 1

ASSUME NoncesAssumption == {Wide, K, L} \subseteq Nat \ {0}

Nonces == 0 .. Wide - 1
M == L - 1

VARIABLES
  pc,       \* "start", "draw", "judge", "done"
  op,       \* "none", "keypair", "sign"
  counter,  \* the caller's counter
  ni,       \* the nonce of the next stream
  poly,     \* streams drawn for this candidate
  verdict,  \* what the candidate starting at a nonce turned out to be
  samples,  \* how many polynomials were expanded from a nonce
  signs,    \* how many sign bytes b were
  drawn     \* streams drawn in this call

vars == <<pc, op, counter, ni, poly, verdict, samples, signs, drawn>>

-----------------------------------------------------------------------------
(* Faulty variant of the next operator: the counter is not a uint16_t.     *)
Unbounded(n) == n

Uint16(n) == n % Wide

(* Faulty variant of the next operator: s2 is forgotten.                   *)
KeyStepWithoutK == M

KeyStep == M + K                      \* counter += HAETAE_M + HAETAE_K

Polys(o) == IF o = "keypair" THEN M + K ELSE L + K

(* Faulty variant of the next operator: b from the last polynomial's nonce.*)
LastNonce(n) == (n - 1) % Wide

SignNonce(n) == n                     \* tmp = seed || ni

(* Faulty variant of the next operator: the call's result is dropped.      *)
CounterKept(before, returned) == before

CounterOf(before, returned) == returned   \* counter = ...sample_hyperball(...)

Count(uses, n) == [uses EXCEPT ![n] = IF @ = 2 THEN 2 ELSE @ + 1]

(* The nonce this candidate began with, and its verdict.                   *)
First == Uint16(ni - Polys(op))
Turns(v) ==
  /\ verdict[First] \in {"unknown", v}
  /\ verdict' = [verdict EXCEPT ![First] = v]

Init ==
  /\ pc = "start"
  /\ op = "none"
  /\ counter = 0
  /\ ni = 0
  /\ poly = 0
  /\ verdict = [n \in Nonces |-> "unknown"]
  /\ samples = [n \in Nonces |-> 0]
  /\ signs = [n \in Nonces |-> 0]
  /\ drawn = 0

Begin(o) ==
  /\ pc = "start"
  /\ op' = o
  /\ pc' = "draw"
  /\ UNCHANGED <<counter, ni, poly, verdict, samples, signs, drawn>>

(* poly_uniform_eta or sample_gauss_N on the stream of seed and nonce.     *)
DrawPoly ==
  /\ pc = "draw"
  /\ poly < Polys(op)
  /\ samples' = Count(samples, ni)
  /\ drawn' = IF drawn > Wide THEN drawn ELSE drawn + 1
  /\ ni' = Uint16(ni + 1)
  /\ poly' = poly + 1
  /\ UNCHANGED <<pc, op, counter, verdict, signs>>

(* Key generation: s1 and s2 are complete.                                 *)
KeyCandidate ==
  /\ pc = "draw"
  /\ op = "keypair"
  /\ poly = Polys(op)
  /\ counter' = Uint16(counter + KeyStep)
  /\ pc' = "judge"
  /\ UNCHANGED <<op, ni, poly, verdict, samples, signs, drawn>>

(* Signing: the norm exceeds B0; the inner loop goes round, ni going on.   *)
OutsideBall ==
  /\ pc = "draw"
  /\ op = "sign"
  /\ poly = Polys(op)
  /\ Turns("outside")
  /\ poly' = 0
  /\ UNCHANGED <<pc, op, counter, ni, samples, signs, drawn>>

(* Signing: y is inside; its sign byte b is hashed from seed and nonce.    *)
InsideBall ==
  /\ pc = "draw"
  /\ op = "sign"
  /\ poly = Polys(op)
  /\ verdict[First] # "outside"
  /\ signs' = Count(signs, SignNonce(ni))
  /\ counter' = CounterOf(counter, ni)
  /\ pc' = "judge"
  /\ UNCHANGED <<op, ni, poly, verdict, samples, drawn>>

(* The singular value, the norms of z and of 2z - y, the packed size.      *)
Reject ==
  /\ pc = "judge"
  /\ Turns("rejected")
  /\ pc' = "draw"
  /\ ni' = counter
  /\ poly' = 0
  /\ UNCHANGED <<op, counter, samples, signs, drawn>>

Accept ==
  /\ pc = "judge"
  /\ Turns("accepted")
  /\ pc' = "done"
  /\ UNCHANGED <<op, counter, ni, poly, samples, signs, drawn>>

Work == DrawPoly \/ KeyCandidate \/ OutsideBall \/ InsideBall \/ Reject \/ Accept
Next == Begin("keypair") \/ Begin("sign") \/ Work
Spec == Init /\ [][Next]_vars

(* The thread of a running call is scheduled.                              *)
FairSpec == Spec /\ WF_vars(Work)

-----------------------------------------------------------------------------
(* Properties.                                                             *)

Verdicts == {"unknown", "outside", "rejected", "accepted"}

TypeOK ==
  /\ pc \in {"start", "draw", "judge", "done"}
  /\ op \in {"none", "keypair", "sign"}
  /\ pc # "start" => op # "none"
  /\ counter \in Nonces
  /\ ni \in Nonces
  /\ poly \in 0 .. L + K
  /\ verdict \in [Nonces -> Verdicts]
  /\ samples \in [Nonces -> 0 .. 2]
  /\ signs \in [Nonces -> 0 .. 2]
  /\ drawn \in 0 .. Wide + 1

(* No two polynomials of a call, of the same candidate or of different     *)
(* ones, come from the same stream until the counter has gone once round   *)
(* (sign.c:73-74, 215; polyfix.c:252-260).                                 *)
FreshSamples == drawn <= Wide => \A n \in Nonces : samples[n] <= 1

(* The byte b that chooses the sign of c*s in a signature is hashed from   *)
(* the nonce after its candidate's: no polynomial drawn so far has it, nor *)
(* any earlier b.  (If the candidate is rejected, the next one's first     *)
(* polynomial does reuse it: the b of a published signature never is.)     *)
SignByteFresh ==
  op = "sign" /\ pc \in {"judge", "done"} /\ drawn < Wide =>
    /\ samples[counter] = 0
    /\ signs[counter] = 1
    /\ \A n \in Nonces : signs[n] <= 1

(* The nonces a candidate can start from.                                  *)
Starts(o) == {Uint16(k * Polys(o)) : k \in Nonces}
Exhausted == \A n \in Starts(op) : verdict[n] \in {"outside", "rejected"}

(* A call answers unless every candidate the wrapping counter can reach is *)
(* a bad one: no reachable candidate is passed over (sign.c:71-93,         *)
(* 212-314).                                                               *)
Answers == pc = "draw" ~> pc = "done" \/ Exhausted
=============================================================================
