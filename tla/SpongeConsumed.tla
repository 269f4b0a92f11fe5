--------------------------- MODULE SpongeConsumed ---------------------------
(***************************************************************************)
(* The sponge of HAETAE and SMAUG-T (fips202.c of both) after absorbing:   *)
(* `pos` goes on to count the bytes of the block that are already squeezed;*)
(* pos = Rate after finalize asks for a permutation before the first       *)
(* output byte.                                                            *)
(***************************************************************************)
EXTENDS Sponge

(* Faulty variant of the next operator: finalize leaves pos alone.         *)
PosKept(p) == p

PosFinal(p) == Rate                          \* state->pos = SHAKE128_RATE

Finalize == FinalizeTo(PosFinal(pos))

(* keccak_absorb_once on a context of its own: it zeroes the state.        *)
AbsorbOnce(inlen) ==
  /\ AbsorbWhole(inlen)
  /\ pos' = Rate
  /\ UNCHANGED <<pc, left>>

SqueezeFrom(blocks, at) ==
  LET count == Least(Rate - at, left)
  IN  /\ output' = output \o Read(blocks, at, count)
      /\ left' = left - count
      /\ pos' = at + count

SqueezeRest ==
  /\ pc = "squeeze"
  /\ left > 0
  /\ pos < Rate
  /\ SqueezeFrom(permuted, pos)
  /\ UNCHANGED <<pc, permuted, block, phase, fed>>

SqueezeFresh ==
  /\ pc = "squeeze"
  /\ left > 0
  /\ pos = Rate
  /\ permuted' = Permute(permuted, block)
  /\ block' = Zero
  /\ SqueezeFrom(permuted', 0)
  /\ UNCHANGED <<pc, phase, fed>>

SqueezeDone ==
  /\ pc = "squeeze"
  /\ left = 0
  /\ pc' = "idle"
  /\ UNCHANGED <<permuted, block, pos, left, phase, fed, output>>

(* One block of keccak_squeezeblocks.  It neither reads nor writes pos and *)
(* "assumes new block has not yet been started": every caller uses it on   *)
(* contexts with pos = Rate.                                               *)
SqueezeBlock ==
  /\ pc = "idle"
  /\ phase = "squeeze"
  /\ pos = Rate
  /\ Len(output) + Rate <= MaxOut
  /\ permuted' = Permute(permuted, block)
  /\ block' = Zero
  /\ output' = output \o Read(permuted', 0, Rate)
  /\ UNCHANGED <<pc, pos, left, phase, fed>>

NextConsumed ==
  \/ \E inlen \in 0 .. MaxIn : Absorb(inlen) \/ AbsorbOnce(inlen)
  \/ FillBlock \/ TailBytes \/ Finalize
  \/ \E outlen \in 0 .. MaxOut : Squeeze(outlen)
  \/ SqueezeRest \/ SqueezeFresh \/ SqueezeDone \/ SqueezeBlock

SpecConsumed == Init /\ [][NextConsumed]_vars
=============================================================================
