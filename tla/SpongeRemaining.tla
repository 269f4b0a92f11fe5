-------------------------- MODULE SpongeRemaining --------------------------
(***************************************************************************)
(* The sponge of AIMer and NTRU+ (fips202.c of both) after absorbing:      *)
(* s_inc[25], here `pos`, now holds the bytes squeezed but not yet handed  *)
(* out, and so counts down.  The one-shot functions use a context without  *)
(* that word and a buffer t for the last partial block.                    *)
(***************************************************************************)
EXTENDS Sponge

IncFinalize == FinalizeTo(0)

(* shake128, shake256 and the sha3 functions on a context of their own:    *)
(* keccak_absorb, which pads in t, then whole blocks, then t again.        *)
Once(mlen, outlen) ==
  /\ AbsorbWhole(mlen)
  /\ outlen <= MaxOut
  /\ left' = outlen
  /\ pc' = "once"
  /\ UNCHANGED pos

(* Faulty variant of the next operator: the bytes are taken from the start.*)
FromStart(c) == 0

FirstAvailable(c) == Rate - c               \* r - s_inc[25]

(* "First consume any bytes we still have sitting around."                 *)
Leftover ==
  /\ pc = "squeeze"
  /\ LET taken == Least(left, pos)
     IN  /\ output' = output \o Read(permuted, FirstAvailable(pos), taken)
         /\ left' = left - taken
         /\ pos' = pos - taken
  /\ pc' = "blocks"
  /\ UNCHANGED <<permuted, block, phase, fed>>

NextBlock(taken) ==
  /\ left > 0
  /\ permuted' = Permute(permuted, block)
  /\ block' = Zero
  /\ output' = output \o Read(permuted', 0, taken)
  /\ left' = left - taken

IncBlock ==
  /\ pc = "blocks"
  /\ NextBlock(Least(left, Rate))
  /\ pos' = Rate - Least(left, Rate)
  /\ UNCHANGED <<pc, phase, fed>>

IncDone ==
  /\ pc = "blocks"
  /\ left = 0
  /\ pc' = "idle"
  /\ UNCHANGED <<permuted, block, pos, left, phase, fed, output>>

OnceBlock ==
  /\ pc = "once"
  /\ NextBlock(Least(left, Rate))
  /\ UNCHANGED <<pc, pos, phase, fed>>

OnceDone ==
  /\ pc = "once"
  /\ left = 0
  /\ pc' = "released"
  /\ UNCHANGED <<permuted, block, pos, left, phase, fed, output>>

NextRemaining ==
  \/ \E mlen \in 0 .. MaxIn : Absorb(mlen)
  \/ \E mlen \in 0 .. MaxIn, outlen \in 0 .. MaxOut : Once(mlen, outlen)
  \/ FillBlock \/ TailBytes \/ IncFinalize
  \/ \E outlen \in 0 .. MaxOut : Squeeze(outlen)
  \/ Leftover \/ IncBlock \/ IncDone \/ OnceBlock \/ OnceDone

SpecRemaining == Init /\ [][NextRemaining]_vars
=============================================================================
