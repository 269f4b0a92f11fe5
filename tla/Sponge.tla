------------------------------- MODULE Sponge -------------------------------
(***************************************************************************)
(* What the four copies of fips202.c have in common: the state of a        *)
(* context, how a message is absorbed and how an output is asked for.      *)
(* HAETAE and SMAUG-T keep `pos` beside the Keccak state, AIMer and NTRU+  *)
(* in s_inc[25], its 26th word; all count in it the bytes of the current   *)
(* block already absorbed.  What it means after finalize differs, and so   *)
(* does everything from there on: SpongeConsumed, SpongeRemaining.  An     *)
(* action is one iteration of a loop, with the caller's `in` or `m`        *)
(* pointer (`fed`) and remaining length (`left`).                          *)
(*                                                                         *)
(* MaxIn and MaxOut bound the message and the output of one context.       *)
(***************************************************************************)
EXTENDS KeccakState

CONSTANTS MaxIn, MaxOut

ASSUME SpongeAssumption ==
  /\ MaxIn \in Nat
  /\ MaxOut \in Nat

VARIABLES
  pc,        \* "idle", or the loop that runs
  permuted,  \* the blocks XORed in before each permutation
  block,     \* what has been XORed in since the last one
  pos,       \* pos, or s_inc[25]
  left,      \* inlen, mlen or outlen
  phase,
  fed,
  output

vars == <<pc, permuted, block, pos, left, phase, fed, output>>

Api == INSTANCE Xof

-----------------------------------------------------------------------------
Init ==
  /\ pc = "idle"
  /\ permuted = <<>>
  /\ block = Zero
  /\ pos = 0
  /\ left = 0
  /\ phase = "absorb"
  /\ fed = 0
  /\ output = <<>>

Absorb(length) ==
  /\ pc = "idle"
  /\ phase = "absorb"
  /\ fed + length <= MaxIn
  /\ pc' = "absorb"
  /\ left' = length
  /\ UNCHANGED <<permuted, block, pos, phase, fed, output>>

(* Faulty variant of the next operator: > for >=.                          *)
FillsTooLate(length) == pos + length > Rate

Fills(length) == pos + length >= Rate        \* while (pos + inlen >= r)

Room(at) == Rate - at                        \* for (...; i < r; i++)

FillBlock ==
  /\ pc = "absorb"
  /\ Fills(left)
  /\ permuted' = Permute(permuted, XorMessage(block, pos, Room(pos), fed))
  /\ block' = Zero
  /\ fed' = fed + Room(pos)
  /\ left' = left - Room(pos)
  /\ pos' = 0
  /\ UNCHANGED <<pc, phase, output>>

TailBytes ==
  /\ pc = "absorb"
  /\ ~Fills(left)
  /\ block' = XorMessage(block, pos, left, fed)
  /\ fed' = fed + left
  /\ pos' = pos + left
  /\ left' = 0
  /\ pc' = "idle"
  /\ UNCHANGED <<permuted, phase, output>>

(* Finalize, which leaves p in pos.                                        *)
FinalizeTo(p) ==
  /\ pc = "idle"
  /\ phase = "absorb"
  /\ block' = XorPadding(block, pos)
  /\ pos' = p
  /\ phase' = "squeeze"
  /\ UNCHANGED <<pc, permuted, left, fed, output>>

(* A whole message absorbed and padded in a context nothing was fed to.    *)
AbsorbWhole(length) ==
  /\ pc = "idle"
  /\ phase = "absorb"
  /\ fed = 0
  /\ length <= MaxIn
  /\ LET full == length \div Rate
         rest == length % Rate
     IN  /\ permuted' = [j \in 1 .. full |-> MessageBlock(j)]
         /\ block' = XorPadding(XorMessage(Zero, 0, rest, full * Rate), rest)
  /\ fed' = length
  /\ phase' = "squeeze"
  /\ UNCHANGED output

Squeeze(outlen) ==
  /\ pc = "idle"
  /\ phase = "squeeze"
  /\ Len(output) + outlen <= MaxOut
  /\ pc' = "squeeze"
  /\ left' = outlen
  /\ UNCHANGED <<permuted, block, pos, phase, fed, output>>

-----------------------------------------------------------------------------
(* Properties.                                                             *)

(* A message that ends on a block boundary leaves an empty block, so that  *)
(* finalize always finds room for the domain byte inside the rate (HAETAE, *)
(* fips202.c:360-405): "After keccak_inc_absorb, we are guaranteed that    *)
(* s_inc[25] < r, so we can always use one more byte for p in the current  *)
(* state" (AIMer, fips202.c:484).                                          *)
RoomForPadding == pc = "idle" /\ phase = "absorb" => pos < Rate

(* However the message is cut, and however the output is asked for, the    *)
(* bytes are those of the message's one stream: fips202.c implements Xof.  *)
ImplementsXof == Api!Spec
=============================================================================
