-------------------------------- MODULE Xof --------------------------------
(***************************************************************************)
(* What the four copies of fips202.c promise: an extendable-output hash    *)
(* absorbs a message in pieces of any size, is finalized once, and then    *)
(* yields, in pieces of any size, the bytes of one stream that depends on  *)
(* the whole message only.                                                 *)
(***************************************************************************)
EXTENDS KeccakState

VARIABLES
  phase,   \* "absorb" or "squeeze"
  fed,     \* bytes absorbed
  output   \* bytes yielded

vars == <<phase, fed, output>>

Init ==
  /\ phase = "absorb"
  /\ fed = 0
  /\ output = <<>>

Absorb ==
  /\ phase = "absorb"
  /\ fed' \in Nat
  /\ fed' >= fed
  /\ UNCHANGED <<phase, output>>

Finalize ==
  /\ phase = "absorb"
  /\ phase' = "squeeze"
  /\ UNCHANGED <<fed, output>>

(* The one-shot functions absorb and finalize in one call.                 *)
AbsorbOnce ==
  /\ phase = "absorb"
  /\ fed = 0
  /\ fed' \in Nat
  /\ phase' = "squeeze"
  /\ UNCHANGED output

Squeeze ==
  /\ phase = "squeeze"
  /\ Len(output') >= Len(output)
  /\ output' = Stream(fed, Len(output'))
  /\ UNCHANGED <<phase, fed>>

Next == Absorb \/ Finalize \/ AbsorbOnce \/ Squeeze
Spec == Init /\ [][Next]_vars
=============================================================================
