--------------------------- MODULE StreamSampler ---------------------------
(***************************************************************************)
(* What a rejection sampler promises: it attempts the windows of its       *)
(* stream one after the other, none skipped and none twice, and hands out  *)
(* what the accepted ones yield, in order, until it has as many samples as *)
(* were wanted.  Blocks and buffers are none of the caller's business.     *)
(***************************************************************************)
EXTENDS Samplers

VARIABLES
  sampler,   \* which one runs, or "none"
  attempts,  \* windows attempted
  output     \* samples, each with the stream bytes it was made from

vars == <<sampler, attempts, output>>

Init ==
  /\ sampler = "none"
  /\ attempts = 0
  /\ output = <<>>

Start ==
  /\ sampler = "none"
  /\ sampler' \in Names
  /\ UNCHANGED <<attempts, output>>

Attempt ==
  /\ sampler \in Names
  /\ Len(output) < Count[sampler]
  /\ attempts' = attempts + 1
  /\ LET wanted == Least(Batch[sampler], Count[sampler] - Len(output))
     IN  \/ output' = output
         \/ output' = output \o Samples(Window(sampler, attempts), wanted)
  /\ UNCHANGED sampler

Next == Start \/ Attempt
Spec == Init /\ [][Next]_vars
=============================================================================
