-------------------------- MODULE RejectionSampler --------------------------
(***************************************************************************)
(* The samplers as written.  The stream comes in blocks; the first call    *)
(* of the inner function (rej_uniform, rej_eta, sample_gauss) reads        *)
(* `FirstBlocks` of them, and each later call one more, put after the      *)
(* bytes the last call left over because they were too few for an attempt. *)
(* Inside a call `ctr` and `pos` are the inner function's; `base` is the   *)
(* outer one's count of complete samples.                                  *)
(*                                                                         *)
(* A stream byte is its position in the stream.  rej_eta's attempts are    *)
(* single bytes, so that it never carries any.  sample_gauss writes r even *)
(* for an attempt it rejects, and not at all for the last sample when len  *)
(* is HAETAE_N + 1.                                                        *)
(*                                                                         *)
(* MaxRejections bounds the rejected attempts of one sampler.              *)
(***************************************************************************)
EXTENDS Samplers

CONSTANTS
  Block,        \* bytes of a block of the stream
  FirstBlocks,  \* ..._NBLOCKS
  BufBytes,     \* sizeof buf
  Eager,        \* the samplers that write an attempt before they accept it
  Row,          \* entries of the output array that are the sampler's own
  MaxRejections

ASSUME RejectionSamplerAssumption ==
  /\ Block \in [Names -> Nat \ {0}]
  /\ FirstBlocks \in [Names -> Nat \ {0}]
  /\ BufBytes \in [Names -> Nat]
  /\ Row \in [Names -> Nat]
  /\ Eager \subseteq Names
  /\ MaxRejections \in Nat
  /\ "none" \notin Names
  /\ \A s \in Names :
       /\ SignBytes[s] <= FirstBlocks[s] * Block[s]
       /\ FirstBlocks[s] * Block[s] <= BufBytes[s]
       /\ Block[s] + Width[s] - 1 <= BufBytes[s]
       /\ Count[s] <= Row[s] \/ (Batch[s] = 1 /\ Count[s] = Row[s] + 1)

VARIABLES
  pc,         \* "start", "scan", "refill", "done"
  sampler,
  buf,        \* a stream position per byte, or Unset
  bytecnt,    \* buflen
  firstflag,  \* 1 while buf begins with the sign bytes
  pos,
  ctr,
  base,
  squeezed,   \* stream bytes squeezed so far
  written,    \* output entries written so far, the highest index plus 1
  rejected,
  attempts,
  output

vars == <<pc, sampler, buf, bytecnt, firstflag, pos, ctr, base, squeezed,
          written, rejected, attempts, output>>

Unset == -1

(* Where the bytes of this call begin and end in buf.                      *)
Start == IF firstflag = 1 THEN SignBytes[sampler] ELSE 0
End == Start + bytecnt

-----------------------------------------------------------------------------
Init ==
  /\ pc = "start"
  /\ sampler = "none"
  /\ buf = <<>>
  /\ bytecnt = 0
  /\ firstflag = 1
  /\ pos = 0
  /\ ctr = 0
  /\ base = 0
  /\ squeezed = 0
  /\ written = 0
  /\ rejected = 0
  /\ attempts = 0
  /\ output = <<>>

Begin(s) ==
  /\ pc = "start"
  /\ LET length == FirstBlocks[s] * Block[s]
     IN  /\ buf' = [i \in 0 .. BufBytes[s] - 1 |-> IF i < length THEN i ELSE Unset]
         /\ bytecnt' = length - SignBytes[s]
         /\ squeezed' = length
  /\ sampler' = s
  /\ pos' = SignBytes[s]
  /\ pc' = "scan"
  /\ UNCHANGED <<firstflag, ctr, base, written, rejected, attempts, output>>

-----------------------------------------------------------------------------
(* Faulty variant of the next operator: no check between the samples of    *)
(* one byte.                                                               *)
YieldAll(s, wanted) == Batch[s]

Yield(s, wanted) == Least(Batch[s], wanted)

(* Faulty variant of the next operator: the inner function's index against *)
(* the length of the whole.                                                *)
LastOfAll(s, index, length) == index = Count[s] - 1

LastOfCall(s, index, length) == index = length - 1

(* sample_gauss: dont_write_last && coefcnt == len - 1.                    *)
Skips(s) == Row[s] < Count[s] /\ LastOfCall(s, ctr, Count[s] - base)

Highest(n) == IF n > written THEN n ELSE written

Attempting ==
  /\ pc = "scan"
  /\ ctr < Count[sampler] - base
  /\ pos + Width[sampler] <= End
  /\ pos' = pos + Width[sampler]
  /\ attempts' = attempts + 1
  /\ UNCHANGED <<pc, sampler, buf, bytecnt, firstflag, base, squeezed>>

Accept ==
  /\ Attempting
  /\ LET n == Yield(sampler, Count[sampler] - base - ctr)
         window == [k \in 1 .. Width[sampler] |-> buf[pos + k - 1]]
     IN  /\ output' = output \o Samples(window, n)
         /\ written' = IF Skips(sampler) THEN written ELSE Highest(base + ctr + n)
         /\ ctr' = ctr + n
  /\ UNCHANGED rejected

Reject ==
  /\ Attempting
  /\ rejected < MaxRejections
  /\ rejected' = rejected + 1
  /\ written' = IF sampler \in Eager /\ ~Skips(sampler)
                   THEN Highest(base + ctr + 1) ELSE written
  /\ UNCHANGED <<ctr, output>>

Return ==
  /\ pc = "scan"
  /\ ctr = Count[sampler] - base \/ pos + Width[sampler] > End
  /\ base' = base + ctr
  /\ ctr' = 0
  /\ pc' = IF base' < Count[sampler] THEN "refill" ELSE "done"
  /\ UNCHANGED <<sampler, buf, bytecnt, firstflag, pos, squeezed, written,
                 rejected, attempts, output>>

(* Faulty variant of the next operator: the signs forgotten.               *)
CarriedFromCount(off) == bytecnt - off

CarriedFrom(off) == End - off

(* buf[i] = buf[... - off + i], then one block after them.                 *)
Refill ==
  /\ pc = "refill"
  /\ LET off == bytecnt % Width[sampler]
         length == off + Block[sampler]
     IN  /\ buf' = [i \in DOMAIN buf |->
                      IF i < off THEN buf[CarriedFrom(off) + i]
                      ELSE IF i < length THEN squeezed + (i - off)
                      ELSE buf[i]]
         /\ bytecnt' = length
  /\ squeezed' = squeezed + Block[sampler]
  /\ firstflag' = 0
  /\ pos' = 0
  /\ pc' = "scan"
  /\ UNCHANGED <<sampler, ctr, base, written, rejected, attempts, output>>

Next == (\E s \in Names : Begin(s)) \/ Accept \/ Reject \/ Return \/ Refill
Spec == Init /\ [][Next]_vars

-----------------------------------------------------------------------------
(* Properties.                                                             *)

TypeOK ==
  /\ pc \in {"start", "scan", "refill", "done"}
  /\ sampler \in Names \cup {"none"}
  /\ pc = "start" <=> sampler = "none"
  /\ firstflag \in {0, 1}
  /\ {bytecnt, pos, ctr, base, squeezed, written, attempts} \subseteq Nat
  /\ rejected \in 0 .. MaxRejections
  /\ pc # "start" =>
       /\ buf \in [0 .. BufBytes[sampler] - 1 -> Nat \cup {Unset}]
       /\ pos <= End /\ End <= BufBytes[sampler]
       /\ base + ctr <= Count[sampler]
       /\ Len(output) = base + ctr

(* A sampler writes only its own entries: the extra sample of the first    *)
(* two Gaussian rows belongs to the next row's place (sampler.c:434).      *)
InsideRow == pc # "start" => written <= Row[sampler]

(* Every sample is made from the next window of the stream, across blocks  *)
(* and calls: no byte is skipped, read twice, or read before it is there.  *)
Stream == INSTANCE StreamSampler
ImplementsStream == Stream!Spec
=============================================================================
