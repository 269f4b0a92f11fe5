------------------------------ MODULE Getrandom ------------------------------
(***************************************************************************)
(* kpqc_fill_random of native/randombytes.c on Linux: the loop that turns  *)
(* the kernel's getrandom(2), which may answer with fewer bytes than were  *)
(* asked for or be interrupted by a signal, into one call that either      *)
(* fills the whole destination or fails.  Every scheme core draws through  *)
(* this function, so KpqcCall is built on top of this module.              *)
(***************************************************************************)
EXTENDS Integers

CONSTANTS
  DrawBytes,   \* bytes asked for by one call (the cores ask for 16 to 64)
  MaxSignals   \* bound on the EINTR answers one call meets

ASSUME GetrandomAssumption ==
  /\ DrawBytes \in Nat \ {0}
  /\ MaxSignals \in Nat

VARIABLES
  rng,      \* control state of the loop
  length,   \* the loop's length: bytes still to read
  output,   \* the loop's output pointer, as an offset into the destination
  written,  \* offsets of the destination the kernel has written
  signals,  \* EINTR answers seen by this call
  kernel    \* "refused" once it has answered with an error or with 0 bytes

rngVars == <<rng, length, output, written, signals, kernel>>

Destination == 0 .. DrawBytes - 1

RngInit ==
  /\ rng = "idle"
  /\ length = 0
  /\ output = 0
  /\ written = {}
  /\ signals = 0
  /\ kernel = "answering"

(* randombytes(buffer, DrawBytes) enters the loop.                         *)
FillStart ==
  /\ rng' = "reading"
  /\ length' = DrawBytes
  /\ output' = 0
  /\ written' = {}
  /\ signals' = 0
  /\ kernel' = "answering"

(* Faulty variant of the bookkeeping below: the pointer is not advanced.   *)
AdvanceStuckPointer(count) ==
  /\ output' = output
  /\ length' = length - count

(* Faulty variant of the bookkeeping below: the length is not reduced.     *)
AdvanceSameLength(count) ==
  /\ output' = output + count
  /\ length' = length

(* output += count; length -= count                                        *)
Advance(count) ==
  /\ output' = output + count
  /\ length' = length - count

(* A positive answer: count bytes land at the pointer.                     *)
FillRead ==
  /\ rng = "reading"
  /\ length # 0
  /\ \E count \in 1 .. length :
        /\ written' = written \cup (output .. output + count - 1)
        /\ Advance(count)
  /\ UNCHANGED <<rng, signals, kernel>>

(* EINTR continues the loop with the same pointer and length.              *)
FillInterrupted ==
  /\ rng = "reading"
  /\ length # 0
  /\ signals < MaxSignals
  /\ signals' = signals + 1
  /\ UNCHANGED <<rng, length, output, written, kernel>>

(* Any other error, or an answer of 0 bytes, ends the call with -1.        *)
FillRefused ==
  /\ rng = "reading"
  /\ length # 0
  /\ rng' = "failed"
  /\ kernel' = "refused"
  /\ UNCHANGED <<length, output, written, signals>>

(* while (length != 0) ends and the call returns 0.                        *)
FillDone ==
  /\ rng = "reading"
  /\ length = 0
  /\ rng' = "filled"
  /\ UNCHANGED <<length, output, written, signals, kernel>>

RngNext == FillRead \/ FillInterrupted \/ FillRefused \/ FillDone

-----------------------------------------------------------------------------
RngTypeOK ==
  /\ rng \in {"idle", "reading", "filled", "failed"}
  /\ length \in 0 .. DrawBytes
  /\ output \in 0 .. DrawBytes
  /\ written \subseteq Destination
  /\ signals \in 0 .. MaxSignals
  /\ kernel \in {"answering", "refused"}

(* A successful draw has filled every byte of the destination, however the *)
(* kernel cut the answers, and a failed one is never the work of a signal: *)
(* kpqc_fill_random returns 0 only with nothing left to read, and -1 only  *)
(* after the kernel refused (randombytes.c:36-46).                         *)
EntropyComplete ==
  /\ rng = "filled" => written = Destination
  /\ rng = "failed" => kernel = "refused"
=============================================================================
