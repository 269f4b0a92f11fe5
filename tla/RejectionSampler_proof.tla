----------------------- MODULE RejectionSampler_proof -----------------------
(***************************************************************************)
(* HAETAE's samplers read their streams window by window, for every block  *)
(* length, window width, head and number of samples.  The invariant ties   *)
(* the buffer to the stream: the unread bytes of buf, from pos to End, are *)
(* the last ones squeezed, and the first of them is the first byte of the  *)
(* next window.  That a refill carries exactly the unread bytes rests on   *)
(* pos being a multiple of the width away from Start.                      *)
(***************************************************************************)
EXTENDS RejectionSampler, SequenceTheorems, TLAPS

Sample == Seq(Int) \X Nat

(* The stream position of the next window.                                 *)
Here == SignBytes[sampler] + attempts * Width[sampler]

Control ==
  /\ pc \in {"start", "scan", "refill", "done"}
  /\ sampler \in Names \cup {"none"}
  /\ pc = "start" <=> sampler = "none"
  /\ firstflag \in {0, 1}
  /\ pc = "start" => /\ firstflag = 1 /\ ctr = 0 /\ base = 0 /\ written = 0
                     /\ attempts = 0 /\ output = <<>>
  /\ pc \in {"refill", "done"} => ctr = 0

Numbers ==
  /\ bytecnt \in Nat
  /\ pos \in Nat
  /\ ctr \in Nat
  /\ base \in Nat
  /\ squeezed \in Nat
  /\ written \in Nat
  /\ attempts \in Nat
  /\ rejected \in 0 .. MaxRejections

Counted ==
  /\ output \in Seq(Sample)
  /\ Len(output) = base + ctr
  /\ pc # "start" => base + ctr <= Count[sampler] /\ written <= Row[sampler]
  /\ pc = "refill" => base < Count[sampler]

Placed ==
  pc # "start" =>
    /\ pos <= End /\ End <= BufBytes[sampler]
    /\ \E m \in Nat : pos = Start + m * Width[sampler]
    /\ squeezed = Here + (End - pos)
    /\ pc = "refill" => End - pos < Width[sampler]

Filled ==
  pc # "start" =>
    /\ buf \in [0 .. BufBytes[sampler] - 1 -> Nat \cup {Unset}]
    /\ \A i \in pos .. End - 1 : buf[i] = Here + (i - pos)

IInv == Control /\ Numbers /\ Counted /\ Placed /\ Filled

-----------------------------------------------------------------------------
LEMMA Parameters ==
  ASSUME NEW s \in Names
  PROVE  /\ Width[s] \in Nat \ {0}
         /\ SignBytes[s] \in Nat
         /\ Batch[s] \in Nat \ {0}
         /\ Count[s] \in Nat \ {0}
         /\ Block[s] \in Nat \ {0}
         /\ FirstBlocks[s] * Block[s] \in Nat
         /\ BufBytes[s] \in Nat
         /\ Row[s] \in Nat
         /\ s # "none"
         /\ SignBytes[s] <= FirstBlocks[s] * Block[s]
         /\ FirstBlocks[s] * Block[s] <= BufBytes[s]
         /\ Block[s] + Width[s] - 1 <= BufBytes[s]
         /\ Count[s] <= Row[s] \/ (Batch[s] = 1 /\ Count[s] = Row[s] + 1)
<1>1. FirstBlocks[s] \in Nat /\ Block[s] \in Nat
  BY RejectionSamplerAssumption
<1>2. FirstBlocks[s] * Block[s] \in Nat
  BY <1>1
<1> QED
  BY <1>2, SamplersAssumption, RejectionSamplerAssumption

LEMMA Remainder ==
  ASSUME NEW w \in Nat \ {0}, NEW m \in Nat, NEW r \in 0 .. w - 1
  PROVE  (m * w + r) % w = r
<1> DEFINE x == m * w + r
           q == x \div w
           p == x % w
<1>1. x \in Nat
  OBVIOUS
<1>2. q \in Int /\ p \in 0 .. w - 1 /\ x = q * w + p
  BY <1>1
<1> HIDE DEF q, p
<1>3. ~(q < m)
  <2>1. q < m => \E d \in Nat : m = q + 1 + d
    <3>1. q < m => m - q - 1 \in Nat /\ m = q + 1 + (m - q - 1)
      BY <1>2
    <3> QED
      BY <3>1
  <2>2. ASSUME NEW d \in Nat, m = q + 1 + d PROVE FALSE
    <3>1. m * w = q * w + w + d * w /\ d * w \in Nat
      BY <1>2, <2>2
    <3> QED
      BY <1>2, <3>1
  <2> QED
    BY <2>1, <2>2
<1>4. ~(m < q)
  <2>1. m < q => \E d \in Nat : q = m + 1 + d
    <3>1. m < q => q - m - 1 \in Nat /\ q = m + 1 + (q - m - 1)
      BY <1>2
    <3> QED
      BY <3>1
  <2>2. ASSUME NEW d \in Nat, q = m + 1 + d PROVE FALSE
    <3>1. q * w = m * w + w + d * w /\ d * w \in Nat
      BY <1>2, <2>2
    <3> QED
      BY <1>2, <3>1
  <2> QED
    BY <2>1, <2>2
<1>5. q = m
  BY <1>2, <1>3, <1>4
<1> QED
  BY <1>2, <1>5 DEF p

LEMMA SamplesMade ==
  ASSUME NEW window \in Seq(Int), NEW n \in Nat
  PROVE  Samples(window, n) \in Seq(Sample) /\ Len(Samples(window, n)) = n
<1>1. \A j \in 1 .. n : <<window, j>> \in Sample
  BY DEF Sample
<1> QED
  BY <1>1 DEF Samples

LEMMA OutputGrows ==
  ASSUME NEW out \in Seq(Sample), NEW window \in Seq(Int), NEW n \in Nat
  PROVE  /\ out \o Samples(window, n) \in Seq(Sample)
         /\ Len(out \o Samples(window, n)) = Len(out) + n
<1> DEFINE more == Samples(window, n)
<1>1. more \in Seq(Sample) /\ Len(more) = n
  BY SamplesMade
<1> HIDE DEF more
<1>2. out \o more \in Seq(Sample) /\ Len(out \o more) = Len(out) + Len(more)
  BY <1>1, ConcatProperties
<1> QED
  BY <1>1, <1>2 DEF more

-----------------------------------------------------------------------------
LEMMA InitIInv == Init => IInv
<1> SUFFICES ASSUME Init PROVE IInv
  OBVIOUS
<1> USE DEF Init
<1>1. Control
  BY DEF Control
<1>2. Numbers
  BY RejectionSamplerAssumption DEF Numbers
<1>3. Counted
  BY DEF Counted
<1>4. Placed
  BY DEF Placed
<1>5. Filled
  BY DEF Filled
<1> QED
  BY <1>1, <1>2, <1>3, <1>4, <1>5 DEF IInv

LEMMA BeginIInv ==
  ASSUME IInv, NEW s \in Names, Begin(s)
  PROVE  IInv'
<1> DEFINE length == FirstBlocks[s] * Block[s]
           size == BufBytes[s]
           head == SignBytes[s]
<1>1. /\ length \in Nat /\ size \in Nat /\ head \in Nat
      /\ head <= length /\ length <= size /\ s # "none"
      /\ Width[s] \in Nat \ {0} /\ Count[s] \in Nat /\ Row[s] \in Nat
  BY Parameters
<1>2. /\ pc = "start" /\ pc' = "scan" /\ sampler' = s
      /\ buf' = [i \in 0 .. size - 1 |-> IF i < length THEN i ELSE Unset]
      /\ bytecnt' = length - head
      /\ squeezed' = length
      /\ pos' = head
      /\ UNCHANGED <<firstflag, ctr, base, written, rejected, attempts, output>>
  BY DEF Begin
<1> HIDE DEF length, size, head
<1>3. /\ firstflag' = 1 /\ ctr' = 0 /\ base' = 0 /\ written' = 0
      /\ attempts' = 0 /\ output' = <<>>
  BY <1>2 DEF IInv, Control
<1>4. Start' = head /\ End' = length /\ Here' = head
  <2>1. 0 * Width[s] = 0 /\ head + (length - head) = length /\ head + 0 = head
    BY <1>1
  <2> QED
    BY <1>2, <1>3, <2>1 DEF Start, End, Here, head
<1>5. Control'
  BY <1>1, <1>2, <1>3 DEF Control
<1>6. Numbers'
  BY <1>1, <1>2 DEF IInv, Numbers
<1>7. Counted'
  BY <1>1, <1>2, <1>3 DEF IInv, Counted
<1>8. Placed'
  <2>1. head = head + 0 * Width[s] /\ length = head + (length - head)
    BY <1>1
  <2> QED
    BY <1>1, <1>2, <1>4, <2>1 DEF Placed, size
<1>9. Filled'
  <2>1. buf' \in [0 .. size - 1 -> Nat \cup {Unset}]
    BY <1>2
  <2>2. ASSUME NEW i \in head .. length - 1 PROVE buf'[i] = head + (i - head)
    BY <1>1, <1>2
  <2> QED
    BY <1>2, <1>4, <2>1, <2>2 DEF Filled, size
<1> QED
  BY <1>5, <1>6, <1>7, <1>8, <1>9 DEF IInv

(* What every attempt does to the place in the stream.                     *)
LEMMA AttemptingMoves ==
  ASSUME IInv, Attempting
  PROVE  /\ sampler \in Names
         /\ Placed' /\ Filled'
         /\ [k \in 1 .. Width[sampler] |-> buf[pos + k - 1]] = Window(sampler, attempts)
<1> DEFINE w == Width[sampler]
<1>1. pc = "scan" /\ pc' = "scan" /\ sampler' = sampler /\ sampler \in Names
  BY DEF IInv, Control, Attempting
<1>2. w \in Nat \ {0} /\ SignBytes[sampler] \in Nat /\ BufBytes[sampler] \in Nat
  BY <1>1, Parameters
<1>3. /\ pos' = pos + w
      /\ attempts' = attempts + 1
      /\ pos + w <= End
      /\ UNCHANGED <<buf, bytecnt, firstflag, squeezed>>
  BY DEF Attempting
<1>4. pos \in Nat /\ attempts \in Nat /\ squeezed \in Nat /\ bytecnt \in Nat
  BY DEF IInv, Numbers
<1>5. Start \in Nat /\ End \in Nat /\ End' = End /\ Start' = Start
  BY <1>1, <1>2, <1>3, <1>4 DEF Start, End
<1>6. Here \in Nat /\ Here' = Here + w
  <2>1. attempts * w \in Nat /\ (attempts + 1) * w = attempts * w + w
    BY <1>2, <1>4
  <2>2. Here = SignBytes[sampler] + attempts * w
    BY DEF Here
  <2>3. Here' = SignBytes[sampler] + (attempts + 1) * w
    BY <1>1, <1>3 DEF Here
  <2> HIDE DEF w
  <2> QED
    BY <1>2, <2>1, <2>2, <2>3
<1> HIDE DEF w
<1>7. Placed'
  <2>1. PICK m \in Nat : pos = Start + m * w
    BY <1>1 DEF IInv, Placed, w
  <2>2. m + 1 \in Nat /\ pos' = Start' + (m + 1) * w
    <3>1. PICK mw \in Nat : mw = m * w
      BY <1>2
    <3>2. (m + 1) * w = mw + w
      BY <1>2, <3>1
    <3>3. pos' = Start + mw + w
      BY <1>3, <2>1, <3>1
    <3>4. Start + mw + w = Start + (mw + w)
      BY <1>2, <1>5
    <3> QED
      BY <1>5, <3>2, <3>3, <3>4
  <2>3. squeezed' = Here' + (End' - pos')
    <3>1. squeezed = Here + (End - pos)
      BY <1>1 DEF IInv, Placed
    <3> QED
      BY <1>2, <1>3, <1>4, <1>5, <1>6, <3>1
  <2>4. pos' <= End' /\ End' <= BufBytes[sampler']
    BY <1>1, <1>3, <1>5 DEF IInv, Placed
  <2> QED
    BY <1>1, <2>2, <2>3, <2>4 DEF Placed, w
<1>8. \A i \in pos .. End - 1 : buf[i] = Here + (i - pos)
  BY <1>1 DEF IInv, Filled
<1>9. Filled'
  <2>1. buf' \in [0 .. BufBytes[sampler'] - 1 -> Nat \cup {Unset}]
    BY <1>1, <1>3 DEF IInv, Filled
  <2>2. ASSUME NEW i \in pos' .. End' - 1 PROVE buf'[i] = Here' + (i - pos')
    BY <1>2, <1>3, <1>4, <1>5, <1>6, <1>8
  <2> QED
    BY <2>1, <2>2 DEF Filled
<1>10. [k \in 1 .. w |-> buf[pos + k - 1]] = Window(sampler, attempts)
  <2>1. ASSUME NEW k \in 1 .. w PROVE buf[pos + k - 1] = Here + k - 1
    <3>1. PICK at \in Int : at = pos + k - 1
      BY <1>2, <1>4
    <3>2. at \in pos .. End - 1
      BY <1>2, <1>3, <1>4, <1>5, <3>1
    <3>3. buf[at] = Here + (at - pos)
      BY <1>8, <3>2
    <3>4. Here + (at - pos) = Here + k - 1
      BY <1>2, <1>4, <1>6, <3>1
    <3> QED
      BY <3>1, <3>3, <3>4
  <2>2. Window(sampler, attempts) = [k \in 1 .. w |-> Here + k - 1]
    BY DEF Window, Here, w
  <2> QED
    BY <2>1, <2>2
<1> QED
  BY <1>1, <1>7, <1>9, <1>10 DEF w

LEMMA WindowType ==
  ASSUME NEW s \in Names, NEW t \in Nat
  PROVE  Window(s, t) \in Seq(Int)
<1>1. Width[s] \in Nat /\ SignBytes[s] \in Nat /\ t * Width[s] \in Nat
  BY Parameters
<1>2. \A k \in 1 .. Width[s] : SignBytes[s] + t * Width[s] + k - 1 \in Int
  BY <1>1
<1> QED
  BY <1>1, <1>2 DEF Window

(* The samples of an accepted attempt, and the entries it may write.       *)
LEMMA Yielded ==
  ASSUME IInv, Attempting
  PROVE  LET left == Count[sampler] - base - ctr
             n == Yield(sampler, left)
         IN  /\ n \in Nat /\ n <= left /\ left \in Nat /\ left > 0
             /\ ~Skips(sampler) => /\ Highest(base + ctr + n) \in 0 .. Row[sampler]
                                   /\ Highest(base + ctr + 1) \in 0 .. Row[sampler]
<1> DEFINE s == sampler
           left == Count[s] - base - ctr
           n == Yield(s, left)
<1>1. pc = "scan" /\ s \in Names /\ ctr < Count[s] - base
  BY DEF IInv, Control, Attempting
<1>2. /\ Batch[s] \in Nat \ {0} /\ Count[s] \in Nat /\ Row[s] \in Nat
      /\ Count[s] <= Row[s] \/ (Batch[s] = 1 /\ Count[s] = Row[s] + 1)
  BY <1>1, Parameters
<1>3. base \in Nat /\ ctr \in Nat /\ written \in Nat /\ written <= Row[s]
  BY <1>1 DEF IInv, Numbers, Counted
<1>4. left \in Nat /\ left > 0
  BY <1>1, <1>2, <1>3
<1>5. n \in Nat /\ n <= left /\ (Batch[s] = 1 => n = 1)
  BY <1>2, <1>4 DEF Yield, Least
<1>6. ASSUME ~Skips(s)
      PROVE  base + ctr + n <= Row[s] /\ base + ctr + 1 <= Row[s]
  <2>1. CASE Count[s] <= Row[s]
    BY <1>2, <1>3, <1>4, <1>5, <2>1
  <2>2. CASE Batch[s] = 1 /\ Count[s] = Row[s] + 1
    <3>1. ctr # Count[s] - base - 1
      BY <1>2, <1>6, <2>2 DEF Skips, LastOfCall
    <3> QED
      BY <1>2, <1>3, <1>4, <1>5, <2>2, <3>1
  <2> QED
    BY <1>2, <2>1, <2>2
<1>7. ASSUME ~Skips(s)
      PROVE  Highest(base + ctr + n) \in 0 .. Row[s] /\ Highest(base + ctr + 1) \in 0 .. Row[s]
  <2> HIDE DEF n
  <2> QED
    BY <1>2, <1>3, <1>5, <1>6, <1>7 DEF Highest
<1> QED
  BY <1>4, <1>5, <1>7

LEMMA AcceptIInv ==
  ASSUME IInv, Accept
  PROVE  IInv' /\ [Stream!Next]_(Stream!vars)
<1>1. Attempting
  BY DEF Accept
<1>2. /\ sampler \in Names /\ Placed' /\ Filled'
      /\ [k \in 1 .. Width[sampler] |-> buf[pos + k - 1]] = Window(sampler, attempts)
  BY <1>1, AttemptingMoves
<1>3. /\ pc = "scan" /\ UNCHANGED <<pc, sampler, bytecnt, firstflag, base, squeezed, rejected>>
      /\ pos' = pos + Width[sampler]
      /\ attempts' = attempts + 1
  BY DEF Accept, Attempting
<1>4. Width[sampler] \in Nat /\ Count[sampler] \in Nat /\ Row[sampler] \in Nat
  BY <1>2, Parameters
<1> DEFINE left == Count[sampler] - base - ctr
           n == Yield(sampler, left)
           window == Window(sampler, attempts)
<1>5. /\ output' = output \o Samples(window, n)
      /\ ctr' = ctr + n
      /\ written' = IF Skips(sampler) THEN written ELSE Highest(base + ctr + n)
  BY <1>2 DEF Accept
<1>6. /\ n \in Nat /\ n <= left /\ left \in Nat /\ left > 0
      /\ ~Skips(sampler) => Highest(base + ctr + n) \in 0 .. Row[sampler]
  BY <1>1, Yielded
<1>7. window \in Seq(Int)
  BY <1>2, WindowType DEF IInv, Numbers
<1>8. Stream!Samples(window, n) = Samples(window, n)
  BY DEF Samples, Stream!Samples
<1>9. Stream!Attempt
  <2>1. Len(output) = base + ctr /\ base \in Nat /\ ctr \in Nat
    BY DEF IInv, Counted, Numbers
  <2>2. Count[sampler] - Len(output) = left /\ Len(output) < Count[sampler]
    BY <1>4, <1>6, <2>1
  <2>3. n = Stream!Least(Batch[sampler], Count[sampler] - Len(output))
    BY <2>2 DEF Yield, Least, Stream!Least
  <2>4. Stream!Window(sampler, attempts) = window
    BY DEF Window, Stream!Window
  <2> QED
    BY <1>2, <1>3, <1>5, <1>8, <2>2, <2>3, <2>4 DEF Stream!Attempt
<1> HIDE DEF n, window
<1>10. output' \in Seq(Sample) /\ Len(output') = Len(output) + n
  BY <1>5, <1>6, <1>7, OutputGrows DEF IInv, Counted
<1>11. written' \in 0 .. Row[sampler]
  BY <1>3, <1>4, <1>5, <1>6 DEF IInv, Numbers, Counted
<1>12. Control'
  BY <1>2, <1>3, RejectionSamplerAssumption DEF IInv, Control
<1>13. Numbers'
  <2>1. ctr' \in Nat
    BY <1>5, <1>6 DEF IInv, Numbers
  <2>2. written' \in Nat
    BY <1>4, <1>11
  <2>3. pos' \in Nat /\ attempts' \in Nat
    BY <1>3, <1>4 DEF IInv, Numbers
  <2> QED
    BY <1>3, <2>1, <2>2, <2>3 DEF IInv, Numbers
<1>14. Counted'
  BY <1>3, <1>4, <1>5, <1>6, <1>10, <1>11 DEF IInv, Numbers, Counted
<1> QED
  BY <1>2, <1>9, <1>12, <1>13, <1>14 DEF IInv, Stream!Next

LEMMA RejectIInv ==
  ASSUME IInv, Reject
  PROVE  IInv' /\ [Stream!Next]_(Stream!vars)
<1>1. Attempting
  BY DEF Reject
<1>2. sampler \in Names /\ Placed' /\ Filled'
  BY <1>1, AttemptingMoves
<1>3. /\ pc = "scan" /\ UNCHANGED <<pc, sampler, bytecnt, firstflag, base, squeezed, ctr, output>>
      /\ pos' = pos + Width[sampler]
      /\ attempts' = attempts + 1
      /\ rejected < MaxRejections /\ rejected' = rejected + 1
  BY DEF Reject, Attempting
<1>4. Width[sampler] \in Nat /\ Count[sampler] \in Nat /\ Row[sampler] \in Nat
  BY <1>2, Parameters
<1>5. written' \in 0 .. Row[sampler]
  <2>1. written' = written \/ (~Skips(sampler) /\ written' = Highest(base + ctr + 1))
    BY DEF Reject
  <2>2. ~Skips(sampler) => Highest(base + ctr + 1) \in 0 .. Row[sampler]
    BY <1>1, Yielded
  <2>3. written \in 0 .. Row[sampler]
    BY <1>3, <1>4 DEF IInv, Numbers, Counted
  <2> QED
    BY <2>1, <2>2, <2>3
<1>6. Stream!Attempt
  <2>1. Len(output) < Count[sampler]
    BY <1>1, <1>4 DEF IInv, Counted, Numbers, Attempting
  <2> QED
    BY <1>2, <1>3, <2>1 DEF Stream!Attempt
<1>7. Control'
  BY <1>2, <1>3, RejectionSamplerAssumption DEF IInv, Control
<1>8. Numbers'
  BY <1>3, <1>4, <1>5, RejectionSamplerAssumption DEF IInv, Numbers
<1>9. Counted'
  BY <1>3, <1>4, <1>5 DEF IInv, Counted
<1> QED
  BY <1>2, <1>6, <1>7, <1>8, <1>9 DEF IInv, Stream!Next

LEMMA ReturnIInv ==
  ASSUME IInv, Return
  PROVE  IInv'
<1> DEFINE w == Width[sampler]
           c == Count[sampler]
<1>1. pc = "scan" /\ sampler' = sampler /\ sampler \in Names /\ sampler # "none"
  BY RejectionSamplerAssumption DEF IInv, Control, Return
<1>2. w \in Nat \ {0} /\ c \in Nat /\ Row[sampler] \in Nat
  BY <1>1, Parameters
<1>3. /\ ctr = c - base \/ pos + w > End
      /\ base' = base + ctr /\ ctr' = 0
      /\ pc' = IF base' < c THEN "refill" ELSE "done"
      /\ UNCHANGED <<buf, bytecnt, firstflag, pos, squeezed, written, rejected,
                     attempts, output>>
  BY DEF Return
<1>4. /\ base \in Nat /\ ctr \in Nat /\ pos \in Nat /\ bytecnt \in Nat
      /\ base + ctr <= c /\ written <= Row[sampler]
  BY <1>1 DEF IInv, Numbers, Counted
<1> HIDE DEF w, c
<1>5. pc' \in {"refill", "done"} /\ (pc' = "refill" => base' < c)
  BY <1>3
<1>6. Control'
  BY <1>1, <1>3, <1>5 DEF IInv, Control
<1>7. Numbers'
  BY <1>3, <1>4 DEF IInv, Numbers
<1>8. Counted'
  BY <1>1, <1>2, <1>3, <1>4, <1>5 DEF IInv, Counted, c
<1>9. Start' = Start /\ End' = End /\ Here' = Here
  BY <1>1, <1>3 DEF Start, End, Here
<1>10. pc' = "refill" => End' - pos' < w
  <2>1. End \in Int
    BY <1>1, <1>4, Parameters DEF End, Start
  <2> QED
    BY <1>2, <1>3, <1>4, <1>9, <2>1
<1>11. Placed'
  BY <1>1, <1>3, <1>9, <1>10 DEF IInv, Placed, w
<1>12. Filled'
  BY <1>1, <1>3, <1>9 DEF IInv, Filled
<1> QED
  BY <1>6, <1>7, <1>8, <1>11, <1>12 DEF IInv

LEMMA RefillIInv ==
  ASSUME IInv, Refill
  PROVE  IInv'
<1> DEFINE w == Width[sampler]
           size == BufBytes[sampler]
           more == Block[sampler]
           off == bytecnt % w
<1>1. pc = "refill" /\ pc' = "scan" /\ sampler' = sampler /\ sampler \in Names
  BY DEF IInv, Control, Refill
<1>2. /\ w \in Nat \ {0} /\ size \in Nat /\ more \in Nat \ {0}
      /\ more + w - 1 <= size /\ SignBytes[sampler] \in Nat
  BY <1>1, Parameters
<1>3. /\ buf' = [i \in DOMAIN buf |->
                   IF i < off THEN buf[CarriedFrom(off) + i]
                   ELSE IF i < off + more THEN squeezed + (i - off)
                   ELSE buf[i]]
      /\ bytecnt' = off + more
      /\ squeezed' = squeezed + more
      /\ firstflag' = 0
      /\ pos' = 0
      /\ UNCHANGED <<ctr, base, written, rejected, attempts, output>>
  BY DEF Refill
<1>4. /\ pos \in Nat /\ bytecnt \in Nat /\ squeezed \in Nat /\ attempts \in Nat
  BY DEF IInv, Numbers
<1>5. Start \in Nat /\ End = Start + bytecnt
  BY <1>2 DEF Start, End
<1>6. /\ pos <= End /\ End <= size
      /\ squeezed = Here + (End - pos)
      /\ End - pos < w
  BY <1>1 DEF IInv, Placed
<1>7. off = End - pos
  <2>1. PICK m \in Nat : pos = Start + m * w
    BY <1>1 DEF IInv, Placed
  <2> DEFINE r == End - pos
  <2>2. r \in 0 .. w - 1 /\ m * w \in Nat
    BY <1>2, <1>4, <1>5, <1>6
  <2>3. bytecnt = m * w + r
    BY <1>4, <1>5, <2>1, <2>2
  <2> HIDE DEF r, w
  <2>4. (m * w + r) % w = r
    BY <1>2, <2>2, Remainder
  <2> QED
    BY <2>3, <2>4 DEF r
<1>8. /\ buf \in [0 .. size - 1 -> Nat \cup {Unset}]
      /\ \A i \in pos .. End - 1 : buf[i] = Here + (i - pos)
  BY <1>1 DEF IInv, Filled
<1>9. Here \in Nat /\ Here' = Here
  <2>1. attempts * w \in Nat
    BY <1>2, <1>4
  <2> QED
    BY <1>1, <1>2, <1>3, <2>1 DEF Here
<1>10. Start' = 0 /\ End' = off + more
  <2>1. off \in Nat
    BY <1>4, <1>5, <1>6, <1>7
  <2> QED
    BY <1>2, <1>3, <2>1 DEF Start, End
<1> HIDE DEF w, size, more, off
<1>11. off \in 0 .. w - 1
  BY <1>2, <1>4, <1>5, <1>6, <1>7
<1>12. Control'
  BY <1>1, <1>3, RejectionSamplerAssumption DEF IInv, Control
<1>13. Numbers'
  BY <1>2, <1>3, <1>4, <1>11 DEF IInv, Numbers
<1>14. Counted'
  BY <1>1, <1>3 DEF IInv, Counted
<1>15. Placed'
  <2>1. pos' = Start' + 0 * Width[sampler]
    BY <1>2, <1>3, <1>10 DEF w
  <2>2. pos' <= End' /\ End' <= size
    BY <1>2, <1>3, <1>10, <1>11
  <2>3. squeezed' = Here' + (End' - pos')
    BY <1>2, <1>3, <1>4, <1>5, <1>6, <1>7, <1>9, <1>10, <1>11
  <2> QED
    BY <1>1, <2>1, <2>2, <2>3 DEF Placed, size
<1>16. Filled'
  <2>1. ASSUME NEW i \in 0 .. size - 1
        PROVE  /\ i < off => buf'[i] = Here + i
               /\ off <= i /\ i < off + more => buf'[i] = Here + i
               /\ buf'[i] \in Nat \cup {Unset}
    <3>1. buf'[i] = IF i < off THEN buf[CarriedFrom(off) + i]
                    ELSE IF i < off + more THEN squeezed + (i - off)
                    ELSE buf[i]
      BY <1>3, <1>8
    <3>2. CASE i < off
      <4>1. CarriedFrom(off) = pos
        BY <1>4, <1>5, <1>7 DEF CarriedFrom
      <4>2. pos + i \in pos .. End - 1 /\ pos + i - pos = i
        BY <1>4, <1>5, <1>6, <1>7, <3>2
      <4>3. buf[pos + i] = Here + i
        <5>1. PICK at \in Int : at = pos + i
          BY <1>4
        <5>2. at \in pos .. End - 1 /\ at - pos = i
          BY <1>4, <1>5, <4>2, <5>1
        <5> QED
          BY <1>8, <5>1, <5>2
      <4> QED
        BY <1>9, <3>1, <3>2, <4>1, <4>3
    <3>3. CASE off <= i /\ i < off + more
      <4>1. squeezed + (i - off) = Here + i
        BY <1>4, <1>5, <1>6, <1>7, <1>9, <1>11
      <4>2. buf'[i] = squeezed + (i - off)
        BY <1>11, <3>1, <3>3
      <4> QED
        BY <1>9, <1>11, <3>3, <4>1, <4>2
    <3>4. CASE off + more <= i
      <4>1. buf'[i] = buf[i]
        BY <1>2, <1>11, <3>1, <3>4
      <4> QED
        BY <1>2, <1>8, <1>11, <3>4, <4>1
    <3> QED
      BY <1>2, <1>11, <3>2, <3>3, <3>4
  <2>2. buf' \in [0 .. size - 1 -> Nat \cup {Unset}]
    BY <1>3, <1>8, <2>1
  <2>3. ASSUME NEW i \in pos' .. End' - 1 PROVE buf'[i] = Here' + (i - pos')
    <3>1. i \in 0 .. size - 1 /\ i < off + more /\ i - pos' = i
      BY <1>2, <1>3, <1>10, <1>11
    <3> QED
      BY <1>9, <1>11, <2>1, <3>1
  <2> QED
    BY <1>1, <2>2, <2>3 DEF Filled, size
<1> QED
  BY <1>12, <1>13, <1>14, <1>15, <1>16 DEF IInv

-----------------------------------------------------------------------------
LEMMA StepIInv == IInv /\ [Next]_vars => IInv' /\ [Stream!Next]_(Stream!vars)
<1> SUFFICES ASSUME IInv, [Next]_vars PROVE IInv' /\ [Stream!Next]_(Stream!vars)
  OBVIOUS
<1>1. ASSUME NEW s \in Names, Begin(s) PROVE IInv' /\ [Stream!Next]_(Stream!vars)
  <2>1. IInv'
    BY <1>1, BeginIInv
  <2>2. Stream!Start
    BY <1>1 DEF Begin, IInv, Control, Stream!Start
  <2> QED
    BY <2>1, <2>2 DEF Stream!Next
<1>2. CASE Accept
  BY <1>2, AcceptIInv
<1>3. CASE Reject
  BY <1>3, RejectIInv
<1>4. CASE Return
  BY <1>4, ReturnIInv DEF Return, Stream!vars
<1>5. CASE Refill
  BY <1>5, RefillIInv DEF Refill, Stream!vars
<1>6. CASE UNCHANGED vars
  <2> USE <1>6 DEF vars
  <2>1. Start' = Start /\ End' = End /\ Here' = Here
    BY DEF Start, End, Here
  <2>2. Control' /\ Numbers' /\ Counted'
    BY DEF IInv, Control, Numbers, Counted
  <2>3. Placed'
    BY <2>1 DEF IInv, Placed
  <2>4. Filled'
    BY <2>1 DEF IInv, Filled
  <2> QED
    BY <2>2, <2>3, <2>4 DEF IInv, Stream!vars
<1> QED
  BY <1>1, <1>2, <1>3, <1>4, <1>5, <1>6 DEF Next

THEOREM InductiveInvariant == Spec => []IInv
BY InitIInv, StepIInv, PTL DEF Spec

(* Every counter keeps its type, the buffer never overflows, and a sampler *)
(* never makes more samples than wanted.                                   *)
THEOREM TypeCorrect == Spec => []TypeOK
<1>1. IInv => TypeOK
  BY DEF IInv, Control, Numbers, Counted, Placed, Filled, TypeOK
<1> QED
  BY InductiveInvariant, <1>1, PTL

(* No sampler writes outside its row of the output.                        *)
THEOREM RowsApart == Spec => []InsideRow
<1>1. IInv => InsideRow
  BY DEF IInv, Counted, InsideRow
<1> QED
  BY InductiveInvariant, <1>1, PTL

(* The samplers implement StreamSampler: no stream byte is skipped, used   *)
(* twice, or used before it was squeezed, wherever the blocks end.         *)
THEOREM Refinement == Spec => ImplementsStream
<1>1. Init => Stream!Init
  BY DEF Init, Stream!Init
<1> QED
  BY InductiveInvariant, <1>1, StepIInv, PTL DEF Spec, ImplementsStream, Stream!Spec
=============================================================================
