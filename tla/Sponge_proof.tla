---------------------------- MODULE Sponge_proof ----------------------------
(***************************************************************************)
(* All four copies of fips202.c implement Xof, for every rate and every    *)
(* way of cutting messages and outputs.  The inductive invariants say what *)
(* the Keccak state is: while absorbing, `full` message blocks and the     *)
(* first pos bytes of the next; after finalize, the padded message and     *)
(* then zero blocks, b permutations after the padding.  Of the last state, *)
(* pos bytes have been handed out in HAETAE's and SMAUG-T's copies, and    *)
(* pos are still to be handed out in AIMer's and NTRU+'s.                  *)
(***************************************************************************)
EXTENDS SpongeConsumed, SpongeRemaining, SequenceTheorems, TLAPS

LEMMA Multiples ==
  ASSUME NEW a \in Int, NEW b \in Int, a < b
  PROVE  a * Rate + Rate <= b * Rate
<1> DEFINE d == b - a - 1
<1>1. d \in Nat
  OBVIOUS
<1>2. d * Rate \in Nat
  BY <1>1, RateAssumption
<1>3. b * Rate = (a + 1 + d) * Rate
  OBVIOUS
<1>4. (a + 1 + d) * Rate = a * Rate + Rate + d * Rate
  BY <1>1, RateAssumption
<1> QED
  BY <1>2, <1>3, <1>4, RateAssumption

(* Quotient and remainder by the rate are unique.                          *)
LEMMA Quotient ==
  ASSUME NEW b \in Nat, NEW i \in Positions
  PROVE  /\ b * Rate + i \in Nat
         /\ (b * Rate + i) \div Rate = b
         /\ (b * Rate + i) % Rate = i
<1> USE RateAssumption DEF Positions
<1> DEFINE x == b * Rate + i
           q == x \div Rate
           m == x % Rate
<1>1. x \in Nat
  OBVIOUS
<1>2. q \in Int /\ m \in 0 .. Rate - 1 /\ x = q * Rate + m
  BY <1>1
<1> HIDE DEF q, m
<1>3. ~(q < b)
  BY Multiples, <1>2
<1>4. ~(b < q)
  BY Multiples, <1>2
<1>5. q = b
  BY <1>2, <1>3, <1>4
<1> QED
  BY <1>1, <1>2, <1>5 DEF q, m

LEMMA QuotientExists ==
  ASSUME NEW n \in Nat
  PROVE  /\ n \div Rate \in Nat
         /\ n % Rate \in Positions
         /\ n = (n \div Rate) * Rate + (n % Rate)
BY RateAssumption DEF Positions

LEMMA XorFresh == ASSUME NEW x PROVE Xor({}, x) = {x}
BY DEF Xor

-----------------------------------------------------------------------------
(* A block being filled: p bytes of block full + 1.                        *)
Partial(full, p) == [i \in Positions |-> IF i < p THEN {full * Rate + i} ELSE {}]

LEMMA EmptyPartial == ASSUME NEW full \in Nat PROVE Partial(full, 0) = Zero
BY RateAssumption DEF Partial, Zero, Positions

LEMMA FullPartial ==
  ASSUME NEW full \in Nat
  PROVE  Partial(full, Rate) = MessageBlock(full + 1)
<1>1. full + 1 - 1 = full
  OBVIOUS
<1> QED
  BY <1>1, RateAssumption DEF Partial, MessageBlock, Positions

LEMMA FillPartial ==
  ASSUME NEW full \in Nat, NEW p \in 0 .. Rate, NEW c \in 0 .. Rate - p
  PROVE  XorMessage(Partial(full, p), p, c, full * Rate + p) = Partial(full, p + c)
<1>1. ASSUME NEW i \in Positions
      PROVE  (IF p <= i /\ i < p + c
                THEN Xor(Partial(full, p)[i], full * Rate + p + (i - p))
                ELSE Partial(full, p)[i])
             = IF i < p + c THEN {full * Rate + i} ELSE {}
  <2>1. full * Rate \in Nat /\ full * Rate + p + (i - p) = full * Rate + i
    BY RateAssumption DEF Positions
  <2>2. Partial(full, p)[i] = IF i < p THEN {full * Rate + i} ELSE {}
    BY DEF Partial
  <2>3. CASE i < p
    BY <2>2, <2>3, RateAssumption DEF Positions
  <2>4. CASE p <= i /\ i < p + c
    BY <2>1, <2>2, <2>4, XorFresh, RateAssumption DEF Positions
  <2>5. CASE p + c <= i
    BY <2>2, <2>5, RateAssumption DEF Positions
  <2> QED
    BY <2>3, <2>4, <2>5, RateAssumption DEF Positions
<1> QED
  BY <1>1 DEF XorMessage, Partial

LEMMA MessageBlocks ==
  ASSUME NEW n \in Nat, NEW j \in 1 .. n \div Rate
  PROVE  PaddedBlock(n, j) = MessageBlock(j)
<1>1. ASSUME NEW i \in Positions
      PROVE  (j - 1) * Rate + i < n
  <2>1. (j - 1) * Rate + Rate <= (n \div Rate) * Rate
    BY Multiples, QuotientExists
  <2> QED
    BY <2>1, QuotientExists, RateAssumption DEF Positions
<1>2. j # n \div Rate + 1
  BY QuotientExists
<1> QED
  BY <1>1, <1>2 DEF PaddedBlock, MessageBlock

(* Finalizing a partial block yields the padded one, also when the domain  *)
(* byte and the final bit share the last byte.                             *)
LEMMA LastBlock ==
  ASSUME NEW full \in Nat, NEW p \in Positions
  PROVE  XorPadding(Partial(full, p), p) = PaddedBlock(full * Rate + p, full + 1)
<1> DEFINE n == full * Rate + p
           Byte(i) == IF i < p THEN {full * Rate + i} ELSE IF i = p THEN {Domain} ELSE {}
           Bit(i) == IF i = Rate - 1 THEN {Last} ELSE {}
           padded == XorPadding(Partial(full, p), p)
<1>1. full * Rate \in Nat
  BY RateAssumption
<1>2. n \in Nat /\ n \div Rate = full
  BY Quotient
<1>3. DOMAIN padded = Positions /\ padded = [i \in Positions |-> padded[i]]
  BY DEF XorPadding, XorByte, Partial
<1>4. ASSUME NEW i \in Positions
      PROVE  padded[i] = Byte(i) \cup Bit(i)
  <2> DEFINE once == XorByte(Partial(full, p), p, Domain)
  <2>1. once[i] = Byte(i)
    <3>1. Partial(full, p)[i] = IF i < p THEN {full * Rate + i} ELSE {}
      BY DEF Partial
    <3>2. CASE i = p
      <4>1. Partial(full, p)[p] = {} /\ ~(p < p)
        BY <3>1, <3>2 DEF Positions
      <4>2. once[p] = Xor(Partial(full, p)[p], Domain)
        BY DEF XorByte, Partial
      <4> QED
        BY <3>2, <4>1, <4>2, XorFresh
    <3>3. CASE i # p
      BY <3>1, <3>3 DEF XorByte, Partial
    <3> QED
      BY <3>2, <3>3
  <2>2. padded[i] = IF i = Rate - 1 THEN Xor(once[i], Last) ELSE once[i]
    BY DEF XorPadding, XorByte, Partial
  <2>3. Last \notin Byte(i)
    BY <1>1 DEF Last, Domain, Positions
  <2> HIDE DEF padded, once, Byte
  <2> QED
    BY <2>1, <2>2, <2>3 DEF Xor
<1>5. ASSUME NEW i \in Positions
      PROVE  PaddedBlock(n, full + 1)[i] = Byte(i) \cup Bit(i)
  <2>1. full + 1 - 1 = full
    OBVIOUS
  <2>2. full * Rate + i < n <=> i < p
    BY <1>1 DEF Positions
  <2>3. full * Rate + i = n <=> i = p
    BY <1>1 DEF Positions
  <2> HIDE DEF n
  <2> QED
    BY <1>2, <2>1, <2>2, <2>3 DEF PaddedBlock
<1>6. PaddedBlock(n, full + 1) = [i \in Positions |-> PaddedBlock(n, full + 1)[i]]
  BY DEF PaddedBlock
<1> HIDE DEF n, padded
<1>7. padded = PaddedBlock(n, full + 1)
  <2>1. \A i \in Positions : padded[i] = PaddedBlock(n, full + 1)[i]
    <3> HIDE DEF Byte, Bit
    <3> QED
      BY <1>4, <1>5
  <2> DEFINE other == PaddedBlock(n, full + 1)
  <2> HIDE DEF other
  <2>2. padded = [i \in Positions |-> padded[i]] /\ other = [i \in Positions |-> other[i]]
    BY <1>3, <1>6 DEF other
  <2>3. \A i \in Positions : padded[i] = other[i]
    BY <2>1 DEF other
  <2>4. padded = other
    BY <2>2, <2>3
  <2> QED
    BY <2>4 DEF other
<1> QED
  BY <1>7 DEF n, padded

LEMMA ZeroBlocks ==
  ASSUME NEW n \in Nat, NEW j \in Nat, j > n \div Rate + 1
  PROVE  PaddedBlock(n, j) = Zero
<1>1. ASSUME NEW i \in Positions
      PROVE  n < (j - 1) * Rate + i
  <2>1. (n \div Rate) * Rate + Rate <= (j - 1) * Rate
    BY Multiples, QuotientExists
  <2> QED
    BY <2>1, QuotientExists, RateAssumption DEF Positions
<1>2. j # n \div Rate + 1 /\ n \div Rate \in Nat
  BY QuotientExists
<1>3. ASSUME NEW i \in Positions
      PROVE  PaddedBlock(n, j)[i] = {}
  <2>1. (j - 1) * Rate + i \in Int /\ ~((j - 1) * Rate + i < n) /\ (j - 1) * Rate + i # n
    BY <1>1, RateAssumption DEF Positions
  <2> QED
    BY <1>2, <2>1 DEF PaddedBlock
<1> QED
  BY <1>3 DEF PaddedBlock, Zero

-----------------------------------------------------------------------------
LEMMA AppendBlock ==
  ASSUME NEW n \in Nat, NEW c \in Nat
  PROVE  Append(Blocks(n, c), PaddedBlock(n, c + 1)) = Blocks(n, c + 1)
<1> DEFINE S == {PaddedBlock(n, j) : j \in Nat}
<1>1. Blocks(n, c) \in Seq(S) /\ Len(Blocks(n, c)) = c
  BY DEF Blocks
<1>2. Blocks(n, c + 1) \in Seq(S) /\ Len(Blocks(n, c + 1)) = c + 1
  BY DEF Blocks
<1>3. PaddedBlock(n, c + 1) \in S
  OBVIOUS
<1> DEFINE s == Append(Blocks(n, c), PaddedBlock(n, c + 1))
<1>4. /\ s \in Seq(S)
      /\ Len(s) = c + 1
      /\ \A i \in 1 .. c : s[i] = Blocks(n, c)[i]
      /\ s[c + 1] = PaddedBlock(n, c + 1)
  BY <1>1, <1>3, AppendProperties
<1>5. ASSUME NEW i \in 1 .. c + 1 PROVE s[i] = Blocks(n, c + 1)[i]
  BY <1>4 DEF Blocks
<1> HIDE DEF s, S
<1> QED
  BY <1>2, <1>4, <1>5, SeqEqual DEF s

(* Before the padding the blocks are those of any longer message.          *)
Unpadded(full) == [j \in 1 .. full |-> MessageBlock(j)]

LEMMA UnpaddedBlocks ==
  ASSUME NEW n \in Nat, NEW full \in 0 .. n \div Rate
  PROVE  Unpadded(full) = Blocks(n, full)
<1>1. ASSUME NEW j \in 1 .. full PROVE MessageBlock(j) = PaddedBlock(n, j)
  BY MessageBlocks, QuotientExists
<1> QED
  BY <1>1 DEF Unpadded, Blocks

LEMMA AppendUnpadded ==
  ASSUME NEW full \in Nat
  PROVE  Append(Unpadded(full), MessageBlock(full + 1)) = Unpadded(full + 1)
<1> DEFINE n == (full + 1) * Rate + 0
<1>1. n \in Nat /\ n \div Rate = full + 1
  <2>1. 0 \in Positions /\ full + 1 \in Nat
    BY RateAssumption DEF Positions
  <2> QED
    BY <2>1, Quotient
<1> HIDE DEF n
<1>2. Unpadded(full) = Blocks(n, full) /\ Unpadded(full + 1) = Blocks(n, full + 1)
  BY <1>1, UnpaddedBlocks
<1>3. MessageBlock(full + 1) = PaddedBlock(n, full + 1)
  BY <1>1, MessageBlocks
<1> QED
  BY <1>1, <1>2, <1>3, AppendBlock

(* Reading on, inside one state, continues the stream.                     *)
LEMMA StreamContinues ==
  ASSUME NEW n \in Nat, NEW b \in Nat, NEW at \in 0 .. Rate, NEW count \in 0 .. Rate - at
  PROVE  Stream(n, b * Rate + at) \o Read(Blocks(n, n \div Rate + 1 + b), at, count)
           = Stream(n, b * Rate + at + count)
<1> DEFINE c == n \div Rate + 1 + b
           l == b * Rate + at
           S == {StreamByte(n, k) : k \in Nat}
<1>1. l \in Nat /\ c \in Nat /\ count \in Nat
  BY QuotientExists, RateAssumption
<1>2. ASSUME NEW k \in 1 .. count
      PROVE  Read(Blocks(n, c), at, count)[k] = StreamByte(n, l + k - 1)
  <2>1. at + k - 1 \in Positions
    BY RateAssumption DEF Positions
  <2>2. l + k - 1 = b * Rate + (at + k - 1)
    BY RateAssumption
  <2> QED
    BY <2>1, <2>2, Quotient DEF Read, StreamByte
<1> HIDE DEF c
<1>3. Stream(n, l) \in Seq(S) /\ Len(Stream(n, l)) = l
  BY <1>1 DEF Stream
<1>4. Read(Blocks(n, c), at, count) \in Seq(S) /\ Len(Read(Blocks(n, c), at, count)) = count
  <2>1. \A k \in 1 .. count : Read(Blocks(n, c), at, count)[k] \in S
    BY <1>1, <1>2
  <2>2. Read(Blocks(n, c), at, count) \in [1 .. count -> S]
    BY <2>1 DEF Read
  <2> QED
    BY <1>1, <2>2
<1>5. Stream(n, l + count) \in Seq(S) /\ Len(Stream(n, l + count)) = l + count
  BY <1>1, RateAssumption DEF Stream
<1> DEFINE s == Stream(n, l) \o Read(Blocks(n, c), at, count)
<1> DEFINE front == Stream(n, l)
           rest == Read(Blocks(n, c), at, count)
<1> HIDE DEF S, l
<1>6. /\ s \in Seq(S)
      /\ Len(s) = l + count
      /\ \A i \in 1 .. l + count : s[i] = IF i <= l THEN front[i] ELSE rest[i - l]
  <2>1. /\ front \in Seq(S)
        /\ rest \in Seq(S)
        /\ Len(front) = l
        /\ Len(rest) = count
    BY <1>3, <1>4
  <2> HIDE DEF front, rest
  <2>2. /\ front \o rest \in Seq(S)
        /\ Len(front \o rest) = Len(front) + Len(rest)
        /\ \A i \in 1 .. Len(front) + Len(rest) :
             (front \o rest)[i] = IF i <= Len(front) THEN front[i] ELSE rest[i - Len(front)]
    BY <2>1, ConcatProperties
  <2>3. s = front \o rest
    BY DEF front, rest
  <2> HIDE DEF s
  <2> QED
    BY <2>1, <2>2, <2>3
<1>7. ASSUME NEW i \in 1 .. l + count
      PROVE  s[i] = Stream(n, l + count)[i]
  <2>1. CASE i <= l
    BY <1>1, <1>6, <2>1 DEF Stream
  <2>2. CASE i > l
    <3>1. i - l \in 1 .. count /\ l + (i - l) - 1 = i - 1
      BY <1>1, <2>2
    <3> QED
      BY <1>1, <1>2, <1>6, <2>2, <3>1 DEF Stream
  <2> HIDE DEF s
  <2> QED
    BY <1>1, <2>1, <2>2
<1> HIDE DEF s
<1>8. s = Stream(n, l + count)
  BY <1>5, <1>6, <1>7, SeqEqual
<1> QED
  BY <1>8 DEF s, l, c

LEMMA StreamLength ==
  ASSUME NEW n \in Nat, NEW l \in Nat
  PROVE  Len(Stream(n, l)) = l
BY DEF Stream

(* Permuting once more and reading from the start continues the stream.    *)
LEMMA FreshBlock ==
  ASSUME NEW n \in Nat, NEW b \in Nat, NEW count \in 0 .. Rate
  PROVE  LET c == n \div Rate + b
             next == Append(Blocks(n, c), PaddedBlock(n, c + 1))
         IN  /\ next = Blocks(n, c + 1)
             /\ Zero = PaddedBlock(n, c + 2)
             /\ Stream(n, b * Rate) \o Read(next, 0, count) = Stream(n, b * Rate + count)
<1> DEFINE c == n \div Rate + b
<1>1. c \in Nat /\ c + 1 = n \div Rate + 1 + b /\ c + 2 > n \div Rate + 1
  BY QuotientExists
<1>2. Append(Blocks(n, c), PaddedBlock(n, c + 1)) = Blocks(n, c + 1)
  BY <1>1, AppendBlock
<1>3. Zero = PaddedBlock(n, c + 2)
  BY <1>1, ZeroBlocks
<1>4. Stream(n, b * Rate) \o Read(Blocks(n, c + 1), 0, count) = Stream(n, b * Rate + count)
  <2> DEFINE at == 0
  <2>1. at \in 0 .. Rate /\ count \in 0 .. Rate - at
    BY RateAssumption
  <2>2. b * Rate + at = b * Rate
    BY RateAssumption
  <2> HIDE DEF at
  <2>3. Stream(n, b * Rate + at) \o Read(Blocks(n, n \div Rate + 1 + b), at, count)
          = Stream(n, b * Rate + at + count)
    BY <2>1, StreamContinues
  <2> QED
    BY <1>1, <2>2, <2>3 DEF at
<1> QED
  BY <1>1, <1>2, <1>3, <1>4

LEMMA ReadNothing ==
  ASSUME NEW n \in Nat, NEW l \in Nat, NEW blocks, NEW at
  PROVE  Stream(n, l) \o Read(blocks, at, 0) = Stream(n, l)
<1> DEFINE S == {StreamByte(n, k) : k \in Nat}
<1>1. Stream(n, l) \in Seq(S)
  BY DEF Stream
<1>2. Read(blocks, at, 0) = <<>>
  <2> DEFINE empty == Read(blocks, at, 0)
  <2>1. empty \in Seq(S) /\ Len(empty) = 0
    BY DEF Read
  <2> HIDE DEF empty, S
  <2>2. empty = <<>>
    BY <2>1, EmptySeq
  <2> QED
    BY <2>2 DEF empty
<1> HIDE DEF S
<1> QED
  BY <1>1, <1>2, ConcatEmptySeq

-----------------------------------------------------------------------------
(* What both kinds of sponge share.                                        *)

Absorbing(full) ==
  /\ pos \in Positions
  /\ fed = full * Rate + pos
  /\ permuted = Unpadded(full)
  /\ block = Partial(full, pos)
  /\ output = <<>>

(* b permutations after the padding.                                       *)
Permuted(b) ==
  /\ permuted = Blocks(fed, fed \div Rate + b)
  /\ block = PaddedBlock(fed, fed \div Rate + b + 1)

LEMMA Constants ==
  /\ Rate \in Nat \ {0}
  /\ MaxIn \in Nat
  /\ MaxOut \in Nat
  /\ Positions = 0 .. Rate - 1
BY RateAssumption, SpongeAssumption DEF Positions

LEMMA EmptyContext == Init => Absorbing(0)
<1> SUFFICES ASSUME Init PROVE Absorbing(0)
  OBVIOUS
<1>1. Unpadded(0) = <<>>
  BY DEF Unpadded
<1>2. 0 * Rate + 0 = 0
  BY Constants
<1> QED
  BY <1>1, <1>2, EmptyPartial, Constants DEF Init, Absorbing

LEMMA FillBlockAbsorbs ==
  ASSUME NEW full \in Nat, Absorbing(full), left \in Nat, FillBlock
  PROVE  /\ Absorbing(full + 1)'
         /\ left' \in Nat
         /\ fed \in Nat /\ fed' \in Nat /\ fed' >= fed
<1> USE Constants DEF FillBlock, Fills, Room, Permute
<1>1. fed \in Nat /\ fed' \in Nat /\ fed' >= fed /\ left' \in Nat
  <2>1. full * Rate \in Nat
    OBVIOUS
  <2> QED
    BY <2>1 DEF Absorbing
<1>2. XorMessage(block, pos, Rate - pos, fed) = MessageBlock(full + 1)
  <2>1. XorMessage(Partial(full, pos), pos, Rate - pos, full * Rate + pos)
          = Partial(full, pos + (Rate - pos))
    BY FillPartial DEF Absorbing
  <2>2. pos + (Rate - pos) = Rate
    BY DEF Absorbing
  <2> QED
    BY <2>1, <2>2, FullPartial DEF Absorbing
<1>3. permuted' = Unpadded(full + 1)
  BY <1>2, AppendUnpadded DEF Absorbing
<1>4. fed' = (full + 1) * Rate + 0
  BY DEF Absorbing
<1>5. block' = Partial(full + 1, 0)
  BY EmptyPartial
<1> QED
  BY <1>1, <1>3, <1>4, <1>5 DEF Absorbing

LEMMA TailBytesAbsorbs ==
  ASSUME NEW full \in Nat, Absorbing(full), left \in Nat, TailBytes
  PROVE  /\ Absorbing(full)'
         /\ left' \in Nat
         /\ fed \in Nat /\ fed' \in Nat /\ fed' >= fed
<1> USE Constants DEF TailBytes, Fills
<1>1. fed \in Nat /\ fed' \in Nat /\ fed' >= fed /\ left' \in Nat
  <2>1. full * Rate \in Nat
    OBVIOUS
  <2> QED
    BY <2>1 DEF Absorbing
<1>2. left \in 0 .. Rate - pos /\ pos \in 0 .. Rate /\ pos + left \in Positions
  BY DEF Absorbing
<1>3. XorMessage(Partial(full, pos), pos, left, full * Rate + pos)
        = Partial(full, pos + left)
  BY <1>2, FillPartial
<1>4. fed' = full * Rate + (pos + left)
  BY <1>2 DEF Absorbing
<1> QED
  BY <1>1, <1>2, <1>3, <1>4 DEF Absorbing

(* Both ways of ending a message leave the padded message, unpermuted.     *)
LEMMA Finalized ==
  ASSUME NEW full \in Nat, NEW p \in Positions,
         fed' = full * Rate + p,
         permuted' = Unpadded(full),
         block' = XorPadding(Partial(full, p), p)
  PROVE  Permuted(0)' /\ fed' \in Nat
<1>1. fed' \in Nat /\ fed' \div Rate = full
  BY Quotient
<1>2. permuted' = Blocks(fed', full)
  BY <1>1, UnpaddedBlocks
<1>3. block' = PaddedBlock(fed', full + 1)
  BY LastBlock
<1>4. full + 0 = full
  OBVIOUS
<1> QED
  BY <1>1, <1>2, <1>3, <1>4 DEF Permuted

LEMMA FinalizeShape ==
  ASSUME NEW full \in Nat, Absorbing(full), NEW p, FinalizeTo(p)
  PROVE  Permuted(0)' /\ fed' \in Nat /\ output' = Stream(fed', 0)
<1>1. Stream(fed', 0) = <<>>
  BY DEF Stream
<1> QED
  BY <1>1, Finalized DEF FinalizeTo, Absorbing

LEMMA AbsorbWholeShape ==
  ASSUME NEW full \in Nat, Absorbing(full), NEW length \in Nat, AbsorbWhole(length)
  PROVE  Permuted(0)' /\ fed' \in Nat /\ output' = Stream(fed', 0)
<1> DEFINE whole == length \div Rate
           rest == length % Rate
<1>1. whole \in Nat /\ rest \in Positions /\ length = whole * Rate + rest
  BY QuotientExists
<1>2. permuted' = Unpadded(whole)
  BY DEF AbsorbWhole, Unpadded
<1>3. block' = XorPadding(Partial(whole, rest), rest)
  <2>1. block' = XorPadding(XorMessage(Zero, 0, rest, whole * Rate), rest)
    BY DEF AbsorbWhole
  <2> HIDE DEF whole, rest
  <2>2. Zero = Partial(whole, 0)
    BY <1>1, EmptyPartial
  <2>3. whole * Rate + 0 = whole * Rate /\ 0 + rest = rest /\ rest \in 0 .. Rate - 0
    BY <1>1, Constants
  <2>4. XorMessage(Partial(whole, 0), 0, rest, whole * Rate + 0) = Partial(whole, 0 + rest)
    BY <1>1, <2>3, FillPartial, Constants
  <2> QED
    BY <2>1, <2>2, <2>3, <2>4
<1>4. fed' = length /\ output' = <<>>
  BY DEF AbsorbWhole, Absorbing
<1> HIDE DEF whole, rest
<1>5. Permuted(0)' /\ fed' \in Nat
  BY <1>1, <1>2, <1>3, <1>4, Finalized
<1>6. Stream(fed', 0) = <<>>
  BY DEF Stream
<1> QED
  BY <1>4, <1>5, <1>6

(* A permutation and `count` bytes of the fresh state.                     *)
LEMMA FreshShape ==
  ASSUME fed \in Nat, NEW b \in Nat, Permuted(b), output = Stream(fed, b * Rate),
         NEW count \in 0 .. Rate,
         permuted' = Append(permuted, block),
         block' = Zero,
         output' = output \o Read(permuted', 0, count),
         fed' = fed
  PROVE  /\ Permuted(b + 1)'
         /\ output' = Stream(fed', b * Rate + count)
         /\ Len(output) \in Nat
         /\ Len(output') = Len(output) + count
<1> DEFINE c == fed \div Rate + b
<1>1. fed \div Rate \in Nat
  BY QuotientExists
<1>2. permuted = Blocks(fed, c) /\ block = PaddedBlock(fed, c + 1)
  BY DEF Permuted
<1>3. /\ permuted' = Blocks(fed, c + 1)
      /\ block' = PaddedBlock(fed, c + 2)
      /\ output' = Stream(fed, b * Rate + count)
  BY <1>1, <1>2, FreshBlock
<1>4. /\ fed \div Rate + (b + 1) = c + 1
      /\ fed \div Rate + (b + 1) + 1 = c + 2
  BY <1>1
<1> HIDE DEF c
<1>5. permuted' = Blocks(fed', fed' \div Rate + (b + 1))
  BY <1>3, <1>4
<1>6. block' = PaddedBlock(fed', fed' \div Rate + (b + 1) + 1)
  BY <1>3, <1>4
<1>7. b * Rate \in Nat
  BY Constants
<1>8. count \in Nat /\ b * Rate + count \in Nat
  BY <1>7, Constants
<1>9. Len(output) = b * Rate
  BY <1>7, StreamLength
<1>10. Len(output') = b * Rate + count
  BY <1>3, <1>8, StreamLength
<1>11. Permuted(b + 1)'
  BY ONLY <1>5, <1>6 DEF Permuted
<1> QED
  BY <1>3, <1>7, <1>9, <1>10, <1>11

(* A longer output of the same message is a Squeeze of Xof.                *)
LEMMA SqueezeOfXof ==
  ASSUME phase = "squeeze", UNCHANGED <<phase, fed>>, fed \in Nat,
         NEW l \in Nat, output' = Stream(fed, l), Len(output') >= Len(output)
  PROVE  Api!Squeeze
<1>1. Len(output') = l
  BY StreamLength
<1>2. Api!Stream(fed, l) = Stream(fed, l)
  BY DEF Stream, StreamByte, Blocks, PaddedBlock, OutputByte, Positions, Domain, Last,
         Api!Stream, Api!StreamByte, Api!Blocks, Api!PaddedBlock, Api!OutputByte,
         Api!Positions, Api!Domain, Api!Last
<1> QED
  BY <1>1, <1>2 DEF Api!Squeeze

-----------------------------------------------------------------------------
(* HAETAE's and SMAUG-T's sponge.                                          *)

Consumed(b) ==
  /\ Permuted(b)
  /\ pos \in 0 .. Rate
  /\ b = 0 => pos = Rate
  /\ output = Stream(fed, b * Rate + pos - Rate)

(* Which loop can run in which phase, and what is left for it to do.       *)
ControlConsumed ==
  /\ pc \in {"idle", "absorb", "squeeze"}
  /\ phase \in {"absorb", "squeeze"}
  /\ pc \in {"absorb", "squeeze"} => pc = phase
  /\ fed \in Nat
  /\ left \in Nat

ShapeConsumed ==
  /\ phase = "absorb" => \E full \in Nat : Absorbing(full)
  /\ phase = "squeeze" => \E b \in Nat : Consumed(b)

IInvConsumed == ControlConsumed /\ ShapeConsumed

LEMMA OffsetConsumed ==
  ASSUME NEW b \in Nat, NEW p \in 0 .. Rate, b = 0 => p = Rate
  PROVE  b * Rate + p - Rate \in Nat
<1>1. CASE b = 0
  BY <1>1, Constants
<1>2. CASE b # 0
  <2>1. 0 * Rate + Rate <= b * Rate
    BY <1>2, Multiples
  <2>2. b * Rate \in Nat
    BY Constants
  <2> QED
    BY <2>1, <2>2, Constants
<1> QED
  BY <1>1, <1>2

LEMMA CallConsumed ==
  ASSUME IInvConsumed, NEW length \in Nat, Absorb(length) \/ Squeeze(length)
  PROVE  IInvConsumed'
<1>1. ControlConsumed'
  BY DEF IInvConsumed, ControlConsumed, Absorb, Squeeze
<1>2. ShapeConsumed'
  BY DEF IInvConsumed, ShapeConsumed, Absorbing, Consumed, Permuted, Absorb, Squeeze
<1> QED
  BY <1>1, <1>2 DEF IInvConsumed

LEMMA AbsorbStepConsumed ==
  ASSUME IInvConsumed, FillBlock \/ TailBytes
  PROVE  IInvConsumed' /\ fed' >= fed
<1>1. phase = "absorb" /\ left \in Nat
  BY DEF IInvConsumed, ControlConsumed, FillBlock, TailBytes
<1>2. PICK full \in Nat : Absorbing(full)
  BY <1>1 DEF IInvConsumed, ShapeConsumed
<1>3. (\E n \in Nat : Absorbing(n)') /\ left' \in Nat /\ fed' \in Nat /\ fed' >= fed
  <2>1. CASE FillBlock
    <3>1. full + 1 \in Nat
      OBVIOUS
    <3> QED
      BY <1>1, <1>2, <2>1, <3>1, FillBlockAbsorbs
  <2>2. CASE TailBytes
    BY <1>1, <1>2, <2>2, TailBytesAbsorbs
  <2> QED
    BY <2>1, <2>2
<1>4. phase' = "absorb" /\ pc' \in {"idle", "absorb"}
  BY <1>1 DEF FillBlock, TailBytes
<1> QED
  BY <1>3, <1>4 DEF IInvConsumed, ControlConsumed, ShapeConsumed

LEMMA FinishConsumed ==
  ASSUME IInvConsumed, NEW inlen \in Nat, Finalize \/ AbsorbOnce(inlen)
  PROVE  IInvConsumed'
<1>1. phase = "absorb" /\ phase' = "squeeze" /\ pos' = Rate /\ pc' = "idle" /\ left' = left
  BY DEF Finalize, FinalizeTo, PosFinal, AbsorbOnce, AbsorbWhole
<1>2. PICK full \in Nat : Absorbing(full)
  BY <1>1 DEF IInvConsumed, ShapeConsumed
<1>3. Permuted(0)' /\ fed' \in Nat /\ output' = Stream(fed', 0)
  BY <1>2, FinalizeShape, AbsorbWholeShape DEF Finalize, AbsorbOnce
<1>4. 0 * Rate + Rate - Rate = 0 /\ Rate \in 0 .. Rate
  BY Constants
<1>5. Consumed(0)'
  BY <1>1, <1>3, <1>4 DEF Consumed
<1> QED
  BY <1>1, <1>3, <1>5 DEF IInvConsumed, ControlConsumed, ShapeConsumed

LEMMA SqueezeRestConsumed ==
  ASSUME IInvConsumed, SqueezeRest
  PROVE  IInvConsumed' /\ Len(output') >= Len(output)
<1> USE Constants DEF SqueezeRest
<1>1. phase = "squeeze" /\ left \in Nat
  BY DEF IInvConsumed, ControlConsumed
<1>2. PICK b \in Nat : Consumed(b)
  BY <1>1 DEF IInvConsumed, ShapeConsumed
<1> DEFINE count == Least(Rate - pos, left)
<1>3. /\ output' = output \o Read(permuted, pos, count)
      /\ left' = left - count
      /\ pos' = pos + count
      /\ fed' = fed /\ permuted' = permuted /\ block' = block
      /\ pc' = pc /\ phase' = phase
  BY DEF SqueezeFrom
<1>4. count \in 0 .. Rate - pos /\ count <= left
  BY <1>1, <1>2 DEF Least, Consumed
<1> HIDE DEF count, SqueezeRest
<1> DEFINE a == b - 1
<1>5. a \in Nat /\ pos \in 0 .. Rate
  BY <1>2 DEF Consumed, SqueezeRest
<1>6. fed \in Nat /\ fed \div Rate \in Nat
  BY QuotientExists DEF IInvConsumed, ControlConsumed
<1>7. b * Rate + pos - Rate = a * Rate + pos
  BY <1>5
<1>8. fed \div Rate + b = fed \div Rate + 1 + a
  BY <1>5, <1>6
<1> HIDE DEF a
<1>9. a * Rate + pos \in Nat /\ a * Rate + pos + count \in Nat
  BY <1>4, <1>5
<1>10. output = Stream(fed, a * Rate + pos)
  BY <1>2, <1>7 DEF Consumed
<1>11. output' = Stream(fed, a * Rate + pos + count)
  <2>1. permuted = Blocks(fed, fed \div Rate + 1 + a)
    BY <1>2, <1>8 DEF Consumed, Permuted
  <2> QED
    BY <1>3, <1>4, <1>5, <1>6, <1>10, <2>1, StreamContinues
<1>12. a * Rate + pos + count = b * Rate + pos' - Rate
  BY <1>3, <1>4, <1>5, <1>7
<1>13. pos' \in 0 .. Rate /\ (b = 0 => pos' = Rate)
  BY <1>2, <1>3, <1>4, <1>5 DEF Consumed
<1>14. Consumed(b)'
  BY <1>2, <1>3, <1>11, <1>12, <1>13 DEF Consumed, Permuted
<1>15. Len(output') >= Len(output)
  BY <1>4, <1>5, <1>6, <1>9, <1>10, <1>11, StreamLength
<1>16. left' \in Nat
  BY <1>1, <1>3, <1>4
<1> QED
  BY <1>1, <1>3, <1>14, <1>15, <1>16 DEF IInvConsumed, ControlConsumed, ShapeConsumed

LEMMA FreshConsumed ==
  ASSUME IInvConsumed, SqueezeFresh \/ SqueezeBlock
  PROVE  IInvConsumed' /\ Len(output') >= Len(output)
<1>1. phase = "squeeze" /\ left \in Nat /\ fed \in Nat /\ pos = Rate
  BY DEF IInvConsumed, ControlConsumed, SqueezeFresh, SqueezeBlock
<1>2. PICK b \in Nat : Consumed(b)
  BY <1>1 DEF IInvConsumed, ShapeConsumed
<1>3. PICK count \in 0 .. Rate :
        /\ permuted' = Append(permuted, block)
        /\ block' = Zero
        /\ output' = output \o Read(permuted', 0, count)
        /\ pos' = count
        /\ left' \in Nat
        /\ fed' = fed /\ phase' = phase /\ pc' = pc
  <2>1. CASE SqueezeFresh
    <3> DEFINE count == Least(Rate - 0, left)
    <3>1. count \in 0 .. Rate /\ left - count \in Nat /\ 0 + count = count
      BY <1>1, Constants DEF Least
    <3>2. /\ permuted' = Append(permuted, block)
          /\ block' = Zero
          /\ output' = output \o Read(permuted', 0, count)
          /\ pos' = 0 + count
          /\ left' = left - count
          /\ fed' = fed /\ phase' = phase /\ pc' = pc
      BY <2>1 DEF SqueezeFresh, SqueezeFrom, Permute
    <3> HIDE DEF count
    <3> QED
      BY <3>1, <3>2
  <2>2. CASE SqueezeBlock
    <3>1. Rate \in 0 .. Rate
      BY Constants
    <3> QED
      BY <1>1, <2>2, <3>1 DEF SqueezeBlock, Permute
  <2> QED
    BY <2>1, <2>2
<1>4. b * Rate \in Nat /\ count \in Nat /\ b + 1 \in Nat
  BY Constants
<1>5. output = Stream(fed, b * Rate)
  <2>1. b * Rate + Rate - Rate = b * Rate
    BY <1>4, Constants
  <2> QED
    BY <1>1, <1>2, <2>1 DEF Consumed
<1>6. /\ Permuted(b + 1)'
      /\ output' = Stream(fed', b * Rate + count)
      /\ Len(output) \in Nat
      /\ Len(output') = Len(output) + count
  BY <1>1, <1>2, <1>3, <1>5, FreshShape DEF Consumed
<1>7. b * Rate + count = (b + 1) * Rate + pos' - Rate
  BY <1>3, <1>4, Constants
<1>8. pos' \in 0 .. Rate /\ (b + 1 = 0 => pos' = Rate)
  BY <1>3, <1>4
<1>9. Consumed(b + 1)'
  BY ONLY <1>6, <1>7, <1>8 DEF Consumed
<1> QED
  BY <1>1, <1>3, <1>4, <1>6, <1>9 DEF IInvConsumed, ControlConsumed, ShapeConsumed

LEMMA QuietConsumed ==
  ASSUME IInvConsumed, SqueezeDone \/ UNCHANGED vars
  PROVE  IInvConsumed'
<1>1. ControlConsumed'
  BY DEF IInvConsumed, ControlConsumed, SqueezeDone, vars
<1>2. ShapeConsumed'
  BY DEF IInvConsumed, ShapeConsumed, Absorbing, Consumed, Permuted, SqueezeDone, vars
<1> QED
  BY <1>1, <1>2 DEF IInvConsumed

LEMMA InitConsumed == Init => IInvConsumed
<1> SUFFICES ASSUME Init PROVE IInvConsumed
  OBVIOUS
<1>1. ControlConsumed
  BY DEF Init, ControlConsumed
<1>2. ShapeConsumed
  <2>1. Absorbing(0) /\ phase = "absorb" /\ 0 \in Nat
    BY EmptyContext DEF Init
  <2> QED
    BY <2>1 DEF ShapeConsumed
<1> QED
  BY <1>1, <1>2 DEF IInvConsumed

LEMMA StepConsumed == IInvConsumed /\ [NextConsumed]_vars => IInvConsumed'
<1> SUFFICES ASSUME IInvConsumed, [NextConsumed]_vars PROVE IInvConsumed'
  OBVIOUS
<1>1. ASSUME NEW inlen \in 0 .. MaxIn, Absorb(inlen) PROVE IInvConsumed'
  BY <1>1, Constants, CallConsumed
<1>2. ASSUME NEW inlen \in 0 .. MaxIn, AbsorbOnce(inlen) PROVE IInvConsumed'
  BY <1>2, Constants, FinishConsumed
<1>3. ASSUME NEW outlen \in 0 .. MaxOut, Squeeze(outlen) PROVE IInvConsumed'
  BY <1>3, Constants, CallConsumed
<1>4. CASE FillBlock \/ TailBytes
  BY <1>4, AbsorbStepConsumed
<1>5. CASE Finalize
  <2>1. 0 \in Nat
    OBVIOUS
  <2> QED
    BY <1>5, <2>1, FinishConsumed
<1>6. CASE SqueezeRest
  BY <1>6, SqueezeRestConsumed
<1>7. CASE SqueezeFresh \/ SqueezeBlock
  BY <1>7, FreshConsumed
<1>8. CASE SqueezeDone \/ UNCHANGED vars
  BY <1>8, QuietConsumed
<1> QED
  BY <1>1, <1>2, <1>3, <1>4, <1>5, <1>6, <1>7, <1>8 DEF NextConsumed

(* The shape of the Keccak state holds in every reachable state.           *)
THEOREM InvariantConsumed == SpecConsumed => []IInvConsumed
BY InitConsumed, StepConsumed, PTL DEF SpecConsumed

(* For every rate: finalize always finds room for the domain byte.         *)
THEOREM PaddingHasRoomConsumed == SpecConsumed => []RoomForPadding
<1>1. IInvConsumed => RoomForPadding
  BY Constants DEF IInvConsumed, ShapeConsumed, Absorbing, RoomForPadding
<1> QED
  BY InvariantConsumed, <1>1, PTL

(* For every rate and every way of cutting message and output: HAETAE's    *)
(* and SMAUG-T's fips202.c implement Xof.                                  *)
THEOREM RefinementConsumed == SpecConsumed => ImplementsXof
<1>1. Init => Api!Init
  BY DEF Init, Api!Init
<1>2. IInvConsumed /\ IInvConsumed' /\ [NextConsumed]_vars => [Api!Next]_(Api!vars)
  <2> SUFFICES ASSUME IInvConsumed, IInvConsumed', [NextConsumed]_vars
               PROVE  [Api!Next]_(Api!vars)
    OBVIOUS
  <2>1. fed \in Nat /\ fed' \in Nat
    BY DEF IInvConsumed, ControlConsumed
  <2>2. CASE \E length \in 0 .. MaxIn \cup 0 .. MaxOut : Absorb(length) \/ Squeeze(length)
    BY <2>2 DEF Absorb, Squeeze, Api!vars
  <2>3. CASE \E inlen \in 0 .. MaxIn : AbsorbOnce(inlen)
    BY <2>1, <2>3 DEF AbsorbOnce, AbsorbWhole, Api!AbsorbOnce, Api!Next
  <2>4. CASE FillBlock \/ TailBytes
    <3>1. phase = "absorb" /\ UNCHANGED <<phase, output>>
      BY <2>4 DEF FillBlock, TailBytes, IInvConsumed, ControlConsumed
    <3>2. fed' >= fed
      BY <2>4, AbsorbStepConsumed
    <3> QED
      BY <2>1, <3>1, <3>2 DEF Api!Absorb, Api!Next
  <2>5. CASE Finalize
    BY <2>5 DEF Finalize, FinalizeTo, Api!Finalize, Api!Next
  <2>6. CASE SqueezeRest \/ SqueezeFresh \/ SqueezeBlock
    <3>1. phase = "squeeze" /\ UNCHANGED <<phase, fed>>
      BY <2>6 DEF SqueezeRest, SqueezeFresh, SqueezeBlock, IInvConsumed, ControlConsumed
    <3>2. Len(output') >= Len(output)
      BY <2>6, SqueezeRestConsumed, FreshConsumed
    <3>3. PICK b \in Nat : Consumed(b)'
      BY <3>1 DEF IInvConsumed, ShapeConsumed
    <3>4. b * Rate + pos' - Rate \in Nat
      <4>1. pos' \in 0 .. Rate /\ (b = 0 => pos' = Rate)
        BY <3>3 DEF Consumed
      <4> QED
        BY <4>1, OffsetConsumed
    <3>5. output' = Stream(fed, b * Rate + pos' - Rate)
      BY <3>1, <3>3 DEF Consumed
    <3> QED
      BY <2>1, <3>1, <3>2, <3>4, <3>5, SqueezeOfXof DEF Api!Next
  <2>7. CASE SqueezeDone \/ UNCHANGED vars
    BY <2>7 DEF SqueezeDone, vars, Api!vars
  <2> QED
    BY <2>2, <2>3, <2>4, <2>5, <2>6, <2>7 DEF NextConsumed
<1> QED
  BY InvariantConsumed, <1>1, <1>2, PTL DEF SpecConsumed, ImplementsXof, Api!Spec

-----------------------------------------------------------------------------
(* AIMer's and NTRU+'s sponge.                                             *)

Remaining(b) ==
  /\ Permuted(b)
  /\ pos \in 0 .. Rate
  /\ b = 0 => pos = 0
  /\ output = Stream(fed, b * Rate - pos)

OneShot(b) ==
  /\ Permuted(b)
  /\ \E l \in Nat : output = Stream(fed, l) /\ (left > 0 => l = b * Rate)

(* Nothing is left to hand out when the loop over whole blocks has work.   *)
ControlRemaining ==
  /\ pc \in {"idle", "absorb", "squeeze", "blocks", "once", "released"}
  /\ phase \in {"absorb", "squeeze"}
  /\ pc = "absorb" => phase = "absorb"
  /\ pc \in {"squeeze", "blocks", "once", "released"} => phase = "squeeze"
  /\ fed \in Nat
  /\ left \in Nat
  /\ pc = "blocks" /\ left > 0 => pos = 0

ShapeRemaining ==
  /\ phase = "absorb" => \E full \in Nat : Absorbing(full)
  /\ phase = "squeeze" /\ pc \notin {"once", "released"} => \E b \in Nat : Remaining(b)
  /\ pc \in {"once", "released"} => \E b \in Nat : OneShot(b)

IInvRemaining == ControlRemaining /\ ShapeRemaining

LEMMA OffsetRemaining ==
  ASSUME NEW b \in Nat, NEW c \in 0 .. Rate, b = 0 => c = 0
  PROVE  b * Rate - c \in Nat
<1>1. CASE b = 0
  BY <1>1, Constants
<1>2. CASE b # 0
  <2>1. 0 * Rate + Rate <= b * Rate
    BY <1>2, Multiples
  <2>2. b * Rate \in Nat
    BY Constants
  <2> QED
    BY <2>1, <2>2, Constants
<1> QED
  BY <1>1, <1>2

LEMMA CallRemaining ==
  ASSUME IInvRemaining, NEW length \in Nat, Absorb(length) \/ Squeeze(length)
  PROVE  IInvRemaining'
<1>1. ControlRemaining'
  BY DEF IInvRemaining, ControlRemaining, Absorb, Squeeze
<1>2. ShapeRemaining'
  BY DEF IInvRemaining, ShapeRemaining, Absorbing, Remaining, Permuted, Absorb, Squeeze
<1> QED
  BY <1>1, <1>2 DEF IInvRemaining

LEMMA AbsorbStepRemaining ==
  ASSUME IInvRemaining, FillBlock \/ TailBytes
  PROVE  IInvRemaining' /\ fed' >= fed
<1>1. phase = "absorb" /\ left \in Nat
  BY DEF IInvRemaining, ControlRemaining, FillBlock, TailBytes
<1>2. PICK full \in Nat : Absorbing(full)
  BY <1>1 DEF IInvRemaining, ShapeRemaining
<1>3. (\E n \in Nat : Absorbing(n)') /\ left' \in Nat /\ fed' \in Nat /\ fed' >= fed
  <2>1. CASE FillBlock
    <3>1. full + 1 \in Nat
      OBVIOUS
    <3> QED
      BY <1>1, <1>2, <2>1, <3>1, FillBlockAbsorbs
  <2>2. CASE TailBytes
    BY <1>1, <1>2, <2>2, TailBytesAbsorbs
  <2> QED
    BY <2>1, <2>2
<1>4. phase' = "absorb" /\ pc' \in {"idle", "absorb"}
  BY <1>1 DEF FillBlock, TailBytes
<1> QED
  BY <1>3, <1>4 DEF IInvRemaining, ControlRemaining, ShapeRemaining

LEMMA FinishRemaining ==
  ASSUME IInvRemaining, NEW mlen \in Nat, NEW outlen \in Nat,
         IncFinalize \/ Once(mlen, outlen)
  PROVE  IInvRemaining'
<1>1. phase = "absorb" /\ phase' = "squeeze"
  BY DEF IncFinalize, FinalizeTo, Once, AbsorbWhole
<1>2. PICK full \in Nat : Absorbing(full)
  BY <1>1 DEF IInvRemaining, ShapeRemaining
<1>3. Permuted(0)' /\ fed' \in Nat /\ output' = Stream(fed', 0)
  BY <1>2, FinalizeShape, AbsorbWholeShape DEF IncFinalize, Once
<1>4. 0 * Rate - 0 = 0 /\ 0 * Rate = 0 /\ 0 \in 0 .. Rate
  BY Constants
<1>5. CASE IncFinalize
  <2>1. pc' = "idle" /\ pos' = 0 /\ left' = left
    BY <1>5 DEF IncFinalize, FinalizeTo
  <2>2. Remaining(0)'
    BY <1>3, <1>4, <2>1 DEF Remaining
  <2> QED
    BY <1>1, <1>3, <2>1, <2>2 DEF IInvRemaining, ControlRemaining, ShapeRemaining
<1>6. CASE Once(mlen, outlen)
  <2>1. pc' = "once" /\ left' = outlen
    BY <1>6 DEF Once
  <2>2. OneShot(0)'
    BY <1>3, <1>4 DEF OneShot
  <2> QED
    BY <1>1, <1>3, <2>1, <2>2 DEF IInvRemaining, ControlRemaining, ShapeRemaining
<1> QED
  BY <1>5, <1>6

LEMMA LeftoverRemaining ==
  ASSUME IInvRemaining, Leftover
  PROVE  IInvRemaining' /\ Len(output') >= Len(output)
<1> USE Constants DEF Leftover
<1>1. phase = "squeeze"
  BY DEF IInvRemaining, ControlRemaining
<1>2. PICK b \in Nat : Remaining(b)
  BY <1>1 DEF IInvRemaining, ShapeRemaining
<1> DEFINE taken == Least(left, pos)
<1>3. /\ output' = output \o Read(permuted, Rate - pos, taken)
      /\ left' = left - taken
      /\ pos' = pos - taken
      /\ permuted' = permuted /\ block' = block
      /\ phase' = phase /\ fed' = fed
      /\ pc' = "blocks"
  BY DEF FirstAvailable
<1>4. /\ taken \in 0 .. pos
      /\ taken <= left
      /\ taken = left \/ taken = pos
  BY <1>2 DEF Least, IInvRemaining, ControlRemaining, Remaining
<1> HIDE DEF taken, Leftover
<1>5. pos \in 0 .. Rate /\ fed \in Nat /\ left \in Nat
  BY <1>2 DEF Remaining, IInvRemaining, ControlRemaining
<1>6. ControlRemaining'
  BY <1>1, <1>3, <1>4, <1>5 DEF IInvRemaining, ControlRemaining
<1>7. output' = Stream(fed, b * Rate - pos + taken)
  <2>1. CASE pos = 0
    <3> DEFINE l == b * Rate - pos
               at == Rate - pos
    <3>1. l \in Nat
      BY <1>2, OffsetRemaining DEF Remaining
    <3>2. output = Stream(fed, l) /\ output' = output \o Read(permuted, at, taken)
      BY <1>2, <1>3 DEF Remaining
    <3>3. taken = 0
      BY <1>4, <2>1
    <3> HIDE DEF l, at
    <3>4. Stream(fed, l) \o Read(permuted, at, 0) = Stream(fed, l)
      BY <1>5, <3>1, ReadNothing
    <3>5. l + taken = l
      BY <3>1, <3>3
    <3>6. output' = Stream(fed, l + taken)
      BY <3>2, <3>3, <3>4, <3>5
    <3> QED
      BY <3>6 DEF l
  <2>2. CASE pos # 0
    <3> DEFINE a == b - 1
               at == Rate - pos
    <3>1. a \in Nat /\ at \in 0 .. Rate /\ taken \in 0 .. Rate - at
      BY <1>2, <1>4, <1>5, <2>2 DEF Remaining
    <3>2. b * Rate - pos = a * Rate + at
      <4>1. b * Rate \in Nat /\ a * Rate \in Nat /\ b * Rate = a * Rate + Rate
        BY <3>1
      <4> QED
        BY <1>5, <4>1
    <3>3. fed \div Rate + b = fed \div Rate + 1 + a
      <4>1. fed \div Rate \in Nat
        BY <1>5, QuotientExists
      <4> QED
        BY <4>1
    <3>4. permuted = Blocks(fed, fed \div Rate + 1 + a)
      BY <1>2, <3>3 DEF Remaining, Permuted
    <3>5. output = Stream(fed, a * Rate + at)
      BY <1>2, <3>2 DEF Remaining
    <3>6. output' = output \o Read(permuted, at, taken)
      BY <1>3
    <3> HIDE DEF a, at
    <3>7. output' = Stream(fed, a * Rate + at + taken)
      <4>1. Stream(fed, a * Rate + at) \o Read(Blocks(fed, fed \div Rate + 1 + a), at, taken)
              = Stream(fed, a * Rate + at + taken)
        BY <1>5, <3>1, StreamContinues
      <4> QED
        BY ONLY <3>4, <3>5, <3>6, <4>1
    <3> QED
      BY <3>2, <3>7
  <2> QED
    BY <2>1, <2>2
<1>8. pos' \in 0 .. Rate /\ (b = 0 => pos' = 0)
  BY <1>2, <1>3, <1>4, <1>5 DEF Remaining
<1>9. b * Rate \in Nat /\ b * Rate - pos \in Nat
  BY <1>2, OffsetRemaining DEF Remaining
<1>10. b * Rate - pos + taken = b * Rate - pos' /\ b * Rate - pos + taken \in Nat
  BY <1>3, <1>4, <1>5, <1>9
<1>11. Remaining(b)'
  BY <1>2, <1>3, <1>7, <1>8, <1>10 DEF Remaining, Permuted
<1>12. Len(output') >= Len(output)
  <2>1. Len(output) = b * Rate - pos
    BY <1>2, <1>5, <1>9, StreamLength DEF Remaining
  <2>2. Len(output') = b * Rate - pos + taken
    BY <1>5, <1>7, <1>10, StreamLength
  <2> QED
    BY <1>4, <1>5, <1>9, <2>1, <2>2
<1> QED
  BY <1>1, <1>3, <1>6, <1>11, <1>12 DEF IInvRemaining, ShapeRemaining

LEMMA NextBlockRemaining ==
  ASSUME fed \in Nat, NEW b \in Nat, Permuted(b), output = Stream(fed, b * Rate),
         NEW taken \in 0 .. Rate, NextBlock(taken), fed' = fed
  PROVE  /\ Permuted(b + 1)'
         /\ output' = Stream(fed', b * Rate + taken)
         /\ Len(output') >= Len(output)
<1>1. /\ Permuted(b + 1)'
      /\ output' = Stream(fed', b * Rate + taken)
      /\ Len(output) \in Nat
      /\ Len(output') = Len(output) + taken
  BY FreshShape DEF NextBlock, Permute
<1>2. taken \in Nat
  BY Constants
<1> QED
  BY <1>1, <1>2

LEMMA IncBlockRemaining ==
  ASSUME IInvRemaining, IncBlock
  PROVE  IInvRemaining' /\ Len(output') >= Len(output)
<1>1. phase = "squeeze" /\ pos = 0 /\ left \in Nat /\ fed \in Nat
  BY DEF IInvRemaining, ControlRemaining, IncBlock, NextBlock
<1>2. PICK b \in Nat : Remaining(b)
  BY <1>1 DEF IInvRemaining, ShapeRemaining, IncBlock
<1> DEFINE taken == Least(left, Rate)
<1>3. /\ taken \in 0 .. Rate
      /\ left - taken \in Nat
      /\ taken = Rate \/ left - taken = 0
  BY <1>1, Constants DEF Least
<1>4. /\ NextBlock(taken)
      /\ fed' = fed /\ phase' = phase /\ pc' = "blocks"
      /\ pos' = Rate - taken
      /\ left' = left - taken
  BY DEF IncBlock, NextBlock
<1> HIDE DEF taken
<1>5. b * Rate \in Nat
  BY Constants
<1>6. output = Stream(fed, b * Rate)
  <2>1. b * Rate - 0 = b * Rate
    BY <1>5
  <2> QED
    BY <1>1, <1>2, <2>1 DEF Remaining
<1>7. /\ Permuted(b + 1)'
      /\ output' = Stream(fed', b * Rate + taken)
      /\ Len(output') >= Len(output)
  BY <1>1, <1>2, <1>3, <1>4, <1>6, NextBlockRemaining DEF Remaining
<1>8. b * Rate + taken = (b + 1) * Rate - pos'
  BY <1>3, <1>4, <1>5, Constants
<1>9. pos' \in 0 .. Rate /\ b + 1 # 0 /\ b + 1 \in Nat
  BY <1>3, <1>4, Constants
<1>10. Remaining(b + 1)'
  BY <1>7, <1>8, <1>9 DEF Remaining
<1>11. ControlRemaining'
  BY <1>1, <1>3, <1>4, Constants DEF IInvRemaining, ControlRemaining
<1>12. ShapeRemaining'
  BY <1>1, <1>4, <1>9, <1>10 DEF ShapeRemaining
<1> QED
  BY <1>7, <1>11, <1>12 DEF IInvRemaining

LEMMA OnceBlockRemaining ==
  ASSUME IInvRemaining, OnceBlock
  PROVE  IInvRemaining' /\ Len(output') >= Len(output)
<1>1. phase = "squeeze" /\ left \in Nat /\ left > 0 /\ fed \in Nat
  BY DEF IInvRemaining, ControlRemaining, OnceBlock, NextBlock
<1>2. PICK b \in Nat : OneShot(b)
  BY DEF IInvRemaining, ShapeRemaining, OnceBlock
<1> DEFINE taken == Least(left, Rate)
<1>3. /\ taken \in 0 .. Rate
      /\ left - taken \in Nat
      /\ taken = Rate \/ left - taken = 0
  BY <1>1, Constants DEF Least
<1>4. /\ NextBlock(taken)
      /\ fed' = fed /\ phase' = phase /\ pc' = "once"
      /\ left' = left - taken
  BY DEF OnceBlock, NextBlock
<1> HIDE DEF taken
<1>5. output = Stream(fed, b * Rate)
  BY <1>1, <1>2 DEF OneShot
<1>6. /\ Permuted(b + 1)'
      /\ output' = Stream(fed', b * Rate + taken)
      /\ Len(output') >= Len(output)
  BY <1>1, <1>2, <1>3, <1>4, <1>5, NextBlockRemaining DEF OneShot
<1>7. b * Rate \in Nat
  BY Constants
<1>8. b * Rate + taken \in Nat /\ b + 1 \in Nat
  BY <1>3, <1>7, Constants
<1>9. left' > 0 => b * Rate + taken = (b + 1) * Rate
  BY <1>3, <1>4, <1>7, Constants
<1>10. OneShot(b + 1)'
  BY <1>6, <1>8, <1>9 DEF OneShot
<1>11. ControlRemaining'
  BY <1>1, <1>3, <1>4 DEF IInvRemaining, ControlRemaining
<1>12. ShapeRemaining'
  BY <1>1, <1>4, <1>8, <1>10 DEF ShapeRemaining
<1> QED
  BY <1>6, <1>11, <1>12 DEF IInvRemaining

LEMMA QuietRemaining ==
  ASSUME IInvRemaining, IncDone \/ OnceDone \/ UNCHANGED vars
  PROVE  IInvRemaining'
<1>1. ControlRemaining'
  BY DEF IInvRemaining, ControlRemaining, IncDone, OnceDone, vars
<1>2. ShapeRemaining'
  BY DEF IInvRemaining, ControlRemaining, ShapeRemaining, Absorbing, Remaining, OneShot,
         Permuted, IncDone, OnceDone, vars
<1> QED
  BY <1>1, <1>2 DEF IInvRemaining

LEMMA InitRemaining == Init => IInvRemaining
<1> SUFFICES ASSUME Init PROVE IInvRemaining
  OBVIOUS
<1>1. ControlRemaining
  BY DEF Init, ControlRemaining
<1>2. ShapeRemaining
  <2>1. Absorbing(0) /\ phase = "absorb" /\ pc = "idle" /\ 0 \in Nat
    BY EmptyContext DEF Init
  <2> QED
    BY <2>1 DEF ShapeRemaining
<1> QED
  BY <1>1, <1>2 DEF IInvRemaining

LEMMA StepRemaining == IInvRemaining /\ [NextRemaining]_vars => IInvRemaining'
<1> SUFFICES ASSUME IInvRemaining, [NextRemaining]_vars PROVE IInvRemaining'
  OBVIOUS
<1>1. ASSUME NEW mlen \in 0 .. MaxIn, Absorb(mlen) PROVE IInvRemaining'
  BY <1>1, Constants, CallRemaining
<1>2. ASSUME NEW mlen \in 0 .. MaxIn, NEW outlen \in 0 .. MaxOut, Once(mlen, outlen)
      PROVE  IInvRemaining'
  BY <1>2, Constants, FinishRemaining
<1>3. ASSUME NEW outlen \in 0 .. MaxOut, Squeeze(outlen) PROVE IInvRemaining'
  BY <1>3, Constants, CallRemaining
<1>4. CASE FillBlock \/ TailBytes
  BY <1>4, AbsorbStepRemaining
<1>5. CASE IncFinalize
  <2>1. 0 \in Nat
    OBVIOUS
  <2> QED
    BY <1>5, <2>1, FinishRemaining
<1>6. CASE Leftover
  BY <1>6, LeftoverRemaining
<1>7. CASE IncBlock
  BY <1>7, IncBlockRemaining
<1>8. CASE OnceBlock
  BY <1>8, OnceBlockRemaining
<1>9. CASE IncDone \/ OnceDone \/ UNCHANGED vars
  BY <1>9, QuietRemaining
<1> QED
  BY <1>1, <1>2, <1>3, <1>4, <1>5, <1>6, <1>7, <1>8, <1>9 DEF NextRemaining

(* The shape of the Keccak state holds in every reachable state.           *)
THEOREM InvariantRemaining == SpecRemaining => []IInvRemaining
BY InitRemaining, StepRemaining, PTL DEF SpecRemaining

(* For every rate and every way of cutting message and output: AIMer's and *)
(* NTRU+'s fips202.c implement Xof.                                        *)
THEOREM RefinementRemaining == SpecRemaining => ImplementsXof
<1>1. Init => Api!Init
  BY DEF Init, Api!Init
<1>2. IInvRemaining /\ IInvRemaining' /\ [NextRemaining]_vars => [Api!Next]_(Api!vars)
  <2> SUFFICES ASSUME IInvRemaining, IInvRemaining', [NextRemaining]_vars
               PROVE  [Api!Next]_(Api!vars)
    OBVIOUS
  <2>1. fed \in Nat /\ fed' \in Nat
    BY DEF IInvRemaining, ControlRemaining
  <2>2. CASE \E length \in 0 .. MaxIn \cup 0 .. MaxOut : Absorb(length) \/ Squeeze(length)
    BY <2>2 DEF Absorb, Squeeze, Api!vars
  <2>3. CASE \E mlen \in 0 .. MaxIn, outlen \in 0 .. MaxOut : Once(mlen, outlen)
    BY <2>1, <2>3 DEF Once, AbsorbWhole, Api!AbsorbOnce, Api!Next
  <2>4. CASE FillBlock \/ TailBytes
    <3>1. phase = "absorb" /\ UNCHANGED <<phase, output>>
      BY <2>4 DEF FillBlock, TailBytes, IInvRemaining, ControlRemaining
    <3>2. fed' >= fed
      BY <2>4, AbsorbStepRemaining
    <3> QED
      BY <2>1, <3>1, <3>2 DEF Api!Absorb, Api!Next
  <2>5. CASE IncFinalize
    BY <2>5 DEF IncFinalize, FinalizeTo, Api!Finalize, Api!Next
  <2>6. CASE Leftover \/ IncBlock \/ OnceBlock
    <3>1. phase = "squeeze" /\ UNCHANGED <<phase, fed>>
      BY <2>6 DEF Leftover, IncBlock, OnceBlock, IInvRemaining, ControlRemaining
    <3>2. Len(output') >= Len(output)
      BY <2>6, LeftoverRemaining, IncBlockRemaining, OnceBlockRemaining
    <3>3. PICK l \in Nat : output' = Stream(fed', l)
      <4>1. CASE pc' \in {"once", "released"}
        BY <4>1 DEF IInvRemaining, ShapeRemaining, OneShot
      <4>2. CASE pc' \notin {"once", "released"}
        <5>1. PICK b \in Nat : Remaining(b)'
          BY <3>1, <4>2 DEF IInvRemaining, ShapeRemaining
        <5>2. pos' \in 0 .. Rate /\ (b = 0 => pos' = 0)
          BY <5>1 DEF Remaining
        <5>3. b * Rate - pos' \in Nat
          BY <5>2, OffsetRemaining
        <5> QED
          BY <5>1, <5>3 DEF Remaining
      <4> QED
        BY <4>1, <4>2
    <3>4. output' = Stream(fed, l)
      BY <3>1, <3>3
    <3> QED
      BY <2>1, <3>1, <3>2, <3>4, SqueezeOfXof DEF Api!Next
  <2>7. CASE IncDone \/ OnceDone \/ UNCHANGED vars
    BY <2>7 DEF IncDone, OnceDone, vars, Api!vars
  <2> QED
    BY <2>2, <2>3, <2>4, <2>5, <2>6, <2>7 DEF NextRemaining
<1> QED
  BY InvariantRemaining, <1>1, <1>2, PTL DEF SpecRemaining, ImplementsXof, Api!Spec
=============================================================================
