--------------------------- MODULE Extension_proof ---------------------------
(***************************************************************************)
(* The PHP extension.  First its test entropy: every thread of the test    *)
(* build draws the stream of its own last seed, for any number of threads, *)
(* any schemes, seeds and sizes of draws.  The invariant gives each        *)
(* generator as a function of two things the thread alone decides, its     *)
(* last seed and the sizes it asked for since, and the bytes it got as a   *)
(* function of the same two.                                               *)
(*                                                                         *)
(* Then its objects, for any scripts, scheme names and number of cells:    *)
(* every reference count is exact, every algorithm object keeps telling    *)
(* the registry's values, and nothing a script can still reach changes.    *)
(* A call works on a heap with temporaries, so the lemmas speak of a heap  *)
(* and of the holders each cell has outside it: building, linking, sharing *)
(* and releasing each keep the count equal to those plus the owners in the *)
(* heap, and what cells say.  An action is a chain of these that ends with *)
(* the variables as the only holders outside.                              *)
(***************************************************************************)
EXTENDS TestEntropy, PhpObjects, SequenceTheorems, FiniteSetTheorems, TLAPS

(* The generator, the bytes and the context a thread must have.            *)
GeneratorAfter(seed, sizes) ==
  IF seed = NoSeed THEN NoGenerator
  ELSE [key |-> KeyAfter(seed, sizes), counter |-> 0]

Drawn(seed, sizes, k) == Output(KeyAfter(seed, SubSeq(sizes, 1, k - 1)), 1, sizes[k])

Stream(seed, sizes) == [k \in 1 .. Len(sizes) |-> Drawn(seed, sizes, k)]

Preview(seed, sizes, at, length) ==
  Output(KeyAfter(seed, SubSeq(sizes, 1, at) \o <<32, 1>>), 1, length)

(* A thread with draws outstanding is in an operation of a scheme.         *)
Types ==
  /\ DOMAIN callback = Schemes
  /\ op \in [Threads -> [scheme : Schemes \cup {"none"}, size : Nat, left : Nat]]
  /\ \A t \in Threads : op[t].left > 0 => op[t].scheme \in Schemes
  /\ seeded \in [Threads -> {NoSeed} \cup {<<s>> : s \in Seeds}]
  /\ named \in [Threads -> SUBSET Schemes]
  /\ asked \in [Threads -> Seq(Nat)]
  /\ DOMAIN context = Threads

Unseeded ==
  \A t \in Threads : seeded[t] = NoSeed => asked[t] = <<>> /\ context[t] = NoContext

Generators == drbg = [t \in Threads |-> GeneratorAfter(seeded[t], asked[t])]

Streams == got = [t \in Threads |-> Stream(seeded[t], asked[t])]

Contexts ==
  \A t \in Threads : context[t] # NoContext =>
    \E at \in 0 .. Len(asked[t]), length \in Nat :
      context[t] = [at |-> at, out |-> Preview(seeded[t], asked[t], at, length)]

Setters ==
  \A t \in Threads, s \in Schemes :
    s \in named[t] => callback[s] = "provide_test_entropy"

EntropyInv == Types /\ Unseeded /\ Generators /\ Streams /\ Contexts /\ Setters

-----------------------------------------------------------------------------
(* Keys: one more draw appends its blocks.                                 *)

LEMMA BlocksNat == ASSUME NEW n \in Nat PROVE Blocks(n) \in Nat
BY DEF Blocks

LEMMA KeyShape ==
  ASSUME NEW s, NEW sizes \in Seq(Nat)
  PROVE  /\ KeyAfter(<<s>>, sizes) \in Seq({s} \cup Nat)
         /\ Len(KeyAfter(<<s>>, sizes)) = Len(sizes) + 1
         /\ KeyAfter(<<s>>, sizes)[1] = s
         /\ \A k \in 1 .. Len(sizes) : KeyAfter(<<s>>, sizes)[k + 1] = Blocks(sizes[k])
<1> DEFINE S == {s} \cup Nat
           tail == [k \in 1 .. Len(sizes) |-> Blocks(sizes[k])]
<1>1. <<s>> \in Seq(S) /\ Len(<<s>>) = 1 /\ <<s>>[1] = s
  OBVIOUS
<1>2. \A k \in 1 .. Len(sizes) : Blocks(sizes[k]) \in S
  <2>1. \A k \in 1 .. Len(sizes) : sizes[k] \in Nat
    OBVIOUS
  <2> QED
    BY <2>1, BlocksNat
<1>3. tail \in Seq(S) /\ Len(tail) = Len(sizes)
  BY <1>2
<1>4. KeyAfter(<<s>>, sizes) = <<s>> \o tail
  BY DEF KeyAfter
<1>5. \A k \in 1 .. Len(sizes) : tail[k] = Blocks(sizes[k])
  OBVIOUS
<1> HIDE DEF S, tail
<1>6. /\ <<s>> \o tail \in Seq(S)
      /\ Len(<<s>> \o tail) = Len(sizes) + 1
      /\ \A i \in 1 .. 1 + Len(sizes) :
           (<<s>> \o tail)[i] = IF i <= 1 THEN <<s>>[i] ELSE tail[i - 1]
  BY <1>1, <1>3, ConcatProperties
<1>7. ASSUME NEW k \in 1 .. Len(sizes)
      PROVE  (<<s>> \o tail)[k + 1] = Blocks(sizes[k])
  <2>1. PICK i \in 1 .. 1 + Len(sizes) : i = k + 1 /\ i > 1 /\ i - 1 = k
    OBVIOUS
  <2>2. (<<s>> \o tail)[i] = tail[i - 1]
    BY <2>1, <1>6
  <2> QED
    BY <2>1, <2>2, <1>5
<1>8. (<<s>> \o tail)[1] = s
  BY <1>1, <1>6
<1> QED
  BY <1>4, <1>6, <1>7, <1>8, Zenon DEF S

LEMMA KeyGrows ==
  ASSUME NEW s, NEW sizes \in Seq(Nat), NEW n \in Nat
  PROVE  KeyAfter(<<s>>, Append(sizes, n)) = Append(KeyAfter(<<s>>, sizes), Blocks(n))
<1> DEFINE S == {s} \cup Nat
           more == Append(sizes, n)
           before == KeyAfter(<<s>>, sizes)
           after == KeyAfter(<<s>>, more)
<1>1. more \in Seq(Nat) /\ Len(more) = Len(sizes) + 1
  OBVIOUS
<1>2. \A k \in 1 .. Len(more) : more[k] = IF k <= Len(sizes) THEN sizes[k] ELSE n
  OBVIOUS
<1>3. /\ after \in Seq(S) /\ Len(after) = Len(sizes) + 2 /\ after[1] = s
      /\ \A k \in 1 .. Len(more) : after[k + 1] = Blocks(more[k])
  <2>1. \A z \in Seq(Nat) :
          /\ KeyAfter(<<s>>, z) \in Seq(S) /\ Len(KeyAfter(<<s>>, z)) = Len(z) + 1
          /\ KeyAfter(<<s>>, z)[1] = s
          /\ \A k \in 1 .. Len(z) : KeyAfter(<<s>>, z)[k + 1] = Blocks(z[k])
    BY KeyShape, Zenon
  <2>2. Len(sizes) + 2 = Len(more) + 1
    BY <1>1
  <2> HIDE DEF S, more
  <2> QED
    BY <2>1, <2>2, <1>1 DEF after
<1>4. /\ before \in Seq(S) /\ Len(before) = Len(sizes) + 1 /\ before[1] = s
      /\ \A k \in 1 .. Len(sizes) : before[k + 1] = Blocks(sizes[k])
  BY KeyShape
<1>5. Blocks(n) \in S
  BY BlocksNat
<1> HIDE DEF S, more, before, after
<1>6. /\ Append(before, Blocks(n)) \in Seq(S)
      /\ Len(Append(before, Blocks(n))) = Len(sizes) + 2
      /\ \A i \in 1 .. Len(sizes) + 2 :
           Append(before, Blocks(n))[i] = IF i <= Len(sizes) + 1 THEN before[i] ELSE Blocks(n)
  BY <1>4, <1>5
<1>7. ASSUME NEW i \in 1 .. Len(sizes) + 2
      PROVE  after[i] = Append(before, Blocks(n))[i]
  <2>1. CASE i = 1
    BY <2>1, <1>3, <1>4, <1>6
  <2>2. CASE i # 1
    <3>1. PICK k \in 1 .. Len(more) : i = k + 1
      BY <2>2, <1>1
    <3>2. after[i] = Blocks(more[k])
      BY <3>1, <1>3
    <3>3. CASE k <= Len(sizes)
      <4>1. before[k + 1] = Blocks(sizes[k])
        BY <3>3, <1>4
      <4> QED
        BY <4>1, <3>1, <3>2, <3>3, <1>2, <1>6
    <3>4. CASE k > Len(sizes)
      BY <3>1, <3>2, <3>4, <1>2, <1>6
    <3>5. Len(sizes) \in Nat /\ k \in Nat
      BY <1>1
    <3>6. k <= Len(sizes) \/ k > Len(sizes)
      BY <3>5
    <3> QED
      BY <3>3, <3>4, <3>6, Zenon
  <2> QED
    BY <2>1, <2>2
<1> QED
  BY <1>3, <1>6, <1>7, SeqEqual DEF before, after, more

(* What lies before a draw is not touched by a later one.                  *)
LEMMA Prefix ==
  ASSUME NEW sizes \in Seq(Nat), NEW n \in Nat, NEW j \in 0 .. Len(sizes)
  PROVE  SubSeq(Append(sizes, n), 1, j) = SubSeq(sizes, 1, j)
<1>1. Append(sizes, n) \in Seq(Nat) /\ Len(Append(sizes, n)) = Len(sizes) + 1
  OBVIOUS
<1>2. \A i \in 1 .. Len(sizes) : Append(sizes, n)[i] = sizes[i]
  OBVIOUS
<1> QED
  BY <1>1, <1>2

LEMMA StreamShape ==
  ASSUME NEW seed, NEW sizes \in Seq(Nat)
  PROVE  /\ Len(Stream(seed, sizes)) = Len(sizes)
         /\ \A k \in 1 .. Len(sizes) : Stream(seed, sizes)[k] = Drawn(seed, sizes, k)
BY DEF Stream

LEMMA StreamGrows ==
  ASSUME NEW seed, NEW sizes \in Seq(Nat), NEW n \in Nat
  PROVE  Append(Stream(seed, sizes), Output(KeyAfter(seed, sizes), 1, n))
           = Stream(seed, Append(sizes, n))
<1> DEFINE more == Append(sizes, n)
           last == Output(KeyAfter(seed, sizes), 1, n)
<1>1. /\ more \in Seq(Nat) /\ Len(more) = Len(sizes) + 1
      /\ \A k \in 1 .. Len(sizes) : more[k] = sizes[k]
      /\ more[Len(sizes) + 1] = n
  OBVIOUS
<1>2. ASSUME NEW k \in 1 .. Len(sizes)
      PROVE  Drawn(seed, more, k) = Drawn(seed, sizes, k)
  <2>1. k - 1 \in 0 .. Len(sizes)
    OBVIOUS
  <2>2. SubSeq(more, 1, k - 1) = SubSeq(sizes, 1, k - 1)
    BY <2>1, Prefix
  <2> QED
    BY <2>2, <1>1 DEF Drawn
<1>3. Drawn(seed, more, Len(sizes) + 1) = last
  <2>1. Len(sizes) \in 0 .. Len(sizes) /\ (Len(sizes) + 1) - 1 = Len(sizes)
    OBVIOUS
  <2>2. SubSeq(more, 1, Len(sizes)) = SubSeq(sizes, 1, Len(sizes))
    BY <2>1, Prefix
  <2>3. SubSeq(sizes, 1, Len(sizes)) = sizes
    BY SubSeqFull
  <2> QED
    BY <2>1, <2>2, <2>3, <1>1 DEF Drawn
<1> HIDE DEF more, last
<1>4. DOMAIN Stream(seed, sizes) = 1 .. Len(sizes) /\ Len(sizes) \in Nat
  BY DEF Stream
<1>5. Append(Stream(seed, sizes), last)
        = [k \in 1 .. Len(sizes) + 1 |->
             IF k <= Len(sizes) THEN Stream(seed, sizes)[k] ELSE last]
  BY <1>4 DEF Stream
<1>6. Stream(seed, more)
        = [k \in 1 .. Len(sizes) + 1 |-> Drawn(seed, more, k)]
  BY <1>1 DEF Stream
<1>7. \A k \in 1 .. Len(sizes) + 1 :
        (IF k <= Len(sizes) THEN Stream(seed, sizes)[k] ELSE last) = Drawn(seed, more, k)
  <2> TAKE k \in 1 .. Len(sizes) + 1
  <2>1. CASE k <= Len(sizes)
    BY <2>1, <1>2, <1>4, StreamShape
  <2>2. CASE ~(k <= Len(sizes))
    <3>1. k = Len(sizes) + 1
      BY <2>2, <1>4
    <3> QED
      BY <2>2, <3>1, <1>3
  <2> QED
    BY <2>1, <2>2
<1> QED
  BY <1>5, <1>6, <1>7 DEF more, last

-----------------------------------------------------------------------------
(* The generator.                                                          *)

LEMMA Generating ==
  ASSUME NEW s, NEW sizes \in Seq(Nat), NEW n \in Nat
  PROVE  /\ Generated(GeneratorAfter(<<s>>, sizes), n) = Output(KeyAfter(<<s>>, sizes), 1, n)
         /\ AfterGenerate(GeneratorAfter(<<s>>, sizes), n)
              = GeneratorAfter(<<s>>, Append(sizes, n))
<1>1. GeneratorAfter(<<s>>, sizes) = [key |-> KeyAfter(<<s>>, sizes), counter |-> 0]
  BY DEF GeneratorAfter, NoSeed
<1>2. GeneratorAfter(<<s>>, Append(sizes, n))
        = [key |-> Append(KeyAfter(<<s>>, sizes), Blocks(n)), counter |-> 0]
  BY KeyGrows DEF GeneratorAfter, NoSeed
<1>3. ASSUME NEW k
      PROVE  /\ Generated([key |-> k, counter |-> 0], n) = Output(k, 1, n)
             /\ AfterGenerate([key |-> k, counter |-> 0], n)
                  = [key |-> Append(k, Blocks(n)), counter |-> 0]
  <2>1. 0 + Blocks(n) = Blocks(n) /\ 0 + 1 = 1
    BY BlocksNat
  <2> QED
    BY <2>1 DEF Generated, AfterGenerate, Update, Advance
<1> QED
  BY <1>1, <1>2, <1>3, Zenon

LEMMA FreshGenerator ==
  ASSUME NEW s
  PROVE  CtrDrbg(s) = GeneratorAfter(<<s>>, <<>>)
<1>1. KeyAfter(<<s>>, <<>>) = <<s>>
  BY DEF KeyAfter
<1> QED
  BY <1>1 DEF CtrDrbg, GeneratorAfter, NoSeed

LEMMA SeededGenerator ==
  ASSUME NEW s, NEW sizes \in Seq(Nat)
  PROVE  GeneratorAfter(<<s>>, sizes) # NoGenerator
<1>1. Len(KeyAfter(<<s>>, sizes)) # 0
  <2>1. Len(KeyAfter(<<s>>, sizes)) = Len(sizes) + 1
    BY KeyShape
  <2>2. Len(sizes) \in Nat
    OBVIOUS
  <2> QED
    BY <2>1, <2>2
<1>2. KeyAfter(<<s>>, sizes) # <<>>
  BY <1>1
<1> QED
  BY <1>2 DEF GeneratorAfter, NoSeed, NoGenerator

(* What the context is drawn from: the seed, the draws so far, 32 and 1.   *)
LEMMA Previewing ==
  ASSUME NEW s, NEW sizes \in Seq(Nat), NEW length \in Nat
  PROVE  Generated(AfterGenerate(AfterGenerate(GeneratorAfter(<<s>>, sizes), 32), 1), length)
           = Preview(<<s>>, sizes, Len(sizes), length)
<1>1. AfterGenerate(GeneratorAfter(<<s>>, sizes), 32) = GeneratorAfter(<<s>>, Append(sizes, 32))
  BY Generating
<1>2. Append(sizes, 32) \in Seq(Nat) /\ Append(Append(sizes, 32), 1) \in Seq(Nat)
  OBVIOUS
<1>3. AfterGenerate(GeneratorAfter(<<s>>, Append(sizes, 32)), 1)
        = GeneratorAfter(<<s>>, Append(Append(sizes, 32), 1))
  BY <1>2, Generating
<1>4. Generated(GeneratorAfter(<<s>>, Append(Append(sizes, 32), 1)), length)
        = Output(KeyAfter(<<s>>, Append(Append(sizes, 32), 1)), 1, length)
  BY <1>2, Generating
<1>5. SubSeq(sizes, 1, Len(sizes)) = sizes
  BY SubSeqFull
<1>6. Append(Append(sizes, 32), 1) = sizes \o <<32, 1>>
  OBVIOUS
<1> QED
  BY <1>1, <1>3, <1>4, <1>5, <1>6 DEF Preview

LEMMA RequestSizes ==
  ASSUME NEW s \in Schemes, NEW r \in Requests(s)
  PROVE  r.size \in Nat /\ r.left \in Nat
<1>1. \/ s \in DOMAIN AimerParams
      \/ s \in DOMAIN HaetaeParams
      \/ s \in DOMAIN NtruplusPolybytes
      \/ s \in DOMAIN SmaugtParams
  BY TestEntropyAssumption
     DEF Signatures, Kems, AimerParams, HaetaeParams, NtruplusPolybytes, SmaugtParams
<1>2. MaxAsked \in Nat
  BY TestEntropyAssumption
<1>3. s \in DOMAIN AimerParams => AimerParams[s].b \in Nat
  BY DEF AimerParams
<1>4. s \in DOMAIN NtruplusPolybytes => NtruplusPolybytes[s] \div 12 \in Nat
  BY DEF NtruplusPolybytes
<1> QED
  BY <1>1, <1>2, <1>3, <1>4 DEF Requests, Request

-----------------------------------------------------------------------------
(* The invariant.                                                          *)

LEMMA InitEntropyInv == Init => EntropyInv
<1> SUFFICES ASSUME Init PROVE EntropyInv
  OBVIOUS
<1>1. Types
  BY DEF Init, Types, Idle, NoSeed
<1>2. Unseeded /\ Contexts /\ Setters
  BY DEF Init, Unseeded, Contexts, Setters
<1>3. Generators
  BY DEF Init, Generators, GeneratorAfter
<1>4. Streams
  BY DEF Init, Streams, Stream
<1> QED
  BY <1>1, <1>2, <1>3, <1>4 DEF EntropyInv

(* A thread that starts over: with a seed, or with none.                   *)
LEMMA Starting ==
  ASSUME EntropyInv, NEW t \in Threads, NEW seed \in {NoSeed} \cup {<<s>> : s \in Seeds},
         Start(t, seed),
         drbg' = [drbg EXCEPT ![t] = GeneratorAfter(seed, <<>>)]
  PROVE  Unseeded' /\ Generators' /\ Streams' /\ Contexts'
<1> USE DEF EntropyInv, Types, Start
<1>1. Unseeded'
  BY DEF Unseeded
<1>2. Generators'
  BY DEF Generators
<1>3. Streams'
  <2>1. Stream(seed, <<>>) = <<>>
    BY DEF Stream
  <2> QED
    BY <2>1 DEF Streams
<1>4. Contexts'
  BY DEF Contexts
<1> QED
  BY <1>1, <1>2, <1>3, <1>4

LEMMA TestSeedIInv ==
  ASSUME EntropyInv, NEW t \in Threads, NEW s \in Schemes, TestSeed(t, s)
  PROVE  EntropyInv'
<1> USE DEF EntropyInv
<1>1. Types'
  <2>1. callback' = [callback EXCEPT ![s] = "provide_test_entropy"] /\ op' = op
    BY DEF TestSeed, Select
  <2>2. named' \in [Threads -> SUBSET Schemes]
    BY DEF TestSeed, Types
  <2>3. DOMAIN context' = Threads
    BY DEF TestSeed, Types, Start
  <2>4. seeded' \in [Threads -> {NoSeed} \cup {<<x>> : x \in Seeds}]
    BY DEF TestSeed, Types, Start
  <2>5. asked' \in [Threads -> Seq(Nat)]
    <3>1. asked' = [asked EXCEPT ![t] = <<>>] \/ asked' = asked
      BY DEF TestSeed, Start
    <3>2. <<>> \in Seq(Nat) /\ asked \in [Threads -> Seq(Nat)]
      BY EmptySeq DEF Types
    <3> QED
      BY <3>1, <3>2
  <2> QED
    BY <2>1, <2>2, <2>3, <2>4, <2>5 DEF Types
<1>2. Setters'
  BY DEF TestSeed, Select, Setters, Types
<1>3. Unseeded' /\ Generators' /\ Streams' /\ Contexts'
  <2>1. CASE \E seed \in Seeds : drbg' = [drbg EXCEPT ![t] = CtrDrbg(seed)] /\ Start(t, <<seed>>)
    BY <2>1, FreshGenerator, Starting
  <2>2. CASE drbg' = [drbg EXCEPT ![t] = Emptied(t)] /\ Start(t, NoSeed)
    BY <2>2, Starting DEF Emptied, GeneratorAfter
  <2>3. CASE UNCHANGED <<drbg, seeded, asked, got, context>>
    BY <2>3 DEF Unseeded, Generators, Streams, Contexts
  <2> QED
    BY <2>1, <2>2, <2>3 DEF TestSeed
<1> QED
  BY <1>1, <1>2, <1>3

LEMMA TestSignatureContextIInv ==
  ASSUME EntropyInv, NEW t \in Threads, TestSignatureContext(t)
  PROVE  EntropyInv'
<1> USE DEF EntropyInv
<1>1. UNCHANGED <<callback, op, seeded, named, asked, got>>
  BY DEF TestSignatureContext
<1>2. PICK length \in ContextLengths :
        LET sized == AfterGenerate(AfterGenerate(drbg[t], 32), 1)
        IN  /\ context' = [context EXCEPT ![t] =
                 [at |-> Len(asked[t]), out |-> Generated(sized, length)]]
            /\ drbg' = [drbg EXCEPT ![t] =
                 AfterPreview(drbg[t], AfterGenerate(sized, length))]
  BY DEF TestSignatureContext
<1>3. length \in Nat
  BY TestEntropyAssumption
<1>4. drbg' = drbg
  BY <1>2 DEF AfterPreview, Generators
<1>5. PICK s : seeded[t] = <<s>>
  <2>1. seeded[t] # NoSeed
    BY DEF TestSignatureContext, Generators, GeneratorAfter
  <2> QED
    BY <2>1 DEF Types
<1>6. asked[t] \in Seq(Nat)
  BY DEF Types
<1>7. Generated(AfterGenerate(AfterGenerate(drbg[t], 32), 1), length)
        = Preview(seeded[t], asked[t], Len(asked[t]), length)
  <2>1. drbg[t] = GeneratorAfter(<<s>>, asked[t])
    BY <1>5 DEF Generators
  <2> QED
    BY <2>1, <1>3, <1>5, <1>6, Previewing
<1>8. context' = [context EXCEPT ![t] =
        [at |-> Len(asked[t]), out |-> Preview(seeded[t], asked[t], Len(asked[t]), length)]]
  BY <1>2, <1>7
<1>9. Types'
  BY <1>1, <1>4, <1>8 DEF Types
<1>10. Unseeded'
  <2>1. seeded[t] # NoSeed
    BY <1>5 DEF NoSeed
  <2> QED
    BY <2>1, <1>1, <1>8 DEF Unseeded, Types
<1>11. Contexts'
  <2>1. Len(asked[t]) \in 0 .. Len(asked[t])
    BY <1>6
  <2> QED
    BY <2>1, <1>1, <1>3, <1>8 DEF Contexts, Types
<1>12. Generators' /\ Streams' /\ Setters'
  BY <1>1, <1>4 DEF Generators, Streams, Setters
<1> QED
  BY <1>9, <1>10, <1>11, <1>12

LEMMA BeginIInv ==
  ASSUME EntropyInv, NEW t \in Threads, NEW s \in Schemes, Begin(t, s)
  PROVE  EntropyInv'
<1> USE DEF EntropyInv
<1>1. PICK r \in Requests(s) :
        op' = [op EXCEPT ![t] = [scheme |-> s, size |-> r.size, left |-> r.left]]
  BY DEF Begin
<1>2. r.size \in Nat /\ r.left \in Nat
  BY RequestSizes
<1>3. Types'
  <2>1. op' \in [Threads -> [scheme : Schemes \cup {"none"}, size : Nat, left : Nat]]
    BY <1>1, <1>2 DEF Types
  <2>2. \A u \in Threads : op'[u].left > 0 => op'[u].scheme \in Schemes
    BY <1>1, <1>2 DEF Types
  <2> QED
    BY <2>1, <2>2 DEF Begin, Types
<1>4. Unseeded' /\ Generators' /\ Streams' /\ Contexts' /\ Setters'
  BY DEF Begin, Unseeded, Generators, Streams, Contexts, Setters
<1> QED
  BY <1>3, <1>4

LEMMA DrawIInv ==
  ASSUME EntropyInv, NEW t \in Threads, Draw(t)
  PROVE  EntropyInv'
<1> USE DEF EntropyInv
<1> DEFINE n == op[t].size
<1>1. n \in Nat /\ asked[t] \in Seq(Nat)
  BY DEF Types
<1>2. PICK s \in Seeds : seeded[t] = <<s>>
  <2>1. seeded[t] # NoSeed
    BY DEF Draw, Answers, Generators, GeneratorAfter
  <2> QED
    BY <2>1 DEF Types
<1>3. /\ asked' = [asked EXCEPT ![t] = Append(asked[t], n)]
      /\ UNCHANGED <<callback, seeded, named, context>>
  BY DEF Draw
<1>4. drbg' = [drbg EXCEPT ![t] = GeneratorAfter(<<s>>, Append(asked[t], n))]
  <2>1. AfterGenerate(drbg[t], n) = GeneratorAfter(<<s>>, Append(asked[t], n))
    BY <1>1, <1>2, Generating DEF Generators
  <2>2. drbg' = [drbg EXCEPT ![t] = AfterGenerate(drbg[t], n)]
    BY DEF Draw
  <2> QED
    BY <2>1, <2>2
<1>5. got' = [got EXCEPT ![t] = Stream(<<s>>, Append(asked[t], n))]
  <2>1. Generated(drbg[t], n) = Output(KeyAfter(<<s>>, asked[t]), 1, n)
    BY <1>1, <1>2, Generating DEF Generators
  <2>2. Append(got[t], Output(KeyAfter(<<s>>, asked[t]), 1, n))
          = Stream(<<s>>, Append(asked[t], n))
    BY <1>1, <1>2, StreamGrows DEF Streams
  <2>3. got' = [got EXCEPT ![t] = Append(got[t], Generated(drbg[t], n))]
    BY DEF Draw
  <2> QED
    BY <2>1, <2>2, <2>3
<1>6. Append(asked[t], n) \in Seq(Nat) /\ Len(Append(asked[t], n)) = Len(asked[t]) + 1
  BY <1>1
<1> HIDE DEF n
<1>7. Types'
  <2> DEFINE O == [scheme : Schemes \cup {"none"}, size : Nat, left : Nat]
  <2>1. op \in [Threads -> O] /\ op[t].left > 0 /\ op[t].scheme \in Schemes
    BY DEF Types, Draw, Drawing
  <2>2. PICK next \in O :
          op' = [op EXCEPT ![t] = next] /\ (next.left > 0 => next.scheme \in Schemes)
    <3>1. CASE op[t].left = 1
      <4>1. op' = [op EXCEPT ![t] = Idle]
        BY <3>1 DEF Draw
      <4>2. Idle \in O /\ ~(Idle.left > 0)
        BY DEF Idle
      <4> QED
        BY <4>1, <4>2
    <3>2. CASE op[t].left # 1
      <4>1. op' = [op EXCEPT ![t] = [op[t] EXCEPT !.left = op[t].left - 1]]
        BY <3>2 DEF Draw
      <4>2. [op[t] EXCEPT !.left = op[t].left - 1] \in O
        BY <2>1
      <4>3. [op[t] EXCEPT !.left = op[t].left - 1].scheme = op[t].scheme
        BY <2>1
      <4> QED
        BY <2>1, <4>1, <4>2, <4>3
    <3> QED
      BY <3>1, <3>2
  <2> HIDE DEF O
  <2>3. op' \in [Threads -> O]
    BY <2>1, <2>2
  <2>4. \A u \in Threads : op'[u].left > 0 => op'[u].scheme \in Schemes
    BY <2>1, <2>2 DEF Types
  <2>5. asked' \in [Threads -> Seq(Nat)]
    BY <1>3, <1>6 DEF Types
  <2> QED
    BY <2>3, <2>4, <2>5, <1>3 DEF Types, O
<1>8. Unseeded'
  BY <1>2, <1>3 DEF Unseeded, Types, NoSeed
<1>9. Generators'
  BY <1>2, <1>3, <1>4 DEF Generators, Types
<1>10. Streams'
  BY <1>2, <1>3, <1>5 DEF Streams, Types
<1>11. Contexts'
  <2> SUFFICES ASSUME NEW u \in Threads, context[u] # NoContext
               PROVE  \E at \in 0 .. Len(asked'[u]), length \in Nat :
                        context[u] = [at |-> at, out |-> Preview(seeded[u], asked'[u], at, length)]
    BY <1>3 DEF Contexts
  <2>1. PICK at \in 0 .. Len(asked[u]), length \in Nat :
          context[u] = [at |-> at, out |-> Preview(seeded[u], asked[u], at, length)]
    BY DEF Contexts
  <2>2. CASE u = t
    <3>1. Preview(seeded[u], Append(asked[t], n), at, length)
            = Preview(seeded[u], asked[t], at, length)
      BY <2>2, <1>1, Prefix DEF Preview
    <3>2. at \in 0 .. Len(Append(asked[t], n))
      BY <2>2, <1>1, <1>6
    <3> QED
      BY <2>1, <2>2, <3>1, <3>2, <1>3 DEF Types
  <2>3. CASE u # t
    BY <2>1, <2>3, <1>3 DEF Types
  <2> QED
    BY <2>2, <2>3
<1>12. Setters'
  BY <1>3 DEF Setters
<1> QED
  BY <1>7, <1>8, <1>9, <1>10, <1>11, <1>12

LEMMA DrawFailsIInv ==
  ASSUME EntropyInv, NEW t \in Threads, DrawFails(t)
  PROVE  EntropyInv'
<1> USE DEF EntropyInv
<1>1. Types'
  BY DEF DrawFails, Types, Idle
<1>2. Unseeded' /\ Generators' /\ Streams' /\ Contexts' /\ Setters'
  BY DEF DrawFails, Unseeded, Generators, Streams, Contexts, Setters
<1> QED
  BY <1>1, <1>2

LEMMA ThreadEndsIInv ==
  ASSUME EntropyInv, NEW t \in Threads, ThreadEnds(t)
  PROVE  EntropyInv'
<1>1. Types'
  BY DEF EntropyInv, ThreadEnds, Types, Start
<1>2. Unseeded' /\ Generators' /\ Streams' /\ Contexts'
  BY Starting DEF ThreadEnds, GeneratorAfter
<1>3. Setters'
  BY DEF EntropyInv, ThreadEnds, Setters, Types
<1> QED
  BY <1>1, <1>2, <1>3 DEF EntropyInv

LEMMA StepEntropyInv == EntropyInv /\ [Next]_vars => EntropyInv'
<1> SUFFICES ASSUME EntropyInv, [Next]_vars PROVE EntropyInv'
  OBVIOUS
<1>1. ASSUME NEW t \in Threads, NEW s \in Schemes, TestSeed(t, s) PROVE EntropyInv'
  BY <1>1, TestSeedIInv
<1>2. ASSUME NEW t \in Threads, NEW s \in Schemes, Begin(t, s) PROVE EntropyInv'
  BY <1>2, BeginIInv
<1>3. ASSUME NEW t \in Threads, TestSignatureContext(t) PROVE EntropyInv'
  BY <1>3, TestSignatureContextIInv
<1>4. ASSUME NEW t \in Threads, Draw(t) PROVE EntropyInv'
  BY <1>4, DrawIInv
<1>5. ASSUME NEW t \in Threads, DrawFails(t) PROVE EntropyInv'
  BY <1>5, DrawFailsIInv
<1>6. ASSUME NEW t \in Threads, ThreadEnds(t) PROVE EntropyInv'
  BY <1>6, ThreadEndsIInv
<1>7. CASE UNCHANGED vars
  BY <1>7 DEF vars, EntropyInv, Types, Unseeded, Generators, Streams, Contexts, Setters
<1> QED
  BY <1>1, <1>2, <1>3, <1>4, <1>5, <1>6, <1>7 DEF Next

LEMMA InductiveInvariant == Spec => []EntropyInv
<1> QED
  BY InitEntropyInv, StepEntropyInv, PTL DEF Spec

-----------------------------------------------------------------------------
(* What the invariant says of one thread's draws.                          *)
LEMMA DrawnOutput ==
  ASSUME EntropyInv, NEW t \in Threads
  PROVE  /\ asked[t] \in Seq(Nat)
         /\ Len(got[t]) = Len(asked[t])
         /\ \A k \in 1 .. Len(got[t]) : got[t][k] = Drawn(seeded[t], asked[t], k)
<1>1. asked[t] \in Seq(Nat)
  BY DEF EntropyInv, Types
<1>2. got[t] = Stream(seeded[t], asked[t])
  BY DEF EntropyInv, Streams
<1> QED
  BY <1>1, <1>2, StreamShape

(* Every thread's draws, and the context it was shown, are those of a      *)
(* fresh generator of its last seed: OwnStream of module TestEntropy.      *)
THEOREM DrawsAreOwn == Spec => []OwnStream
<1>1. EntropyInv => OwnStream
  <2> SUFFICES ASSUME EntropyInv, NEW t \in Threads
               PROVE  /\ Len(got[t]) = Len(asked[t])
                      /\ seeded[t] = NoSeed => got[t] = <<>> /\ context[t] = NoContext
                      /\ \A k \in 1 .. Len(got[t]) : got[t][k] = Drawn(seeded[t], asked[t], k)
                      /\ LET c == context[t]
                         IN  c # NoContext => c.out = Preview(seeded[t], asked[t], c.at, c.out.length)
    BY DEF OwnStream, Drawn, Preview
  <2>1. seeded[t] = NoSeed => got[t] = <<>> /\ context[t] = NoContext
    BY DEF EntropyInv, Unseeded, Streams, Stream
  <2>2. context[t] # NoContext =>
          context[t].out = Preview(seeded[t], asked[t], context[t].at, context[t].out.length)
    <3> SUFFICES ASSUME context[t] # NoContext
                 PROVE  context[t].out
                          = Preview(seeded[t], asked[t], context[t].at, context[t].out.length)
      OBVIOUS
    <3>1. PICK at \in 0 .. Len(asked[t]), length \in Nat :
            context[t] = [at |-> at, out |-> Preview(seeded[t], asked[t], at, length)]
      BY DEF EntropyInv, Contexts
    <3>2. context[t].at = at /\ context[t].out = Preview(seeded[t], asked[t], at, length)
      BY <3>1
    <3>3. Preview(seeded[t], asked[t], at, length).length = length
      BY DEF Preview, Output
    <3> QED
      BY <3>2, <3>3
  <2> QED
    BY <2>1, <2>2, DrawnOutput
<1> QED
  BY <1>1, InductiveInvariant, PTL

(* A scheme a seeded thread has named gets its entropy, whatever the other *)
(* threads do: NamedSchemesAnswer of module TestEntropy.                   *)
THEOREM NamedSchemesKeepAnswering == Spec => []NamedSchemesAnswer
<1>1. EntropyInv => NamedSchemesAnswer
  <2> SUFFICES ASSUME EntropyInv, NEW t \in Threads, NEW s \in Schemes,
                      s \in named[t], seeded[t] # NoSeed
               PROVE  callback[s] = "provide_test_entropy" /\ drbg[t] # NoGenerator
    BY DEF NamedSchemesAnswer
  <2>1. callback[s] = "provide_test_entropy"
    BY DEF EntropyInv, Setters
  <2>2. PICK x : seeded[t] = <<x>>
    BY DEF EntropyInv, Types
  <2>3. drbg[t] = GeneratorAfter(<<x>>, asked[t]) /\ asked[t] \in Seq(Nat)
    BY <2>2 DEF EntropyInv, Generators, Types
  <2>4. drbg[t] # NoGenerator
    BY <2>3, SeededGenerator
  <2> QED
    BY <2>1, <2>4
<1> QED
  BY <1>1, InductiveInvariant, PTL

(* No block of AES is drawn twice or becomes a key as well:                *)
(* BlocksUsedOnce of module TestEntropy.                                   *)
THEOREM BlocksAreUsedOnce == Spec => []BlocksUsedOnce
<1>1. EntropyInv => BlocksUsedOnce
  <2> SUFFICES ASSUME EntropyInv, NEW t \in Threads, NEW k \in 1 .. Len(got[t])
               PROVE  LET o == got[t][k]
                          last == o.first + Blocks(o.length) - 1
                      IN  /\ Len(drbg[t].key) > Len(o.key)
                          /\ last <= drbg[t].key[Len(o.key) + 1]
    BY DEF BlocksUsedOnce
  <2>1. /\ asked[t] \in Seq(Nat) /\ Len(got[t]) = Len(asked[t])
        /\ \A j \in 1 .. Len(got[t]) : got[t][j] = Drawn(seeded[t], asked[t], j)
    BY DrawnOutput
  <2>2. PICK s : seeded[t] = <<s>>
    <3>1. seeded[t] # NoSeed
      BY <2>1 DEF EntropyInv, Unseeded
    <3> QED
      BY <3>1 DEF EntropyInv, Types
  <2>3. drbg[t].key = KeyAfter(<<s>>, asked[t])
    <3>1. drbg[t] = GeneratorAfter(<<s>>, asked[t])
      BY <2>2 DEF EntropyInv, Generators
    <3>2. GeneratorAfter(<<s>>, asked[t]) = [key |-> KeyAfter(<<s>>, asked[t]), counter |-> 0]
      BY DEF GeneratorAfter, NoSeed
    <3> QED
      BY <3>1, <3>2
  <2>4. ASSUME NEW j \in 1 .. Len(got[t])
        PROVE  /\ Len(got[t][j].key) = j
               /\ got[t][j].first = 1
               /\ got[t][j].length = asked[t][j]
    <3>1. got[t][j] = Output(KeyAfter(<<s>>, SubSeq(asked[t], 1, j - 1)), 1, asked[t][j])
      BY <2>1, <2>2 DEF Drawn
    <3>2. SubSeq(asked[t], 1, j - 1) \in Seq(Nat) /\ Len(SubSeq(asked[t], 1, j - 1)) = j - 1
      BY <2>1
    <3>3. Len(KeyAfter(<<s>>, SubSeq(asked[t], 1, j - 1))) = (j - 1) + 1
      BY <3>2, KeyShape
    <3> QED
      BY <3>1, <3>3 DEF Output
  <2>5. /\ Len(drbg[t].key) = Len(asked[t]) + 1
        /\ drbg[t].key[k + 1] = Blocks(asked[t][k])
    <3>1. /\ Len(KeyAfter(<<s>>, asked[t])) = Len(asked[t]) + 1
          /\ \A j \in 1 .. Len(asked[t]) :
               KeyAfter(<<s>>, asked[t])[j + 1] = Blocks(asked[t][j])
      BY <2>1, KeyShape, Zenon
    <3>2. k \in 1 .. Len(asked[t])
      BY <2>1
    <3> QED
      BY <2>3, <3>1, <3>2, Zenon
  <2>6. asked[t][k] \in Nat /\ Blocks(asked[t][k]) \in Nat
    <3>1. k \in 1 .. Len(asked[t])
      BY <2>1
    <3>2. asked[t][k] \in Nat
      BY <2>1, <3>1
    <3> QED
      BY <3>2, BlocksNat
  <2>7. Len(got[t][k].key) = k /\ got[t][k].first = 1 /\ got[t][k].length = asked[t][k]
    BY <2>4
  <2> QED
    BY <2>1, <2>5, <2>6, <2>7
<1> QED
  BY <1>1, InductiveInvariant, PTL

-----------------------------------------------------------------------------
(* Cells and values.                                                       *)

VarValues == {Null} \cup {Ref(c) : c \in Cells}

IsCell(r) ==
  CASE r.kind = "free" -> r = Free
    [] r.kind = "string" ->
         r.rc \in Nat \ {0} /\ r = [kind |-> "string", rc |-> r.rc, text |-> r.text]
    [] r.kind = "object" ->
         /\ r.rc \in Nat \ {0}
         /\ r = [kind |-> "object", rc |-> r.rc, class |-> r.class, prop |-> r.prop]
         /\ r.class \in Classes
         /\ r.prop = [p \in Properties[r.class] |-> r.prop[p]]
    [] OTHER -> FALSE

(* What a cell says, whoever holds it.                                     *)
Same(r, s) ==
  /\ r.kind = s.kind
  /\ r.kind = "string" => r.text = s.text
  /\ r.kind = "object" => r.class = s.class /\ r.prop = s.prop

Typed(h) == h = [c \in Cells |-> h[c]] /\ \A c \in Cells : IsCell(h[c])

Owners(h, c) == {o \in Cells : c \in Children(h[o])}

(* e counts the holders outside the heap.                                  *)
Counted(h, e, c) ==
  IF h[c].kind = "free" THEN e[c] = 0 /\ Owners(h, c) = {}
  ELSE h[c].rc = e[c] + Cardinality(Owners(h, c))

More(e, v) == IF v.type = "ref" THEN [e EXCEPT ![v.cell] = @ + 1] ELSE e

(* Every property of an object is initialised, with a cell of its own.     *)
Filled(h, o, p) ==
  IF h[o].class \in SizesClasses THEN h[o].prop[p].type = "long"
  ELSE \E c \in Cells :
         /\ h[o].prop[p] = Ref(c)
         /\ IF p = "sizes" THEN h[c].kind = "object" /\ h[c].class \in SizesClasses
            ELSE h[c].kind = "string"

Shaped(h, o) ==
  /\ \A p \in Properties[h[o].class] : Filled(h, o, p)
  /\ \A p, q \in Properties[h[o].class] :
       h[o].class \notin SizesClasses /\ p # q => h[o].prop[p] # h[o].prop[q]

SizesAre(name) == [p \in DOMAIN CoreSizes(name) |-> Long(CoreSizes(name)[p])]

Tells(h, o, name) ==
  \E i, s, n \in Cells :
    /\ h[o].prop["id"] = Ref(i)
    /\ h[o].prop["sizes"] = Ref(s)
    /\ h[o].prop["nativeName"] = Ref(n)
    /\ h[i].text = Text("id", Algorithm(name).id, 0)
    /\ h[s].prop = SizesAre(name)
    /\ h[n].text = Text("nativeName", name, 0)

TellsOne(h, o, names) ==
  \E name \in names :
    /\ h[o].class = IF name \in Signatures THEN "SignatureAlgorithm"
                    ELSE "KeyEncapsulationAlgorithm"
    /\ Tells(h, o, name)

Fits(text, names) ==
  text.of \in names =>
    text.what = "nativeName" \/ text.len = CoreSizes(text.of)[text.what]

Content(h, c, names) ==
  /\ h[c].kind = "string" => Fits(h[c].text, names)
  /\ h[c].kind = "object" =>
       /\ Shaped(h, c)
       /\ h[c].class \in AlgorithmClasses => TellsOne(h, c, names)

Heap(h, e, names) ==
  /\ Typed(h)
  /\ \A c \in Cells : Counted(h, e, c)
  /\ \A c \in Cells : Content(h, c, names)

(* A later heap still has every cell, or some of the cells, of h.          *)
Grown(h, h2) ==
  \A c \in Cells : h[c].kind # "free" => Same(h[c], h2[c])
Left(h, h2) ==
  \A c \in Cells : h2[c].kind # "free" => Same(h[c], h2[c])

HeldBy(V, v) == [c \in Cells |-> Cardinality({x \in V : v[x] = Ref(c)})]

ObjectsInv ==
  /\ script \in Scripts
  /\ var \in [Vars -> VarValues]
  /\ Heap(heap, HeldBy(Vars, var), Names)

-----------------------------------------------------------------------------
LEMMA Values ==
  /\ Null.type # "ref" /\ Unset.type # "ref" /\ Unset.type # "long"
  /\ \A n : Long(n).type = "long"
  /\ \A c : Ref(c).type = "ref" /\ Ref(c).cell = c
  /\ \A c, d : Ref(c) = Ref(d) => c = d
  /\ \A c : Ref(c) # Unset
BY DEF Null, Unset, Long, Ref

LEMMA CellCases ==
  ASSUME NEW r, IsCell(r)
  PROVE  /\ r.kind \in {"free", "string", "object"}
         /\ r.kind = "free" => r = Free
         /\ r.kind # "free" => r.rc \in Nat \ {0}
         /\ r.kind = "object" => r.class \in Classes /\ DOMAIN r.prop = Properties[r.class]
BY DEF IsCell

LEMMA FreeCell == IsCell(Free) /\ Free.kind = "free" /\ Children(Free) = {}
BY DEF IsCell, Free, Children

LEMMA StringCell ==
  ASSUME NEW t
  PROVE  /\ IsCell(String(t)) /\ String(t).kind = "string"
         /\ String(t).rc = 1 /\ String(t).text = t /\ Children(String(t)) = {}
BY DEF IsCell, String, Children

(* Another count leaves everything else as it was.                         *)
LEMMA Recounted ==
  ASSUME NEW r, IsCell(r), r.kind # "free", NEW n \in Nat \ {0}
  PROVE  /\ IsCell([r EXCEPT !.rc = n])
         /\ Same(r, [r EXCEPT !.rc = n])
         /\ [r EXCEPT !.rc = n].rc = n
<1>1. CASE r.kind = "string"
  <2>1. r = [kind |-> "string", rc |-> r.rc, text |-> r.text]
    BY <1>1 DEF IsCell
  <2>2. [r EXCEPT !.rc = n] = [kind |-> "string", rc |-> n, text |-> r.text]
    BY <2>1
  <2> QED
    BY <1>1, <2>2 DEF IsCell, Same
<1>2. CASE r.kind = "object"
  <2>1. /\ r = [kind |-> "object", rc |-> r.rc, class |-> r.class, prop |-> r.prop]
        /\ r.class \in Classes /\ r.prop = [p \in Properties[r.class] |-> r.prop[p]]
    BY <1>2 DEF IsCell
  <2>2. [r EXCEPT !.rc = n]
          = [kind |-> "object", rc |-> n, class |-> r.class, prop |-> r.prop]
    BY <2>1
  <2> QED
    BY <1>2, <2>1, <2>2 DEF IsCell, Same
<1> QED
  BY <1>1, <1>2, CellCases

LEMMA SameChildren ==
  ASSUME NEW r, NEW s, Same(r, s)
  PROVE  Children(r) = Children(s)
BY DEF Same, Children

LEMMA SameSteps ==
  /\ \A r : Same(r, r)
  /\ \A r, s, t : Same(r, s) /\ Same(s, t) => Same(r, t)
BY DEF Same

LEMMA CellsFinite ==
  /\ IsFiniteSet(Cells)
  /\ \A S \in SUBSET Cells : IsFiniteSet(S) /\ Cardinality(S) \in Nat
<1>1. IsFiniteSet(Cells)
  BY PhpObjectsAssumption, FS_Interval DEF Cells
<1> QED
  BY <1>1, FS_Subset, FS_CardinalityType

LEMMA OwnersFinite ==
  ASSUME NEW h, NEW c
  PROVE  IsFiniteSet(Owners(h, c)) /\ Cardinality(Owners(h, c)) \in Nat
<1>1. Owners(h, c) \in SUBSET Cells
  BY DEF Owners
<1> QED
  BY <1>1, CellsFinite

(* A copy of an object, in another heap where its cells say the same.      *)
LEMMA ContentCopied ==
  ASSUME NEW h, NEW h2, NEW names, NEW o \in Cells, NEW u \in Cells,
         IsCell(h[o]), Content(h, o, names),
         Same(h[o], h2[u]), \A c \in Children(h[o]) : Same(h[c], h2[c])
  PROVE  Content(h2, u, names)
<1>1. CASE h[o].kind # "object"
  BY <1>1 DEF Content, Same
<1>2. CASE h[o].kind = "object"
  <2>1. /\ h2[u].kind = "object" /\ h2[u].class = h[o].class /\ h2[u].prop = h[o].prop
        /\ DOMAIN h[o].prop = Properties[h[o].class]
    BY <1>2, CellCases DEF Same
  <2>2. \A p \in Properties[h[o].class], c \in Cells :
          h[o].prop[p] = Ref(c) => Same(h[c], h2[c])
    BY <1>2, <2>1 DEF Children
  <2>3. Shaped(h2, u)
    <3>1. Shaped(h, o)
      BY <1>2 DEF Content
    <3>2. ASSUME NEW p \in Properties[h2[u].class] PROVE Filled(h2, u, p)
      <4>1. Filled(h, o, p) /\ p \in Properties[h[o].class]
        BY <2>1, <3>1, <3>2 DEF Shaped
      <4>2. CASE h[o].class \in SizesClasses
        BY <2>1, <4>1, <4>2 DEF Filled
      <4>3. CASE h[o].class \notin SizesClasses
        <5>1. PICK c \in Cells :
                /\ h[o].prop[p] = Ref(c)
                /\ IF p = "sizes" THEN h[c].kind = "object" /\ h[c].class \in SizesClasses
                   ELSE h[c].kind = "string"
          BY <4>1, <4>3 DEF Filled
        <5>2. Same(h[c], h2[c])
          BY <5>1, <4>1, <2>2
        <5>3. IF p = "sizes" THEN h2[c].kind = "object" /\ h2[c].class \in SizesClasses
              ELSE h2[c].kind = "string"
          BY <5>1, <5>2 DEF Same
        <5>4. h2[u].prop[p] = Ref(c)
          BY <2>1, <5>1
        <5> QED
          BY <5>3, <5>4, <4>3, <2>1 DEF Filled
      <4> QED
        BY <4>2, <4>3
    <3> QED
      BY <2>1, <3>1, <3>2 DEF Shaped
  <2>4. ASSUME h[o].class \in AlgorithmClasses PROVE TellsOne(h2, u, names)
    <3>1. PICK name \in names :
            /\ h[o].class = IF name \in Signatures THEN "SignatureAlgorithm"
                            ELSE "KeyEncapsulationAlgorithm"
            /\ Tells(h, o, name)
      BY <1>2, <2>4 DEF Content, TellsOne
    <3>2. PICK i \in Cells, s \in Cells, n \in Cells :
            /\ h[o].prop["id"] = Ref(i)
            /\ h[o].prop["sizes"] = Ref(s)
            /\ h[o].prop["nativeName"] = Ref(n)
            /\ h[i].text = Text("id", Algorithm(name).id, 0)
            /\ h[s].prop = SizesAre(name)
            /\ h[n].text = Text("nativeName", name, 0)
      BY <3>1 DEF Tells
    <3>3. /\ {"id", "sizes", "nativeName"} = Properties[h[o].class]
          /\ h[o].class \notin SizesClasses
      BY <2>4 DEF AlgorithmClasses, SizesClasses, Properties
    <3>4. Same(h[i], h2[i]) /\ Same(h[s], h2[s]) /\ Same(h[n], h2[n])
      BY <3>2, <3>3, <2>2
    <3>5. h[i].kind = "string" /\ h[s].kind = "object" /\ h[n].kind = "string"
      <4>1. \A p \in {"id", "sizes", "nativeName"} : \E c \in Cells :
              /\ h[o].prop[p] = Ref(c)
              /\ IF p = "sizes" THEN h[c].kind = "object" ELSE h[c].kind = "string"
        BY <1>2, <3>3 DEF Content, Shaped, Filled
      <4>2. \A c, d : Ref(c) = Ref(d) => c = d
        BY Values
      <4> QED
        BY <4>1, <4>2, <3>2
    <3>6. Tells(h2, u, name)
      <4>1. /\ h2[u].prop["id"] = Ref(i)
            /\ h2[u].prop["sizes"] = Ref(s)
            /\ h2[u].prop["nativeName"] = Ref(n)
        BY <2>1, <3>2
      <4>2. /\ h2[i].text = Text("id", Algorithm(name).id, 0)
            /\ h2[s].prop = SizesAre(name)
            /\ h2[n].text = Text("nativeName", name, 0)
        BY <3>2, <3>4, <3>5 DEF Same
      <4> QED
        BY <4>1, <4>2 DEF Tells
    <3> QED
      BY <3>1, <3>6, <2>1 DEF TellsOne
  <2> QED
    BY <2>1, <2>3, <2>4 DEF Content
<1> QED
  BY <1>1, <1>2

LEMMA ContentKept ==
  ASSUME NEW h, NEW h2, NEW names, NEW o \in Cells, IsCell(h[o]), Content(h, o, names),
         Same(h[o], h2[o]), \A c \in Children(h[o]) : Same(h[c], h2[c])
  PROVE  Content(h2, o, names)
BY ContentCopied

(* An object's cells are in use and hold none themselves.                  *)
LEMMA Leaves ==
  ASSUME NEW h, NEW names, NEW o \in Cells, IsCell(h[o]), Content(h, o, names),
         NEW c \in Children(h[o]), \A d \in Cells : IsCell(h[d]) /\ Content(h, d, names)
  PROVE  c \in Cells /\ h[c].kind # "free" /\ Children(h[c]) = {}
<1>1. /\ h[o].kind = "object" /\ DOMAIN h[o].prop = Properties[h[o].class] /\ c \in Cells
      /\ \E p \in Properties[h[o].class] : h[o].prop[p] = Ref(c)
  BY CellCases DEF Children
<1>2. PICK p \in Properties[h[o].class] : h[o].prop[p] = Ref(c)
  BY <1>1
<1>3. Filled(h, o, p)
  BY <1>1 DEF Content, Shaped
<1>4. IF p = "sizes" THEN h[c].kind = "object" /\ h[c].class \in SizesClasses
      ELSE h[c].kind = "string"
  <2>1. Ref(c).type # "long" /\ \A d : Ref(c) = Ref(d) => c = d
    BY DEF Ref
  <2> QED
    BY <1>2, <1>3, <2>1 DEF Filled
<1>5. CASE h[c].kind = "string"
  BY <1>1, <1>5 DEF Children
<1>6. CASE h[c].kind = "object" /\ h[c].class \in SizesClasses
  <2>1. DOMAIN h[c].prop = Properties[h[c].class]
    BY <1>1, <1>6, CellCases
  <2>2. \A q \in Properties[h[c].class] : h[c].prop[q].type = "long"
    BY <1>1, <1>6 DEF Content, Shaped, Filled
  <2>3. \A d : Ref(d).type # "long"
    BY DEF Ref
  <2> QED
    BY <1>1, <1>6, <2>1, <2>2, <2>3 DEF Children
<1> QED
  BY <1>1, <1>4, <1>5, <1>6

-----------------------------------------------------------------------------
(* One holder less.                                                        *)

LEMMA InUse ==
  ASSUME NEW h, NEW names, NEW a \in Cells, NEW e \in [Cells -> Nat],
         Heap(h, [e EXCEPT ![a] = @ + 1], names)
  PROVE  /\ h[a].kind # "free" /\ h[a].rc \in Nat \ {0}
         /\ h[a].rc = e[a] + 1 + Cardinality(Owners(h, a))
         /\ \A c \in Cells \ {a} : Counted(h, e, c)
<1> DEFINE more == [e EXCEPT ![a] = @ + 1]
<1>1. more[a] = e[a] + 1 /\ e[a] \in Nat /\ \A c \in Cells \ {a} : more[c] = e[c]
  OBVIOUS
<1>2. \A c \in Cells : Counted(h, more, c) /\ IsCell(h[c])
  BY DEF Heap, Typed
<1> HIDE DEF more
<1>3. h[a].kind # "free"
  <2>1. more[a] # 0
    BY <1>1
  <2> QED
    BY <1>2, <2>1 DEF Counted
<1>4. h[a].rc = more[a] + Cardinality(Owners(h, a))
  BY <1>2, <1>3 DEF Counted
<1>5. h[a].rc \in Nat \ {0}
  BY <1>2, <1>3, CellCases
<1>6. \A c \in Cells \ {a} : Counted(h, e, c)
  BY <1>1, <1>2 DEF Counted
<1> QED
  BY <1>1, <1>3, <1>4, <1>5, <1>6

LEMMA ReleaseShared ==
  ASSUME NEW h, NEW names, NEW a \in Cells, NEW e \in [Cells -> Nat],
         Heap(h, [e EXCEPT ![a] = @ + 1], names), h[a].rc > 1
  PROVE  /\ Heap(Release(h, Ref(a)), e, names)
         /\ \A c \in Cells : Same(h[c], Release(h, Ref(a))[c])
<1> DEFINE h2 == Release(h, Ref(a))
           r == [h[a] EXCEPT !.rc = h[a].rc - 1]
<1>1. /\ h[a].kind # "free" /\ h[a].rc \in Nat \ {0}
      /\ h[a].rc = e[a] + 1 + Cardinality(Owners(h, a))
      /\ \A c \in Cells \ {a} : Counted(h, e, c)
  BY InUse
<1>2. Typed(h) /\ \A c \in Cells : IsCell(h[c]) /\ Content(h, c, names)
  BY DEF Heap, Typed
<1>3. h2 = [h EXCEPT ![a] = r]
  BY Values DEF Release
<1>4. h[a].rc - 1 \in Nat \ {0}
  BY <1>1
<1>5. IsCell(r) /\ Same(h[a], r) /\ r.rc = h[a].rc - 1
  BY <1>1, <1>2, <1>4, Recounted
<1>6. DOMAIN h = Cells
  BY <1>2 DEF Typed
<1> HIDE DEF h2, r
<1>7. h2 = [c \in Cells |-> IF c = a THEN r ELSE h[c]]
  BY <1>2, <1>3, <1>6 DEF Typed
<1>8. \A c \in Cells : h2[c] = IF c = a THEN r ELSE h[c]
  BY <1>7
<1>9. \A c \in Cells : IsCell(h2[c]) /\ Same(h[c], h2[c])
  BY <1>2, <1>5, <1>8, SameSteps
<1>10. \A c \in Cells : Children(h2[c]) = Children(h[c])
  BY <1>9, SameChildren
<1>11. \A c \in Cells : Owners(h2, c) = Owners(h, c)
  BY <1>10 DEF Owners
<1>12. Typed(h2)
  BY <1>7, <1>9 DEF Typed
<1>13. ASSUME NEW c \in Cells PROVE Counted(h2, e, c)
  <2>1. CASE c = a
    <3>1. h2[a].kind # "free"
      BY <1>1, <1>9 DEF Same
    <3>2. h2[a].rc = h[a].rc - 1 /\ Owners(h2, a) = Owners(h, a)
      BY <1>5, <1>8, <1>11
    <3>3. h2[a].rc = e[a] + Cardinality(Owners(h2, a))
      BY <3>2, <1>1, OwnersFinite
    <3> QED
      BY <2>1, <3>1, <3>3 DEF Counted
  <2>2. CASE c # a
    BY <2>2, <1>1, <1>8, <1>11 DEF Counted
  <2> QED
    BY <2>1, <2>2
<1>14. ASSUME NEW c \in Cells PROVE Content(h2, c, names)
  <2>1. \A d \in Children(h[c]) : Same(h[d], h2[d])
    BY <1>9 DEF Children
  <2> QED
    BY <1>2, <1>9, <2>1, ContentKept
<1> QED
  BY <1>9, <1>12, <1>13, <1>14 DEF Heap, h2

LEMMA ReleaseLast ==
  ASSUME NEW h, NEW names, NEW a \in Cells, NEW e \in [Cells -> Nat],
         Heap(h, [e EXCEPT ![a] = @ + 1], names), h[a].rc = 1
  PROVE  /\ Heap(Release(h, Ref(a)), e, names)
         /\ Left(h, Release(h, Ref(a)))
<1> DEFINE h2 == Release(h, Ref(a))
           orphans == Children(h[a])
<1>1. /\ h[a].kind # "free"
      /\ h[a].rc = e[a] + 1 + Cardinality(Owners(h, a))
      /\ \A c \in Cells \ {a} : Counted(h, e, c)
  BY InUse
<1>2. Typed(h) /\ \A c \in Cells : IsCell(h[c]) /\ Content(h, c, names)
  BY DEF Heap, Typed
<1>3. e[a] = 0 /\ Owners(h, a) = {}
  <2>1. Cardinality(Owners(h, a)) \in Nat /\ IsFiniteSet(Owners(h, a)) /\ e[a] \in Nat
    BY OwnersFinite
  <2>2. Cardinality(Owners(h, a)) = 0 /\ e[a] = 0
    BY <1>1, <2>1
  <2> QED
    BY <2>1, <2>2, FS_EmptySet
<1>4. \A c \in orphans : /\ c \in Cells \ {a} /\ h[c].kind # "free"
                         /\ Children(h[c]) = {} /\ h[c].rc \in Nat \ {0}
  <2>1. \A c \in orphans : c \in Cells /\ h[c].kind # "free" /\ Children(h[c]) = {}
    BY <1>2, Leaves
  <2>2. a \notin orphans
    BY <1>3 DEF Owners
  <2> QED
    BY <2>1, <2>2, <1>2, CellCases
<1>5. h2 = [c \in Cells |->
              IF c = a \/ (c \in orphans /\ h[c].rc = 1) THEN Free
              ELSE IF c \in orphans THEN [h[c] EXCEPT !.rc = h[c].rc - 1]
              ELSE h[c]]
  BY Values DEF Release
<1>6. /\ h2[a] = Free
      /\ \A c \in orphans : h[c].rc = 1 => h2[c] = Free
      /\ \A c \in orphans : h[c].rc # 1 => h2[c] = [h[c] EXCEPT !.rc = h[c].rc - 1]
      /\ \A c \in Cells : c # a /\ c \notin orphans => h2[c] = h[c]
  BY <1>4, <1>5
<1> HIDE DEF h2, orphans
<1>7. \A c \in orphans : h[c].rc # 1 =>
        /\ IsCell(h2[c]) /\ Same(h[c], h2[c]) /\ h2[c].rc = h[c].rc - 1
  <2> SUFFICES ASSUME NEW c \in orphans, h[c].rc # 1
               PROVE  IsCell(h2[c]) /\ Same(h[c], h2[c]) /\ h2[c].rc = h[c].rc - 1
    OBVIOUS
  <2>1. h[c].rc - 1 \in Nat \ {0} /\ c \in Cells /\ h[c].kind # "free"
    BY <1>4
  <2>2. h2[c] = [h[c] EXCEPT !.rc = h[c].rc - 1] /\ IsCell(h[c])
    BY <1>2, <1>6, <2>1
  <2> DEFINE n == h[c].rc - 1
  <2>3. n \in Nat \ {0}
    BY <2>1
  <2> HIDE DEF n
  <2>4. IsCell([h[c] EXCEPT !.rc = n]) /\ Same(h[c], [h[c] EXCEPT !.rc = n])
        /\ [h[c] EXCEPT !.rc = n].rc = n
    BY <2>1, <2>2, <2>3, Recounted
  <2> QED
    BY <2>2, <2>4, Zenon DEF n
<1>8. \A c \in Cells : IsCell(h2[c]) /\ (h2[c] = Free \/ Same(h[c], h2[c]))
  BY <1>2, <1>6, <1>7, FreeCell, SameSteps
<1>9. Typed(h2)
  BY <1>5, <1>8 DEF Typed
<1>10. Left(h, h2)
  BY <1>8, FreeCell DEF Left
(* Who owns what afterwards: everyone but a.                               *)
<1>11. \A c \in Cells \ {a} : Children(h2[c]) = Children(h[c])
  <2>1. \A c \in Cells \ {a} : Same(h[c], h2[c]) => Children(h2[c]) = Children(h[c])
    BY SameChildren
  <2>2. \A c \in orphans : h[c].rc = 1 => Children(h2[c]) = Children(h[c])
    BY <1>4, <1>6, FreeCell
  <2> QED
    BY <1>6, <1>7, <2>1, <2>2, SameSteps
<1>12. \A c \in Cells : Owners(h2, c) = Owners(h, c) \ {a}
  BY <1>6, <1>11, FreeCell DEF Owners
<1>13. \A c \in orphans : a \in Owners(h, c)
  BY <1>4 DEF Owners, orphans
<1>14. \A c \in Cells : c \notin orphans => Owners(h2, c) = Owners(h, c)
  BY <1>12 DEF Owners, orphans
<1>15. ASSUME NEW c \in orphans
       PROVE  /\ IsFiniteSet(Owners(h2, c))
              /\ Cardinality(Owners(h2, c)) \in Nat
              /\ h[c].rc = e[c] + 1 + Cardinality(Owners(h2, c))
  <2>1. IsFiniteSet(Owners(h, c)) /\ IsFiniteSet(Owners(h2, c))
        /\ Cardinality(Owners(h, c)) \in Nat /\ Cardinality(Owners(h2, c)) \in Nat
    BY OwnersFinite
  <2>2. Owners(h2, c) = Owners(h, c) \ {a} /\ a \in Owners(h, c)
    BY <1>4, <1>12, <1>13
  <2>3. Cardinality(Owners(h2, c)) = Cardinality(Owners(h, c)) - 1
    BY <2>1, <2>2, FS_RemoveElement
  <2>4. h[c].rc = e[c] + Cardinality(Owners(h, c))
    BY <1>1, <1>4 DEF Counted
  <2>5. e[c] \in Nat
    BY <1>4
  <2> QED
    BY <2>1, <2>3, <2>4, <2>5
<1>16. ASSUME NEW c \in Cells PROVE Counted(h2, e, c)
  <2>1. CASE c = a
    <3>1. h2[a].kind = "free" /\ Owners(h2, a) = {}
      BY <1>3, <1>6, <1>12, FreeCell
    <3> QED
      BY <2>1, <3>1, <1>3 DEF Counted
  <2>2. CASE c \in orphans /\ h[c].rc = 1
    <3>1. h2[c].kind = "free"
      BY <1>6, <2>2, FreeCell
    <3>2. IsFiniteSet(Owners(h2, c)) /\ Cardinality(Owners(h2, c)) \in Nat /\ e[c] \in Nat
          /\ 1 = e[c] + 1 + Cardinality(Owners(h2, c))
      BY <1>15, <2>2
    <3>3. e[c] = 0 /\ Cardinality(Owners(h2, c)) = 0
      BY <3>2
    <3>4. Owners(h2, c) = {}
      BY <3>2, <3>3, FS_EmptySet
    <3> QED
      BY <3>1, <3>3, <3>4 DEF Counted
  <2>3. CASE c \in orphans /\ h[c].rc # 1
    <3>1. h2[c].kind # "free" /\ h2[c].rc = h[c].rc - 1
      BY <1>4, <1>7, <2>3 DEF Same
    <3>2. Cardinality(Owners(h2, c)) \in Nat /\ e[c] \in Nat
          /\ h[c].rc = e[c] + 1 + Cardinality(Owners(h2, c))
      BY <1>15, <2>3
    <3>3. h2[c].rc = e[c] + Cardinality(Owners(h2, c))
      BY <3>1, <3>2
    <3> QED
      BY <3>1, <3>3 DEF Counted
  <2>4. CASE c # a /\ c \notin orphans
    BY <2>4, <1>1, <1>6, <1>14 DEF Counted
  <2> QED
    BY <2>1, <2>2, <2>3, <2>4
(* Whoever is left has kept its cells: an orphan that died was a's alone.  *)
<1>17. ASSUME NEW c \in Cells, NEW d \in Children(h[c]), c # a
       PROVE  Same(h[d], h2[d])
  <2>1. d \in Cells /\ c \in Owners(h, d)
    BY DEF Children, Owners
  <2>2. d # a
    BY <2>1, <1>3
  <2>3. c \in Owners(h2, d)
    BY <2>1, <1>12, <1>17
  <2>4. CASE d \in orphans /\ h[d].rc = 1
    <3>1. Cardinality(Owners(h2, d)) \in Nat /\ e[d] \in Nat /\ IsFiniteSet(Owners(h2, d))
          /\ 1 = e[d] + 1 + Cardinality(Owners(h2, d))
      BY <1>15, <2>4, <2>1
    <3>2. Cardinality(Owners(h2, d)) = 0
      BY <3>1
    <3>3. Owners(h2, d) = {}
      BY <3>1, <3>2, FS_EmptySet
    <3> QED
      BY <3>3, <2>3
  <2> QED
    BY <1>6, <1>7, <2>1, <2>2, <2>4, SameSteps
<1>18. ASSUME NEW c \in Cells PROVE Content(h2, c, names)
  <2>1. CASE h2[c] = Free
    <3>1. h2[c].kind = "free"
      BY <2>1, FreeCell
    <3> QED
      BY <3>1 DEF Content
  <2>2. CASE h2[c] # Free
    <3>1. Same(h[c], h2[c]) /\ c # a
      BY <1>6, <1>8, <2>2
    <3>2. \A d \in Children(h[c]) : Same(h[d], h2[d])
      BY <1>17, <3>1
    <3> QED
      BY <1>2, <3>1, <3>2, ContentKept
  <2> QED
    BY <2>1, <2>2
<1> QED
  BY <1>9, <1>10, <1>16, <1>18 DEF Heap, h2

(* zval_ptr_dtor.                                                          *)
LEMMA Releasing ==
  ASSUME NEW h, NEW names, NEW e \in [Cells -> Nat], NEW v \in VarValues,
         Heap(h, More(e, v), names)
  PROVE  Heap(Release(h, v), e, names) /\ Left(h, Release(h, v))
<1>1. CASE v = Null
  <2>1. Release(h, v) = h /\ More(e, v) = e
    BY <1>1, Values DEF Release, More
  <2> QED
    BY <2>1, SameSteps DEF Left
<1>2. CASE \E a \in Cells : v = Ref(a)
  <2>1. PICK a \in Cells : v = Ref(a)
    BY <1>2
  <2>2. Heap(h, [e EXCEPT ![a] = @ + 1], names)
    BY <2>1, Values DEF More
  <2>3. h[a].rc > 1 \/ h[a].rc = 1
    <3>1. h[a].rc \in Nat \ {0}
      BY <2>2, InUse
    <3> QED
      BY <3>1
  <2> QED
    BY <2>1, <2>2, <2>3, ReleaseShared, ReleaseLast DEF Left
<1> QED
  BY <1>1, <1>2 DEF VarValues

-----------------------------------------------------------------------------
(* One holder more.                                                        *)

LEMMA Sharing ==
  ASSUME NEW h, NEW names, NEW e \in [Cells -> Nat], NEW v \in VarValues,
         Heap(h, e, names), \A c \in Cells : v = Ref(c) => h[c].kind # "free"
  PROVE  Heap(AddRef(h, v), More(e, v), names) /\ Grown(h, AddRef(h, v))
<1>1. CASE v = Null
  <2>1. AddRef(h, v) = h /\ More(e, v) = e
    BY <1>1, Values DEF AddRef, More
  <2> QED
    BY <2>1, SameSteps DEF Grown
<1>2. CASE \E a \in Cells : v = Ref(a)
  <2>1. PICK a \in Cells : v = Ref(a)
    BY <1>2
  <2> DEFINE h2 == AddRef(h, v)
             r == [h[a] EXCEPT !.rc = h[a].rc + 1]
             more == More(e, v)
  <2>2. more = [e EXCEPT ![a] = @ + 1]
    BY <2>1, Values DEF More
  <2>3. more[a] = e[a] + 1 /\ e[a] \in Nat /\ \A c \in Cells \ {a} : more[c] = e[c]
    BY <2>2
  <2>4. Typed(h) /\ \A c \in Cells : IsCell(h[c]) /\ Content(h, c, names) /\ Counted(h, e, c)
    BY DEF Heap, Typed
  <2>5. h[a].kind # "free" /\ h[a].rc \in Nat \ {0}
        /\ h[a].rc = e[a] + Cardinality(Owners(h, a))
    BY <2>1, <2>4, CellCases DEF Counted
  <2>6. h2 = [h EXCEPT ![a] = r]
    BY <2>1, Values DEF AddRef
  <2> HIDE DEF h2, more
  <2>7. IsCell(r) /\ Same(h[a], r) /\ r.rc = h[a].rc + 1
    <3> DEFINE n == h[a].rc + 1
    <3>1. n \in Nat \ {0}
      BY <2>5
    <3> HIDE DEF n
    <3> QED
      BY <3>1, <2>4, <2>5, Recounted DEF n
  <2>8. DOMAIN h = Cells
    BY <2>4 DEF Typed
  <2> HIDE DEF r
  <2>9. h2 = [c \in Cells |-> IF c = a THEN r ELSE h[c]]
    BY <2>4, <2>6, <2>8 DEF Typed
  <2>10. \A c \in Cells : h2[c] = IF c = a THEN r ELSE h[c]
    BY <2>9
  <2>11. \A c \in Cells : IsCell(h2[c]) /\ Same(h[c], h2[c])
    BY <2>4, <2>7, <2>10, SameSteps
  <2>12. \A c \in Cells : Children(h2[c]) = Children(h[c])
    BY <2>11, SameChildren
  <2>13. \A c \in Cells : Owners(h2, c) = Owners(h, c)
    BY <2>12 DEF Owners
  <2>14. Typed(h2)
    BY <2>9, <2>11 DEF Typed
  <2>15. ASSUME NEW c \in Cells PROVE Counted(h2, more, c)
    <3>1. CASE c = a
      <4>1. h2[a].kind # "free"
        BY <2>5, <2>11 DEF Same
      <4>2. h2[a].rc = h[a].rc + 1 /\ Owners(h2, a) = Owners(h, a)
        BY <2>7, <2>10, <2>13
      <4>3. h2[a].rc = more[a] + Cardinality(Owners(h2, a))
        BY <4>2, <2>3, <2>5, OwnersFinite
      <4> QED
        BY <3>1, <4>1, <4>3 DEF Counted
    <3>2. CASE c # a
      BY <3>2, <2>3, <2>4, <2>10, <2>13 DEF Counted
    <3> QED
      BY <3>1, <3>2
  <2>16. ASSUME NEW c \in Cells PROVE Content(h2, c, names)
    <3>1. \A d \in Children(h[c]) : Same(h[d], h2[d])
      BY <2>11 DEF Children
    <3> QED
      BY <2>4, <2>11, <3>1, ContentKept
  <2> QED
    BY <2>11, <2>14, <2>15, <2>16 DEF Heap, Grown, h2, more
<1> QED
  BY <1>1, <1>2 DEF VarValues

(* A new cell and the new cells it holds, each counted once.               *)
Built(h, h2, root, names) ==
  LET N == {root} \cup Children(h2[root])
  IN /\ Typed(h2)
     /\ \A c \in N : h[c].kind = "free" /\ h2[c].kind # "free" /\ h2[c].rc = 1
     /\ \A c \in Cells \ N : h2[c] = h[c]
     /\ \A c \in Children(h2[root]) : c # root /\ Children(h2[c]) = {}
     /\ \A c \in N : Content(h2, c, names)

LEMMA Building ==
  ASSUME NEW h, NEW h2, NEW names, NEW e \in [Cells -> Nat], NEW root \in Cells,
         Heap(h, e, names), Built(h, h2, root, names)
  PROVE  Heap(h2, More(e, Ref(root)), names) /\ Grown(h, h2)
<1> DEFINE N == {root} \cup Children(h2[root])
<1>0. /\ Typed(h2)
      /\ \A c \in N : h[c].kind = "free" /\ h2[c].kind # "free" /\ h2[c].rc = 1
      /\ \A c \in Cells \ N : h2[c] = h[c]
      /\ \A c \in Children(h2[root]) : c # root /\ Children(h2[c]) = {}
      /\ \A c \in N : Content(h2, c, names)
  BY DEF Built
<1> DEFINE more == More(e, Ref(root))
<1>1. more[root] = e[root] + 1 /\ e[root] \in Nat /\ \A c \in Cells \ {root} : more[c] = e[c]
  BY Values DEF More
<1> HIDE DEF more
<1>2. \A c \in Cells : IsCell(h[c]) /\ Content(h, c, names) /\ Counted(h, e, c)
  BY DEF Heap, Typed
<1>3. N \subseteq Cells
  BY DEF Children
<1>4. Grown(h, h2)
  BY <1>0, <1>3, SameSteps DEF Grown
<1>5. \A c \in Cells : \A d \in Children(h[c]) : d \in Cells \ N
  <2> SUFFICES ASSUME NEW c \in Cells, NEW d \in Children(h[c]) PROVE d \in Cells \ N
    OBVIOUS
  <2>1. d \in Cells /\ h[d].kind # "free"
    BY <1>2, Leaves
  <2> QED
    BY <2>1, <1>0
<1>6. \A c \in Cells \ N : Owners(h2, c) = Owners(h, c)
  <2>1. \A c \in Cells \ N : Children(h2[c]) = Children(h[c])
    BY <1>0
  <2>2. \A o \in N, c \in Cells \ N : c \notin Children(h2[o])
    BY <1>0
  <2>3. \A o \in N : h[o].kind = "free"
    BY <1>0
  <2>4. \A o \in N, c \in Cells : c \notin Children(h[o])
    BY <2>3 DEF Children
  <2> QED
    BY <2>1, <2>2, <2>4 DEF Owners
<1>7. \A c \in N : Owners(h2, c) = IF c = root THEN {} ELSE {root}
  <2>1. \A o \in Cells \ N, c \in N : c \notin Children(h2[o])
    BY <1>0, <1>5
  <2>2. \A o \in N, c \in N : c \in Children(h2[o]) <=> o = root /\ c # root
    BY <1>0
  <2> QED
    BY <1>3, <2>1, <2>2 DEF Owners
<1>8. ASSUME NEW c \in Cells PROVE Counted(h2, more, c)
  <2>1. CASE c \notin N
    <3>1. Counted(h, e, c) /\ h2[c] = h[c] /\ Owners(h2, c) = Owners(h, c)
      BY <2>1, <1>0, <1>2, <1>6
    <3>2. more[c] = e[c]
      BY <2>1, <1>1
    <3> QED
      BY <3>1, <3>2 DEF Counted
  <2>2. CASE c = root
    <3>1. e[root] = 0 /\ h2[root].kind # "free" /\ h2[root].rc = 1
      BY <1>0, <1>2 DEF Counted
    <3>2. Owners(h2, root) = {}
      BY <1>7
    <3>3. h2[root].rc = more[root] + Cardinality(Owners(h2, root))
      BY <3>1, <3>2, <1>1, FS_EmptySet
    <3> QED
      BY <2>2, <3>1, <3>3 DEF Counted
  <2>3. CASE c \in N /\ c # root
    <3>1. e[c] = 0 /\ h2[c].kind # "free" /\ h2[c].rc = 1
      BY <2>3, <1>0, <1>2 DEF Counted
    <3>2. Owners(h2, c) = {root}
      BY <2>3, <1>7
    <3>3. Cardinality(Owners(h2, c)) = 1
      BY <3>2, FS_Singleton
    <3>4. more[c] = 0
      BY <2>3, <3>1, <1>1, <1>3
    <3> QED
      BY <3>1, <3>3, <3>4 DEF Counted
  <2> QED
    BY <2>1, <2>2, <2>3
<1>9. ASSUME NEW c \in Cells \ N PROVE Content(h2, c, names)
  <2>1. Same(h[c], h2[c])
    BY <1>0, SameSteps
  <2>2. \A d \in Children(h[c]) : Same(h[d], h2[d])
    BY <1>0, <1>5, SameSteps
  <2> QED
    BY <1>2, <2>1, <2>2, ContentKept
<1> QED
  BY <1>0, <1>4, <1>8, <1>9 DEF Heap, more

(* A clone shares the cells of the original.                               *)
LEMMA Cloning ==
  ASSUME NEW h, NEW shared, NEW h2, NEW names, NEW e \in [Cells -> Nat],
         NEW a \in Cells, NEW f \in Cells,
         Heap(h, e, names), h[a].kind = "object", h[f].kind = "free",
         shared = [d \in Cells |-> IF d \in Children(h[a])
                                   THEN [h[d] EXCEPT !.rc = h[d].rc + 1]
                                   ELSE h[d]],
         h2 = [shared EXCEPT ![f] = [h[a] EXCEPT !.rc = 1]]
  PROVE  Heap(h2, More(e, Ref(f)), names) /\ Grown(h, h2)
<1> DEFINE more == More(e, Ref(f))
           S == Children(h[a])
           r == [h[a] EXCEPT !.rc = 1]
<1>1. more[f] = e[f] + 1 /\ e[f] \in Nat /\ \A c \in Cells \ {f} : more[c] = e[c]
  BY Values DEF More
<1>2. \A c \in Cells : IsCell(h[c]) /\ Content(h, c, names) /\ Counted(h, e, c)
  BY DEF Heap, Typed
<1>3. \A c \in Cells : \A d \in Children(h[c]) :
        d \in Cells \ {f} /\ h[d].kind # "free" /\ Children(h[d]) = {}
  <2> SUFFICES ASSUME NEW c \in Cells, NEW d \in Children(h[c])
               PROVE  d \in Cells \ {f} /\ h[d].kind # "free" /\ Children(h[d]) = {}
    OBVIOUS
  <2>1. d \in Cells /\ h[d].kind # "free" /\ Children(h[d]) = {}
    BY <1>2, Leaves
  <2> QED
    BY <2>1
<1>4. S \subseteq Cells \ {f} /\ a # f
  BY <1>3
<1>5. IsCell(r) /\ Same(h[a], r) /\ r.rc = 1
  <2>1. IsCell(h[a]) /\ h[a].kind # "free" /\ 1 \in Nat \ {0}
    BY <1>2
  <2> QED
    BY <2>1, Recounted
<1>6. h2 = [d \in Cells |-> IF d = f THEN r
                            ELSE IF d \in S THEN [h[d] EXCEPT !.rc = h[d].rc + 1]
                            ELSE h[d]]
  OBVIOUS
<1> HIDE DEF more, S, r
<1>7. /\ h2[f] = r
      /\ \A d \in S : h2[d] = [h[d] EXCEPT !.rc = h[d].rc + 1]
      /\ \A d \in Cells \ {f} : d \notin S => h2[d] = h[d]
  BY <1>4, <1>6
<1>8. ASSUME NEW d \in S
      PROVE  IsCell(h2[d]) /\ Same(h[d], h2[d]) /\ h2[d].rc = h[d].rc + 1
             /\ h[d].rc \in Nat \ {0} /\ h[d].kind # "free"
  <2> DEFINE n == h[d].rc + 1
  <2>1. d \in Cells /\ h[d].kind # "free" /\ IsCell(h[d])
    BY <1>2, <1>3, <1>4 DEF S
  <2>2. h[d].rc \in Nat \ {0}
    BY <2>1, CellCases
  <2>3. n \in Nat \ {0}
    BY <2>2
  <2>4. h2[d] = [h[d] EXCEPT !.rc = n]
    BY <1>7
  <2> HIDE DEF n
  <2>5. IsCell([h[d] EXCEPT !.rc = n]) /\ Same(h[d], [h[d] EXCEPT !.rc = n])
        /\ [h[d] EXCEPT !.rc = n].rc = n
    BY <2>1, <2>3, Recounted
  <2> QED
    BY <2>1, <2>2, <2>4, <2>5, Zenon DEF n
<1>9. \A d \in Cells \ {f} : Same(h[d], h2[d])
  BY <1>7, <1>8, SameSteps
<1>10. Typed(h2)
  <2>1. \A d \in Cells : IsCell(h2[d])
    BY <1>2, <1>5, <1>7, <1>8
  <2> QED
    BY <1>6, <2>1 DEF Typed
<1>11. Grown(h, h2)
  BY <1>9 DEF Grown
<1>12. \A o \in Cells \ {f} : Children(h2[o]) = Children(h[o])
  BY <1>9, SameChildren
<1>13. Children(h2[f]) = S /\ Children(h[f]) = {}
  <2>1. Children(r) = S
    BY <1>5, SameChildren DEF S
  <2> QED
    BY <1>7, <2>1 DEF Children
<1>14. \A c \in Cells : Owners(h2, c) = Owners(h, c) \cup (IF c \in S THEN {f} ELSE {})
  BY <1>12, <1>13 DEF Owners
<1>15. ASSUME NEW c \in Cells PROVE Counted(h2, more, c)
  <2>1. CASE c = f
    <3>1. e[f] = 0 /\ Owners(h, f) = {} /\ Owners(h2, f) = {}
      BY <1>2, <1>4, <1>14 DEF Counted
    <3>2. h2[f].kind # "free" /\ h2[f].rc = 1
      BY <1>5, <1>7 DEF Same
    <3>3. h2[f].rc = more[f] + Cardinality(Owners(h2, f))
      <4>1. more[f] = 1
        BY <3>1, <1>1
      <4>2. Cardinality(Owners(h2, f)) = 0
        BY <3>1, FS_EmptySet
      <4> QED
        BY <3>2, <4>1, <4>2
    <3> QED
      BY <2>1, <3>2, <3>3 DEF Counted
  <2>2. CASE c \in S
    <3>1. /\ h[c].kind # "free" /\ h2[c].rc = h[c].rc + 1 /\ h2[c].kind # "free"
          /\ h[c].rc = e[c] + Cardinality(Owners(h, c)) /\ more[c] = e[c] /\ e[c] \in Nat
      <4>1. h[c].kind # "free" /\ h2[c].rc = h[c].rc + 1 /\ Same(h[c], h2[c])
        BY <2>2, <1>8
      <4>2. h[c].rc = e[c] + Cardinality(Owners(h, c))
        BY <4>1, <1>2 DEF Counted
      <4>3. h2[c].kind # "free"
        BY <4>1 DEF Same
      <4>4. more[c] = e[c] /\ e[c] \in Nat
        BY <2>2, <1>1, <1>4
      <4> QED
        BY <4>1, <4>2, <4>3, <4>4
    <3>2. Owners(h2, c) = Owners(h, c) \cup {f} /\ f \notin Owners(h, c)
      BY <2>2, <1>13, <1>14 DEF Owners
    <3>3. IsFiniteSet(Owners(h, c)) /\ Cardinality(Owners(h, c)) \in Nat
      BY OwnersFinite
    <3>4. Cardinality(Owners(h2, c)) = Cardinality(Owners(h, c)) + 1
      BY <3>2, <3>3, FS_AddElement
    <3>5. h2[c].rc = more[c] + Cardinality(Owners(h2, c))
      BY <3>1, <3>3, <3>4
    <3> QED
      BY <3>1, <3>5 DEF Counted
  <2>3. CASE c # f /\ c \notin S
    <3>1. h2[c] = h[c] /\ more[c] = e[c]
      BY <2>3, <1>1, <1>7
    <3>3. Owners(h2, c) = Owners(h, c)
      BY <2>3, <1>14
    <3>2. Counted(h, e, c)
      BY <1>2
    <3> QED
      BY <3>1, <3>2, <3>3 DEF Counted
  <2> QED
    BY <2>1, <2>2, <2>3
<1>16. ASSUME NEW c \in Cells PROVE Content(h2, c, names)
  <2>1. \A o \in Cells : \A d \in Children(h[o]) : Same(h[d], h2[d])
    BY <1>3, <1>9
  <2>2. CASE c # f
    BY <2>1, <2>2, <1>2, <1>9, ContentKept
  <2>3. CASE c = f
    <3>1. Same(h[a], h2[f]) /\ IsCell(h[a]) /\ Content(h, a, names)
      BY <1>2, <1>5, <1>7
    <3>2. \A d \in Children(h[a]) : Same(h[d], h2[d])
      BY <2>1
    <3> QED
      BY <2>3, <3>1, <3>2, ContentCopied
  <2> QED
    BY <2>2, <2>3
<1> QED
  BY <1>10, <1>11, <1>15, <1>16 DEF Heap, more

-----------------------------------------------------------------------------
(* Building objects.                                                       *)

LEMMA Taking ==
  ASSUME NEW h, NEW n \in Nat, n > 0, Cardinality(Unused(h)) >= n
  PROVE  /\ Fresh(h) \in Cells /\ h[Fresh(h)].kind = "free"
         /\ \A h2 : Unused(h2) = Unused(h) \ {Fresh(h)} =>
              Cardinality(Unused(h2)) >= n - 1
<1>1. Unused(h) \in SUBSET Cells /\ IsFiniteSet(Unused(h)) /\ Cardinality(Unused(h)) \in Nat
  BY CellsFinite DEF Unused
<1>2. Unused(h) # {}
  <2>1. Cardinality(Unused(h)) # 0
    BY <1>1
  <2> QED
    BY <2>1, FS_EmptySet
<1>3. Fresh(h) \in Unused(h)
  BY <1>2 DEF Fresh
<1>4. Cardinality(Unused(h) \ {Fresh(h)}) = Cardinality(Unused(h)) - 1
  BY <1>1, <1>3, FS_RemoveElement
<1>5. Cardinality(Unused(h) \ {Fresh(h)}) >= n - 1
  BY <1>1, <1>4
<1> QED
  BY <1>3, <1>5 DEF Unused, Used

LEMMA SetProperty ==
  ASSUME NEW r, IsCell(r), r.kind = "object", NEW p \in Properties[r.class], NEW v
  PROVE  LET s == [r EXCEPT !.prop[p] = v]
         IN /\ IsCell(s) /\ s.kind = "object" /\ s.rc = r.rc /\ s.class = r.class
            /\ s.prop = [r.prop EXCEPT ![p] = v]
<1> DEFINE s == [r EXCEPT !.prop[p] = v]
           f == [r.prop EXCEPT ![p] = v]
<1>1. /\ r = [kind |-> "object", rc |-> r.rc, class |-> r.class, prop |-> r.prop]
      /\ r.class \in Classes /\ r.prop = [q \in Properties[r.class] |-> r.prop[q]]
      /\ r.rc \in Nat \ {0}
  BY DEF IsCell
<1>2. s = [r EXCEPT !.prop = f]
  OBVIOUS
<1>3. f = [q \in Properties[r.class] |-> f[q]]
  BY <1>1
<1> HIDE DEF f
<1>4. s = [kind |-> "object", rc |-> r.rc, class |-> r.class, prop |-> f]
  BY <1>1, <1>2
<1> HIDE DEF s
<1>5. s.kind = "object" /\ s.rc = r.rc /\ s.class = r.class /\ s.prop = f
  BY <1>4
<1>6. IsCell(s)
  BY <1>1, <1>3, <1>4, <1>5 DEF IsCell
<1> QED
  BY <1>5, <1>6 DEF s, f

(* A cell made for a property: stored, and the maker's own hold released.  *)
LEMMA Linking ==
  ASSUME NEW m, Typed(m), NEW o \in Cells, NEW f \in Cells, o # f,
         m[o].kind = "object", NEW p \in Properties[m[o].class], m[o].prop[p] = Unset,
         m[f].kind # "free", m[f].rc = 1
  PROVE  Release(UpdateProperty(m, o, p, Ref(f)), Ref(f))
           = [m EXCEPT ![o] = [m[o] EXCEPT !.prop[p] = Ref(f)]]
<1> DEFINE s == Ref(f)
           r == [m[o] EXCEPT !.prop[p] = s]
           m2 == [m EXCEPT ![o].prop[p] = s]
           twice == [m[f] EXCEPT !.rc = 2]
           m3 == AddRef(m2, s)
<1>1. DOMAIN m = Cells /\ \A c \in Cells : IsCell(m[c])
  BY DEF Typed
<1>2. s.type = "ref" /\ s.cell = f /\ Unset.type # "ref"
  BY Values
<1>3. twice.rc = 2 /\ [twice EXCEPT !.rc = 1] = m[f]
  <2>1. IsCell(m[f])
    BY <1>1
  <2>2. CASE m[f].kind = "string"
    <3>1. m[f] = [kind |-> "string", rc |-> 1, text |-> m[f].text]
      BY <2>1, <2>2 DEF IsCell
    <3> QED
      BY <3>1
  <2>3. CASE m[f].kind = "object"
    <3>1. m[f] = [kind |-> "object", rc |-> 1, class |-> m[f].class, prop |-> m[f].prop]
      BY <2>1, <2>3 DEF IsCell
    <3> QED
      BY <3>1
  <2> QED
    BY <2>1, <2>2, <2>3, CellCases
<1> HIDE DEF r, s
<1>4. m2 = [m EXCEPT ![o] = r]
  BY DEF r
<1>5. m2[f] = m[f] /\ DOMAIN m2 = Cells
  BY <1>1, <1>4
<1> HIDE DEF m2
<1>6. m3 = [m2 EXCEPT ![f] = twice]
  <2>1. m2[f].rc + 1 = 2
    BY <1>5
  <2> QED
    BY <1>2, <1>5, <2>1 DEF AddRef
<1>7. m3[f] = twice /\ DOMAIN m3 = Cells
  BY <1>5, <1>6
<1>8. UpdateProperty(m, o, p, s) = m3
  <2>1. UpdateProperty(m, o, p, s) = Release(m3, Unset)
    BY DEF UpdateProperty, m3, m2
  <2> QED
    BY <1>2, <2>1 DEF Release
<1> HIDE DEF m3, twice
<1>9. Release(m3, s) = [m3 EXCEPT ![f] = m[f]]
  <2>1. m3[f].rc > 1 /\ m3[f].rc - 1 = 1
    BY <1>3, <1>7
  <2>2. Release(m3, s) = [m3 EXCEPT ![f].rc = m3[f].rc - 1]
    BY <1>2, <2>1 DEF Release
  <2> QED
    BY <1>3, <1>7, <2>1, <2>2
<1>10. [m3 EXCEPT ![f] = m[f]] = m2
  <2>1. m2 = [c \in Cells |-> m2[c]]
    <3>1. m = [c \in Cells |-> m[c]]
      BY DEF Typed
    <3> QED
      BY <3>1, <1>4
  <2> QED
    BY <2>1, <1>5, <1>6
<1> QED
  BY <1>4, <1>8, <1>9, <1>10 DEF r, s

(* Making a cell.                                                          *)
Made(h, m, f, cell) ==
  /\ Typed(m)
  /\ m[f] = cell
  /\ \A c \in Cells : c # f => m[c] = h[c]
  /\ Unused(m) = Unused(h) \ {f}

LEMMA Making ==
  ASSUME NEW h, Typed(h), Fresh(h) \in Cells, h[Fresh(h)].kind = "free",
         NEW cell, IsCell(cell), cell.kind # "free"
  PROVE  Made(h, Make(h, cell), Fresh(h), cell)
<1> DEFINE f == Fresh(h)
           m == Make(h, cell)
<1>1. f \in Cells /\ h[f].kind = "free"
  OBVIOUS
<1>2. m = [h EXCEPT ![f] = cell]
  BY DEF Make
<1>3. h = [c \in Cells |-> h[c]] /\ \A c \in Cells : IsCell(h[c])
  BY DEF Typed
<1> HIDE DEF f, m
<1>4. m = [c \in Cells |-> IF c = f THEN cell ELSE h[c]]
  BY <1>2, <1>3
<1>5. m[f] = cell /\ \A c \in Cells : c # f => m[c] = h[c]
  BY <1>1, <1>4
<1>6. Typed(m)
  <2>1. \A c \in Cells : IsCell(m[c])
    BY <1>3, <1>5
  <2> QED
    BY <1>4, <2>1 DEF Typed
<1>7. Unused(m) = Unused(h) \ {f}
  BY <1>5 DEF Unused, Used
<1> QED
  BY <1>5, <1>6, <1>7 DEF Made, f, m

(* Setting a property of an object that is being built.                    *)
PropertySet(h, h2, o, p, v) ==
  /\ Typed(h2)
  /\ h2[o].kind = "object" /\ h2[o].rc = h[o].rc /\ h2[o].class = h[o].class
  /\ h2[o].prop = [h[o].prop EXCEPT ![p] = v]
  /\ \A c \in Cells : c # o => h2[c] = h[c]
  /\ Unused(h2) = Unused(h)

LEMMA Setting ==
  ASSUME NEW h, Typed(h), NEW o \in Cells, h[o].kind = "object",
         NEW p \in Properties[h[o].class], NEW v,
         NEW h2, h2 = [h EXCEPT ![o] = [h[o] EXCEPT !.prop[p] = v]]
  PROVE  PropertySet(h, h2, o, p, v)
<1> DEFINE r == [h[o] EXCEPT !.prop[p] = v]
<1>1. h = [c \in Cells |-> h[c]] /\ \A c \in Cells : IsCell(h[c])
  BY DEF Typed
<1>2. IsCell(r) /\ r.kind = "object" /\ r.rc = h[o].rc /\ r.class = h[o].class
      /\ r.prop = [h[o].prop EXCEPT ![p] = v]
  BY <1>1, SetProperty
<1> HIDE DEF r
<1>3. h2 = [c \in Cells |-> IF c = o THEN r ELSE h[c]]
  BY <1>1 DEF r
<1>4. h2[o] = r /\ \A c \in Cells : c # o => h2[c] = h[c]
  BY <1>3
<1>5. Typed(h2)
  <2>1. \A c \in Cells : IsCell(h2[c])
    BY <1>1, <1>2, <1>4
  <2> QED
    BY <1>3, <2>1 DEF Typed
<1>6. Unused(h2) = Unused(h)
  BY <1>2, <1>4 DEF Unused, Used
<1> QED
  BY <1>2, <1>4, <1>5, <1>6 DEF PropertySet

(* A string for a property that is not initialised.                        *)
Stored(h, h2, o, p, f, t) ==
  /\ Typed(h2)
  /\ h2[f] = String(t)
  /\ h2[o].kind = "object" /\ h2[o].rc = h[o].rc /\ h2[o].class = h[o].class
  /\ h2[o].prop = [h[o].prop EXCEPT ![p] = Ref(f)]
  /\ \A c \in Cells : c # o /\ c # f => h2[c] = h[c]
  /\ Unused(h2) = Unused(h) \ {f}

LEMMA Storing ==
  ASSUME NEW h, Typed(h), NEW o \in Cells, h[o].kind = "object",
         NEW p \in Properties[h[o].class], h[o].prop[p] = Unset, NEW t,
         Fresh(h) \in Cells, h[Fresh(h)].kind = "free"
  PROVE  Stored(h, UpdateString(h, o, p, t), o, p, Fresh(h), t)
<1> DEFINE f == Fresh(h)
           m == Make(h, String(t))
           h2 == UpdateString(h, o, p, t)
<1>1. f \in Cells /\ o # f
  OBVIOUS
<1>2. Made(h, m, f, String(t))
  BY Making, StringCell
<1>3. h2 = Release(UpdateProperty(m, o, p, Ref(f)), Ref(f))
  BY DEF UpdateString
<1> HIDE DEF f, m, h2
<1>4. Typed(m) /\ m[o] = h[o] /\ m[f] = String(t)
  BY <1>1, <1>2 DEF Made
<1>5. h2 = [m EXCEPT ![o] = [m[o] EXCEPT !.prop[p] = Ref(f)]]
  <2>1. m[f].kind # "free" /\ m[f].rc = 1
    BY <1>4, StringCell
  <2>2. /\ m[o].kind = "object" /\ p \in Properties[m[o].class]
        /\ m[o].prop[p] = Unset
    BY <1>4
  <2> QED
    BY <1>1, <1>3, <1>4, <2>1, <2>2, Linking
<1>6. PropertySet(m, h2, o, p, Ref(f))
  BY <1>4, <1>5, Setting
<1> QED
  BY <1>1, <1>2, <1>4, <1>6 DEF Made, PropertySet, Stored, f, h2

LEMMA Refusing ==
  ASSUME NEW h, Typed(h), NEW o \in Cells, h[o].kind = "object",
         NEW p, h[o].prop[p] # Unset, NEW t,
         Fresh(h) \in Cells, h[Fresh(h)].kind = "free"
  PROVE  UpdateString(h, o, p, t) = h
<1> DEFINE f == Fresh(h)
           s == Ref(f)
           m == Make(h, String(t))
<1>1. h = [c \in Cells |-> h[c]] /\ DOMAIN h = Cells
  BY DEF Typed
<1>2. f \in Cells /\ o # f /\ h[f] = Free
  BY CellCases DEF Typed
<1> HIDE DEF f
<1>3. m = [h EXCEPT ![f] = String(t)]
  BY DEF Make, f
<1>4. m[o] = h[o] /\ m[f] = String(t) /\ \A c \in Cells : c # f => m[c] = h[c]
  BY <1>1, <1>2, <1>3
<1> HIDE DEF m
<1>5. UpdateProperty(m, o, p, s) = m
  BY <1>4 DEF UpdateProperty, Writable
<1>6. UpdateString(h, o, p, t) = Release(m, s)
  BY <1>5 DEF UpdateString, m, s, f
<1>7. m[f].rc = 1 /\ Children(m[f]) = {}
  BY <1>4, StringCell
<1>8. Release(m, s) = [c \in Cells |-> IF c = f THEN Free ELSE m[c]]
  BY <1>7, Values DEF Release
<1> QED
  BY <1>1, <1>2, <1>4, <1>6, <1>8

(* An object that is being built has no cells yet.                         *)
LEMMA NewObject ==
  ASSUME NEW class \in Classes
  PROVE  /\ IsCell(Object(class)) /\ Object(class).kind = "object"
         /\ Object(class).rc = 1 /\ Object(class).class = class
         /\ Object(class).prop = [p \in Properties[class] |-> Unset]
BY DEF IsCell, Object

(* A string of a script's.                                                 *)
LEMMA MakingString ==
  ASSUME NEW h, NEW names, NEW e \in [Cells -> Nat], Heap(h, e, names),
         NEW t, Fits(t, names), Cardinality(Unused(h)) >= 1
  PROVE  /\ Heap(Make(h, String(t)), More(e, Ref(Fresh(h))), names)
         /\ Grown(h, Make(h, String(t)))
         /\ Fresh(h) \in Cells
<1> DEFINE f == Fresh(h)
           m == Make(h, String(t))
<1>1. f \in Cells /\ h[f].kind = "free"
  BY Taking
<1>2. Made(h, m, f, String(t))
  BY <1>1, Making, StringCell DEF Heap
<1> HIDE DEF f, m
<1>3. Typed(m) /\ m[f] = String(t) /\ \A c \in Cells : c # f => m[c] = h[c]
  BY <1>2 DEF Made
<1>4. m[f].kind = "string" /\ m[f].rc = 1 /\ m[f].text = t
      /\ Children(m[f]) = {}
  BY <1>3, StringCell
<1>5. Content(m, f, names)
  BY <1>4 DEF Content
<1>6. Built(h, m, f, names)
  BY <1>1, <1>3, <1>4, <1>5 DEF Built
<1>7. Heap(m, More(e, Ref(f)), names) /\ Grown(h, m)
  BY <1>1, <1>6, Building
<1> QED
  BY <1>1, <1>7 DEF f, m

(* An object of two strings.                                               *)
LEMMA MakingPair ==
  ASSUME NEW h, NEW names, NEW e \in [Cells -> Nat], Heap(h, e, names),
         NEW class \in {"KeyPair", "EncapsulatedSecret"},
         NEW p, NEW q, Properties[class] = {p, q}, p # q,
         NEW t, NEW u, Fits(t, names), Fits(u, names),
         Cardinality(Unused(h)) >= 3,
         NEW h2,
         h2 = UpdateString(UpdateString(Make(h, Object(class)), Fresh(h), p, t),
                           Fresh(h), q, u)
  PROVE  /\ Heap(h2, More(e, Ref(Fresh(h))), names)
         /\ Grown(h, h2)
         /\ Fresh(h) \in Cells
<1> DEFINE o == Fresh(h)
           m == Make(h, Object(class))
           f == Fresh(m)
           n == UpdateString(m, o, p, t)
           g == Fresh(n)
<1>1. class \in Classes /\ class \notin SizesClasses /\ class \notin AlgorithmClasses
      /\ "sizes" \notin Properties[class]
  BY DEF Classes, SizesClasses, AlgorithmClasses, Properties
<1>2. /\ o \in Cells /\ h[o].kind = "free"
      /\ \A h3 : Unused(h3) = Unused(h) \ {o} => Cardinality(Unused(h3)) >= 2
  BY Taking
<1>3. Made(h, m, o, Object(class))
  BY <1>1, <1>2, Making, NewObject DEF Heap
<1> HIDE DEF o
<1>4. /\ Typed(m) /\ m[o].kind = "object" /\ m[o].rc = 1 /\ m[o].class = class
      /\ m[o].prop = [x \in {p, q} |-> Unset]
      /\ \A c \in Cells : c # o => m[c] = h[c]
      /\ Cardinality(Unused(m)) >= 2
  BY <1>1, <1>2, <1>3, NewObject DEF Made
<1>5. /\ f \in Cells /\ m[f].kind = "free"
      /\ \A h3 : Unused(h3) = Unused(m) \ {f} => Cardinality(Unused(h3)) >= 1
  BY <1>4, Taking
<1> HIDE DEF m
<1>6. Stored(m, n, o, p, f, t)
  BY <1>2, <1>4, <1>5, Storing
<1> HIDE DEF f
<1>7. /\ Typed(n) /\ n[f] = String(t)
      /\ n[o].kind = "object" /\ n[o].rc = 1 /\ n[o].class = class
      /\ n[o].prop = [x \in {p, q} |-> IF x = p THEN Ref(f) ELSE Unset]
      /\ \A c \in Cells : c # o /\ c # f => n[c] = m[c]
      /\ Cardinality(Unused(n)) >= 1
  BY <1>4, <1>5, <1>6 DEF Stored
<1>8. g \in Cells /\ n[g].kind = "free"
  BY <1>7, Taking
<1> HIDE DEF n
<1>9. Stored(n, h2, o, q, g, u)
  BY <1>2, <1>7, <1>8, Storing DEF n, m, o
<1> HIDE DEF g
<1>10. /\ Typed(h2) /\ h2[g] = String(u)
       /\ h2[o].kind = "object" /\ h2[o].rc = 1 /\ h2[o].class = class
       /\ h2[o].prop = [x \in {p, q} |-> IF x = p THEN Ref(f) ELSE Ref(g)]
       /\ \A c \in Cells : c # o /\ c # g => h2[c] = n[c]
  BY <1>7, <1>9 DEF Stored
<1>11. o # f /\ f # g /\ o # g
  BY <1>4, <1>5, <1>7, <1>8, StringCell
<1>12. /\ h2[f] = String(t)
       /\ \A c \in Cells : c # o /\ c # f /\ c # g => h2[c] = h[c]
       /\ h[f].kind = "free" /\ h[g].kind = "free"
  BY <1>4, <1>5, <1>7, <1>8, <1>10, <1>11
<1>13. /\ h2[f].kind = "string" /\ h2[f].rc = 1 /\ h2[f].text = t /\ Children(h2[f]) = {}
       /\ h2[g].kind = "string" /\ h2[g].rc = 1 /\ h2[g].text = u /\ Children(h2[g]) = {}
  BY <1>10, <1>12, StringCell
<1>14. Children(h2[o]) = {f, g}
  <2>1. \A c, d : Ref(c) = Ref(d) => c = d
    BY Values
  <2>2. DOMAIN h2[o].prop = {p, q} /\ h2[o].prop[p] = Ref(f) /\ h2[o].prop[q] = Ref(g)
    BY <1>10
  <2> QED
    BY <1>5, <1>8, <1>10, <2>1, <2>2 DEF Children
<1>15. Content(h2, f, names) /\ Content(h2, g, names)
  BY <1>13 DEF Content
<1>16. Content(h2, o, names)
  <2>1. h2[o].prop[p] = Ref(f) /\ h2[o].prop[q] = Ref(g) /\ Ref(f) # Ref(g)
    BY <1>10, <1>11, Values
  <2>2. Filled(h2, o, p) /\ Filled(h2, o, q)
    BY <2>1, <1>1, <1>5, <1>8, <1>10, <1>13 DEF Filled
  <2>3. Shaped(h2, o)
    BY <2>1, <2>2, <1>10 DEF Shaped
  <2> QED
    BY <2>3, <1>1, <1>10 DEF Content
<1>17. Built(h, h2, o, names)
  BY <1>2, <1>10, <1>11, <1>12, <1>13, <1>14, <1>15, <1>16 DEF Built
<1>18. Heap(h2, More(e, Ref(o)), names) /\ Grown(h, h2)
  BY <1>2, <1>17, Building
<1> QED
  BY <1>2, <1>18 DEF o

(* The cells of a sizes object are numbers.                                *)
Sized(h, h2, f, class, sizes) ==
  /\ Typed(h2)
  /\ h2[f].kind = "object" /\ h2[f].rc = 1 /\ h2[f].class = class
  /\ h2[f].prop = [p \in Properties[class] |-> Long(sizes[p])]
  /\ \A c \in Cells : c # f => h2[c] = h[c]
  /\ Unused(h2) = Unused(h) \ {f}

LEMMA Sizing ==
  ASSUME NEW h, Typed(h), NEW class \in Classes, NEW sizes,
         Fresh(h) \in Cells, h[Fresh(h)].kind = "free"
  PROVE  Sized(h, UpdateLongs(Make(h, Object(class)), Fresh(h), sizes), Fresh(h), class, sizes)
<1> DEFINE f == Fresh(h)
           m == Make(h, Object(class))
           h2 == UpdateLongs(m, f, sizes)
           new == [p \in DOMAIN m[f].prop |->
                     IF m[f].prop[p] = Unset \/ <<m[f].class, p>> \in Writable
                     THEN Long(sizes[p]) ELSE m[f].prop[p]]
           longs == [p \in Properties[class] |-> Long(sizes[p])]
           r == [kind |-> "object", rc |-> 1, class |-> class, prop |-> longs]
<1>1. Made(h, m, f, Object(class))
  BY Making, NewObject
<1>2. h2 = [m EXCEPT ![f].prop = new]
  BY DEF UpdateLongs
<1>3. f \in Cells
  OBVIOUS
<1> HIDE DEF f, m, h2
<1>4. Typed(m) /\ m[f] = Object(class) /\ \A c \in Cells : c # f => m[c] = h[c]
  BY <1>1 DEF Made
<1>5. m[f].prop = [p \in Properties[class] |-> Unset]
  BY <1>4, NewObject
<1>6. new = longs
  BY <1>5
<1>7. m = [c \in Cells |-> m[c]] /\ \A c \in Cells : IsCell(m[c])
  BY <1>4 DEF Typed
<1> HIDE DEF new, longs
<1>8. [m[f] EXCEPT !.prop = longs] = r
  <2>1. m[f] = [kind |-> "object", rc |-> 1, class |-> class,
                prop |-> [p \in Properties[class] |-> Unset]]
    BY <1>4 DEF Object
  <2> QED
    BY <2>1
<1>9. h2 = [m EXCEPT ![f] = [m[f] EXCEPT !.prop = longs]]
  BY <1>2, <1>6
<1>10. r.kind = "object" /\ r.rc = 1 /\ r.class = class /\ r.prop = longs /\ IsCell(r)
  <2>1. longs = [p \in Properties[class] |-> longs[p]]
    BY DEF longs
  <2> QED
    BY <2>1 DEF IsCell
<1> HIDE DEF r
<1>11. h2 = [c \in Cells |-> IF c = f THEN r ELSE m[c]]
  BY <1>7, <1>8, <1>9
<1>12. h2[f] = r /\ \A c \in Cells : c # f => h2[c] = m[c]
  BY <1>3, <1>11
<1>13. Typed(h2)
  <2>1. \A c \in Cells : IsCell(h2[c])
    BY <1>7, <1>10, <1>12
  <2> QED
    BY <1>11, <2>1 DEF Typed
<1>14. Unused(h2) = Unused(h) \ {f}
  BY <1>4, <1>10, <1>12 DEF Unused, Used
<1> QED
  BY <1>4, <1>10, <1>12, <1>13, <1>14 DEF Sized, f, m, h2, longs

LEMMA SizesShaped ==
  ASSUME NEW h, NEW names, NEW f \in Cells, NEW class \in SizesClasses, NEW sizes,
         h[f].kind = "object", h[f].class = class,
         h[f].prop = [p \in Properties[class] |-> Long(sizes[p])]
  PROVE  Content(h, f, names) /\ Children(h[f]) = {}
<1>1. \A p \in Properties[class] : h[f].prop[p].type = "long"
  BY Values
<1>2. Shaped(h, f)
  BY <1>1 DEF Shaped, Filled
<1>3. class \notin AlgorithmClasses
  BY DEF SizesClasses, AlgorithmClasses
<1>4. Children(h[f]) = {}
  <2>1. \A c : Ref(c).type # "long"
    BY DEF Ref
  <2>2. DOMAIN h[f].prop = Properties[class]
    OBVIOUS
  <2> QED
    BY <1>1, <2>1, <2>2 DEF Children
<1> QED
  BY <1>2, <1>3, <1>4 DEF Content

LEMMA MakingSizes ==
  ASSUME NEW h, NEW names, NEW e \in [Cells -> Nat], Heap(h, e, names),
         NEW class \in SizesClasses, NEW sizes, Cardinality(Unused(h)) >= 1,
         NEW h2, h2 = UpdateLongs(Make(h, Object(class)), Fresh(h), sizes)
  PROVE  /\ Heap(h2, More(e, Ref(Fresh(h))), names)
         /\ Grown(h, h2)
         /\ Fresh(h) \in Cells
<1> DEFINE f == Fresh(h)
<1>1. f \in Cells /\ h[f].kind = "free"
  BY Taking
<1>2. Sized(h, h2, f, class, sizes)
  <2>1. class \in Classes
    BY DEF SizesClasses, Classes, Properties
  <2> QED
    BY <1>1, <2>1, Sizing DEF Heap
<1> HIDE DEF f
<1>3. /\ Typed(h2)
      /\ h2[f].kind = "object" /\ h2[f].rc = 1 /\ h2[f].class = class
      /\ h2[f].prop = [p \in Properties[class] |-> Long(sizes[p])]
      /\ \A c \in Cells : c # f => h2[c] = h[c]
  BY <1>2 DEF Sized
<1>4. Content(h2, f, names) /\ Children(h2[f]) = {}
  BY <1>1, <1>3, SizesShaped
<1>5. Built(h, h2, f, names)
  BY <1>1, <1>3, <1>4 DEF Built
<1> QED
  BY <1>1, <1>5, Building DEF f

-----------------------------------------------------------------------------
(* The tables of the four layers agree.                                    *)

SizesClassOf(name) == IF name \in Signatures THEN "SignatureSizes" ELSE "KemSizes"

Agree(name) ==
  /\ Algorithm(name).sizes = CoreSizes(name)
  /\ DOMAIN CoreSizes(name) = Properties[SizesClassOf(name)]
  /\ Algorithm(name).id \notin Signatures \cup Kems

(* Each of the four tables names its own sets.                             *)
LEMMA TableNames ==
  /\ DOMAIN AimerRegistry =
       {"aimer128f", "aimer128s", "aimer192f", "aimer192s", "aimer256f", "aimer256s"}
  /\ DOMAIN AimerParams =
       {"aimer128f", "aimer128s", "aimer192f", "aimer192s", "aimer256f", "aimer256s"}
  /\ DOMAIN HaetaeRegistry = {"haetae2", "haetae3", "haetae5"}
  /\ DOMAIN HaetaeParams = {"haetae2", "haetae3", "haetae5"}
  /\ DOMAIN NtruplusRegistry = {"ntruplus768", "ntruplus864", "ntruplus1152"}
  /\ DOMAIN NtruplusPolybytes = {"ntruplus768", "ntruplus864", "ntruplus1152"}
  /\ DOMAIN SmaugtRegistry = {"smaugt128", "smaugt192", "smaugt256", "timer"}
  /\ DOMAIN SmaugtParams = {"smaugt128", "smaugt192", "smaugt256", "timer"}
BY DEF AimerRegistry, AimerParams, HaetaeRegistry, HaetaeParams,
       NtruplusRegistry, NtruplusPolybytes, SmaugtRegistry, SmaugtParams

LEMMA AimerTables ==
  ASSUME NEW name \in DOMAIN AimerRegistry
  PROVE  Agree(name)
<1>1. name \in {"aimer128f", "aimer128s", "aimer192f", "aimer192s", "aimer256f", "aimer256s"}
  BY TableNames
<1>2. /\ Algorithm(name) = AimerRegistry[name]
      /\ CoreSizes(name) = AimerSizes(AimerParams[name])
  <2>1. /\ name \in DOMAIN AimerRegistry /\ name \in DOMAIN AimerParams
        /\ name \notin DOMAIN HaetaeRegistry /\ name \notin DOMAIN HaetaeParams
        /\ name \notin DOMAIN NtruplusRegistry /\ name \notin DOMAIN NtruplusPolybytes
        /\ name \notin DOMAIN SmaugtRegistry /\ name \notin DOMAIN SmaugtParams
    BY <1>1, TableNames
  <2> QED
    BY <2>1 DEF Algorithm, CoreSizes
<1>3. name \in Signatures
  BY <1>1 DEF Signatures
<1>4. DOMAIN CoreSizes(name) = Properties[SizesClassOf(name)]
  BY <1>2, <1>3 DEF AimerSizes, Properties, SizesClassOf
<1>5. AimerRegistry[name].sizes = AimerSizes(AimerParams[name])
  BY <1>1 DEF AimerRegistry, SignatureRow, AimerSizes, AimerParams
<1>6. AimerRegistry[name].id \notin Signatures \cup Kems
  BY <1>1 DEF AimerRegistry, SignatureRow, Signatures, Kems
<1> QED
  BY <1>2, <1>4, <1>5, <1>6 DEF Agree

LEMMA HaetaeTables ==
  ASSUME NEW name \in DOMAIN HaetaeRegistry
  PROVE  Agree(name)
<1>1. name \in {"haetae2", "haetae3", "haetae5"}
  BY TableNames
<1>2. /\ Algorithm(name) = HaetaeRegistry[name]
      /\ CoreSizes(name) = HaetaeSizes(HaetaeParams[name])
  <2>1. /\ name \in DOMAIN HaetaeRegistry /\ name \in DOMAIN HaetaeParams
        /\ name \notin DOMAIN AimerRegistry /\ name \notin DOMAIN AimerParams
        /\ name \notin DOMAIN NtruplusRegistry /\ name \notin DOMAIN NtruplusPolybytes
        /\ name \notin DOMAIN SmaugtRegistry /\ name \notin DOMAIN SmaugtParams
    BY <1>1, TableNames
  <2> QED
    BY <2>1 DEF Algorithm, CoreSizes
<1>3. name \in Signatures
  BY <1>1 DEF Signatures
<1>4. DOMAIN CoreSizes(name) = Properties[SizesClassOf(name)]
  BY <1>2, <1>3 DEF HaetaeSizes, Properties, SizesClassOf
<1>5. HaetaeRegistry[name].sizes = HaetaeSizes(HaetaeParams[name])
  BY <1>1 DEF HaetaeRegistry, SignatureRow, HaetaeSizes, HaetaeParams
<1>6. HaetaeRegistry[name].id \notin Signatures \cup Kems
  BY <1>1 DEF HaetaeRegistry, SignatureRow, Signatures, Kems
<1> QED
  BY <1>2, <1>4, <1>5, <1>6 DEF Agree

LEMMA NtruplusTables ==
  ASSUME NEW name \in DOMAIN NtruplusRegistry
  PROVE  Agree(name)
<1>1. name \in {"ntruplus768", "ntruplus864", "ntruplus1152"}
  BY TableNames
<1>2. /\ Algorithm(name) = NtruplusRegistry[name]
      /\ CoreSizes(name) = NtruplusSizes(NtruplusPolybytes[name])
  <2>1. /\ name \in DOMAIN NtruplusRegistry /\ name \in DOMAIN NtruplusPolybytes
        /\ name \notin DOMAIN AimerRegistry /\ name \notin DOMAIN AimerParams
        /\ name \notin DOMAIN HaetaeRegistry /\ name \notin DOMAIN HaetaeParams
        /\ name \notin DOMAIN SmaugtRegistry /\ name \notin DOMAIN SmaugtParams
    BY <1>1, TableNames
  <2> QED
    BY <2>1 DEF Algorithm, CoreSizes
<1>3. name \notin Signatures
  BY <1>1 DEF Signatures
<1>4. DOMAIN CoreSizes(name) = Properties[SizesClassOf(name)]
  BY <1>2, <1>3 DEF NtruplusSizes, Properties, SizesClassOf
<1>5. NtruplusRegistry[name].sizes = NtruplusSizes(NtruplusPolybytes[name])
  BY <1>1 DEF NtruplusRegistry, KemRow, NtruplusSizes, NtruplusPolybytes
<1>6. NtruplusRegistry[name].id \notin Signatures \cup Kems
  BY <1>1 DEF NtruplusRegistry, KemRow, Signatures, Kems
<1> QED
  BY <1>2, <1>4, <1>5, <1>6 DEF Agree

LEMMA SmaugtTables ==
  ASSUME NEW name \in DOMAIN SmaugtRegistry
  PROVE  Agree(name)
<1>1. name \in {"smaugt128", "smaugt192", "smaugt256", "timer"}
  BY TableNames
<1>2. /\ Algorithm(name) = SmaugtRegistry[name]
      /\ CoreSizes(name) = SmaugtSizes(SmaugtParams[name])
  <2>1. /\ name \in DOMAIN SmaugtRegistry /\ name \in DOMAIN SmaugtParams
        /\ name \notin DOMAIN AimerRegistry /\ name \notin DOMAIN AimerParams
        /\ name \notin DOMAIN HaetaeRegistry /\ name \notin DOMAIN HaetaeParams
        /\ name \notin DOMAIN NtruplusRegistry /\ name \notin DOMAIN NtruplusPolybytes
    BY <1>1, TableNames
  <2> QED
    BY <2>1 DEF Algorithm, CoreSizes
<1>3. name \notin Signatures
  BY <1>1 DEF Signatures
<1>4. DOMAIN CoreSizes(name) = Properties[SizesClassOf(name)]
  BY <1>2, <1>3 DEF SmaugtSizes, Properties, SizesClassOf
<1>5. SmaugtRegistry[name].sizes = SmaugtSizes(SmaugtParams[name])
  BY <1>1 DEF SmaugtRegistry, KemRow, SmaugtSizes, SmaugtParams
<1>6. SmaugtRegistry[name].id \notin Signatures \cup Kems
  BY <1>1 DEF SmaugtRegistry, KemRow, Signatures, Kems
<1> QED
  BY <1>2, <1>4, <1>5, <1>6 DEF Agree

LEMMA Tables ==
  ASSUME NEW name \in Signatures \cup Kems
  PROVE  Agree(name)
<1>1. \/ name \in DOMAIN AimerRegistry
      \/ name \in DOMAIN HaetaeRegistry
      \/ name \in DOMAIN NtruplusRegistry
      \/ name \in DOMAIN SmaugtRegistry
  BY TableNames DEF Signatures, Kems
<1> QED
  BY <1>1, AimerTables, HaetaeTables, NtruplusTables, SmaugtTables

(* What the factory makes for a parameter set.                             *)
AlgorithmClassOf(name) ==
  IF name \in Signatures THEN "SignatureAlgorithm" ELSE "KeyEncapsulationAlgorithm"

LEMMA MakingAlgorithm ==
  ASSUME NEW h, NEW names, NEW e \in [Cells -> Nat], Heap(h, e, names),
         names \subseteq Signatures \cup Kems, NEW name \in names,
         Cardinality(Unused(h)) >= 4,
         NEW h2,
         h2 = CreateAlgorithm(h, AlgorithmClassOf(name), SizesClassOf(name), name)
  PROVE  /\ Heap(h2, More(e, Ref(Fresh(h))), names)
         /\ Grown(h, h2)
         /\ Fresh(h) \in Cells
<1> DEFINE class == AlgorithmClassOf(name)
           a == Algorithm(name)
           t == Text("id", a.id, 0)
           u == Text("nativeName", name, 0)
           props == {"id", "sizes", "nativeName"}
           o == Fresh(h)
           m == Make(h, Object(class))
           f == Fresh(m)
           n == UpdateString(m, o, "id", t)
           g == Fresh(n)
           z == CreateSizes(n, SizesClassOf(name), a.sizes)
           k == Release(UpdateProperty(z, o, "sizes", Ref(g)), Ref(g))
           j == Fresh(k)
<1>1. /\ class \in Classes /\ class \notin SizesClasses /\ class \in AlgorithmClasses
      /\ Properties[class] = props
      /\ SizesClassOf(name) \in SizesClasses /\ SizesClassOf(name) \in Classes
  BY DEF Classes, SizesClasses, AlgorithmClasses, Properties, AlgorithmClassOf, SizesClassOf
<1>2. Agree(name)
  BY Tables
<1>3. h2 = UpdateString(k, o, "nativeName", u)
  BY DEF CreateAlgorithm, Accessor, DropTemporary
<1>4. /\ o \in Cells /\ h[o].kind = "free"
      /\ \A h3 : Unused(h3) = Unused(h) \ {o} => Cardinality(Unused(h3)) >= 3
  BY Taking
<1>5. Made(h, m, o, Object(class))
  BY <1>1, <1>4, Making, NewObject DEF Heap
<1> HIDE DEF o, class
<1>6. /\ Typed(m) /\ m[o].kind = "object" /\ m[o].rc = 1 /\ m[o].class = class
      /\ m[o].prop = [x \in props |-> Unset]
      /\ \A c \in Cells : c # o => m[c] = h[c]
      /\ Cardinality(Unused(m)) >= 3
  BY <1>1, <1>4, <1>5, NewObject DEF Made
<1>7. /\ f \in Cells /\ m[f].kind = "free"
      /\ \A h3 : Unused(h3) = Unused(m) \ {f} => Cardinality(Unused(h3)) >= 2
  BY <1>6, Taking
<1> HIDE DEF m, t
<1>8. Stored(m, n, o, "id", f, t)
  BY <1>1, <1>4, <1>6, <1>7, Storing
<1> HIDE DEF f
<1>9. /\ Typed(n) /\ n[f] = String(t)
      /\ n[o].kind = "object" /\ n[o].rc = 1 /\ n[o].class = class
      /\ n[o].prop = [x \in props |-> IF x = "id" THEN Ref(f) ELSE Unset]
      /\ \A c \in Cells : c # o /\ c # f => n[c] = m[c]
      /\ Cardinality(Unused(n)) >= 2
  BY <1>6, <1>7, <1>8 DEF Stored
<1>10. /\ g \in Cells /\ n[g].kind = "free"
       /\ \A h3 : Unused(h3) = Unused(n) \ {g} => Cardinality(Unused(h3)) >= 1
  BY <1>9, Taking
<1> HIDE DEF n, a
<1>11. Sized(n, z, g, SizesClassOf(name), a.sizes)
  BY <1>1, <1>9, <1>10, Sizing DEF CreateSizes
<1> HIDE DEF g
<1>12. /\ Typed(z) /\ z[g].kind = "object" /\ z[g].rc = 1
       /\ z[g].class = SizesClassOf(name)
       /\ z[g].prop = [p \in Properties[SizesClassOf(name)] |-> Long(a.sizes[p])]
       /\ \A c \in Cells : c # g => z[c] = n[c]
       /\ Cardinality(Unused(z)) >= 1
  BY <1>10, <1>11 DEF Sized
<1> HIDE DEF z
<1>13. o # f /\ o # g /\ f # g
  BY <1>6, <1>7, <1>9, <1>10, StringCell
<1>14. PropertySet(z, k, o, "sizes", Ref(g))
  <2>1. /\ z[o].kind = "object" /\ "sizes" \in Properties[z[o].class]
        /\ z[o].prop["sizes"] = Unset /\ z[g].kind # "free"
    BY <1>1, <1>4, <1>9, <1>12, <1>13
  <2>2. k = [z EXCEPT ![o] = [z[o] EXCEPT !.prop["sizes"] = Ref(g)]]
    BY <2>1, <1>4, <1>10, <1>12, <1>13, Linking
  <2> HIDE DEF k
  <2> QED
    BY <2>1, <2>2, <1>4, <1>12, Setting
<1> HIDE DEF k
<1>15. /\ Typed(k)
       /\ k[o].kind = "object" /\ k[o].rc = 1 /\ k[o].class = class
       /\ k[o].prop = [x \in props |-> IF x = "id" THEN Ref(f)
                                       ELSE IF x = "sizes" THEN Ref(g) ELSE Unset]
       /\ \A c \in Cells : c # o => k[c] = z[c]
       /\ Cardinality(Unused(k)) >= 1
  BY <1>4, <1>9, <1>12, <1>13, <1>14 DEF PropertySet
<1>16. j \in Cells /\ k[j].kind = "free"
  BY <1>15, Taking
<1> HIDE DEF u
<1>17. Stored(k, h2, o, "nativeName", j, u)
  BY <1>1, <1>3, <1>4, <1>15, <1>16, Storing
<1> HIDE DEF j
<1>18. /\ Typed(h2) /\ h2[j] = String(u)
       /\ h2[o].kind = "object" /\ h2[o].rc = 1 /\ h2[o].class = class
       /\ h2[o].prop = [x \in props |-> IF x = "id" THEN Ref(f)
                                        ELSE IF x = "sizes" THEN Ref(g) ELSE Ref(j)]
       /\ \A c \in Cells : c # o /\ c # j => h2[c] = k[c]
  BY <1>15, <1>17 DEF Stored
<1>19. o # j /\ f # j /\ g # j
  BY <1>7, <1>9, <1>10, <1>12, <1>13, <1>15, <1>16, StringCell
<1>20. /\ h2[f] = String(t) /\ h2[g] = z[g]
       /\ \A c \in Cells : c # o /\ c # f /\ c # g /\ c # j => h2[c] = h[c]
  BY <1>6, <1>7, <1>9, <1>10, <1>12, <1>13, <1>15, <1>18, <1>19
<1>21. h[f].kind = "free" /\ h[g].kind = "free" /\ h[j].kind = "free"
  BY <1>6, <1>7, <1>9, <1>10, <1>12, <1>13, <1>15, <1>16, <1>19
<1>22. /\ h2[f].kind = "string" /\ h2[f].rc = 1 /\ h2[f].text = t /\ Children(h2[f]) = {}
       /\ h2[j].kind = "string" /\ h2[j].rc = 1 /\ h2[j].text = u /\ Children(h2[j]) = {}
  BY <1>18, <1>20, StringCell
<1>23. /\ h2[g].kind = "object" /\ h2[g].rc = 1 /\ h2[g].class = SizesClassOf(name)
       /\ h2[g].prop = [p \in Properties[SizesClassOf(name)] |-> Long(a.sizes[p])]
  BY <1>12, <1>20
<1>24. Content(h2, g, names) /\ Children(h2[g]) = {}
  BY <1>1, <1>10, <1>23, SizesShaped
<1>25. /\ h2[o].prop["id"] = Ref(f) /\ h2[o].prop["sizes"] = Ref(g)
       /\ h2[o].prop["nativeName"] = Ref(j) /\ DOMAIN h2[o].prop = props
  BY <1>18
<1>26. Children(h2[o]) = {f, g, j}
  <2>1. \A c, d : Ref(c) = Ref(d) => c = d
    BY Values
  <2> QED
    BY <1>7, <1>10, <1>16, <1>18, <1>25, <2>1 DEF Children
<1>27. Content(h2, f, names) /\ Content(h2, j, names)
  <2>1. Fits(t, names)
    BY <1>2 DEF Fits, Text, t, a, Agree
  <2>2. Fits(u, names)
    BY DEF Fits, Text, u
  <2> QED
    BY <2>1, <2>2, <1>22 DEF Content
<1>28. Shaped(h2, o)
  <2>1. Filled(h2, o, "id")
    BY <1>1, <1>7, <1>18, <1>22, <1>25 DEF Filled
  <2>2. Filled(h2, o, "sizes")
    BY <1>1, <1>10, <1>18, <1>23, <1>25 DEF Filled
  <2>3. Filled(h2, o, "nativeName")
    BY <1>1, <1>16, <1>18, <1>22, <1>25 DEF Filled
  <2>4. Ref(f) # Ref(g) /\ Ref(f) # Ref(j) /\ Ref(g) # Ref(j)
    BY <1>13, <1>19, Values
  <2> QED
    BY <2>1, <2>2, <2>3, <2>4, <1>1, <1>18, <1>25 DEF Shaped
<1>29. TellsOne(h2, o, names)
  <2>1. h2[g].prop = SizesAre(name)
    BY <1>2, <1>23 DEF SizesAre, Agree, a
  <2>2. Tells(h2, o, name)
    BY <2>1, <1>7, <1>10, <1>16, <1>22, <1>25 DEF Tells, t, u, a
  <2> QED
    BY <2>2, <1>18 DEF TellsOne, AlgorithmClassOf, class
<1>30. Content(h2, o, names)
  BY <1>18, <1>28, <1>29 DEF Content
<1>31. Built(h, h2, o, names)
  <2>1. \A c \in {o, f, g, j} : h[c].kind = "free" /\ h2[c].kind # "free" /\ h2[c].rc = 1
    BY <1>4, <1>18, <1>21, <1>22, <1>23
  <2>2. \A c \in {f, g, j} : c # o /\ Children(h2[c]) = {}
    BY <1>13, <1>19, <1>22, <1>24
  <2>3. \A c \in {o, f, g, j} : Content(h2, c, names)
    BY <1>24, <1>27, <1>30
  <2>4. {o} \cup Children(h2[o]) = {o, f, g, j}
    BY <1>26
  <2> QED
    BY <2>1, <2>2, <2>3, <2>4, <1>18, <1>20, <1>26 DEF Built
<1> QED
  BY <1>4, <1>31, Building DEF o

-----------------------------------------------------------------------------
(* The script's variables.                                                 *)

LEMMA MoreAt ==
  ASSUME NEW e \in [Cells -> Nat], NEW w \in VarValues
  PROVE  More(e, w) = [c \in Cells |-> IF w = Ref(c) THEN e[c] + 1 ELSE e[c]]
<1>1. CASE w = Null
  <2>1. \A c : w # Ref(c)
    BY <1>1 DEF Null, Ref
  <2> QED
    BY <1>1, <2>1, Values DEF More
<1>2. CASE \E a \in Cells : w = Ref(a)
  <2>1. PICK a \in Cells : w = Ref(a)
    BY <1>2
  <2>2. More(e, w) = [e EXCEPT ![a] = e[a] + 1]
    BY <2>1, Values DEF More
  <2>3. \A c : w = Ref(c) <=> c = a
    BY <2>1, Values
  <2> QED
    BY <2>2, <2>3
<1> QED
  BY <1>1, <1>2 DEF VarValues

LEMMA HeldByNat ==
  ASSUME NEW V, IsFiniteSet(V), NEW v
  PROVE  HeldBy(V, v) \in [Cells -> Nat]
<1>1. ASSUME NEW c \in Cells PROVE Cardinality({x \in V : v[x] = Ref(c)}) \in Nat
  <2>1. {x \in V : v[x] = Ref(c)} \in SUBSET V
    OBVIOUS
  <2> QED
    BY <2>1, FS_Subset, FS_CardinalityType
<1> QED
  BY <1>1 DEF HeldBy

(* The new value's holder is one more, the old one's one less.             *)
Assigning(V, v, x, w, v2) ==
  /\ IsFiniteSet(V) /\ v \in [V -> VarValues] /\ x \in V /\ w \in VarValues
  /\ v2 = [v EXCEPT ![x] = w]

LEMMA Swapping ==
  ASSUME NEW V, NEW v, NEW x, NEW w, NEW v2, Assigning(V, v, x, w, v2)
  PROVE  More(HeldBy(V, v), w) = More(HeldBy(V, v2), v[x])
<1> DEFINE e == HeldBy(V, v)
           e2 == HeldBy(V, v2)
<1>0. /\ IsFiniteSet(V) /\ v \in [V -> VarValues] /\ x \in V /\ w \in VarValues
      /\ v2 = [v EXCEPT ![x] = w]
  BY DEF Assigning
<1>1. v2[x] = w /\ \A y \in V : y # x => v2[y] = v[y]
  BY <1>0
<1>2. e \in [Cells -> Nat] /\ e2 \in [Cells -> Nat] /\ v[x] \in VarValues
  BY <1>0, HeldByNat
<1>3. ASSUME NEW c \in Cells
      PROVE  (IF w = Ref(c) THEN e[c] + 1 ELSE e[c])
               = (IF v[x] = Ref(c) THEN e2[c] + 1 ELSE e2[c])
  <2> DEFINE A == {y \in V : v[y] = Ref(c)}
             B == {y \in V : v2[y] = Ref(c)}
             R == A \ {x}
  <2>1. IsFiniteSet(A) /\ IsFiniteSet(B) /\ IsFiniteSet(R)
    <3>1. A \in SUBSET V /\ B \in SUBSET V /\ R \in SUBSET V
      OBVIOUS
    <3> QED
      BY <1>0, <3>1, FS_Subset
  <2>2. R = B \ {x} /\ (x \in A <=> v[x] = Ref(c)) /\ (x \in B <=> w = Ref(c))
    BY <1>0, <1>1
  <2>3. e[c] = Cardinality(A) /\ e2[c] = Cardinality(B)
    BY DEF HeldBy
  <2> HIDE DEF A, B, e, e2
  <2>4. Cardinality(R) = IF x \in A THEN Cardinality(A) - 1 ELSE Cardinality(A)
    BY <2>1, FS_RemoveElement
  <2>5. Cardinality(R) = IF x \in B THEN Cardinality(B) - 1 ELSE Cardinality(B)
    BY <2>1, <2>2, FS_RemoveElement
  <2>6. Cardinality(R) \in Nat /\ e[c] \in Nat /\ e2[c] \in Nat
    BY <1>2, <2>1, FS_CardinalityType
  <2>7. e[c] = IF v[x] = Ref(c) THEN Cardinality(R) + 1 ELSE Cardinality(R)
    BY <2>2, <2>3, <2>4, <2>6
  <2>8. e2[c] = IF w = Ref(c) THEN Cardinality(R) + 1 ELSE Cardinality(R)
    BY <2>2, <2>3, <2>5, <2>6
  <2> QED
    BY <2>6, <2>7, <2>8
<1> HIDE DEF e, e2
<1>4. More(e, w) = [c \in Cells |-> IF w = Ref(c) THEN e[c] + 1 ELSE e[c]]
  BY <1>0, <1>2, MoreAt
<1>5. More(e2, v[x]) = [c \in Cells |-> IF v[x] = Ref(c) THEN e2[c] + 1 ELSE e2[c]]
  BY <1>0, <1>2, MoreAt
<1> QED
  BY <1>3, <1>4, <1>5 DEF e, e2

-----------------------------------------------------------------------------
(* Steps.                                                                  *)

(* What lives before and after a step says what it said.                   *)
Lasting(h, h2) ==
  \A c \in Used(h) \cap Used(h2) :
    /\ h2[c].kind = h[c].kind
    /\ IF IsObject(h, c) THEN h2[c].class = h[c].class /\ h2[c].prop = h[c].prop
       ELSE h2[c].text = h[c].text

LEMMA Assigned ==
  ASSUME NEW V, NEW v, NEW x, NEW w, NEW v2, Assigning(V, v, x, w, v2),
         NEW h, NEW h2, NEW h3, h3 = Release(h2, v[x]), NEW names,
         Heap(h, HeldBy(V, v), names), Heap(h2, More(HeldBy(V, v), w), names),
         Grown(h, h2)
  PROVE  Heap(h3, HeldBy(V, v2), names) /\ Lasting(h, h3)
<1>1. More(HeldBy(V, v), w) = More(HeldBy(V, v2), v[x])
  BY Swapping
<1>2. HeldBy(V, v2) \in [Cells -> Nat] /\ v[x] \in VarValues
  BY HeldByNat DEF Assigning
<1>3. Heap(h3, HeldBy(V, v2), names) /\ Left(h2, h3)
  <2>1. Heap(h2, More(HeldBy(V, v2), v[x]), names)
    BY <1>1
  <2> QED
    BY <1>2, <2>1, Releasing
<1>4. Lasting(h, h3)
  <2> SUFFICES ASSUME NEW c \in Used(h) \cap Used(h3)
               PROVE  /\ h3[c].kind = h[c].kind
                      /\ IF IsObject(h, c)
                         THEN h3[c].class = h[c].class /\ h3[c].prop = h[c].prop
                         ELSE h3[c].text = h[c].text
    BY DEF Lasting
  <2>1. c \in Cells /\ h[c].kind # "free" /\ h3[c].kind # "free" /\ IsCell(h[c])
    BY DEF Used, Heap, Typed
  <2>2. Same(h[c], h2[c]) /\ Same(h2[c], h3[c])
    BY <1>3, <2>1 DEF Grown, Left
  <2>3. h[c].kind = "string" \/ h[c].kind = "object"
    BY <2>1, CellCases
  <2> QED
    BY <2>2, <2>3 DEF Same, IsObject
<1> QED
  BY <1>3, <1>4

LEMMA Scripting ==
  ASSUME script \in Scripts
  PROVE  Names \subseteq Signatures \cup Kems /\ IsFiniteSet(Vars)
BY PhpObjectsAssumption DEF Names, Vars

(* "$x = ..." of a value the grown heap holds for it.                      *)
LEMMA AssignStep ==
  ASSUME ObjectsInv, NEW x \in Vars, NEW h2, NEW w \in VarValues,
         Heap(h2, More(HeldBy(Vars, var), w), Names), Grown(heap, h2),
         Assign(x, h2, w)
  PROVE  ObjectsInv' /\ Lasting(heap, heap')
<1>1. script' = script /\ var' = [var EXCEPT ![x] = w] /\ heap' = Release(h2, var[x])
  BY DEF Assign
<1>2. script \in Scripts /\ var \in [Vars -> VarValues]
      /\ Heap(heap, HeldBy(Vars, var), Names) /\ IsFiniteSet(Vars)
  BY Scripting DEF ObjectsInv
<1>3. Vars' = Vars /\ Names' = Names
  BY <1>1 DEF Vars, Names
<1>4. Heap(heap', HeldBy(Vars, var'), Names) /\ Lasting(heap, heap')
  <2>1. Assigning(Vars, var, x, w, var')
    BY <1>1, <1>2 DEF Assigning
  <2> QED
    BY <1>1, <1>2, <2>1, Assigned
<1>5. var' \in [Vars -> VarValues]
  BY <1>1, <1>2
<1> QED
  BY <1>1, <1>2, <1>3, <1>4, <1>5 DEF ObjectsInv

LEMMA StayStep ==
  ASSUME ObjectsInv, UNCHANGED objectVars
  PROVE  ObjectsInv' /\ Lasting(heap, heap')
<1>1. script' = script /\ var' = var /\ heap' = heap
  BY DEF objectVars
<1>2. Vars' = Vars /\ Names' = Names
  BY <1>1 DEF Vars, Names
<1> QED
  BY <1>1, <1>2 DEF ObjectsInv, Lasting

Preserved == ObjectsInv' /\ Lasting(heap, heap')

(* What ObjectsInv says of the heap and of an object the script holds.           *)
LEMMA Heaped ==
  ASSUME ObjectsInv
  PROVE  /\ Heap(heap, HeldBy(Vars, var), Names)
         /\ HeldBy(Vars, var) \in [Cells -> Nat]
         /\ Typed(heap)
         /\ \A c \in Cells : IsCell(heap[c]) /\ Content(heap, c, Names)
         /\ Names \subseteq Signatures \cup Kems
         /\ \A c \in Cells : Ref(c) \in VarValues
BY Scripting, HeldByNat DEF ObjectsInv, Heap, Typed, VarValues

(* The parameter set an algorithm object's methods use.                    *)
LEMMA Speaking ==
  ASSUME ObjectsInv, NEW c \in Cells, heap[c].kind = "object",
         heap[c].class \in AlgorithmClasses
  PROVE  /\ Native(c) \in Names
         /\ heap[c].class = AlgorithmClassOf(Native(c))
         /\ SizesOf(c) = CoreSizes(Native(c))
         /\ Tells(heap, c, Native(c))
<1>1. TellsOne(heap, c, Names)
  BY Heaped DEF Content
<1>2. PICK name \in Names :
        heap[c].class = AlgorithmClassOf(name) /\ Tells(heap, c, name)
  BY <1>1 DEF TellsOne, AlgorithmClassOf
<1>3. PICK n \in Cells : heap[c].prop["nativeName"] = Ref(n)
                         /\ heap[n].text = Text("nativeName", name, 0)
  BY <1>2 DEF Tells
<1>4. Native(c) = name
  BY <1>3, Values DEF Native, Accessor, ReadString, Text
<1>5. SizesOf(c) = CoreSizes(name)
  BY <1>2, <1>4, Heaped, Tables DEF SizesOf, Agree
<1> QED
  BY <1>2, <1>4, <1>5

(* Texts of a core's lengths, and texts about no parameter set.            *)
LEMMA CoreText ==
  ASSUME NEW names, NEW name, NEW what
  PROVE  Fits(Text(what, name, CoreSizes(name)[what]), names)
BY DEF Fits, Text

LEMMA OtherText ==
  ASSUME NEW names, names \subseteq Signatures \cup Kems, NEW what, NEW len,
         NEW of \in {"script", "KeyPair", "EncapsulatedSecret"}
  PROVE  Fits(Text(what, of, len), names)
BY DEF Fits, Text, Signatures, Kems

LEMMA FactoryStep ==
  ASSUME ObjectsInv, NEW x \in Vars, Factory(x)
  PROVE  Preserved
<1>1. PICK name \in Names :
        Assign(x,
               IF name \in Signatures
               THEN CreateAlgorithm(heap, "SignatureAlgorithm", "SignatureSizes", name)
               ELSE CreateAlgorithm(heap, "KeyEncapsulationAlgorithm", "KemSizes", name),
               Ref(Fresh(heap)))
  BY DEF Factory
<1> DEFINE h2 == CreateAlgorithm(heap, AlgorithmClassOf(name), SizesClassOf(name), name)
<1>2. Assign(x, h2, Ref(Fresh(heap)))
  BY <1>1 DEF AlgorithmClassOf, SizesClassOf
<1>3. Cardinality(Unused(heap)) >= 4
  BY DEF Factory, Room
<1> HIDE DEF h2
<1>4. /\ Heap(h2, More(HeldBy(Vars, var), Ref(Fresh(heap))), Names)
      /\ Grown(heap, h2)
      /\ Fresh(heap) \in Cells
  BY <1>3, Heaped, MakingAlgorithm DEF h2
<1> QED
  BY <1>2, <1>4, Heaped, AssignStep DEF Preserved

(* An object of two strings is what the other makers make.                 *)
LEMMA PairStep ==
  ASSUME ObjectsInv, NEW x \in Vars,
         NEW class \in {"KeyPair", "EncapsulatedSecret"},
         NEW p, NEW q, Properties[class] = {p, q}, p # q,
         NEW t, NEW u, Fits(t, Names), Fits(u, Names),
         Cardinality(Unused(heap)) >= 3,
         Assign(x, UpdateString(UpdateString(Make(heap, Object(class)), Fresh(heap), p, t),
                                Fresh(heap), q, u),
                Ref(Fresh(heap)))
  PROVE  Preserved
<1> DEFINE h2 == UpdateString(UpdateString(Make(heap, Object(class)), Fresh(heap), p, t),
                              Fresh(heap), q, u)
<1>1. Assign(x, h2, Ref(Fresh(heap)))
  OBVIOUS
<1> HIDE DEF h2
<1>2. /\ Heap(h2, More(HeldBy(Vars, var), Ref(Fresh(heap))), Names)
      /\ Grown(heap, h2)
      /\ Fresh(heap) \in Cells
  BY Heaped, MakingPair DEF h2
<1> QED
  BY <1>1, <1>2, Heaped, AssignStep DEF Preserved

LEMMA StringStep ==
  ASSUME ObjectsInv, NEW x \in Vars, NEW what, NEW of, NEW len,
         Fits(Text(what, of, len), Names), Cardinality(Unused(heap)) >= 1,
         ReturnBytes(x, what, of, len)
  PROVE  Preserved
<1> DEFINE h2 == Make(heap, String(Text(what, of, len)))
<1>1. Assign(x, h2, Ref(Fresh(heap)))
  BY DEF ReturnBytes
<1> HIDE DEF h2
<1>2. /\ Heap(h2, More(HeldBy(Vars, var), Ref(Fresh(heap))), Names)
      /\ Grown(heap, h2)
      /\ Fresh(heap) \in Cells
  BY Heaped, MakingString DEF h2
<1> QED
  BY <1>1, <1>2, Heaped, AssignStep DEF Preserved

(* "$y = <a value that is there>"                                          *)
LEMMA ShareStep ==
  ASSUME ObjectsInv, NEW y \in Vars, NEW v \in VarValues,
         \A c \in Cells : v = Ref(c) => heap[c].kind # "free",
         Assign(y, AddRef(heap, v), v)
  PROVE  Preserved
<1> DEFINE h2 == AddRef(heap, v)
<1>1. Assign(y, h2, v)
  OBVIOUS
<1> HIDE DEF h2
<1>2. Heap(h2, More(HeldBy(Vars, var), v), Names) /\ Grown(heap, h2)
  BY Heaped, Sharing DEF h2
<1> QED
  BY <1>1, <1>2, AssignStep DEF Preserved

LEMMA PairProperties ==
  /\ Properties["KeyPair"] = {"publicKey", "secretKey"}
  /\ Properties["EncapsulatedSecret"] = {"ciphertext", "sharedSecret"}
  /\ "publicKey" # "secretKey" /\ "ciphertext" # "sharedSecret"
BY DEF Properties

LEMMA Constructed ==
  ASSUME NEW h, NEW o
  PROVE  /\ h[o].class \in SizesClasses =>
              Construct(h, o) = UpdateLongs(h, o, [p \in Properties[h[o].class] |-> 0])
         /\ h[o].class = "KeyPair" =>
              Construct(h, o)
                = UpdateString(UpdateString(h, o, "publicKey", Text("publicKey", "script", 0)),
                               o, "secretKey", Text("secretKey", "script", 0))
         /\ h[o].class = "EncapsulatedSecret" =>
              Construct(h, o)
                = UpdateString(UpdateString(h, o, "ciphertext", Text("ciphertext", "script", 0)),
                               o, "sharedSecret", Text("sharedSecret", "script", 0))
<1>1. "KeyPair" \notin SizesClasses /\ "EncapsulatedSecret" \notin SizesClasses
      /\ "KeyPair" # "EncapsulatedSecret"
  BY DEF SizesClasses
<1> QED
  BY <1>1 DEF Construct

LEMMA NewStep ==
  ASSUME ObjectsInv, NEW x \in Vars, New(x)
  PROVE  Preserved
<1>1. PICK class \in Classes \ PrivateConstructors :
        Assign(x, Construct(Make(heap, Object(class)), Fresh(heap)), Ref(Fresh(heap)))
  BY DEF New
<1>2. Cardinality(Unused(heap)) >= 3
  BY DEF New, Room
<1>3. class \in SizesClasses \cup {"KeyPair", "EncapsulatedSecret"} /\ class \in Classes
  BY DEF Classes, Properties, PrivateConstructors, AlgorithmClasses, SizesClasses
<1> DEFINE o == Fresh(heap)
           m == Make(heap, Object(class))
<1>4. m[o].class = class
  <2>1. o \in Cells /\ heap[o].kind = "free"
    BY <1>2, Taking
  <2>2. Made(heap, m, o, Object(class))
    BY <2>1, <1>3, Heaped, Making, NewObject
  <2> QED
    BY <2>2, <1>3, NewObject DEF Made
<1> HIDE DEF o, m
<1>5. CASE class \in SizesClasses
  <2> DEFINE h2 == Construct(m, o)
             zeros == [p \in Properties[class] |-> 0]
  <2>1. h2 = UpdateLongs(m, o, zeros)
    BY <1>4, <1>5, Constructed
  <2>2. Assign(x, h2, Ref(Fresh(heap)))
    BY <1>1 DEF m, o
  <2> HIDE DEF h2, zeros
  <2>3. /\ Heap(h2, More(HeldBy(Vars, var), Ref(Fresh(heap))), Names)
        /\ Grown(heap, h2)
        /\ Fresh(heap) \in Cells
    <3>1. Cardinality(Unused(heap)) >= 1
      <4>1. Cardinality(Unused(heap)) \in Nat
        BY CellsFinite DEF Unused
      <4> QED
        BY <4>1, <1>2
    <3> QED
      BY <3>1, <2>1, <1>5, Heaped, MakingSizes DEF m, o
  <2> QED
    BY <2>2, <2>3, Heaped, AssignStep DEF Preserved
<1>6. CASE class = "KeyPair"
  <2>1. Assign(x, UpdateString(UpdateString(m, o, "publicKey", Text("publicKey", "script", 0)),
                               o, "secretKey", Text("secretKey", "script", 0)), Ref(o))
    BY <1>1, <1>4, <1>6, Constructed DEF m, o
  <2>2. Fits(Text("publicKey", "script", 0), Names) /\ Fits(Text("secretKey", "script", 0), Names)
    BY Heaped, OtherText
  <2> QED
    BY <2>1, <2>2, <1>2, <1>6, PairProperties, PairStep DEF m, o
<1>7. CASE class = "EncapsulatedSecret"
  <2>1. Assign(x, UpdateString(UpdateString(m, o, "ciphertext", Text("ciphertext", "script", 0)),
                               o, "sharedSecret", Text("sharedSecret", "script", 0)), Ref(o))
    BY <1>1, <1>4, <1>7, Constructed DEF m, o
  <2>2. Fits(Text("ciphertext", "script", 0), Names)
        /\ Fits(Text("sharedSecret", "script", 0), Names)
    BY Heaped, OtherText
  <2> QED
    BY <2>1, <2>2, <1>2, <1>7, PairProperties, PairStep DEF m, o
<1> QED
  BY <1>3, <1>5, <1>6, <1>7

(* Every property of a constructed object refuses.                         *)
LEMMA Initialised ==
  ASSUME ObjectsInv, NEW c \in Cells, heap[c].kind = "object",
         NEW p \in Properties[heap[c].class]
  PROVE  heap[c].prop[p] # Unset /\ <<heap[c].class, p>> \notin Writable
<1>1. Filled(heap, c, p)
  BY Heaped DEF Content, Shaped
<1> QED
  BY <1>1, Values DEF Filled, Writable

LEMMA ReconstructStep ==
  ASSUME ObjectsInv, NEW x \in Vars, Reconstruct(x)
  PROVE  Preserved
<1>1. PICK c \in Cells :
        Holds(x, c, Classes \ PrivateConstructors) /\ heap' = Construct(heap, c)
  BY DEF Reconstruct
<1>2. heap[c].kind = "object" /\ heap[c].class \in Classes \ PrivateConstructors
      /\ IsCell(heap[c]) /\ DOMAIN heap[c].prop = Properties[heap[c].class]
      /\ heap = [d \in Cells |-> heap[d]]
  BY <1>1, Heaped, CellCases DEF Holds, IsObject, Typed
<1>3. Fresh(heap) \in Cells /\ heap[Fresh(heap)].kind = "free"
  <2>1. Cardinality(Unused(heap)) >= 1
    BY DEF Reconstruct, Room
  <2> QED
    BY <2>1, Taking
<1>4. ASSUME NEW p \in Properties[heap[c].class], NEW t
      PROVE  UpdateString(heap, c, p, t) = heap
  <2>1. heap[c].prop[p] # Unset /\ Typed(heap)
    BY <1>2, Heaped, Initialised
  <2> QED
    BY <1>2, <1>3, <2>1, Refusing
<1>5. heap[c].class \in SizesClasses => Construct(heap, c) = heap
  <2> DEFINE sizes == [p \in Properties[heap[c].class] |-> 0]
             f == heap[c].prop
  <2>1. \A p \in DOMAIN f : ~ (f[p] = Unset \/ <<heap[c].class, p>> \in Writable)
    BY <1>2, Initialised
  <2>2. [p \in DOMAIN f |-> IF f[p] = Unset \/ <<heap[c].class, p>> \in Writable
                            THEN Long(sizes[p]) ELSE f[p]] = [p \in DOMAIN f |-> f[p]]
    BY <2>1
  <2>3. [p \in DOMAIN f |-> f[p]] = f
    BY <1>2 DEF IsCell
  <2>4. UpdateLongs(heap, c, sizes) = [heap EXCEPT ![c].prop = f]
    BY <2>2, <2>3 DEF UpdateLongs
  <2>5. [heap[c] EXCEPT !.prop = f] = heap[c]
    BY <1>2 DEF IsCell
  <2>6. [heap EXCEPT ![c].prop = f] = heap
    BY <1>2, <2>5
  <2> QED
    BY <2>4, <2>6, Constructed
<1>6. ASSUME heap[c].class = "KeyPair" PROVE Construct(heap, c) = heap
  <2>1. "publicKey" \in Properties[heap[c].class] /\ "secretKey" \in Properties[heap[c].class]
    BY <1>6, PairProperties
  <2>2. \A t : /\ UpdateString(heap, c, "publicKey", t) = heap
               /\ UpdateString(heap, c, "secretKey", t) = heap
    BY <1>4, <2>1
  <2>3. Construct(heap, c)
          = UpdateString(UpdateString(heap, c, "publicKey", Text("publicKey", "script", 0)),
                         c, "secretKey", Text("secretKey", "script", 0))
    BY <1>6, Constructed
  <2> QED
    BY <2>2, <2>3
<1>7. ASSUME heap[c].class = "EncapsulatedSecret" PROVE Construct(heap, c) = heap
  <2>1. "ciphertext" \in Properties[heap[c].class] /\ "sharedSecret" \in Properties[heap[c].class]
    BY <1>7, PairProperties
  <2>2. \A t : /\ UpdateString(heap, c, "ciphertext", t) = heap
               /\ UpdateString(heap, c, "sharedSecret", t) = heap
    BY <1>4, <2>1
  <2>3. Construct(heap, c)
          = UpdateString(UpdateString(heap, c, "ciphertext", Text("ciphertext", "script", 0)),
                         c, "sharedSecret", Text("sharedSecret", "script", 0))
    BY <1>7, Constructed
  <2> QED
    BY <2>2, <2>3
<1>8. heap' = heap
  BY <1>1, <1>2, <1>5, <1>6, <1>7
     DEF Classes, Properties, PrivateConstructors, AlgorithmClasses, SizesClasses
<1> QED
  BY <1>8, StayStep DEF Reconstruct, objectVars, Preserved

LEMMA GenerateKeyPairStep ==
  ASSUME ObjectsInv, NEW x \in Vars, NEW y \in Vars, GenerateKeyPair(x, y)
  PROVE  Preserved
<1>1. PICK c \in Cells :
        /\ Holds(x, c, AlgorithmClasses)
        /\ \/ Assign(y, CreateKeyPair(heap, Native(c), SizesOf(c)), Ref(Fresh(heap)))
           \/ Throws
  BY DEF GenerateKeyPair
<1>2. CASE Throws
  BY <1>2, StayStep DEF Throws, Preserved
<1>3. CASE Assign(y, CreateKeyPair(heap, Native(c), SizesOf(c)), Ref(Fresh(heap)))
  <2> DEFINE t == Text("publicKey", Native(c), SizesOf(c).publicKey)
             u == Text("secretKey", Native(c), SizesOf(c).secretKey)
  <2>1. Fits(t, Names) /\ Fits(u, Names)
    <3>1. SizesOf(c) = CoreSizes(Native(c))
      BY <1>1, Speaking DEF Holds, IsObject
    <3> QED
      BY <3>1, CoreText
  <2>2. Cardinality(Unused(heap)) >= 3
    BY DEF GenerateKeyPair, Room
  <2>3. Assign(y, UpdateString(UpdateString(Make(heap, Object("KeyPair")), Fresh(heap),
                                            "publicKey", t),
                               Fresh(heap), "secretKey", u), Ref(Fresh(heap)))
    BY <1>3 DEF CreateKeyPair
  <2> HIDE DEF t, u
  <2> QED
    BY <2>1, <2>2, <2>3, PairProperties, PairStep
<1> QED
  BY <1>1, <1>2, <1>3

LEMMA EncapsulateStep ==
  ASSUME ObjectsInv, NEW x \in Vars, NEW y \in Vars, Encapsulate(x, y)
  PROVE  Preserved
<1>1. PICK c \in Cells :
        /\ Holds(x, c, {"KeyEncapsulationAlgorithm"})
        /\ \/ Assign(y, CreateEncapsulatedSecret(heap, Native(c), SizesOf(c)),
                     Ref(Fresh(heap)))
           \/ Throws
  BY DEF Encapsulate
<1>2. CASE Throws
  BY <1>2, StayStep DEF Throws, Preserved
<1>3. CASE Assign(y, CreateEncapsulatedSecret(heap, Native(c), SizesOf(c)), Ref(Fresh(heap)))
  <2> DEFINE t == Text("ciphertext", Native(c), SizesOf(c).ciphertext)
             u == Text("sharedSecret", Native(c), SizesOf(c).sharedSecret)
  <2>1. Fits(t, Names) /\ Fits(u, Names)
    <3>1. SizesOf(c) = CoreSizes(Native(c))
      BY <1>1, Speaking DEF Holds, IsObject, AlgorithmClasses
    <3> QED
      BY <3>1, CoreText
  <2>2. Cardinality(Unused(heap)) >= 3
    BY DEF Encapsulate, Room
  <2>3. Assign(y, UpdateString(UpdateString(Make(heap, Object("EncapsulatedSecret")),
                                            Fresh(heap), "ciphertext", t),
                               Fresh(heap), "sharedSecret", u), Ref(Fresh(heap)))
    BY <1>3 DEF CreateEncapsulatedSecret
  <2> HIDE DEF t, u
  <2> QED
    BY <2>1, <2>2, <2>3, PairProperties, PairStep
<1> QED
  BY <1>1, <1>2, <1>3

LEMMA SignStep ==
  ASSUME ObjectsInv, NEW x \in Vars, NEW y \in Vars, Sign(x, y)
  PROVE  Preserved
<1>1. PICK c \in Cells :
        /\ Holds(x, c, {"SignatureAlgorithm"})
        /\ \/ ReturnBytes(y, "signature", Native(c), SizesOf(c).signature)
           \/ Throws
  BY DEF Sign
<1>2. CASE Throws
  BY <1>2, StayStep DEF Throws, Preserved
<1>3. CASE ReturnBytes(y, "signature", Native(c), SizesOf(c).signature)
  <2>1. Fits(Text("signature", Native(c), SizesOf(c).signature), Names)
    <3>1. SizesOf(c) = CoreSizes(Native(c))
      BY <1>1, Speaking DEF Holds, IsObject, AlgorithmClasses
    <3> QED
      BY <3>1, CoreText
  <2>2. Cardinality(Unused(heap)) >= 1
    BY DEF Sign, Room
  <2> QED
    BY <1>3, <2>1, <2>2, StringStep
<1> QED
  BY <1>1, <1>2, <1>3

LEMMA DecapsulateStep ==
  ASSUME ObjectsInv, NEW x \in Vars, NEW y \in Vars, Decapsulate(x, y)
  PROVE  Preserved
<1>1. PICK c \in Cells :
        /\ Holds(x, c, {"KeyEncapsulationAlgorithm"})
        /\ \/ ReturnBytes(y, "sharedSecret", Native(c), SizesOf(c).sharedSecret)
           \/ Throws
  BY DEF Decapsulate
<1>2. CASE Throws
  BY <1>2, StayStep DEF Throws, Preserved
<1>3. CASE ReturnBytes(y, "sharedSecret", Native(c), SizesOf(c).sharedSecret)
  <2>1. Fits(Text("sharedSecret", Native(c), SizesOf(c).sharedSecret), Names)
    <3>1. SizesOf(c) = CoreSizes(Native(c))
      BY <1>1, Speaking DEF Holds, IsObject, AlgorithmClasses
    <3> QED
      BY <3>1, CoreText
  <2>2. Cardinality(Unused(heap)) >= 1
    BY DEF Decapsulate, Room
  <2> QED
    BY <1>3, <2>1, <2>2, StringStep
<1> QED
  BY <1>1, <1>2, <1>3

LEMMA RedactedToStringStep ==
  ASSUME ObjectsInv, NEW x \in Vars, NEW y \in Vars, RedactedToString(x, y)
  PROVE  Preserved
<1>1. PICK of, len :
        of \in {"KeyPair", "EncapsulatedSecret"} /\ ReturnBytes(y, "shown", of, len)
  BY DEF RedactedToString
<1>2. Fits(Text("shown", of, len), Names)
  BY <1>1, Heaped, OtherText
<1>3. Cardinality(Unused(heap)) >= 1
  BY DEF RedactedToString, Room
<1> QED
  BY <1>1, <1>2, <1>3, StringStep

(* The cells of a property are there.                                      *)
LEMMA Held ==
  ASSUME ObjectsInv, NEW c \in Cells, heap[c].kind = "object",
         NEW p \in Properties[heap[c].class], heap[c].prop[p].type = "ref"
  PROVE  /\ heap[c].prop[p] \in VarValues
         /\ \A d \in Cells : heap[c].prop[p] = Ref(d) => heap[d].kind # "free"
<1>1. Filled(heap, c, p)
  BY Heaped DEF Content, Shaped
<1>2. heap[c].class \notin SizesClasses
  BY <1>1, Values DEF Filled
<1>3. PICK d \in Cells :
        /\ heap[c].prop[p] = Ref(d)
        /\ IF p = "sizes" THEN heap[d].kind = "object" /\ heap[d].class \in SizesClasses
           ELSE heap[d].kind = "string"
  BY <1>1, <1>2 DEF Filled
<1>4. heap[d].kind # "free"
  BY <1>3
<1> QED
  BY <1>3, <1>4, Values DEF VarValues

LEMMA IdToStringStep ==
  ASSUME ObjectsInv, NEW x \in Vars, NEW y \in Vars, IdToString(x, y)
  PROVE  Preserved
<1>1. PICK c \in Cells :
        /\ Holds(x, c, AlgorithmClasses)
        /\ Assign(y, AddRef(heap, heap[c].prop["id"]), heap[c].prop["id"])
  BY DEF IdToString
<1>2. heap[c].kind = "object" /\ heap[c].class \in AlgorithmClasses
  BY <1>1 DEF Holds, IsObject
<1>3. "id" \in Properties[heap[c].class]
  BY <1>2 DEF AlgorithmClasses, Properties
<1>4. heap[c].prop["id"].type = "ref"
  <2>1. Tells(heap, c, Native(c))
    BY <1>2, Speaking
  <2> QED
    BY <2>1, Values DEF Tells
<1> DEFINE v == heap[c].prop["id"]
<1>5. v \in VarValues /\ \A d \in Cells : v = Ref(d) => heap[d].kind # "free"
  BY <1>2, <1>3, <1>4, Held
<1>6. Assign(y, AddRef(heap, v), v)
  BY <1>1
<1> HIDE DEF v
<1> QED
  BY <1>5, <1>6, ShareStep

LEMMA ReadPropertyStep ==
  ASSUME ObjectsInv, NEW x \in Vars, NEW y \in Vars, ReadProperty(x, y)
  PROVE  Preserved
<1>1. PICK c \in Cells :
        /\ Holds(x, c, Classes)
        /\ \E p \in Properties[heap[c].class] :
             IF <<heap[c].class, p>> \in PrivateProperties THEN Throws
             ELSE /\ heap[c].prop[p].type = "ref"
                  /\ Assign(y, AddRef(heap, heap[c].prop[p]), heap[c].prop[p])
  BY DEF ReadProperty
<1>2. PICK p \in Properties[heap[c].class] :
        IF <<heap[c].class, p>> \in PrivateProperties THEN Throws
        ELSE /\ heap[c].prop[p].type = "ref"
             /\ Assign(y, AddRef(heap, heap[c].prop[p]), heap[c].prop[p])
  BY <1>1
<1>3. CASE Throws
  BY <1>3, StayStep DEF Throws, Preserved
<1>4. CASE /\ heap[c].prop[p].type = "ref"
           /\ Assign(y, AddRef(heap, heap[c].prop[p]), heap[c].prop[p])
  <2> DEFINE v == heap[c].prop[p]
  <2>1. heap[c].kind = "object"
    BY <1>1 DEF Holds, IsObject
  <2>2. v \in VarValues /\ \A d \in Cells : v = Ref(d) => heap[d].kind # "free"
    BY <1>4, <2>1, Held
  <2>3. Assign(y, AddRef(heap, v), v)
    BY <1>4
  <2> HIDE DEF v
  <2> QED
    BY <2>2, <2>3, ShareStep
<1> QED
  BY <1>2, <1>3, <1>4

LEMMA WritePropertyStep ==
  ASSUME ObjectsInv, NEW x \in Vars, NEW y \in Vars, WriteProperty(x, y)
  PROVE  Preserved
<1>1. PICK c \in Cells :
        /\ Holds(x, c, Classes)
        /\ \E p \in Properties[heap[c].class] :
             heap' = IF <<heap[c].class, p>> \in PrivateProperties THEN heap
                     ELSE UpdateProperty(heap, c, p, var[y])
  BY DEF WriteProperty
<1>2. PICK p \in Properties[heap[c].class] :
        heap' = IF <<heap[c].class, p>> \in PrivateProperties THEN heap
                ELSE UpdateProperty(heap, c, p, var[y])
  BY <1>1
<1>3. heap[c].prop[p] # Unset /\ <<heap[c].class, p>> \notin Writable
  BY <1>1, Initialised DEF Holds, IsObject
<1>4. heap' = heap
  BY <1>2, <1>3 DEF UpdateProperty
<1> QED
  BY <1>4, StayStep DEF WriteProperty, objectVars, Preserved

LEMMA CloneStep ==
  ASSUME ObjectsInv, NEW x \in Vars, NEW y \in Vars, Clone(x, y)
  PROVE  Preserved
<1>1. PICK c \in Cells :
        /\ Holds(x, c, Classes)
        /\ LET shared == [d \in Cells |-> IF d \in Children(heap[c])
                                          THEN [heap[d] EXCEPT !.rc = @ + 1]
                                          ELSE heap[d]]
           IN Assign(y, Make(shared, [heap[c] EXCEPT !.rc = 1]), Ref(Fresh(heap)))
  BY DEF Clone
<1> DEFINE shared == [d \in Cells |-> IF d \in Children(heap[c])
                                      THEN [heap[d] EXCEPT !.rc = heap[d].rc + 1]
                                      ELSE heap[d]]
           f == Fresh(heap)
           h2 == [shared EXCEPT ![f] = [heap[c] EXCEPT !.rc = 1]]
<1>2. Assign(y, Make(shared, [heap[c] EXCEPT !.rc = 1]), Ref(f))
  BY <1>1
<1>3. heap[c].kind = "object"
  BY <1>1 DEF Holds, IsObject
<1>4. f \in Cells /\ heap[f].kind = "free"
  <2>1. Cardinality(Unused(heap)) >= 1
    BY DEF Clone, Room
  <2> QED
    BY <2>1, Taking
(* Sharing the cells frees and takes none, so the allocator is asked alike.*)
<1>5. Unused(shared) = Unused(heap)
  <2>1. ASSUME NEW d \in Children(heap[c])
        PROVE  [heap[d] EXCEPT !.rc = heap[d].rc + 1].kind = heap[d].kind
    <3> DEFINE n == heap[d].rc + 1
    <3>1. d \in Cells /\ heap[d].kind # "free" /\ IsCell(heap[d])
      BY Heaped, Leaves
    <3>2. n \in Nat \ {0}
      BY <3>1, CellCases
    <3> HIDE DEF n
    <3>3. Same(heap[d], [heap[d] EXCEPT !.rc = n])
      BY <3>1, <3>2, Recounted
    <3> QED
      BY <3>3 DEF Same, n
  <2>2. \A d \in Cells : shared[d].kind = heap[d].kind
    BY <2>1
  <2> HIDE DEF shared
  <2> QED
    BY <2>2 DEF Unused, Used
<1>6. Fresh(shared) = f
  BY <1>5 DEF Fresh
<1>7. Assign(y, h2, Ref(f))
  BY <1>2, <1>6 DEF Make
<1> HIDE DEF f, shared
<1>8. Heap(h2, More(HeldBy(Vars, var), Ref(f)), Names) /\ Grown(heap, h2)
  <2>1. shared = [d \in Cells |-> IF d \in Children(heap[c])
                                  THEN [heap[d] EXCEPT !.rc = heap[d].rc + 1]
                                  ELSE heap[d]]
    BY DEF shared
  <2> HIDE DEF h2
  <2>2. h2 = [shared EXCEPT ![f] = [heap[c] EXCEPT !.rc = 1]]
    BY DEF h2
  <2> QED
    BY <1>3, <1>4, <2>1, <2>2, Heaped, Cloning
<1> HIDE DEF h2
<1> QED
  BY <1>4, <1>7, <1>8, Heaped, AssignStep DEF Preserved

LEMMA CopyStep ==
  ASSUME ObjectsInv, NEW x \in Vars, NEW y \in Vars, Copy(x, y)
  PROVE  Preserved
<1> DEFINE v == var[x]
<1>1. v \in VarValues
  BY DEF ObjectsInv
<1>2. ASSUME NEW c \in Cells, v = Ref(c)
      PROVE  heap[c].kind # "free"
  <2>1. Counted(heap, HeldBy(Vars, var), c)
    BY DEF ObjectsInv, Heap
  <2>2. HeldBy(Vars, var)[c] # 0
    <3> DEFINE S == {z \in Vars : var[z] = Ref(c)}
    <3>1. x \in S
      BY <1>2
    <3>2. IsFiniteSet(S)
      <4>1. S \in SUBSET Vars /\ IsFiniteSet(Vars)
        BY Scripting DEF ObjectsInv
      <4> QED
        BY <4>1, FS_Subset
    <3>3. HeldBy(Vars, var)[c] = Cardinality(S)
      BY DEF HeldBy
    <3> HIDE DEF S
    <3> QED
      BY <3>1, <3>2, <3>3, FS_EmptySet
  <2> QED
    BY <2>1, <2>2 DEF Counted
<1>3. Assign(y, AddRef(heap, v), v)
  BY DEF Copy
<1> HIDE DEF v
<1> QED
  BY <1>1, <1>2, <1>3, ShareStep

LEMMA DropStep ==
  ASSUME ObjectsInv, NEW x \in Vars, Drop(x)
  PROVE  Preserved
<1>1. Assign(x, heap, Null) /\ Null \in VarValues
  BY DEF Drop, VarValues
<1>2. More(HeldBy(Vars, var), Null) = HeldBy(Vars, var)
  BY Values DEF More
<1>3. Heap(heap, More(HeldBy(Vars, var), Null), Names) /\ Grown(heap, heap)
  BY <1>2, Heaped, SameSteps DEF Grown
<1> QED
  BY <1>1, <1>3, AssignStep DEF Preserved

-----------------------------------------------------------------------------
LEMMA InitObjectsInv == InitObjects => ObjectsInv
<1> SUFFICES ASSUME InitObjects PROVE ObjectsInv
  OBVIOUS
<1>1. script \in Scripts /\ var = [x \in Vars |-> Null] /\ heap = [c \in Cells |-> Free]
  BY DEF InitObjects
<1>2. var \in [Vars -> VarValues]
  BY <1>1 DEF VarValues
<1>3. \A c \in Cells : IsCell(heap[c]) /\ heap[c].kind = "free" /\ Children(heap[c]) = {}
  BY <1>1, FreeCell
<1>4. \A c \in Cells : HeldBy(Vars, var)[c] = 0
  <2>1. \A c : Null # Ref(c)
    BY DEF Null, Ref
  <2>2. \A c \in Cells : {x \in Vars : var[x] = Ref(c)} = {}
    BY <1>1, <2>1
  <2> QED
    BY <2>2, FS_EmptySet DEF HeldBy
<1>5. \A c \in Cells : Counted(heap, HeldBy(Vars, var), c)
  BY <1>3, <1>4 DEF Counted, Owners
<1>6. \A c \in Cells : Content(heap, c, Names)
  BY <1>3 DEF Content
<1>7. Typed(heap)
  BY <1>1, <1>3 DEF Typed
<1> QED
  BY <1>1, <1>2, <1>5, <1>6, <1>7 DEF ObjectsInv, Heap

LEMMA StepObjectsInv == ObjectsInv /\ [NextObjects]_objectVars => Preserved
<1> SUFFICES ASSUME ObjectsInv, [NextObjects]_objectVars PROVE Preserved
  OBVIOUS
<1>1. CASE \E x \in Vars : Factory(x) \/ New(x) \/ Reconstruct(x) \/ Drop(x)
  BY <1>1, FactoryStep, NewStep, ReconstructStep, DropStep
<1>2. CASE \E x \in Vars : Verify(x)
  BY <1>2, StayStep DEF Verify, Preserved
<1>3. CASE \E x, y \in Vars : GenerateKeyPair(x, y) \/ Sign(x, y)
                              \/ Encapsulate(x, y) \/ Decapsulate(x, y)
  BY <1>3, GenerateKeyPairStep, SignStep, EncapsulateStep, DecapsulateStep
<1>4. CASE \E x, y \in Vars : IdToString(x, y) \/ RedactedToString(x, y)
                              \/ ReadProperty(x, y) \/ WriteProperty(x, y)
  BY <1>4, IdToStringStep, RedactedToStringStep, ReadPropertyStep, WritePropertyStep
<1>5. CASE \E x, y \in Vars : Clone(x, y) \/ Copy(x, y)
  BY <1>5, CloneStep, CopyStep
<1>6. CASE UNCHANGED objectVars
  BY <1>6, StayStep DEF Preserved
<1> QED
  BY <1>1, <1>2, <1>3, <1>4, <1>5, <1>6 DEF NextObjects

(* The invariant holds of every script, heap and set of variables.         *)
THEOREM ObjectsInductive == SpecObjects => []ObjectsInv
<1>1. ObjectsInv /\ [NextObjects]_objectVars => ObjectsInv'
  BY StepObjectsInv DEF Preserved
<1> QED
  BY InitObjectsInv, <1>1, PTL DEF SpecObjects

(* A cell that lives keeps what it says: Immutable of module PhpObjects.   *)
THEOREM ObjectsAreImmutable == SpecObjects => Immutable
<1>1. ObjectsInv /\ [NextObjects]_objectVars =>
        [\A c \in Used(heap) \cap Used(heap') :
           /\ heap'[c].kind = heap[c].kind
           /\ IF IsObject(heap, c)
              THEN heap'[c].class = heap[c].class /\ heap'[c].prop = heap[c].prop
              ELSE heap'[c].text = heap[c].text]_objectVars
  BY StepObjectsInv DEF Preserved, Lasting
<1> QED
  BY <1>1, ObjectsInductive, PTL DEF SpecObjects, Immutable

(* What an algorithm object shows and what its methods returned fits its   *)
(* core: Announced of module PhpObjects.                                   *)
THEOREM ObjectsTellTheTruth == SpecObjects => []Announced
<1>1. ObjectsInv => Announced
  <2> SUFFICES ASSUME ObjectsInv, NEW c \in Used(heap)
               PROVE  IF IsObject(heap, c) THEN
                        heap[c].class \in AlgorithmClasses =>
                          LET name == ReadString(c, "nativeName").of
                              sizes == heap[heap[c].prop["sizes"].cell]
                          IN /\ ReadString(c, "id").of = Algorithm(name).id
                             /\ sizes.prop = [p \in DOMAIN CoreSizes(name) |->
                                                Long(CoreSizes(name)[p])]
                      ELSE LET text == heap[c].text
                           IN text.of \in Names => text.what = "nativeName"
                                \/ text.len = CoreSizes(text.of)[text.what]
    BY DEF Announced
  <2>1. c \in Cells /\ IsCell(heap[c]) /\ Content(heap, c, Names) /\ heap[c].kind # "free"
    BY Heaped DEF Used
  <2>2. CASE ~ IsObject(heap, c)
    <3>1. heap[c].kind = "string"
      BY <2>1, <2>2, CellCases DEF IsObject
    <3> QED
      BY <2>1, <2>2, <3>1 DEF Content, Fits
  <2>3. CASE IsObject(heap, c) /\ heap[c].class \notin AlgorithmClasses
    BY <2>3
  <2>4. CASE IsObject(heap, c) /\ heap[c].class \in AlgorithmClasses
    <3> DEFINE name == Native(c)
    <3>1. Tells(heap, c, name)
      BY <2>1, <2>4, Speaking DEF IsObject
    <3>2. ReadString(c, "nativeName").of = name
      BY DEF Native, Accessor
    <3> HIDE DEF name
    <3>3. PICK i \in Cells, s \in Cells :
            /\ heap[c].prop["id"] = Ref(i)
            /\ heap[c].prop["sizes"] = Ref(s)
            /\ heap[i].text = Text("id", Algorithm(name).id, 0)
            /\ heap[s].prop = SizesAre(name)
      BY <3>1 DEF Tells
    <3>4. ReadString(c, "id").of = Algorithm(name).id
      BY <3>3, Values DEF ReadString, Text
    <3>5. heap[heap[c].prop["sizes"].cell].prop = SizesAre(name)
      BY <3>3, Values
    <3> QED
      BY <2>4, <3>2, <3>4, <3>5 DEF SizesAre
  <2> QED
    BY <2>2, <2>3, <2>4
<1> QED
  BY <1>1, ObjectsInductive, PTL

(* Properties that hold a cell and objects that own it are as many.        *)
LEMMA OneEach ==
  ASSUME ObjectsInv, NEW c \in Cells
  PROVE  Cardinality(HoldingProperties(c)) = Cardinality(Owners(heap, c))
<1> DEFINE S == Owners(heap, c)
           T == HoldingProperties(c)
           prop(o) == CHOOSE p : p \in DOMAIN heap[o].prop /\ heap[o].prop[p] = Ref(c)
           f == [o \in S |-> <<o, prop(o)>>]
<1>1. \A o : o \in S <=> /\ o \in Cells /\ heap[o].kind = "object"
                         /\ \E p \in DOMAIN heap[o].prop : heap[o].prop[p] = Ref(c)
  BY DEF Owners, Children
<1>2. \A t : t \in T <=> \E o \in Cells : /\ heap[o].kind = "object"
                                          /\ \E p \in DOMAIN heap[o].prop :
                                               heap[o].prop[p] = Ref(c) /\ t = <<o, p>>
  BY DEF HoldingProperties, IsObject
<1>3. ASSUME NEW o \in S, NEW p \in DOMAIN heap[o].prop, NEW q \in DOMAIN heap[o].prop,
             heap[o].prop[p] = Ref(c), heap[o].prop[q] = Ref(c)
      PROVE  p = q
  <2>1. o \in Cells /\ heap[o].kind = "object" /\ IsCell(heap[o])
    BY <1>1, Heaped
  <2>2. DOMAIN heap[o].prop = Properties[heap[o].class]
    BY <2>1, CellCases
  <2>3. Shaped(heap, o)
    BY <2>1, Heaped DEF Content
  <2>4. heap[o].class \notin SizesClasses
    <3>1. Filled(heap, o, p)
      BY <2>2, <2>3 DEF Shaped
    <3> QED
      BY <1>3, <3>1, Values DEF Filled, Ref
  <2> QED
    BY <1>3, <2>2, <2>3, <2>4 DEF Shaped
<1>4. \A o \in S : prop(o) \in DOMAIN heap[o].prop /\ heap[o].prop[prop(o)] = Ref(c)
  BY <1>1
<1> HIDE DEF S, T, prop
<1>5. f \in [S -> T]
  BY <1>1, <1>2, <1>4
<1>6. \A a, b \in S : f[a] = f[b] => a = b
  OBVIOUS
<1>7. \A t \in T : \E o \in S : f[o] = t
  <2> SUFFICES ASSUME NEW t \in T PROVE \E o \in S : f[o] = t
    OBVIOUS
  <2>1. PICK o \in Cells : /\ heap[o].kind = "object"
                           /\ \E p \in DOMAIN heap[o].prop :
                                heap[o].prop[p] = Ref(c) /\ t = <<o, p>>
    BY <1>2
  <2>2. PICK p \in DOMAIN heap[o].prop : heap[o].prop[p] = Ref(c) /\ t = <<o, p>>
    BY <2>1
  <2>3. o \in S
    BY <1>1, <2>1, <2>2
  <2>4. prop(o) = p
    BY <1>3, <1>4, <2>2, <2>3
  <2> QED
    BY <2>2, <2>3, <2>4
<1> HIDE DEF f
<1>8. f \in Bijection(S, T)
  BY <1>5, <1>6, <1>7 DEF Bijection, Injection, Surjection, IsInjective
<1>9. ExistsBijection(S, T)
  BY <1>8 DEF ExistsBijection
<1>10. IsFiniteSet(S)
  BY OwnersFinite DEF S
<1> QED
  BY <1>9, <1>10, FS_Bijection DEF S, T

(* Nothing is leaked and nothing is held after its end: RefcountsExact of  *)
(* module PhpObjects.                                                      *)
THEOREM ObjectsAreCounted == SpecObjects => []RefcountsExact
<1>1. ObjectsInv => RefcountsExact
  <2> SUFFICES ASSUME ObjectsInv, NEW c \in Cells
               PROVE  Cardinality(HoldingVars(c)) + Cardinality(HoldingProperties(c))
                        = IF heap[c].kind = "free" THEN 0 ELSE heap[c].rc
    BY DEF RefcountsExact
  <2>1. Cardinality(HoldingVars(c)) = HeldBy(Vars, var)[c]
    BY DEF HoldingVars, HeldBy
  <2>2. Cardinality(HoldingProperties(c)) = Cardinality(Owners(heap, c))
    BY OneEach
  <2>3. Counted(heap, HeldBy(Vars, var), c)
    BY DEF ObjectsInv, Heap
  <2>4. CASE heap[c].kind = "free"
    BY <2>1, <2>2, <2>3, <2>4, FS_EmptySet DEF Counted
  <2>5. CASE heap[c].kind # "free"
    BY <2>1, <2>2, <2>3, <2>5 DEF Counted
  <2> QED
    BY <2>4, <2>5
<1> QED
  BY <1>1, ObjectsInductive, PTL
==============================================================================
