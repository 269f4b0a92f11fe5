----------------------------- MODULE TestEntropy -----------------------------
(***************************************************************************)
(* The injectable entropy of the KPQC_TESTING build: the static callback   *)
(* of each scheme (native/randombytes_test.c), the generator of each       *)
(* thread (ext/kpqc.cpp:126, tests/kat_drbg.cpp), the two functions a test *)
(* calls (ext/kpqc.cpp:390-423) and the draws the cores make meanwhile.    *)
(* Threads run at once, as in a thread-safe build of PHP; all they share   *)
(* is the callbacks, so a step reads or writes at most one of them.        *)
(*                                                                         *)
(* AES is symbolic: a block is its key and its counter, and a key is the   *)
(* seed followed by the counters at which it was replaced.                 *)
(***************************************************************************)
EXTENDS Algorithms, Sequences

CONSTANTS
  Threads,        \* threads of the process
  Schemes,        \* parameter sets in use
  Seeds,          \* seeds of 48 bytes
  ContextLengths, \* values of the byte that encodes the context's length
  MaxAsked        \* bound on the draws since a seeding

ASSUME TestEntropyAssumption ==
  /\ Schemes \subseteq Signatures \cup Kems
  /\ ContextLengths \subseteq 0 .. 255
  /\ MaxAsked \in Nat

VARIABLES
  callback, \* each scheme's: NULL or provide_test_entropy
  drbg,     \* each thread's active_drbg
  op,       \* the operation each thread is in: what it still draws
  seeded,   \* history: <<the seed each thread's draws should come from>>
  named,    \* history: the schemes each thread named in test_seed
  asked,    \* history: sizes of the draws served since that seeding
  got,      \* history: what they returned
  context   \* history: the last context shown, and before which draw

vars == <<callback, drbg, op, seeded, named, asked, got, context>>

Callbacks == {"NULL", "provide_test_entropy"}
NoSeed == <<>>
NoGenerator == [key |-> <<>>, counter |-> 0]
NoContext == [at |-> -1, out |-> <<>>]
Idle == [scheme |-> "none", size |-> 0, left |-> 0]

-----------------------------------------------------------------------------
(* CtrDrbg.                                                                *)

Blocks(length) == (length + 15) \div 16

(* Faulty variant of the counter: the increments are made on a copy.       *)
StandStill(counter, blocks) == counter

(* increment_counter, once for each block.                                 *)
Advance(counter, blocks) == counter + blocks

(* update(nullptr): the next three blocks become the key and the counter.  *)
Update(d) == [key |-> Append(d.key, d.counter), counter |-> 0]

(* The constructor: update(seed) of the zero state.                        *)
CtrDrbg(seed) == [key |-> <<seed>>, counter |-> 0]

(* generate(length): bytes of the blocks from counter first on.            *)
Output(key, first, length) == [key |-> key, first |-> first, length |-> length]
Generated(d, length) == Output(d.key, d.counter + 1, length)
AfterGenerate(d, length) ==
  Update([d EXCEPT !.counter = Advance(@, Blocks(length))])

-----------------------------------------------------------------------------
Init ==
  /\ callback = [s \in Schemes |-> "NULL"]
  /\ drbg = [t \in Threads |-> NoGenerator]
  /\ op = [t \in Threads |-> Idle]
  /\ seeded = [t \in Threads |-> NoSeed]
  /\ named = [t \in Threads |-> {}]
  /\ asked = [t \in Threads |-> <<>>]
  /\ got = [t \in Threads |-> <<>>]
  /\ context = [t \in Threads |-> NoContext]

Start(t, seed) ==
  /\ seeded' = [seeded EXCEPT ![t] = seed]
  /\ asked' = [asked EXCEPT ![t] = <<>>]
  /\ got' = [got EXCEPT ![t] = <<>>]
  /\ context' = [context EXCEPT ![t] = NoContext]

(* Faulty variant of the setters: naming a scheme resets the others.       *)
SelectOnly(s) ==
  [c \in Schemes |-> IF c = s THEN "provide_test_entropy" ELSE "NULL"]

(* select_test_entropy.                                                    *)
Select(s) == [callback EXCEPT ![s] = "provide_test_entropy"]

(* Faulty variant of the emplace: a refused seed leaves the old generator. *)
KeepOld(t) == drbg[t]

(* active_drbg.emplace with a seed of another size: the old generator is   *)
(* destroyed before the constructor throws.                                *)
Emptied(t) == NoGenerator

(* kpqc_native_test_seed(name, seed); a name of no scheme throws before    *)
(* anything changes.                                                       *)
TestSeed(t, s) ==
  /\ op[t] = Idle
  /\ callback' = Select(s)
  /\ named' = [named EXCEPT ![t] = @ \cup {s}]
  /\ \/ \E seed \in Seeds :
          /\ drbg' = [drbg EXCEPT ![t] = CtrDrbg(seed)]
          /\ Start(t, <<seed>>)
     \/ \* ValueError: not 48 bytes.
        /\ drbg' = [drbg EXCEPT ![t] = Emptied(t)]
        /\ Start(t, NoSeed)
     \/ \* bad_alloc while the seed is copied, before emplace.
        UNCHANGED <<drbg, seeded, asked, got, context>>
  /\ UNCHANGED op

(* Faulty variant of the preview: it draws from the generator itself.      *)
DrawnFrom(d, shown) == shown

(* preview is a copy: what it goes through is lost with it.                *)
AfterPreview(d, shown) == d

(* kpqc_native_test_signature_context(): 32 bytes, a byte, and as many as  *)
(* that byte says.                                                         *)
TestSignatureContext(t) ==
  /\ op[t] = Idle
  /\ drbg[t] # NoGenerator
  /\ LET sized == AfterGenerate(AfterGenerate(drbg[t], 32), 1)
     IN \E length \in ContextLengths :
          /\ context' = [context EXCEPT ![t] =
               [at |-> Len(asked[t]), out |-> Generated(sized, length)]]
          /\ drbg' = [drbg EXCEPT ![t] =
               AfterPreview(drbg[t], AfterGenerate(sized, length))]
  /\ UNCHANGED <<callback, op, seeded, named, asked, got>>

-----------------------------------------------------------------------------
(* Draws of the cores.  Those of an operation have one size; there are one *)
(* or two, or more where a key generation tries again.                     *)

Request(size, counts) == [size : {size}, left : counts]

Requests(s) ==
  CASE s \in DOMAIN AimerParams ->
         LET b == AimerParams[s].b
         IN Request(b, {1}) \cup Request(b, {n \in 1 .. MaxAsked : n % 2 = 0})
    [] s \in DOMAIN HaetaeParams -> Request(32, {1})
    [] s \in DOMAIN NtruplusPolybytes ->
         Request(32, 2 .. MaxAsked) \cup Request(NtruplusPolybytes[s] \div 12, {1})
    [] s \in DOMAIN SmaugtParams ->
         Request(32, {2}) \cup Request(IF s = "timer" THEN 16 ELSE 32, {1})

Begin(t, s) ==
  /\ op[t] = Idle
  /\ \E r \in Requests(s) :
       op' = [op EXCEPT ![t] = [scheme |-> s, size |-> r.size, left |-> r.left]]
  /\ UNCHANGED <<callback, drbg, seeded, named, asked, got, context>>

Drawing(t) == op[t].left > 0
Answers(t) == callback[op[t].scheme] # "NULL" /\ drbg[t] # NoGenerator

(* randombytes -> kpqc_fill_random -> provide_test_entropy -> generate.    *)
Draw(t) ==
  /\ Drawing(t)
  /\ Answers(t)
  /\ Len(asked[t]) < MaxAsked
  /\ LET size == op[t].size
     IN /\ got' = [got EXCEPT ![t] = Append(@, Generated(drbg[t], size))]
        /\ asked' = [asked EXCEPT ![t] = Append(@, size)]
        /\ drbg' = [drbg EXCEPT ![t] = AfterGenerate(@, size)]
  /\ IF op[t].left = 1 THEN op' = [op EXCEPT ![t] = Idle]
     ELSE op' = [op EXCEPT ![t].left = @ - 1]
  /\ UNCHANGED <<callback, seeded, named, context>>

(* -1: no callback, no generator, or bad_alloc for the output, before any  *)
(* state changed.  The core gives the operation up.                        *)
DrawFails(t) ==
  /\ Drawing(t)
  /\ op' = [op EXCEPT ![t] = Idle]
  /\ UNCHANGED <<callback, drbg, seeded, named, asked, got, context>>

(* The thread ends, and another one of the process takes its place: its    *)
(* generator is gone, the callbacks it set are not.                        *)
ThreadEnds(t) ==
  /\ op[t] = Idle
  /\ drbg' = [drbg EXCEPT ![t] = NoGenerator]
  /\ named' = [named EXCEPT ![t] = {}]
  /\ Start(t, NoSeed)
  /\ UNCHANGED <<callback, op>>

Next ==
  \E t \in Threads :
    \/ \E s \in Schemes : TestSeed(t, s) \/ Begin(t, s)
    \/ TestSignatureContext(t)
    \/ Draw(t) \/ DrawFails(t)
    \/ ThreadEnds(t)

Spec == Init /\ [][Next]_vars

-----------------------------------------------------------------------------
KeyAfter(seed, sizes) == seed \o [k \in 1 .. Len(sizes) |-> Blocks(sizes[k])]

(* What a thread's operations drew since its last seeding, and the context *)
(* a test was shown, is what a fresh generator of that seed gives to these *)
(* requests alone: previews, failed draws, operations given up half-way    *)
(* and whatever other threads seed or draw leave no trace, and after a     *)
(* refused seed nothing is drawn from the old one (ext/kpqc.cpp:128-139,   *)
(* 400-403, 415-418).  The known answers depend on it.                     *)
OwnStream ==
  \A t \in Threads :
    /\ Len(got[t]) = Len(asked[t])
    /\ seeded[t] = NoSeed => got[t] = <<>> /\ context[t] = NoContext
    /\ \A k \in 1 .. Len(got[t]) :
         got[t][k] = Output(KeyAfter(seeded[t], SubSeq(asked[t], 1, k - 1)),
                            1, asked[t][k])
    /\ LET c == context[t]
       IN c # NoContext =>
            c.out = Output(KeyAfter(seeded[t],
                                    SubSeq(asked[t], 1, c.at) \o <<32, 1>>),
                           1, c.out.length)

(* A thread that named a scheme and whose last seed was accepted gets      *)
(* entropy for that scheme, whatever schemes it or other threads name      *)
(* since, whatever seeds of theirs are refused and whichever of them end:  *)
(* the setter's one callback serves every thread (randombytes_test.c:13-21,*)
(* ext/kpqc.cpp:141-150).                                                  *)
NamedSchemesAnswer ==
  \A t \in Threads, s \in Schemes :
    s \in named[t] /\ seeded[t] # NoSeed =>
      callback[s] = "provide_test_entropy" /\ drbg[t] # NoGenerator

(* Every draw ends with a new key, so no block of AES is handed out twice, *)
(* and the blocks handed out lie before the three that make that key       *)
(* (kat_drbg.cpp:165-207).                                                 *)
BlocksUsedOnce ==
  \A t \in Threads :
    \A k \in 1 .. Len(got[t]) :
      LET o == got[t][k]
          last == o.first + Blocks(o.length) - 1
      IN /\ Len(drbg[t].key) > Len(o.key)
         /\ last <= drbg[t].key[Len(o.key) + 1]
=============================================================================
