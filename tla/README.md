# KpqC in TLA+

A verification development for the KpqC PHP extension: TLA+ models of its
control logic, TLC runs on small instances, and TLAPS proofs for all instances.
Paths below are relative to `src/`; `vendor/` stands for
`native/kpqc/vendor/`.

## The system

KpqC gives PHP a synchronous API to four post-quantum schemes. A call crosses
five layers and never leaves its thread:

    PHP method            ext/kpqc.cpp          checks, copies, translates exceptions
      C++ facade          native/kpqc/src/      checks, allocates, clears, throws Error
        C shim            native/kpqc/native/   kem.c, signature.c: pure forwarding
          scheme core     vendor/...            AIMer, HAETAE, NTRU+, SMAUG-T
            randombytes   native/kpqc/native/randombytes.c   getrandom(2) loop

A C++ program may enter at the facade. Nothing is persisted and no state
survives a call in a release build; the hard part is what happens *inside* a
call when something fails part-way.

| Component | State | Operations | What is hard | What makes it correct |
| --- | --- | --- | --- | --- |
| PHP methods (`ext/kpqc.cpp`) | the call's copies; the exception in flight | generateKeyPair, sign, verify, encapsulate, decapsulate; `translate_exception` | checks duplicated with the facade, catch order, three-valued verify | one permitted answer per call, right class and code |
| Facade (`kpqc.cpp`) | zero-filled output `Bytes` | the same five, `clear`, `Error` | cores may have written output before failing | nothing but zeros survives a failure |
| Shim | none | forwarding | nothing | - |
| randombytes | pointer and length of one fill | `kpqc_fill_random` | short reads, `EINTR`, refusal | success means every byte written |
| AIMer core | heap blocks, seed trees, tapes, shares | keypair, sign, verify | allocation failures on every path, arrays reused per repetition, signer and verifier index trees differently | frees on all paths; verifier recovers all seeds but the hidden one |
| HAETAE core | nonce counter, sampler buffers, rANS buffers | keypair, sign, verify | rejection loops, 16-bit nonces, variable-length packing | no nonce reused, pack/unpack inverse |
| NTRU+ core | coins, f, g and inverses | keypair, enc, dec | retries, explicit rejection, masking | fresh coins per retry, zeros on rejection |
| SMAUG-T core | two seeds, mu | keypair, enc, dec | implicit rejection | status 0 and a replacement secret |
| Keccak (four copies) | position in the rate | incremental absorb, finalize, squeeze | block boundaries | equals the one-shot sponge |
| Test entropy (`KPQC_TESTING`) | static callback per scheme, `thread_local` DRBG | seed, preview, generate | global callback against per-thread generator, failed seeding | draws depend on this thread's seed alone |
| Registries (`aimer.cpp`, `haetae.cpp`, `ntruplus.cpp`, `smaugt.cpp`) | function-local statics, never written again | lookup by name | literal sizes in the registries, computed ones in the cores, three tables between | a name leads to the sizes its core writes |
| PHP objects (`kpqc.cpp`, `kpqc_arginfo.h`) | reference-counted objects and strings of the request | factories, constructors, methods, `__toString` | who releases what, shared `sizes`, public constructors | counts exact, contents fixed |
| Build, KAT tests | - | - | - | not modelled |

Interactions are calls and return values only: the facade passes output
pointers down and reads a status, a core asks randombytes for bytes. The
exceptions are the test callback (static, one per scheme library), the DRBG
(thread local), and the `sizes` object that all copies of an algorithm share.

`PROJECT.json` lists every component, also the unmodelled ones with the reason,
and every hazard with its line.

## Modules

| Module | Models | Correspondence |
| --- | --- | --- |
| `KpqcTypes` | requests and answers of the API | `Requests` is every (entry point, scheme family, operation, set of badly sized arguments, verdict of the cryptography) |
| `KpqcApi` | what a call promises (abstract) | `Invoke`, then `Respond` with a member of `Permitted(request)` |
| `Getrandom` | `kpqc_fill_random` (Linux branch) and `randombytes` | one action per kind of answer of the kernel; `length` and `output` are the code's locals |
| `KpqcCall` | the whole call | extends `Getrandom` and `AimerHeap`; `pc` is the layer in control, one action per check, copy, allocation, draw, verdict and error path |
| `AimerHeap` | the heap blocks of `vendor/AIMer/sign.c` and `aim3.c` | `block` says what each pointer holds; `Allocates` is a row of `malloc`s of which any may fail, `Freed` the `free`s in front of each `return` |
| `AimerParameters` | `AIMER_T`, `AIMER_LOGN`, `AIMER_N` of `vendor/AIMer/params` | shared by the next module and `AimerSignature` |
| `SeedTree` | `vendor/AIMer/tree.c` with the loops of `sign.c` around it | one action per loop iteration; arrays have the code's sizes and indices |
| `HaetaeNonces` | the rejection loops of `vendor/HAETAE/src/sign.c` and `polyfix.c` around their 16-bit counter | `counter` is the caller's variable, `ni` the callee's; one action per polynomial expanded, per rejection test and per acceptance; `samples`, `signs` and `drawn` are history |
| `KeccakState` | the data of the four `fips202.c`: blocks, padding, output bytes | a Keccak state is the sequence of blocks permuted into it |
| `Xof` | what an extendable-output hash promises (abstract) | `Absorb`, `Finalize`, `AbsorbOnce`, `Squeeze` of any length |
| `Sponge` | what the four `fips202.c` have in common | the state of a context, absorption and finalization; one action per loop iteration |
| `SpongeConsumed` | `fips202.c` of HAETAE and SMAUG-T | extends `Sponge`; `pos` counts what the block has consumed or yielded |
| `SpongeRemaining` | `fips202.c` of AIMer and of the three NTRU+ sets | extends `Sponge`; `pos` is `s_inc[25]`: absorbed bytes, then bytes still to be handed out; `Once` is the one-shot API |
| `Samplers` | parameters of HAETAE's rejection samplers and their windows | one row per sampler: `poly_uniform`, `poly_uniform_eta`, `sample_gauss_N` |
| `StreamSampler` | what a rejection sampler promises (abstract) | `Attempt` takes the next window of the stream, accepted or not |
| `RejectionSampler` | `vendor/HAETAE/src/sampler.c` and the loops of `poly.c` around it | `Attempting` (accepted or rejected) is one turn of the inner function's loop, `Return` its return, `Refill` the outer loop's body |
| `AimerSignature` | the five phases of signing and the verification of `vendor/AIMer/sign.c`, and AIM3 of `aim3.c` | one action per phase of a repetition; the arrays the code reuses between repetitions are one variable that keeps its contents |
| `RansCodec` | `vendor/HAETAE/include/rans_byte.h` and `encode_h`, `encode_hb_z1`, `decode_h`, `decode_hb_z1` of `encoding.c` | `x` is the 32-bit state; one action per value, per byte written or read, and per final test |
| `HaetaePacking` | `pack_sig` and `unpack_sig` of `vendor/HAETAE/src/packing.c` with the signing loop's retry | `sig` is the caller's buffer, `at` the advancing pointer; one action per part of the layout |
| `Algorithms` | the sixteen parameter sets in `ext/kpqc.cpp`, the four registries and the cores' parameter headers | one operator per table or macro; `CoreSizes` computes what the registries state |
| `PhpObjects` | the extension's classes, factories, constructors and methods over Zend's reference-counted cells | one action per statement a script can execute: calls of the extension, `clone`, property access, assignment, `unset` |
| `TestEntropy` | `randombytes_test.c`, `kat_drbg.cpp` and the test functions of `ext/kpqc.cpp` (`KPQC_TESTING`) | `callback` is the static of each scheme library, `drbg` the `thread_local` generator; threads interleave at draws |
| `NtruKem`, `SmaugKem` | what the two KEMs compute: `kem.c`, `poly.c`; `kem.c`, `indcpa.c`, `ciphertext.c` | one operator per function, in the order of its statements |
| `KemExchange` | key generation, encapsulation, a channel that may replace the ciphertext, decapsulation | one action per call of a core |
| `MC...` | - | instances for TLC |
| `KpqcCall_proof`, `HaetaeNonces_proof`, `Sponge_proof`, `RejectionSampler_proof`, `HaetaeEncoding_proof`, `Aimer_proof`, `KemExchange_proof`, `Extension_proof` (of `TestEntropy` and `PhpObjects`) | - | theorems and proofs |

Abstractions worth knowing:

* *Cryptography is its verdict.* A request carries `genuine`: the signature is
  valid, the ciphertext honest, the public key canonical. What a core computes
  from it is "output", "replacement" (implicit rejection) or "zero" (`KpqcCall`).
  `AimerSignature` and `KemExchange` compute the verdicts of three schemes over
  small structures; HAETAE's equation is not modelled.
* *Sizes are right or wrong.* `bad` is the set of arguments of the wrong size.
  A signature of the wrong size is an invalid signature, not a bad argument.
* *An output buffer is its content class*: none, zero, partial, output,
  replacement. HAETAE really packs a candidate into the caller's buffer
  ("partial") before it finds it too big.
* *Any allocation may fail*: the PHP copies, both output buffers, the message
  of an exception (which then becomes `std::bad_alloc`), AIMer's blocks. PHP's
  own allocator ends the request instead, by a jump over the C++ frames, and is
  outside the model.
* *A heap block is the state of its pointer* (`AimerHeap`): unset, NULL, live.
  Signing has five blocks, verification five, and `lin` is also the local of
  `run_phase_1` and of `aim3_nozeroinpsb`. Each `malloc` fails or succeeds by
  itself, so after a row of them any subset of the blocks is there. What the
  functions do with a block is classed: using one that is not there, losing a
  live one at a `return`, and freeing a pointer that was never set (or twice)
  make the pointer "broken" for good; freeing NULL does nothing.
* *Rejection verdicts are functions of the coins*: repeating a rejected draw is
  rejected again, so a retry must reach the entropy source (`coins`).
* *Seeds are symbols.* `<<r, i>>` is the seed of node `i` in repetition `r`.
  The hash yields a node's children from that node's seed only; from anything
  else, and from memory nobody wrote, one gets `Garbage`. This is the
  collision-freeness the scheme assumes.
* *A candidate's worth is a function of its first nonce* (`HaetaeNonces`): seed,
  key and message are fixed during a call. `verdict` discovers that function as
  the call goes, so a candidate met again after the counter wrapped is rejected
  again. Only signing and key generation that got their seed are modelled; what
  happens without it is `KpqcCall`'s.
* *The Keccak permutation is injective and never repeats a state*
  (`KeccakState`): two output bytes are equal only if they are the same position
  after the same blocks. A block is, per byte of the rate, the set of symbols
  XORed there (message byte `m`, the domain byte, the final bit), so a byte
  absorbed twice or missed shows. The two rates and the SHA-3 domain byte differ
  in constants only. A context is used once: initialised, fed, finalized,
  squeezed. `keccak_squeezeblocks` is called on contexts whose bytes are
  all handed out, as its comment requires and all its callers do.
* *A stream byte is its position* (`RejectionSampler`), and whether a window is
  accepted is a free choice: the arithmetic that decides it is not modelled, nor
  the sum of squares and the sign bytes the Gaussian sampler also delivers.
  `MaxRejections` stands for the finitely many rejections of a call that ends;
  it is a bound of the model, not of the code.
* *AIMer's hash is the sequence of its inputs* (`AimerSignature`), and the
  challenge it yields a free choice, the same for the same input. Salt, root
  seeds and the linear layer, which the code derives by hashing, are constants;
  which seeds the verifier rebuilds is `SeedTree`'s subject. On the way to the
  verifier one part of the signature, or the message, may be altered.
* *The rANS tables are constants* (`RansCodec`) of which `RansAssumption` states
  the consistency: intervals of the frequencies' length that partition the
  scale, and a fixed-point reciprocal that is exact for every state a symbol is
  put into. All six tables of `encoding.c` satisfy it with their real numbers
  (a computation outside TLC). A hint's values are below `Symbols + Offset`,
  what `caddDQ2ALPHA` makes of them before they are packed (`sign.c:302`). The buffer's size is a constant of its
  own: the code uses one byte per value, which with the reduced tables would
  never be too short.
* *The encodings in a HAETAE signature are members of given sets*
  (`HaetaePacking`), decoded by membership; that a vector has one encoding is
  what `RansCodec` shows. A head of fixed size holds the challenge, whose bytes
  are ORed into the buffer (`Or`, of which the proof assumes only that zero is
  neutral), and the low bits, which are stored over whatever is there.
* *The Zend heap is a set of cells* (`PhpObjects`), each with its count. A
  statement of a script is one step: nothing else runs in the request
  meanwhile. Every construct that can reach the objects is an action, but not
  objects made without a constructor (reflection, unserialisation), nor the
  array `__debugInfo` builds. Whether the native operation inside a method
  succeeds is a free choice, and which exception reports a failure is
  `KpqcCall`'s subject.
* *AES is symbolic* (`TestEntropy`): a block is its key and counter, and a key is
  the seed with the counters at which the key was replaced; two blocks are equal
  only if both are. A step reads or writes at most one callback; that such a
  step is atomic is an assumption (the pointer is a plain static). The draws of
  one operation have one size.
* *Polynomials have one coefficient* (`NtruKem`, `SmaugKem`), so the NTT and the
  Toom-Cook product, which only reorganise products of polynomials, become
  multiplication modulo q. Every operation the code performs per coefficient
  (packing and its canonicity test, centring, reduction modulo 3, SOTP,
  rounding) keeps its arithmetic, its constants scaled to q. SMAUG-T's module
  has rank two, so that A and its transpose differ. NTRU+'s f is always
  invertible over one coefficient, g is not. Hashes are *all* functions of the
  shape needed, not one: what the properties say holds for every one of them.
  Secrets are the inputs they are hashed from. SMAUG-T's decryption has a small
  probability of failure with real parameters; `SmaugAssumption` excludes it.
* The facade's 255-byte context limit makes the cores' own `ctxlen > 255` tests
  unreachable; they are not modelled. Argument-count and type errors are PHP's.

## Runs

| Run | Question | Result |
| --- | --- | --- |
| `call` (`MCKpqcCall.cfg`) | do the layers together keep `KpqcApi`'s promise, for every request and every failure? | passes, about 11 000 states |
| `seed_tree` (`MCSeedTree.cfg`) | does the verifier rebuild exactly what it may know? | passes, about 14 000 states |
| `haetae_nonces` (`MCHaetaeNonces.cfg`) | are HAETAE's nonces fresh, and can its loops hang? | passes, about 19 000 states |
| `sponge_consumed` (`MCSpongeConsumed.cfg`) | does HAETAE's and SMAUG-T's sponge yield one stream however it is cut? | passes, 924 states |
| `sponge_remaining` (`MCSpongeRemaining.cfg`) | does AIMer's and NTRU+'s? | passes, 1 683 states |
| `rejection_sampler` (`MCRejectionSampler.cfg`) | do HAETAE's samplers read their stream gap-free and write only their own row? | passes, 3 828 states |
| `rans_codec` (`MCRansCodec.cfg`) | is HAETAE's entropy coder invertible, unambiguous and inside its buffer? | passes, about 75 000 states |
| `aimer_signature` (`MCAimerSignature.cfg`) | does exactly an unaltered signature of a real key verify? | passes, about 95 000 states |
| `haetae_packing` (`MCHaetaePacking.cfg`) | do `pack_sig` and `unpack_sig` invert each other and accept one form only? | passes, about 300 000 states |
| `php_objects` (`MCPhpObjects.cfg`) | does the extension count, announce and protect what it hands out? | passes, about 70 000 states |
| `test_entropy` (`MCTestEntropy.cfg`) | does each thread draw its own seed's stream, whatever the others do? | passes, about 580 000 states |
| `kem_exchange` (`MCKemExchange.cfg`) | do both sides get one secret, and only from what was encapsulated? | passes, about 890 000 states |

Run `call` checks `TypeOK`; `EntropyComplete` (a successful draw wrote every
byte); `FailureLeavesNoOutput`; `BlocksFreedOnce` (whichever of AIMer's
allocations fail, its core uses and frees only blocks that are there, and
returns with none left); `RefusedBeforeWork`; `ImplementsApi` (refinement of
`KpqcApi`: one answer per request, permitted for it); `CallReturns`. Run
`seed_tree` checks `TypeOK`, `SeedsRecovered` and `HiddenStaysHidden`. Run
`haetae_nonces` checks `TypeOK`, `FreshSamples` (no stream twice before the
counter has gone round), `SignByteFresh` (the byte that chooses the sign of a
published signature has a nonce of its own) and `Answers` (a call ends unless
every candidate the wrapping counter can reach is a bad one). The sponge runs
check `ImplementsXof` (refinement of `Xof`), and `sponge_consumed` also
`RoomForPadding` (finalize finds room for the domain byte; absorption is the
same actions in both). Run `rejection_sampler` checks `TypeOK` (with the
buffer's limits), `InsideRow` (the one sample too many of the first two Gaussian
rows is not stored) and `ImplementsStream` (refinement of `StreamSampler`). Run
`rans_codec` checks `StateTyped` (the state keeps its width), `InsideBuffer`,
`DecodesBack` and `OneEncoding` (what the decoder accepts is what the encoder
would write). Run `aimer_signature` checks `HonestAccepted`, `EveryPartBound` (a
signature with one part altered, or of another message, is refused) and
`OnlyWitnessesPass` (a signature made with something that is no key passes
exactly when the challenges happen to hide its error). Run `haetae_packing`
checks `TypeOK`, `InsideSignature`, `RoundTrip` (whatever refused candidates
left in the buffer) and `OneForm`. Run `php_objects` checks `RefcountsExact`
(every cell's count is the number of its holders, and nothing unreachable is
alive), `Announced` (an algorithm shows the name and the sizes its core works
with, and every key or secret has them) and `Immutable` (no step changes an
object that lives on). Run `test_entropy` checks `OwnStream` (a thread's draws
are those of its last seed, whatever other threads, previews and refused seeds
did), `NamedSchemesAnswer` (a scheme a seeded thread has named gets its entropy,
whichever schemes are named and whichever threads end since) and
`BlocksUsedOnce` (each draw replaces the key, and its blocks lie before the
three that make the next one). Run `kem_exchange` checks `SecretsAgree` and
`OnlyEncapsulations` (a ciphertext is opened exactly if encapsulation to this
key makes it for some message, with that message's secret; otherwise NTRU+
answers status 1 and zeros, SMAUG-T status 0 and a secret of the key's `d` and
the ciphertext). Each property has a mutant of the code in `PROJECT.json` that
breaks it.

No core fails with anything but zeros in its output buffers: AIMer's fails
before it writes, HAETAE's fails only without entropy, NTRU+ masks. So
`FailureLeavesNoOutput` is about the cores, and the facade's `clear`
(`kpqc.cpp:90`) is a second line of defence whose absence no run would notice.

*Bounds.* `Requests` is not reduced: every combination of entry point, family,
operation, badly sized arguments and verdict is checked. `DrawBytes = 3` gives
every way of cutting an answer in one, two or three pieces, which is all the
loop distinguishes (first, middle, last); `MaxSignals = 1` gives an `EINTR`
before each piece. Both are constants of the proofs, which hold for any value.
`LogN = 4` is the real depth of the "f" parameter sets; `T = 2` is the least
number of repetitions in which the verifier's array holds the leftovers of an
earlier one. Two repetitions exhaust all 256 pairs of hidden parties.
`MCSeedTree.cfg` turns deadlock checking off because the program ends after the
last repetition. `MCHaetaeNonces.cfg` takes a counter of eight values and
dimensions 1 and 2: key generation draws two polynomials per candidate (a
divisor of eight: the counter returns to the same four candidates), signing
three (not a divisor: it reaches all eight), and both loops go round more than
once. A call that has answered stops, so deadlock is not checked. The sponges
run with a rate of four bytes and messages and outputs of up to ten: zero, one
and two whole blocks and every remainder, in every partition. A released
one-shot context stops. `MCRejectionSampler.cfg` keeps the shapes and shrinks
the numbers: the uniform sampler's blocks are odd, so that a byte is carried
(the code allows for it, with 168-byte blocks it does not happen); the eta
sampler yields five samples per byte and wants a number that is no multiple of
five; the Gaussian sampler has a head of sign bytes, carries one, two and no
bytes in turn, and draws one sample more than its row holds. Four rejections
push each sampler through several refills. A sampler that has its samples stops.
`MCRansCodec.cfg` has bytes of two bits and words of eight, so that the lower
limit of the state, 2^(8-1-2), stands to both as the code's 2^(32-1-8) does;
both tables have symbols of frequency one, which the code treats apart. All
vectors of four and of five values are encoded, all strings of four to six bytes
decoded. `MCAimerSignature.cfg` takes the field of eight elements, four parties,
two S-boxes (the "f" and "s" sets of the first two levels have two) and two
repetitions, the least number in which an array is reused; all sixteen pairs of
hidden parties occur. Of the keys one is real, one has a zero S-box input and
one does not fit its public key; of the two challenges each hides the error of
one of them. `MCHaetaePacking.cfg` has bytes of two bits and signatures of
eleven of them, with a head of one byte of challenge and one of low bits: the
two challenges tried have different bits, so that one ORed over the remains of
the other shows; the encodings may be absent, too short for their base, too long
for the length byte, or too long together. Strings to unpack have one head
(which unpacking copies), any two length bytes, and seven bytes of 0 to 2. A
decoder, a verifier and an unpacking that have answered stop. `MCPhpObjects.cfg`
runs one script per factory, with one variable, and one script with two
variables and both kinds of algorithm, where objects of one meet the methods of
the other; seven cells hold an algorithm with its sizes and two strings and a
key pair with its two. `MCTestEntropy.cfg` takes two threads, two schemes (draws
of 24, 32 and 108 bytes, two of which end inside a block; key generations that
draw twice or more), two seeds and two draws per seeding; threads and seeds are
symmetric, nothing in the code or the properties tells one from another.
`MCKemExchange.cfg` takes q = 17 with five-bit words, so that fifteen of the 32
words are not canonical, every pair of NTRU+ keys, all 1024 pairs of hash
functions and all words as ciphertexts; SMAUG-T with q = 32, p = 16, p' = 8,
three matrices, noise close to what decryption tolerates and all 2048
ciphertexts. The exchange ends with the decapsulation.

*Fairness* (`KpqcCall!Fairness`). `WF(Work)`: the thread of a running call is
scheduled. `SF(DrawAccepted)`, `SF(KeyPairMade)` and `WF(HaetaeSigns)`: the
rejection loops (NTRU+ invertibility, AIMer zero S-box, HAETAE size) accept
eventually; each attempt with fresh coins succeeds with a fixed positive
probability, so an infinite run of rejections has probability 0. Nothing is
assumed about rejections with the *same* coins, and the kernel may refuse at any
time, and so may `malloc`: a key generation that drew again after a failed
allocation would go on for ever in a run where each allocation fails, and
`CallReturns` finds that. `MaxSignals` bounds interruptions; without it a signal
storm could keep the loop of `kpqc_fill_random` running for ever.

`HaetaeNonces!FairSpec` is `WF(Work)` alone: nothing is assumed about the
verdicts, and `Answers` says what remains true without such an assumption.

A byproduct: the sign byte of a *rejected* candidate is hashed from the same
input as the first polynomial of the next candidate (`polyfix.c:293`,
`symmetric-shake.c:22`); `SignByteFresh` shows that the byte of a published
signature never shares its input with anything.

*Comments that say otherwise than the code.* Four comments give statuses the
code does not return: SMAUG-T's `crypto_kem_keypair` and `crypto_kem_enc` say
"0 on success, 1 on failure" (`vendor/SMAUG-T/src/kem.c:52`, `113`) and return
-1 without entropy and never 1; AIMer's `run_phase_1` says "-1 on allocation
failure" (`vendor/AIMer/sign.c:64`) and returns -2; HAETAE's
`crypto_sign_keypair` and `crypto_sign_signature` say "Returns 0 (success)"
(`vendor/HAETAE/src/sign.c:135`, `331`) and return -1 without entropy; NTRU+'s
`crypto_kem_enc` (`kem.c:258`) documents 0 and 1 and also returns -1. The models
follow the code. All callers treat any nonzero status alike, so none of this is
a defect in the behaviour of a call, and no run is spent on it.

## Proofs

`KpqcCall_proof` (assumption: `GetrandomAssumption`, `DrawBytes` a positive and
`MaxSignals` a natural number) proves for `Spec`:

* `TypeCorrect`, `DrawsAreComplete`, `FailuresLeaveNoOutput`, `BlocksAreFreedOnce`,
  `RefusalsCostNothing`: the five invariants of run `call`;
* `LayersImplementApi`: `Spec => ImplementsApi`, the refinement.

All rest on one inductive invariant, `IInv`, proved in `InductiveInvariant`.
The invariants are not inductive by themselves: that a failure leaves zeros
needs to know what the buffers hold at each layer (`OutInv`); that the answer
is permitted needs to know that past the checks the arguments are well sized
(`AcceptedInv`), which statuses a core can have returned and with which buffers
(`OutcomeInv`); that blocks are freed once needs to know, for each layer and
operation, which pointers are unset there and which have been through `malloc`
(`HoldInv`): only then do the frees in front of a `return` fit whatever subset of
the allocations succeeded; that a draw is complete needs the pointer, the length
and the written bytes to add up (`RngInv`). There is one lemma per group of
actions, one step per conjunct of `IInv` in it, and three lemmas that state
which exceptions are permitted for a request. The refinement maps an accepted
request to `Api!Invoke`, the three answering actions to `Api!Respond`, and every
other step to a stutter.

`HaetaeNonces_proof` (assumption: `NoncesAssumption`, width and dimensions
positive) proves `TypeCorrect`, `SamplesAreFresh` and `SignBytesAreFresh`.
Freshness needs three strengthenings: before the counter wraps, the nonces used
are exactly those below `drawn`, each once; caller and callee agree on the
counter whenever a candidate begins or is judged, although key generation
advances the two separately; and sign bytes
come from nonces below `drawn`, or from `drawn` itself only between two
candidates.

`Sponge_proof` (assumptions: `RateAssumption`, a positive rate;
`SpongeAssumption`, the bounds are numbers) proves for both conventions, every
rate and every bound on lengths `RefinementConsumed` and `RefinementRemaining`
(`ImplementsXof`), and `PaddingHasRoomConsumed`. It begins
with lemmas on blocks: quotient and remainder by the rate, filling a partial
block, the padded last block (also when the domain byte and the final bit share
a byte), and how reading on continues the stream. The invariant says what the
Keccak state is: while absorbing, some number of whole message blocks and a
partial one; while squeezing, the padded message and `b` permutations since,
with the output a prefix of the stream whose length is given by `b` and the
position word. `ImplementsXof` is not inductive without it: the output read so
far does not tell where the next byte comes from.

`RejectionSampler_proof` (assumptions: `SamplersAssumption`,
`RejectionSamplerAssumption`: positive widths, blocks and counts, a buffer that
holds the first read and later one block with up to `Width - 1` bytes before it,
a row that lacks at most one sample) proves `TypeCorrect`, `RowsApart` and
`Refinement` (`Spec => ImplementsStream`). Its invariant ties the buffer to the
stream: the unread bytes of `buf` are the last ones squeezed, the first of them
is the first byte of the next window, and the read position is a multiple of the
width past the head. The last part is why the code may compute the number of
carried bytes as `bytecnt % width`.

`HaetaeEncoding_proof` has two parts.

*The coder* (`RansCodec`; assumption: `RansAssumption`, consistent tables over
a word that holds four bytes' worth of the state's interval): `StateStaysTyped`,
`CoderStaysInside`, `VectorDecodesBack` and `EncodingIsOne`. Two lemmas carry it:
`Put` maps the states between a symbol's `Floor` and its `XMax` one to one onto
those at least `Low` from which `Advance` yields the symbol and the same state
back, and writing bytes until the state is below `XMax` is undone by reading
until it is at least `Low`. What
the encoder has gone through has to be remembered for that: the invariant says
that from the present state and bytes one can walk back to the start
(`EncoderWasAt`), and dually for a decoder (`DecoderWasAt`), so that the other
side meets the same states in reverse order. The walks are sets closed under one
step back, and that a walk reaches everything is shown by the invariant itself,
one symbol at a time. `InsideBuffer` needs that a symbol writes at most three
bytes, and four are still free after each.

*The packing* (`HaetaePacking`; assumption: `PackingAssumption`: positive bases,
a signature that holds at least the two bases, encodings that are non-empty byte
strings, `Or` with zero neutral): `TypeCorrect`, `NothingOutside`,
`PackedIsUnpacked` and `OneFormOnly`. The invariant describes the buffer part by
part, as far as packing or unpacking has come: the head, the two length bytes,
the two encodings, and zeros behind the last byte written. The zeros are what
makes the round trip hold, since the padding test of `unpack_sig` would refuse
an honest signature with remains of another candidate behind it.

`Aimer_proof` has two parts. Both assume `AimerParametersAssumption`: positive
depth and number of repetitions, `Pow2` the powers of two.

*The seed trees* (`SeedTree`): `TypeCorrect`, `VerifierRecoversSeeds` and
`HiddenSeedsStayHidden`. The lemmas number the heap:
a node's level, its children and sibling, the hidden path with exactly one node
per level. The invariant says for each loop which nodes are already right: for
the signer those above the one it expands; for the verifier, in the level it is
in, all but the hidden one. What the array held before appears nowhere in it but
at the hidden node, whose children are garbage or overwritten. `Pow2` is defined
by its recurrence, so facts for all depths are shown by induction over the
natural numbers, from the least element of a set (`LeastElement`).

*The signature* (`AimerSignature`; assumption: `AimerAssumption`, a field of
characteristic 2, additive maps for the linear layer, tapes, challenges and keys
over it): `HonestSignaturesAccepted`, `PartsBound` and `WitnessesOnly`, for any
field, number of S-boxes, parties and repetitions. The argument has four steps.

1. Sums over the parties: they can be split, mapped, scaled and exchanged
   (`SumPlus`, `SumMapped`, `SumScaled`, `SumSwapped`), and squaring adds
   (`FrobeniusAdds`). The recursive functions behind `Sum` and `Frobenius` are
   shown to exist first (`SumTableExists`, `SquareTableExists`).
2. With the offsets of the last party (`Lacking`) the shares add up to the
   witness, the public constants enter once (`SumIfLast`), and so the v shares
   add up to `GapOf`, what each S-box lacks to its relation, weighted with the
   challenges (`GapTotals`). It is zero for a key with no zero S-box input
   (`GapVanishes`).
3. The inputs of h_1 and h_2, position by position (`Content1`, `Content2`).
   Two hashes are equal only if all parts are, so a signature with one part
   altered is noticed (`SpoiledRejected`). For the hidden party only the alpha
   share enters the verifier's h_2 as it was received (`Content2Hidden`), which
   holds whatever else was altered.
4. The invariant `SignatureInv`: for every stage, what signer and verifier have
   written is a named function of key, tapes and challenges. That the verifier's
   arrays are never cleared does not matter because `Agreeing` speaks of an entry
   only once its party has been simulated, and of the hidden one not at all.
   `HiddenTotal` then shows that the v share the verifier computes for the hidden
   party is the signer's exactly if all of them add up to zero.

A hash is injective in this model, being its input, and challenges are free:
the theorems say nothing about how likely it is that challenges hide a gap.

`KemExchange_proof` (assumptions: `NtruAssumption`, an odd prime above 14;
`SmaugAssumption`, moduli that divide q, q divisible by four, and noise whose
worst case stays below a quarter of q) proves `SecretsAgreeAlways` and
`OnlyEncapsulationsOpen`. The arithmetic is congruences modulo q: inverses exist
because multiplication by a nonzero element is one to one on a finite set,
centring finds the one representative in the middle, NTRU+'s decryption sees
numbers small enough to be exact before it reduces modulo 3, and SMAUG-T's
rounding error, key noise and encryption noise add up to less than a quarter.
That what is opened was made follows for both schemes from the check the code
makes, the comparison of r or of the whole ciphertext.

`Extension_proof` (assumptions: `TestEntropyAssumption`, `PhpObjectsAssumption`)
proves of the test entropy `DrawsAreOwn`,
`NamedSchemesKeepAnswering` and `BlocksAreUsedOnce` for any number of threads.
The invariant gives generator and bytes of a thread as functions of two things
it alone decides, its last seed and the sizes it asked for since: the key is the
seed followed by the counters at which it was replaced. Blocks differ because
the keys of two draws differ in length, or the counters in one draw do.

Of the objects, `Extension_proof` proves `ObjectsAreCounted`,
`ObjectsTellTheTruth` and `ObjectsAreImmutable`, for any set of scripts (each
with finitely many variables and any of the sixteen names) and any number of
cells; where the allocator puts a cell is left open. None of the three is
inductive: a count that is exact says nothing about the next release if a cell
may point to itself twice or to a free cell, and an algorithm object keeps its
sizes only if nobody else can free or rewrite them. `ObjectsInv` therefore says
three things of the heap:

1. `Counted`: a live cell's count is the number of its holders outside the heap
   plus the number of its owners in it; a free cell has neither.
2. `Shaped`: every declared property of every object is initialised with the
   type its class declares, and two properties of one object hold different
   cells, so that owners may be counted as objects.
3. `Fits` and `TellsOne`: every string of a scheme has that scheme's length, and
   every algorithm object holds the identifier, the sizes and the native name of
   one and the same row. `Tables` computes all sixteen rows from the registries
   and from the cores' parameter headers and compares them.

Inside a method there are holders the script does not see, the temporaries. The
invariant of the heap takes the holders outside as a parameter, and one lemma
per Zend operation says what it does to both (`Sharing`, `Releasing`,
`Building`, `Storing`, `Linking`, `Cloning`). An action's proof is the chain of
these lemmas in the order of its calls, and ends where the variables are the only
holders again. `Immutable` comes out of the same chains: cells that live before
and after say the same (`Grown`, `Left`).

Only model-checked: `CallReturns` and `Answers` (liveness is beyond the prover).

## Plan

Done: `Getrandom`, `KpqcTypes`, `KpqcApi`, `AimerHeap`, `KpqcCall`; `SeedTree`;
`HaetaeNonces`; `KeccakState`, `Xof`, `Sponge`, `SpongeConsumed`,
`SpongeRemaining`;
`Samplers`, `StreamSampler`, `RejectionSampler`; `AimerSignature`; `RansCodec`;
`HaetaePacking`; `Algorithms`, `PhpObjects`; `TestEntropy`; `NtruKem`,
`SmaugKem`, `KemExchange`; the proofs described above.

What remains to be modelled, in this order, each as operators that join a run of
their kind: TiMER's D2 encoding; the samplers of other shapes (HAETAE
`poly_challenge`; SMAUG-T `hwt`, which may run out of words and is retried with
another counter byte, `key.c`); bit packing and reductions (SMAUG-T `packring`,
HAETAE keys, `decompose`, `reduce`).

Theorems planned: for whatever is added, its invariants; every safety property
the runs check today is also a theorem.

## Not modelled, and why

* The arithmetic of the schemes (NTT, FFT, Toom-Cook, binary fields, the Keccak
  permutation): straight-line computation on large data, out of TLC's reach and
  covered by the known-answer tests.
* Windows, macOS and BSD entropy branches: other platforms' code; the first is
  the same loop over chunks, the second cannot fail.
* Module start-up beyond the registration of classes, the information table and
  build files: no state that a call changes.
* HAETAE's algebra (the hint, the norm bounds, the verification equation) and the
  fixed-point arithmetic of its sampler: verdicts in the models around it.
* Clearing of *successful* temporaries: the facade clears outputs only on
  failure, and the PHP layer frees the facade's `Bytes` after copying them into
  PHP strings without clearing.
