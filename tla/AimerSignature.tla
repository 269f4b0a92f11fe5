--------------------------- MODULE AimerSignature ---------------------------
(***************************************************************************)
(* AIMer's signature (vendor/AIMer/sign.c, aim3.c): the signer shares its  *)
(* witness among N simulated parties in each of T repetitions, lets them   *)
(* check the S-boxes of AIM3, and opens all parties but one; the verifier  *)
(* simulates the opened ones again.                                        *)
(*                                                                         *)
(* A hash is the sequence of what went into it, and what it yields as a    *)
(* challenge is a free choice, the same for the same input.  A seed is     *)
(* <<repetition, party>>; which seeds the verifier rebuilds from the seed  *)
(* tree is the subject of module SeedTree.  One part of a signature may be *)
(* changed on its way to the verifier.                                     *)
(***************************************************************************)
EXTENDS AimerParameters, Sequences

CONSTANTS
  Elements, Plus, Times, Zero, One,  \* gf, a field of characteristic 2
  L,           \* AIMER_L
  MatA,        \* lin->mat_A: the maps x |-> x * mat_A[ell]
  VecB,        \* lin->vec_b
  Exponents,   \* aim3_exponents
  Draws,       \* what the tapes of all parties may be
  Challenges,  \* the epsilons of a repetition
  Junk,        \* what malloc may leave in an array of elements
  Pts,         \* the pt a secret key may hold
  Cts          \* the ct it may hold when it is not the one of pt

Last == N - 1
Boxes == 1 .. L + 1

TapeType == [pt : Elements, y : [1 .. L -> Elements], a : [Boxes -> Elements], c : Elements]

a \oplus b == Plus[a][b]
a \otimes b == Times[a][b]

(* f[m] + ... + f[n], added up in this order.                             *)
Sum(f, m, n) ==
  LET sum[k \in m - 1 .. n] == IF k = m - 1 THEN Zero ELSE sum[k - 1] \oplus f[k]
  IN  sum[n]

(* x to the power 2^e, gf_sqr e times.                                     *)
Frobenius(e, x) ==
  LET sqr[k \in 0 .. e] == IF k = 0 THEN x ELSE sqr[k - 1] \otimes sqr[k - 1]
  IN  sqr[e]

(* gf_inv, a power of x, yields zero for zero.                             *)
Inv(x) == IF x = Zero THEN Zero ELSE CHOOSE y \in Elements : x \otimes y = One

ASSUME AimerAssumption ==
  /\ L \in Nat \ {0}
  /\ Zero \in Elements /\ One \in Elements /\ One # Zero
  /\ Plus \in [Elements -> [Elements -> Elements]]
  /\ Times \in [Elements -> [Elements -> Elements]]
  /\ \A x \in Elements : x \oplus x = Zero /\ x \oplus Zero = x /\ x \otimes One = x
  /\ \A x, y, z \in Elements :
       /\ x \oplus y = y \oplus x /\ x \otimes y = y \otimes x
       /\ (x \oplus y) \oplus z = x \oplus (y \oplus z)
       /\ (x \otimes y) \otimes z = x \otimes (y \otimes z)
       /\ x \otimes (y \oplus z) = (x \otimes y) \oplus (x \otimes z)
  /\ \A x \in Elements \ {Zero} : \E y \in Elements : x \otimes y = One
  /\ MatA \in [1 .. 2 * L -> [Elements -> Elements]]
  /\ \A i \in 1 .. 2 * L : \A x, y \in Elements :
       MatA[i][x \oplus y] = MatA[i][x] \oplus MatA[i][y]
  /\ VecB \in [Boxes -> Elements]
  /\ Exponents \in [Boxes -> Nat \ {0}]
  /\ Draws \subseteq [Reps -> [Parties -> TapeType]]
  /\ Challenges \subseteq [Boxes -> Elements]
  /\ Junk \subseteq Elements /\ Junk # {}
  /\ Pts \subseteq Elements /\ Cts \subseteq Elements

-----------------------------------------------------------------------------
(* AIM3.                                                                   *)

SboxInput(i, pt) == MatA[i][pt] \oplus VecB[i]

Sbox(i, x) == Inv(x) \otimes (Frobenius(Exponents[i], x) \oplus One)

LastInput(pt) ==
  Sum([i \in 1 .. L |-> MatA[L + i][Sbox(i, SboxInput(i, pt))]], 1, L) \oplus VecB[L + 1]

(* aim3_nozeroinpsb succeeds: what crypto_sign_keypair lets be a key.      *)
NoZeroInput(pt) ==
  /\ \A i \in 1 .. L : SboxInput(i, pt) # Zero
  /\ LastInput(pt) # Zero

Ciphertext(pt) == pt \oplus Sbox(L + 1, LastInput(pt))

(* aim3_sbox_outputs: the last output is known without computing it.       *)
SboxOutputs(pt, ct) ==
  [i \in Boxes |-> IF i <= L THEN Sbox(i, SboxInput(i, pt)) ELSE pt \oplus ct]

(* Public constants enter the computation once, with the last party.       *)
IfLast(party, x) == IF party = Last THEN x ELSE Zero

XShares(tape, party) ==
  [i \in Boxes |->
     (IF i <= L THEN MatA[i][tape.pt]
                ELSE Sum([ell \in 1 .. L |-> MatA[L + ell][tape.y[ell]]], 1, L))
       \oplus IfLast(party, VecB[i])]

BShares(tape, ct, party) ==
  [i \in Boxes |-> IF i <= L THEN tape.y[i] ELSE tape.pt \oplus IfLast(party, ct)]

ZShares(x, party) ==
  [i \in Boxes |-> Frobenius(Exponents[i], x[i]) \oplus IfLast(party, One)]

(* aim3_mpc                                                                *)
Mpc(tape, ct, party) ==
  LET x == XShares(tape, party)
  IN  [a |-> tape.a, b |-> BShares(tape, ct, party), c |-> tape.c,
       x |-> x, z |-> ZShares(x, party)]

AlphaShare(chk, eps) == [i \in Boxes |-> chk.a[i] \oplus (chk.x[i] \otimes eps[i])]

(* The v share before alpha is opened, and what the opening adds to it.    *)
VShare(chk, eps) == chk.c \oplus Sum([i \in Boxes |-> chk.z[i] \otimes eps[i]], 1, L + 1)
Opening(b, alpha) == Sum([i \in Boxes |-> b[i] \otimes alpha[i]], 1, L + 1)

-----------------------------------------------------------------------------
(* Symbols.                                                                *)

Honest == <<"honest">>
Altered == <<"altered">>

Seed(r, party) == <<r, party>>
NotASeed == <<>>
Path(r, hidden) == <<r, hidden>>

(* All zeros, and any tape but the committed ones.                         *)
NoTape == [pt |-> Zero, y |-> [i \in 1 .. L |-> Zero], a |-> [i \in Boxes |-> Zero], c |-> Zero]

(* commit_and_expand_tape: both come out of one hash.                      *)
Tape(draw, salt, r, party, seed) ==
  IF salt = Honest /\ seed = Seed(r, party) THEN draw[r][party] ELSE NoTape

Commit(salt, r, party, seed) == <<salt, r, party, seed>>

(* reveal_all_but and reconstruct_tree.                                    *)
Reconstructed(path, salt, r, party, hidden) ==
  IF salt = Honest /\ path = Path(r, hidden) THEN Seed(r, party) ELSE NotASeed

-----------------------------------------------------------------------------
VARIABLES
  phase,             \* "phase1", "challenge1", "phase3", "challenge2", "phase5",
                     \* "sent", "verify", "opened", "compare", "accepted", "rejected"
  key,               \* pt, ct
  draw,              \* what the tapes are
  repetition, party, \* the loops
  signer,            \* delta, commits, mult_chk, alpha_shares, v_share, h_1 and
                     \* h_2's input
  sign,              \* the signature
  epsilons,          \* of every repetition, signer's and then verifier's
  indices,           \* hidden party of every repetition
  received,          \* the signature that arrives
  mu,                \* hash of public key and message, at the verifier
  verifier           \* alpha, alpha_shares, b_shares, v_shares, h_1 and h_2's input

signatureVars ==
  <<phase, key, draw, repetition, party, signer, sign, epsilons, indices, received, mu,
    verifier>>

EmptyProof == [path |-> NotASeed, commitment |-> NotASeed, delta |-> NoTape,
               alpha |-> [i \in Boxes |-> Zero]]

(* Any secret key may be given, not only one that key generation made.     *)
InitSignature ==
  /\ phase = "phase1"
  /\ \E pt \in Pts, ct \in Elements :
       /\ ct \in Cts \cup {Ciphertext(pt)}
       /\ key = [pt |-> pt, ct |-> ct]
  /\ draw \in Draws
  /\ repetition = 0 /\ party = 0
  /\ signer = [delta |-> NoTape, commits |-> [r \in Reps |-> <<>>],
               mult_chk |-> [r \in Reps |-> <<>>],
               alpha_shares |-> <<>>, v_share |-> <<>>,
               h_1 |-> <<Honest, Honest>>, h_2 |-> <<>>]
  /\ sign = [salt |-> Honest, h_1 |-> <<>>, h_2 |-> <<>>, proofs |-> [r \in Reps |-> EmptyProof]]
  /\ epsilons = <<>> /\ indices = <<>>
  /\ received = sign
  /\ mu = Honest
  /\ verifier = <<>>

-----------------------------------------------------------------------------
(* Signer, run_phase_1.                                                    *)

AddTapes(s, t) ==
  [pt |-> s.pt \oplus t.pt, y |-> [i \in 1 .. L |-> s.y[i] \oplus t.y[i]],
   a |-> [i \in Boxes |-> s.a[i] \oplus t.a[i]], c |-> s.c \oplus t.c]

(* adjust_last_share, the offsets: what the shares lack to the witness.    *)
Offsets(delta, pt, out) ==
  [pt |-> delta.pt \oplus pt,
   y |-> [i \in 1 .. L |-> delta.y[i] \oplus out[i]],
   a |-> delta.a,
   c |-> delta.c \oplus Sum([i \in Boxes |-> delta.a[i] \otimes out[i]], 1, L + 1)]

(* adjust_last_share and recompute_last_share: a is not adjusted.          *)
Adjusted(tape, offsets) ==
  AddTapes(tape, [offsets EXCEPT !.a = [i \in Boxes |-> Zero]])

(* What proof_t holds of the offsets, and h_1 covers.                      *)
Stored(offsets) == [offsets EXCEPT !.a = [i \in Boxes |-> Zero]]

(* Faulty variant of the next operator: only delta_pt and delta_ys.        *)
HashedWithoutC(delta) == [delta EXCEPT !.c = Zero]

(* The AIMER_L + 2 elements hashed from delta_pt_bytes on.                 *)
Hashed(delta) == delta

Cleared(delta) == NoTape

StartRep(next) == repetition' = next /\ party' = 0

Share ==
  /\ phase = "phase1"
  /\ LET seed == Seed(repetition, party)
         tape == Tape(draw, sign.salt, repetition, party, seed)
         delta == AddTapes(signer.delta, tape)
         commits == Append(signer.commits[repetition],
                           Commit(sign.salt, repetition, party, seed))
         offsets == Offsets(delta, key.pt, SboxOutputs(key.pt, key.ct))
         Checked(t) == Append(signer.mult_chk[repetition], Mpc(t, key.ct, party))
     IN  \/ /\ party < Last
            /\ signer' = [signer EXCEPT !.delta = delta,
                                        !.commits[repetition] = commits,
                                        !.mult_chk[repetition] = Checked(tape)]
            /\ party' = party + 1
            /\ UNCHANGED <<phase, repetition, sign>>
         \/ /\ party = Last
            /\ sign' = [sign EXCEPT !.proofs[repetition].delta = Stored(offsets)]
            /\ signer' =
                 [signer EXCEPT !.delta = Cleared(delta),
                    !.commits[repetition] = commits,
                    !.mult_chk[repetition] = Checked(Adjusted(tape, offsets)),
                    !.h_1 = signer.h_1 \o commits \o <<Hashed(Stored(offsets))>>]
            /\ StartRep(repetition + 1)
            /\ phase' = IF repetition + 1 < T THEN "phase1" ELSE "challenge1"
  /\ UNCHANGED <<key, draw, epsilons, indices, received, mu, verifier>>

(* h_1, the epsilons expanded from it, and the start of h_2's input.       *)
Challenge1 ==
  /\ phase = "challenge1"
  /\ sign' = [sign EXCEPT !.h_1 = signer.h_1]
  /\ epsilons' \in [Reps -> Challenges]
  /\ signer' = [signer EXCEPT !.h_2 = <<signer.h_1, sign.salt>>]
  /\ StartRep(0)
  /\ phase' = "phase3"
  /\ UNCHANGED <<key, draw, indices, received, mu, verifier>>

(* run_phase_2_and_3, one repetition.                                      *)
Simulate ==
  /\ phase = "phase3"
  /\ LET chk(p) == signer.mult_chk[repetition][p + 1]
         shares == [p \in Parties |-> AlphaShare(chk(p), epsilons[repetition])]
         alpha == [i \in Boxes |-> Sum([p \in Parties |-> shares[p][i]], 0, Last)]
         v == [p \in Parties |-> VShare(chk(p), epsilons[repetition]) \oplus Opening(chk(p).b, alpha)]
     IN  signer' = [signer EXCEPT !.alpha_shares = Append(signer.alpha_shares, shares),
                                  !.v_share = Append(signer.v_share, v),
                                  !.h_2 = signer.h_2 \o <<shares, v>>]
  /\ StartRep(repetition + 1)
  /\ phase' = IF repetition + 1 < T THEN "phase3" ELSE "challenge2"
  /\ UNCHANGED <<key, draw, sign, epsilons, indices, received, mu, verifier>>

Challenge2 ==
  /\ phase = "challenge2"
  /\ sign' = [sign EXCEPT !.h_2 = signer.h_2]
  /\ indices' \in [Reps -> Parties]
  /\ StartRep(0)
  /\ phase' = "phase5"
  /\ UNCHANGED <<key, draw, signer, epsilons, received, mu, verifier>>

Hidden == indices[repetition]

Open ==
  /\ phase = "phase5"
  /\ sign' = [sign EXCEPT !.proofs[repetition] =
       [path |-> Path(repetition, Hidden),
        commitment |-> signer.commits[repetition][Hidden + 1],
        delta |-> sign.proofs[repetition].delta,
        alpha |-> signer.alpha_shares[repetition + 1][Hidden]]]
  /\ StartRep(repetition + 1)
  /\ phase' = IF repetition + 1 < T THEN "phase5" ELSE "sent"
  /\ UNCHANGED <<key, draw, signer, epsilons, indices, received, mu, verifier>>

-----------------------------------------------------------------------------
(* The way to the verifier.                                                *)

Flip(x) == x \oplus One

AlteredProofs(p) ==
  {[p EXCEPT !.path = Altered], [p EXCEPT !.commitment = Altered],
   [p EXCEPT !.delta.pt = Flip(p.delta.pt)], [p EXCEPT !.delta.c = Flip(p.delta.c)]}
    \cup {[p EXCEPT !.delta.y[i] = Flip(p.delta.y[i])] : i \in 1 .. L}
    \cup {[p EXCEPT !.alpha[i] = Flip(p.alpha[i])] : i \in Boxes}

AlteredSignatures ==
  {[sign EXCEPT !.salt = Altered], [sign EXCEPT !.h_1 = Altered], [sign EXCEPT !.h_2 = Altered]}
    \cup UNION {{[sign EXCEPT !.proofs[r] = p] : p \in AlteredProofs(sign.proofs[r])} : r \in Reps}

(* Verification expands the challenges from the h_1 and h_2 it was given.  *)
Receive ==
  /\ phase = "sent"
  /\ \/ received' = sign /\ mu' \in {Honest, Altered}
     \/ received' \in AlteredSignatures /\ mu' = Honest
  /\ IF received'.h_1 = sign.h_1 THEN UNCHANGED epsilons ELSE epsilons' \in [Reps -> Challenges]
  /\ IF received'.h_2 = sign.h_2 THEN UNCHANGED indices ELSE indices' \in [Reps -> Parties]
  /\ \E junk \in Junk :
       verifier' = [alpha |-> [i \in Boxes |-> Zero],
                    alpha_shares |-> [p \in Parties |-> [i \in Boxes |-> junk]],
                    b_shares |-> [p \in Parties |-> [i \in Boxes |-> junk]],
                    v_shares |-> [p \in Parties |-> junk],
                    h_1 |-> <<mu', received'.salt>>, h_2 |-> <<received'.h_1, received'.salt>>]
  /\ StartRep(0)
  /\ phase' = "verify"
  /\ UNCHANGED <<key, draw, signer, sign>>

-----------------------------------------------------------------------------
(* Verifier, crypto_sign_verify_internal.                                  *)

Proof == received.proofs[repetition]

NextParty ==
  /\ party' = party + 1
  /\ phase' = IF party = Last THEN "opened" ELSE "verify"
  /\ UNCHANGED <<key, draw, repetition, signer, sign, epsilons, indices, received, mu>>

AddTo(alpha, shares) == [i \in Boxes |-> alpha[i] \oplus shares[i]]

(* The hidden party: its commitment and its alpha shares are given.        *)
SkipHidden ==
  /\ phase = "verify"
  /\ party = Hidden
  /\ verifier' = [verifier EXCEPT !.h_1 = Append(@, Proof.commitment),
                                  !.alpha_shares[party] = Proof.alpha,
                                  !.alpha = AddTo(@, Proof.alpha)]
  /\ NextParty

Resimulate ==
  /\ phase = "verify"
  /\ party # Hidden
  /\ LET seed == Reconstructed(Proof.path, received.salt, repetition, party, Hidden)
         tape == Tape(draw, received.salt, repetition, party, seed)
         chk == Mpc(IF party = Last THEN Adjusted(tape, Proof.delta) ELSE tape, key.ct, party)
         shares == AlphaShare(chk, epsilons[repetition])
     IN  verifier' = [verifier EXCEPT
           !.h_1 = Append(@, Commit(received.salt, repetition, party, seed)),
           !.v_shares[party] = VShare(chk, epsilons[repetition]),
           !.alpha_shares[party] = shares,
           !.alpha = AddTo(@, shares),
           !.b_shares[party] = chk.b]
  /\ NextParty

(* Faulty variant of the next operator: what the hidden entry held stays   *)
(* in the sum.                                                             *)
HiddenKept(v, hidden) == Sum(v, 0, Last)

(* The v shares of all parties add up to zero.                             *)
HiddenShare(v, hidden) ==
  Sum([p \in Parties |-> IF p = hidden THEN Zero ELSE v[p]], 0, Last)

(* recompute_v_shares, and the hashes of this repetition.                  *)
FinishRep ==
  /\ phase = "opened"
  /\ LET opened == [p \in Parties |->
                      IF p = Hidden THEN verifier.v_shares[p]
                      ELSE verifier.v_shares[p] \oplus Opening(verifier.b_shares[p], verifier.alpha)]
         v == [p \in Parties |-> IF p = Hidden THEN HiddenShare(opened, Hidden) ELSE opened[p]]
     IN  verifier' = [verifier EXCEPT !.v_shares = v,
                        !.alpha = [i \in Boxes |-> Zero],
                        !.h_2 = @ \o <<verifier.alpha_shares, v>>,
                        !.h_1 = Append(@, Hashed(Proof.delta))]
  /\ StartRep(repetition + 1)
  /\ phase' = IF repetition + 1 < T THEN "verify" ELSE "compare"
  /\ UNCHANGED <<key, draw, signer, sign, epsilons, indices, received, mu>>

(* Faulty variant of the next operator: h_2' is not compared.              *)
OnlyH1 == verifier.h_1 = received.h_1

Matches == verifier.h_1 = received.h_1 /\ verifier.h_2 = received.h_2

Compare ==
  /\ phase = "compare"
  /\ phase' = IF Matches THEN "accepted" ELSE "rejected"
  /\ UNCHANGED <<key, draw, repetition, party, signer, sign, epsilons, indices, received, mu, verifier>>

NextSignature ==
  \/ Share \/ Challenge1 \/ Simulate \/ Challenge2 \/ Open \/ Receive
  \/ SkipHidden \/ Resimulate \/ FinishRep \/ Compare

SpecSignature == InitSignature /\ [][NextSignature]_signatureVars

-----------------------------------------------------------------------------
(* Properties.                                                             *)

Unaltered == received = sign /\ mu = Honest

(* What key generation calls a key signs valid signatures (sign.c:246,     *)
(* aim3_nozeroinpsb), whichever party is hidden in whichever repetition,   *)
(* although the verifier uses its arrays again and never clears them.      *)
HonestAccepted ==
  Unaltered /\ NoZeroInput(key.pt) /\ key.ct = Ciphertext(key.pt) => phase # "rejected"

(* Every part of a signature, and the message, is bound by h_1 or by h_2:  *)
(* paths, commitments, alpha shares, and the last party's offsets also in  *)
(* a repetition that hides it (sign.c:592-637, api_test.cpp:59-68).        *)
EveryPartBound == ~Unaltered => phase # "accepted"

(* What the S-boxes of the key lack to the relation x * y = x^(2^e) + 1.   *)
Gap(i) ==
  LET out == SboxOutputs(key.pt, key.ct)
      x == IF i <= L THEN SboxInput(i, key.pt) ELSE LastInput(key.pt)
  IN  (x \otimes out[i]) \oplus Frobenius(Exponents[i], x) \oplus One

(* A signature made with anything else passes only if the challenges hide  *)
(* the gap in every repetition, so a key with a zero S-box input, for      *)
(* which the relation fails, must not be handed out.                       *)
OnlyWitnessesPass ==
  Unaltered /\ phase \in {"accepted", "rejected"} =>
    (phase = "accepted" <=>
       \A r \in Reps : Sum([i \in Boxes |-> Gap(i) \otimes epsilons[r][i]], 1, L + 1) = Zero)
=============================================================================
