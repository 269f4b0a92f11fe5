------------------------------- MODULE SmaugKem -------------------------------
(***************************************************************************)
(* SMAUG-T's key pair, encapsulation and decapsulation (kem.c, indcpa.c,   *)
(* ciphertext.c) over polynomials of one coefficient and modules of rank   *)
(* two, the least in which a matrix and its transpose differ.              *)
(*                                                                         *)
(* The code keeps a value modulo 2^k in the upper k bits of a 16-bit word, *)
(* so that words wrap where values do; here a value is in 0 .. 2^k - 1.    *)
(* Secrets are tuples that name what they are hashed from.  TiMER's        *)
(* encoding of a bit in two coefficients is not modelled.                  *)
(***************************************************************************)
EXTENDS Integers

CONSTANTS
  SmaugQ,     \* 2^SMAUGT_LOG_Q
  SmaugP,     \* 2^SMAUGT_LOG_P
  PPrime,     \* 2^SMAUGT_LOG_P_PRIME
  Matrices,   \* what expand_A may yield
  Sparse,     \* what expand_s may yield (hwt, coefficients -1, 0 and 1)
  Noise,      \* what d_gaussian may yield
  Coins       \* what expand_r may yield (sp_cbd, coefficients -1, 0 and 1)

(* SmaugQ is a multiple of the others, and what rounding and noise add to  *)
(* half of it stays below a quarter.                                       *)
Abs(a) == IF a < 0 THEN -a ELSE a
L1(v) == Abs(v[1]) + Abs(v[2])
ASSUME SmaugAssumption ==
  /\ {SmaugQ, SmaugP, PPrime} \subseteq Nat \ {0}
  /\ SmaugQ % 4 = 0 /\ SmaugQ % SmaugP = 0 /\ SmaugQ % PPrime = 0
  /\ \A A \in Matrices : A \in [{1, 2} -> [{1, 2} -> 0 .. SmaugQ - 1]]
  /\ \A v \in Sparse \cup Coins : v \in [{1, 2} -> -1 .. 1]
  /\ \A v \in Noise : v \in [{1, 2} -> Int]
  /\ \A s \in Sparse, e \in Noise :
       4 * (L1(e) + L1(s) * (SmaugQ \div (2 * SmaugP)) + (SmaugQ \div (2 * PPrime))) < SmaugQ

Rows == {1, 2}
Dot(a, b) == a[1] * b[1] + a[2] * b[2]
Messages == {0, 1}
D == 2              \* d, a random string that is none of the messages

(* b = -A s + e; matrix_vec_mult_sub takes A's rows.                       *)
SmaugKeyPair(A, s, e, d) ==
  LET pk == [A |-> A, b |-> [i \in Rows |-> (e[i] - Dot(A[i], s)) % SmaugQ]]
  IN [pk |-> pk, sk |-> [s |-> s, d |-> d, pk |-> pk]]

SmaugKeyPairs == {SmaugKeyPair(A, s, e, D) : A \in Matrices, s \in Sparse, e \in Noise}

-----------------------------------------------------------------------------
(* The public-key encryption below the KEM.                                *)
Round(a, to) == ((a + (SmaugQ \div (2 * to))) % SmaugQ) \div (SmaugQ \div to)

(* c1 = round(A^T r); matrix_vec_mult_add takes A's columns.               *)
Row(A, i) == A[i]
Column(A, i) == [j \in Rows |-> A[j][i]]
ComputeC1(A, r) == [i \in Rows |-> Round(Dot(Column(A, i), r), SmaugP)]
ComputeC2(mu, b, r) == Round((SmaugQ \div 2) * mu + Dot(b, r), PPrime)
IndcpaEnc(pk, mu, r) == <<ComputeC1(pk.A, r), ComputeC2(mu, pk.b, r)>>

IndcpaDec(s, ct) ==
  LET delta == ct[2] * (SmaugQ \div PPrime) + Dot(ct[1], s) * (SmaugQ \div SmaugP)
  IN ((delta + (SmaugQ \div 4)) % SmaugQ) \div (SmaugQ \div 2)

SmaugCiphertexts == [Rows -> 0 .. SmaugP - 1] \X (0 .. PPrime - 1)

-----------------------------------------------------------------------------
(* hash_g of a message and the hashed public key: its first half seeds r,  *)
(* its second half is the secret.                                          *)
SmaugOracles == [Messages -> Coins]

SmaugEncapsulate(oracle, pk, mu) ==
  [status |-> 0, ct |-> IndcpaEnc(pk, mu, oracle[mu]), ss |-> <<"hash_g", mu, pk>>]

(* The secret a ciphertext that fails the comparison is answered with.     *)
Rejected(d, ct) == <<"hash_g", d, ct>>
DifferInC2(ct, other) == ct[2] # other[2]
Differ(ct, other) == ct # other

SmaugDecapsulate(oracle, ct, sk) ==
  LET mu == IndcpaDec(sk.s, ct)
      again == SmaugEncapsulate(oracle, sk.pk, mu)
  IN [status |-> 0, ss |-> IF Differ(ct, again.ct) THEN Rejected(sk.d, ct) ELSE again.ss]
=============================================================================
