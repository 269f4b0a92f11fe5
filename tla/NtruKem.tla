------------------------------- MODULE NtruKem -------------------------------
(***************************************************************************)
(* NTRU+'s key pair, encapsulation and decapsulation (kem.c, the same in   *)
(* its three parameter sets) over polynomials of one coefficient.  The     *)
(* code compares, packs, reduces and hashes coefficient by coefficient or  *)
(* NTT slot by slot; multiplication there is multiplication modulo Q here. *)
(*                                                                         *)
(* A coefficient is an integer with the range the code gives it, a packed  *)
(* one a word of the width poly_frombytes reads (12 bits there).  hash_h's *)
(* and hash_g's coins are the functions of `oracle`, any functions; the    *)
(* secret is a tuple that names what it is hashed from, and hash_f of a    *)
(* public key that key.                                                    *)
(***************************************************************************)
EXTENDS Integers

CONSTANTS
  Q,        \* NTRUPLUS_Q
  Words     \* what poly_frombytes may read for a coefficient

ASSUME NtruAssumption ==
  /\ Q \in Nat /\ Q > 14 /\ Q % 2 = 1
  /\ \A a \in 2 .. Q - 1 : \A b \in 2 .. Q - 1 : (a * b) % Q # 0
  /\ 0 .. Q - 1 \subseteq Words /\ Words \subseteq Nat

Bits == {0, 1}
BitPairs == Bits \X Bits
Zeros == <<>>                        \* a secret of zero bytes

-----------------------------------------------------------------------------
(* Coefficients.                                                           *)
Xor(a, b) == (a + b) % 2
Cbd1(bits) == bits[1] - bits[2]
Reduced(a) == ((a + ((Q - 1) \div 2)) % Q) - ((Q - 1) \div 2)
BaseMul(a, b) == Reduced(a * b)
Invertible(a) == a % Q # 0
BaseInv(a) == CHOOSE b \in 1 .. Q - 1 : (a * b) % Q = 1

AddQ(a) == IF a < 0 THEN a + Q ELSE a           \* a + ((a >> 15) & Q)
ToBytes(a) == AddQ(a)
NonCanonical(word) == word >= Q                 \* poly_frombytes returns 1

(* The nearest multiple of three by a fixed-point reciprocal.              *)
NearestThird(a) == (10923 * a + 16384) \div 32768
NotCentred(a) == AddQ(a) - 3 * NearestThird(AddQ(a))
CRepMod3(a) ==
  LET centred == AddQ(AddQ(a) - ((Q + 1) \div 2)) - ((Q - 1) \div 2)
  IN centred - 3 * NearestThird(centred)

SotpEncode(msg, u) == Cbd1(<<Xor(u[1], msg), u[2]>>)
SotpFails(a, u) == a + u[2] \notin Bits
SotpMessage(a, u) == IF SotpFails(a, u) THEN 0 ELSE Xor(u[1], (a + u[2]) % 2)

-----------------------------------------------------------------------------
(* hash_h gives the coins of r for a message, hash_g those of m for r's    *)
(* bytes; r2 of a forged ciphertext may be bytes no r has.                 *)
RBytes == {ToBytes(-1), ToBytes(0), ToBytes(1)}
NtruOracles == [h : [Bits -> BitPairs], g : [RBytes -> BitPairs]]
HashG(oracle, bytes) == IF bytes \in RBytes THEN {oracle.g[bytes]} ELSE BitPairs

(* f = 3f' + 1 and g = 3g', both invertible (the loops of                  *)
(* crypto_kem_keypair draw until they are).                                *)
NtruKeyPair(f, g) ==
  LET pk == ToBytes(BaseMul(g, BaseInv(f)))
  IN [pk |-> pk, sk |-> [f |-> ToBytes(f), hinv |-> ToBytes(BaseMul(f, BaseInv(g))), hash |-> pk]]

NtruKeyPairs == {NtruKeyPair(3 * Cbd1(a) + 1, 3 * Cbd1(b)) :
  a \in {x \in BitPairs : Invertible(3 * Cbd1(x) + 1)}, b \in {x \in BitPairs : Invertible(3 * Cbd1(x))}}

(* crypto_kem_enc_derand.                                                  *)
NtruEncapsulate(oracle, pk, msg) ==
  IF NonCanonical(pk) THEN [status |-> 1, ct |-> 0, ss |-> Zeros]
  ELSE LET r == Cbd1(oracle.h[msg])
           m == SotpEncode(msg, oracle.g[ToBytes(r)])
       IN [status |-> 0, ct |-> ToBytes(Reduced(pk * r + m)), ss |-> <<"hash_h", msg, pk>>]

(* crypto_kem_dec; u is hash_g of r2's bytes.                              *)
OnlyKeyChecked(ct, sk) == NonCanonical(sk.f) \/ NonCanonical(sk.hinv)
UnpackingFails(ct, sk) == NonCanonical(ct) \/ NonCanonical(sk.f) \/ NonCanonical(sk.hinv)
M1(ct, sk) == CRepMod3(BaseMul(ct, sk.f))
R2Bytes(ct, sk) == ToBytes(BaseMul(ct - M1(ct, sk), sk.hinv))

NtruDecapsulate(oracle, ct, sk, u) ==
  LET msg == SotpMessage(M1(ct, sk), u)
      fail == \/ SotpFails(M1(ct, sk), u)
              \/ R2Bytes(ct, sk) # ToBytes(Cbd1(oracle.h[msg]))
  IN IF UnpackingFails(ct, sk) \/ fail
     THEN [status |-> 1, ss |-> Zeros]
     ELSE [status |-> 0, ss |-> <<"hash_h", msg, sk.hash>>]
=============================================================================
