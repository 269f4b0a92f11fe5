-------------------------- MODULE KemExchange_proof --------------------------
(***************************************************************************)
(* Both key encapsulations agree on one secret and open nothing else, for  *)
(* every modulus, key, message, noise and hash function the assumptions of *)
(* NtruKem and SmaugKem allow.  The first part is arithmetic modulo the    *)
(* modulus: what a decryption computes is congruent to the message plus a  *)
(* noise so small that rounding removes it.                                *)
(***************************************************************************)
EXTENDS KemExchange, FiniteSetTheorems, TLAPS

-----------------------------------------------------------------------------
(* Congruence modulo n.                                                    *)

Cong(n, x, y) == \E k \in Int : x = y + k * n

LEMMA CongRefl == ASSUME NEW n \in Nat, NEW x \in Int PROVE Cong(n, x, x)
<1>1. x = x + 0 * n
  OBVIOUS
<1> QED
  BY <1>1 DEF Cong

LEMMA CongSym ==
  ASSUME NEW n \in Nat, NEW x \in Int, NEW y \in Int, Cong(n, x, y)
  PROVE  Cong(n, y, x)
<1>1. PICK k \in Int : x = y + k * n
  BY DEF Cong
<1>2. y = x + (-k) * n /\ -k \in Int
  <2>1. (-k) * n = -(k * n) /\ k * n \in Int
    OBVIOUS
  <2> QED
    BY <1>1, <2>1
<1> QED
  BY <1>2 DEF Cong

LEMMA CongTrans ==
  ASSUME NEW n \in Nat, NEW x \in Int, NEW y \in Int, NEW z \in Int,
         Cong(n, x, y), Cong(n, y, z)
  PROVE  Cong(n, x, z)
<1>1. PICK k \in Int : x = y + k * n
  BY DEF Cong
<1>2. PICK l \in Int : y = z + l * n
  BY DEF Cong
<1>3. x = z + (k + l) * n /\ k + l \in Int
  <2>1. (k + l) * n = k * n + l * n
    OBVIOUS
  <2> QED
    BY <1>1, <1>2, <2>1
<1> QED
  BY <1>3 DEF Cong

LEMMA CongAdd ==
  ASSUME NEW n \in Nat, NEW x \in Int, NEW y \in Int, NEW v \in Int, NEW w \in Int,
         Cong(n, x, y), Cong(n, v, w)
  PROVE  Cong(n, x + v, y + w)
<1>1. PICK k \in Int : x = y + k * n
  BY DEF Cong
<1>2. PICK l \in Int : v = w + l * n
  BY DEF Cong
<1>3. x + v = (y + w) + (k + l) * n /\ k + l \in Int
  <2>1. (k + l) * n = k * n + l * n
    OBVIOUS
  <2> QED
    BY <1>1, <1>2, <2>1
<1> QED
  BY <1>3 DEF Cong

LEMMA CongTimes ==
  ASSUME NEW n \in Nat, NEW x \in Int, NEW y \in Int, NEW c \in Int, Cong(n, x, y)
  PROVE  Cong(n, x * c, y * c) /\ Cong(n, c * x, c * y)
<1>1. PICK k \in Int : x = y + k * n
  BY DEF Cong
<1>2. x * c = y * c + (k * c) * n /\ k * c \in Int
  <2>1. (k * n) * c = (k * c) * n /\ (y + k * n) * c = y * c + (k * n) * c
    OBVIOUS
  <2> QED
    BY <1>1, <2>1
<1>3. Cong(n, x * c, y * c)
  BY <1>2 DEF Cong
<1> QED
  BY <1>3

LEMMA CongOne ==
  ASSUME NEW n \in Nat, NEW x \in Int, NEW c \in Int, Cong(n, x, 1)
  PROVE  Cong(n, x * c, c) /\ Cong(n, c * x, c)
<1>1. PICK k \in Int : x = 1 + k * n
  BY DEF Cong
<1>2. x * c = c + (k * c) * n /\ c * x = x * c /\ k * c \in Int
  <2>1. (k * n) * c = (k * c) * n /\ (1 + k * n) * c = c + (k * n) * c
    OBVIOUS
  <2> QED
    BY <1>1, <2>1
<1> QED
  BY <1>2 DEF Cong

LEMMA CongMul ==
  ASSUME NEW n \in Nat, NEW x \in Int, NEW y \in Int, NEW v \in Int, NEW w \in Int,
         Cong(n, x, y), Cong(n, v, w)
  PROVE  Cong(n, x * v, y * w)
<1>1. Cong(n, x * v, y * v) /\ Cong(n, y * v, y * w)
  BY CongTimes
<1>2. x * v \in Int /\ y * v \in Int /\ y * w \in Int
  OBVIOUS
<1> QED
  BY <1>1, <1>2, CongTrans

LEMMA CongSub ==
  ASSUME NEW n \in Nat, NEW x \in Int, NEW y \in Int, NEW v \in Int, NEW w \in Int,
         Cong(n, x, y), Cong(n, v, w)
  PROVE  Cong(n, x - v, y - w)
<1>1. -1 \in Int /\ v * (-1) = -v /\ w * (-1) = -w
  OBVIOUS
<1>2. Cong(n, v * (-1), w * (-1))
  BY <1>1, CongTimes
<1>3. Cong(n, x + (-v), y + (-w))
  BY <1>1, <1>2, CongAdd
<1> QED
  BY <1>3

LEMMA DivMod ==
  ASSUME NEW x \in Int, NEW n \in Nat, n > 0
  PROVE  x \div n \in Int /\ x % n \in 0 .. n - 1 /\ x = (x \div n) * n + (x % n)
OBVIOUS

LEMMA CongMod ==
  ASSUME NEW n \in Nat, n > 0, NEW x \in Int
  PROVE  x % n \in 0 .. n - 1 /\ Cong(n, x % n, x)
<1>1. x % n \in 0 .. n - 1 /\ x \div n \in Int /\ x = (x \div n) * n + (x % n)
  OBVIOUS
<1>2. x % n = x + (-(x \div n)) * n
  <2> DEFINE q == x \div n
  <2>1. (-q) * n = -(q * n) /\ q * n \in Int
    BY <1>1
  <2> HIDE DEF q
  <2> QED
    BY <1>1, <2>1 DEF q
<1> QED
  BY <1>1, <1>2 DEF Cong

(* Two numbers less than n apart are congruent only if they are equal.     *)
LEMMA CongUnique ==
  ASSUME NEW n \in Nat, NEW x \in Int, NEW y \in Int, Cong(n, x, y),
         x - y < n, y - x < n
  PROVE  x = y
<1>1. PICK k \in Int : x = y + k * n
  BY DEF Cong
<1>2. ~ (k >= 1)
  <2> SUFFICES ASSUME k >= 1 PROVE FALSE
    OBVIOUS
  <2>1. k * n >= 1 * n
    OBVIOUS
  <2> QED
    BY <1>1, <2>1
<1>3. ~ (k <= -1)
  <2> SUFFICES ASSUME k <= -1 PROVE FALSE
    OBVIOUS
  <2>1. (-k) * n >= 1 * n
    OBVIOUS
  <2>2. (-k) * n = -(k * n) /\ k * n \in Int
    OBVIOUS
  <2> QED
    BY <1>1, <2>1, <2>2
<1>4. k = 0
  BY <1>2, <1>3
<1> QED
  BY <1>1, <1>4

LEMMA CongModEqual ==
  ASSUME NEW n \in Nat, n > 0, NEW x \in Int, NEW y \in Int, Cong(n, x, y)
  PROVE  x % n = y % n
<1>1. /\ x % n \in 0 .. n - 1 /\ Cong(n, x % n, x)
      /\ y % n \in 0 .. n - 1 /\ Cong(n, y % n, y)
  BY CongMod
<1>2. Cong(n, y, y % n)
  BY <1>1, CongSym
<1>3. Cong(n, x % n, y)
  BY <1>1, CongTrans
<1>4. Cong(n, x % n, y % n)
  BY <1>1, <1>2, <1>3, CongTrans
<1> QED
  BY <1>1, <1>4, CongUnique

-----------------------------------------------------------------------------
(* NTRU+: coefficients modulo Q.                                           *)

Half == (Q - 1) \div 2

LEMMA QFacts ==
  /\ Q \in Nat /\ Q > 14 /\ Half \in Nat /\ Half >= 7
  /\ Q = 2 * Half + 1 /\ (Q + 1) \div 2 = Half + 1
BY NtruAssumption DEF Half

LEMMA NoZeroDivisors ==
  ASSUME NEW a \in Int, NEW b \in Int, a % Q # 0, b \in 1 .. Q - 1
  PROVE  (a * b) % Q # 0
<1> DEFINE c == a % Q
<1>a. Q \in Nat /\ Q > 0 /\ b \in Int
  BY QFacts
<1>b. c \in 0 .. Q - 1 /\ Cong(Q, c, a)
  BY <1>a, CongMod
<1>1. c \in 1 .. Q - 1 /\ c \in Int
  BY <1>a, <1>b
<1> HIDE DEF c
<1>2. (c * b) % Q = (a * b) % Q
  <2>1. Cong(Q, c * b, a * b)
    BY <1>a, <1>b, <1>1, CongTimes
  <2>2. c * b \in Int /\ a * b \in Int
    BY <1>a, <1>1
  <2> QED
    BY <1>a, <2>1, <2>2, CongModEqual
<1>3. (c * b) % Q # 0
  <2>1. CASE c = 1
    <3>1. c * b = b /\ b % Q = b
      BY <2>1, QFacts
    <3> QED
      BY <3>1
  <2>2. CASE b = 1
    <3>1. c * b = c /\ c % Q = c
      BY <1>1, <2>2, QFacts
    <3> QED
      BY <1>1, <3>1
  <2>3. CASE c # 1 /\ b # 1
    <3>1. c \in 2 .. Q - 1 /\ b \in 2 .. Q - 1
      BY <1>1, <2>3, QFacts
    <3> QED
      BY <3>1, NtruAssumption
  <2> QED
    BY <2>1, <2>2, <2>3
<1> QED
  BY <1>2, <1>3

(* Two multiples of an invertible number differ.                           *)
LEMMA Cancels ==
  ASSUME NEW a \in Int, a % Q # 0, NEW x \in 1 .. Q - 1, NEW y \in 1 .. Q - 1, x > y
  PROVE  (a * x) % Q # (a * y) % Q
<1> SUFFICES ASSUME (a * x) % Q = (a * y) % Q
             PROVE  FALSE
  OBVIOUS
<1> DEFINE P == a * x
           R == a * y
           d == x - y
<1>1. /\ P \in Int /\ R \in Int /\ d \in 1 .. Q - 1 /\ d \in Int
      /\ Q \in Nat /\ Q > 0
  BY QFacts
<1>2. a * d = P - R /\ a * d \in Int
  OBVIOUS
<1>3. P % Q = R % Q
  OBVIOUS
<1> HIDE DEF P, R, d
<1>4. P % Q \in 0 .. Q - 1 /\ Cong(Q, P % Q, P) /\ Cong(Q, R % Q, R)
  BY <1>1, CongMod
<1>5. P % Q \in Int
  BY <1>1, <1>4
<1>6. Cong(Q, P, P % Q) /\ Cong(Q, P % Q, R)
  BY <1>1, <1>3, <1>4, <1>5, CongSym
<1>7. Cong(Q, P, R)
  BY <1>1, <1>5, <1>6, CongTrans
<1>8. Cong(Q, R, R)
  BY <1>1, CongRefl
<1>9. Cong(Q, P - R, R - R)
  BY <1>1, <1>7, <1>8, CongSub
<1>10. Cong(Q, a * d, 0)
  BY <1>1, <1>2, <1>9
<1>11. (a * d) % Q = 0 % Q
  BY <1>1, <1>2, <1>10, CongModEqual
<1>12. 0 % Q = 0
  BY <1>1
<1> QED
  BY <1>1, <1>11, <1>12, NoZeroDivisors

LEMMA InverseFacts ==
  ASSUME NEW a \in Int, Invertible(a)
  PROVE  BaseInv(a) \in 1 .. Q - 1 /\ Cong(Q, a * BaseInv(a), 1)
<1> DEFINE D1 == 1 .. Q - 1
           E1 == 2 .. Q - 1
           g == [x \in D1 |-> (a * x) % Q]
<1>1. a % Q # 0
  BY DEF Invertible
<1>2. \E b \in D1 : (a * b) % Q = 1
  <2> SUFFICES ASSUME \A b \in D1 : (a * b) % Q # 1
               PROVE  FALSE
    OBVIOUS
  <2>1. \A b \in D1 : (a * b) % Q \in E1
    <3> SUFFICES ASSUME NEW b \in D1
                 PROVE  (a * b) % Q \in E1
      OBVIOUS
    <3>1. a * b \in Int /\ b \in Int /\ b \in 1 .. Q - 1
      BY QFacts
    <3>2. (a * b) % Q \in 0 .. Q - 1
      BY <3>1, CongMod, QFacts
    <3>3. (a * b) % Q # 0 /\ (a * b) % Q # 1
      BY <1>1, <3>1, NoZeroDivisors
    <3> QED
      BY <3>2, <3>3, QFacts
  <2>2. g \in [D1 -> E1]
    BY <2>1
  <2>3. /\ IsFiniteSet(D1) /\ Cardinality(D1) = Q - 1
        /\ IsFiniteSet(E1) /\ Cardinality(E1) = Q - 2
    <3>1. Q - 1 \in Int /\ ~ (1 > Q - 1) /\ ~ (2 > Q - 1) /\ Q - 1 - 1 + 1 = Q - 1
          /\ Q - 1 - 2 + 1 = Q - 2
      BY QFacts
    <3> QED
      BY <3>1, FS_Interval
  <2>4. Cardinality(E1) < Cardinality(D1)
    BY <2>3, QFacts
  <2> HIDE DEF D1, E1, g
  <2>5. PICK x, y \in D1 : x # y /\ g[x] = g[y]
    BY <2>2, <2>3, <2>4, FS_PigeonHole
  <2>6. (a * x) % Q = (a * y) % Q
    BY <2>5 DEF g
  <2>7. x \in 1 .. Q - 1 /\ y \in 1 .. Q - 1 /\ (x > y \/ y > x)
    BY <2>5, QFacts DEF D1
  <2> QED
    BY <1>1, <2>6, <2>7, Cancels
<1>3. BaseInv(a) \in 1 .. Q - 1 /\ (a * BaseInv(a)) % Q = 1
  BY <1>2 DEF BaseInv
<1>4. a * BaseInv(a) \in Int
  BY <1>3
<1> DEFINE P == a * BaseInv(a)
<1>5. P \in Int /\ P % Q = 1 /\ Q \in Nat /\ Q > 0
  BY <1>3, <1>4, QFacts
<1> HIDE DEF P
<1>6. Cong(Q, 1, P)
  BY <1>5, CongMod
<1>7. Cong(Q, P, 1)
  BY <1>5, <1>6, CongSym
<1> QED
  BY <1>3, <1>7 DEF P

LEMMA ReducedFacts ==
  ASSUME NEW a \in Int
  PROVE  Reduced(a) \in -Half .. Half /\ Cong(Q, Reduced(a), a)
<1>1. (a + Half) % Q \in 0 .. Q - 1 /\ Cong(Q, (a + Half) % Q, a + Half)
  BY CongMod, QFacts
<1>2. Cong(Q, ((a + Half) % Q) - Half, (a + Half) - Half)
  BY <1>1, CongRefl, CongSub, QFacts
<1>3. (a + Half) - Half = a /\ Reduced(a) = ((a + Half) % Q) - Half
  BY QFacts DEF Reduced, Half
<1> QED
  BY <1>1, <1>2, <1>3, QFacts

LEMMA ToBytesFacts ==
  ASSUME NEW a \in -Half .. Half
  PROVE  ToBytes(a) \in 0 .. Q - 1 /\ Cong(Q, ToBytes(a), a)
<1>1. a \in Int /\ ToBytes(a) \in 0 .. Q - 1
  BY QFacts DEF ToBytes, AddQ
<1>2. CASE a < 0
  <2>1. ToBytes(a) = a + 1 * Q
    BY <1>2, QFacts DEF ToBytes, AddQ
  <2> QED
    BY <1>1, <2>1 DEF Cong
<1>3. CASE ~ (a < 0)
  <2>1. ToBytes(a) = a
    BY <1>3 DEF ToBytes, AddQ
  <2> QED
    BY <1>1, <2>1, CongRefl, QFacts
<1> QED
  BY <1>1, <1>2, <1>3

(* Two coefficients of the range Reduced gives are equal when congruent.   *)
LEMMA CentredUnique ==
  ASSUME NEW x \in -Half .. Half, NEW y \in -Half .. Half, Cong(Q, x, y)
  PROVE  x = y
<1>1. x \in Int /\ y \in Int /\ x - y < Q /\ y - x < Q /\ Q \in Nat
  BY QFacts
<1> QED
  BY <1>1, CongUnique

LEMMA ReducedUnique ==
  ASSUME NEW a \in Int, NEW y \in -Half .. Half, Cong(Q, a, y)
  PROVE  Reduced(a) = y
<1>1. Reduced(a) \in -Half .. Half /\ Cong(Q, Reduced(a), a)
  BY ReducedFacts
<1>2. Reduced(a) \in Int /\ y \in Int /\ Q \in Nat
  BY <1>1, QFacts
<1>3. Cong(Q, Reduced(a), y)
  BY <1>1, <1>2, CongTrans
<1> HIDE DEF Half
<1> QED
  BY <1>1, <1>3, CentredUnique

(* ToBytes of Reduced: what a packed product is.                           *)
LEMMA PackedFacts ==
  ASSUME NEW a \in Int
  PROVE  ToBytes(Reduced(a)) \in 0 .. Q - 1 /\ Cong(Q, ToBytes(Reduced(a)), a)
<1> DEFINE x == Reduced(a)
           y == ToBytes(x)
<1>1. x \in -Half .. Half /\ Cong(Q, x, a)
  BY ReducedFacts
<1> HIDE DEF x
<1>2. y \in 0 .. Q - 1 /\ Cong(Q, y, x)
  BY <1>1, ToBytesFacts
<1> HIDE DEF y
<1>3. x \in Int /\ y \in Int /\ Q \in Nat
  BY <1>1, <1>2, QFacts
<1>4. Cong(Q, y, a)
  BY <1>1, <1>2, <1>3, CongTrans
<1> QED
  BY <1>2, <1>4 DEF x, y

-----------------------------------------------------------------------------
(* A key pair: f is 3 * f1 + 1, the public key times f is 3 * g1, and hinv *)
(* is the public key's inverse, all modulo Q.                              *)
Fits(pk, sk, f1, g1) ==
  /\ pk \in 0 .. Q - 1 /\ sk.f \in 0 .. Q - 1 /\ sk.hinv \in 0 .. Q - 1
  /\ sk.hash = pk
  /\ f1 \in -1 .. 1 /\ g1 \in -1 .. 1
  /\ Cong(Q, sk.f, 3 * f1 + 1)
  /\ Cong(Q, pk * (3 * f1 + 1), 3 * g1)
  /\ Cong(Q, sk.hinv * pk, 1)

LEMMA Cbd1Facts ==
  ASSUME NEW bits \in BitPairs
  PROVE  Cbd1(bits) \in -1 .. 1
BY DEF BitPairs, Bits, Cbd1

LEMMA NtruKeyFits ==
  ASSUME NEW p \in NtruKeyPairs
  PROVE  \E f1, g1 \in -1 .. 1 : Fits(p.pk, p.sk, f1, g1)
<1>1. PICK a \in BitPairs, b \in BitPairs :
        /\ Invertible(3 * Cbd1(a) + 1) /\ Invertible(3 * Cbd1(b))
        /\ p = NtruKeyPair(3 * Cbd1(a) + 1, 3 * Cbd1(b))
  BY DEF NtruKeyPairs
<1> DEFINE f1 == Cbd1(a)
           g1 == Cbd1(b)
           f == 3 * f1 + 1
           g == 3 * g1
           fi == BaseInv(f)
           gi == BaseInv(g)
           pk == ToBytes(Reduced(g * fi))
           hinv == ToBytes(Reduced(f * gi))
           sf == ToBytes(f)
<1>2. f1 \in -1 .. 1 /\ g1 \in -1 .. 1
  BY Cbd1Facts
<1>3. p.pk = pk /\ p.sk.f = sf /\ p.sk.hinv = hinv /\ p.sk.hash = pk
  BY <1>1 DEF NtruKeyPair, BaseMul
<1>4. Invertible(f) /\ Invertible(g)
  BY <1>1
<1> HIDE DEF f1, g1
<1>5. f \in -2 .. 4 /\ g \in -3 .. 3
  BY <1>2
<1>6. Q \in Nat /\ f \in Int /\ g \in Int /\ f \in -Half .. Half
  BY <1>5, QFacts
<1> HIDE DEF f, g
<1>7. /\ fi \in 1 .. Q - 1 /\ Cong(Q, f * fi, 1)
      /\ gi \in 1 .. Q - 1 /\ Cong(Q, g * gi, 1)
  BY <1>4, <1>6, InverseFacts
<1>8. fi \in Int /\ gi \in Int
  BY <1>6, <1>7
<1> HIDE DEF fi, gi
<1>9. g * fi \in Int /\ f * gi \in Int /\ f * fi \in Int /\ g * gi \in Int
  BY <1>6, <1>8
<1>10. /\ pk \in 0 .. Q - 1 /\ Cong(Q, pk, g * fi)
       /\ hinv \in 0 .. Q - 1 /\ Cong(Q, hinv, f * gi)
  BY <1>9, PackedFacts
<1>11. sf \in 0 .. Q - 1 /\ Cong(Q, sf, f)
  BY <1>6, ToBytesFacts
<1> HIDE DEF pk, hinv, sf
<1>12. pk \in Int /\ hinv \in Int
  BY <1>6, <1>10
<1>13. pk * f \in Int /\ hinv * pk \in Int
  BY <1>6, <1>12
<1>14. Cong(Q, pk * f, g)
  <2> DEFINE P == f * fi
  <2>1. Cong(Q, pk * f, (g * fi) * f)
    BY <1>6, <1>9, <1>10, <1>12, CongTimes
  <2>2. (g * fi) * f = g * P
    BY <1>6, <1>8, <1>9
  <2>3. P \in Int /\ Cong(Q, P, 1)
    BY <1>7, <1>9
  <2> HIDE DEF P
  <2>4. Cong(Q, g * P, g)
    BY <1>6, <2>3, CongOne
  <2>5. Cong(Q, pk * f, g * P) /\ Cong(Q, g * P, g) /\ g * P \in Int
    BY <1>6, <2>1, <2>2, <2>3, <2>4
  <2> QED
    BY <1>6, <1>13, <2>5, CongTrans
<1>15. Cong(Q, hinv * pk, 1)
  <2> DEFINE P == f * fi
             R == g * gi
  <2>1. Cong(Q, hinv * pk, (f * gi) * (g * fi))
    BY <1>6, <1>9, <1>10, <1>12, CongMul
  <2>2. (f * gi) * (g * fi) = P * R
    BY <1>6, <1>8
  <2>3. P \in Int /\ R \in Int /\ Cong(Q, P, 1) /\ Cong(Q, R, 1)
    BY <1>7, <1>9
  <2> HIDE DEF P, R
  <2>4. Cong(Q, P * R, 1 * 1) /\ P * R \in Int /\ 1 * 1 = 1
    BY <1>6, <2>3, CongMul
  <2>5. Cong(Q, hinv * pk, P * R) /\ Cong(Q, P * R, 1)
    BY <2>1, <2>2, <2>4
  <2> QED
    BY <1>6, <1>13, <2>4, <2>5, CongTrans
<1>16. Fits(p.pk, p.sk, f1, g1)
  BY <1>2, <1>3, <1>10, <1>11, <1>14, <1>15 DEF Fits, f, g
<1> QED
  BY <1>2, <1>16

-----------------------------------------------------------------------------
(* What crypto_kem_dec recovers.                                           *)

(* poly_crepmod3 reduces a centred coefficient of at most 7 to -1, 0, 1.   *)
LEMMA CRepMod3Facts ==
  ASSUME NEW k \in -2 .. 2, NEW m \in -1 .. 1
  PROVE  CRepMod3(3 * k + m) = m
<1> DEFINE v == 3 * k + m
           up == AddQ(v)
           down == AddQ(up - ((Q + 1) \div 2)) - ((Q - 1) \div 2)
<1>1. v \in -7 .. 7 /\ v = 3 * k + m
  OBVIOUS
<1>2. NearestThird(v) = k
  <2>1. 10923 * v + 16384 = k * 32768 + (k + 10923 * m + 16384)
    OBVIOUS
  <2>2. m = -1 \/ m = 0 \/ m = 1
    OBVIOUS
  <2> DEFINE rest == k + 10923 * m + 16384
  <2>3. rest = k + 5461 \/ rest = k + 16384 \/ rest = k + 27307
    BY <2>2
  <2> HIDE DEF v, up, down, rest
  <2>4. rest \in Int /\ rest >= 0 /\ rest < 32768
    BY <2>3
  <2>5. 10923 * v + 16384 = k * 32768 + rest
    BY <2>1 DEF v, rest
  <2> QED
    BY <2>4, <2>5 DEF NearestThird
<1> HIDE DEF v
<1>3. down = v
  BY <1>1, QFacts DEF AddQ, Half
<1>4. CRepMod3(v) = down - 3 * NearestThird(down)
  BY DEF CRepMod3
<1> HIDE DEF down
<1>5. CRepMod3(v) = v - 3 * k
  BY <1>2, <1>3, <1>4
<1>6. CRepMod3(v) = m
  BY <1>1, <1>5
<1> QED
  BY <1>6 DEF v

LEMMA Decrypts ==
  ASSUME NEW pk, NEW sk, NEW f1, NEW g1, Fits(pk, sk, f1, g1),
         NEW r \in -1 .. 1, NEW m \in -1 .. 1,
         NEW c \in Int, Cong(Q, c, pk * r + m)
  PROVE  M1(c, sk) = m /\ R2Bytes(c, sk) = ToBytes(r)
<1> DEFINE F == 3 * f1 + 1
           G == 3 * g1
           sf == sk.f
           hinv == sk.hinv
           k == g1 * r + m * f1
<1>1. /\ pk \in 0 .. Q - 1 /\ sf \in 0 .. Q - 1 /\ hinv \in 0 .. Q - 1
      /\ f1 \in -1 .. 1 /\ g1 \in -1 .. 1
      /\ Cong(Q, sf, F) /\ Cong(Q, pk * F, G) /\ Cong(Q, hinv * pk, 1)
  BY DEF Fits
<1>2. /\ Q \in Nat /\ pk \in Int /\ sf \in Int /\ hinv \in Int /\ F \in Int /\ G \in Int
      /\ r \in Int /\ m \in Int
  BY <1>1, QFacts
<1>3. k \in -2 .. 2 /\ G * r + m * F = 3 * k + m
  <2>1. g1 * r \in -1 .. 1 /\ m * f1 \in -1 .. 1
    <3>1. r = -1 \/ r = 0 \/ r = 1
      OBVIOUS
    <3>2. m = -1 \/ m = 0 \/ m = 1
      OBVIOUS
    <3> QED
      BY <1>1, <3>1, <3>2
  <2>2. G * r = 3 * (g1 * r) /\ m * F = 3 * (m * f1) + m
    BY <1>1
  <2> QED
    BY <2>1, <2>2
<1>4. 3 * k + m \in -Half .. Half
  BY <1>3, QFacts
<1> HIDE DEF F, G, k, sf, hinv
<1>5. /\ pk * r \in Int /\ pk * r + m \in Int /\ c * sf \in Int /\ pk * F \in Int
      /\ (pk * F) * r \in Int /\ G * r \in Int /\ m * F \in Int /\ hinv * pk \in Int
  BY <1>2
<1>6. Cong(Q, c * sf, 3 * k + m)
  <2> DEFINE P == pk * F
             W == pk * r + m
  <2>1. P \in Int /\ W \in Int /\ Cong(Q, c, W) /\ Cong(Q, P, G)
    BY <1>1, <1>5
  <2>2. W * F = P * r + m * F
    BY <1>2
  <2> HIDE DEF P, W
  <2>3. Cong(Q, c * sf, W * F) /\ W * F \in Int
    BY <1>1, <1>2, <2>1, CongMul
  <2>4. Cong(Q, P * r, G * r)
    BY <1>2, <2>1, CongTimes
  <2>5. Cong(Q, m * F, m * F)
    BY <1>2, <1>5, CongRefl
  <2> DEFINE X == P * r
             Y == G * r
             Z == m * F
  <2>6. X \in Int /\ Y \in Int /\ Z \in Int /\ Cong(Q, X, Y) /\ Cong(Q, Z, Z)
    BY <1>2, <1>5, <2>1, <2>4, <2>5
  <2>7. W * F = X + Z /\ 3 * k + m = Y + Z
    BY <1>3, <2>2
  <2> HIDE DEF X, Y, Z
  <2>8. Cong(Q, X + Z, Y + Z)
    BY <1>2, <2>6, CongAdd
  <2>9. Cong(Q, W * F, 3 * k + m) /\ 3 * k + m \in Int
    BY <2>6, <2>7, <2>8
  <2> QED
    BY <1>2, <1>5, <2>3, <2>9, CongTrans
<1>7. BaseMul(c, sf) = 3 * k + m
  BY <1>4, <1>5, <1>6, ReducedUnique DEF BaseMul
<1>8. M1(c, sk) = m
  BY <1>3, <1>7, CRepMod3Facts DEF M1, sf
<1>9. Cong(Q, (c - m) * hinv, r)
  <2> DEFINE W == pk * r
             I == hinv * pk
             e == c - m
  <2>1. /\ W \in Int /\ I \in Int /\ Cong(Q, I, 1) /\ Cong(Q, c, W + m)
        /\ e = c - m /\ e \in Int /\ W = (W + m) - m /\ W + m \in Int
        /\ W * hinv = I * r
    BY <1>1, <1>2, <1>5
  <2> HIDE DEF W, I, e
  <2>2. Cong(Q, m, m)
    BY <1>2, CongRefl
  <2>3. Cong(Q, c - m, (W + m) - m)
    BY <1>2, <2>1, <2>2, CongSub
  <2>4. Cong(Q, e, W)
    BY <2>1, <2>3
  <2>5. Cong(Q, e * hinv, W * hinv)
    BY <1>2, <2>1, <2>4, CongTimes
  <2>6. Cong(Q, I * r, r)
    BY <1>2, <2>1, CongOne
  <2>7. Cong(Q, W * hinv, r) /\ e * hinv \in Int /\ W * hinv \in Int
    BY <1>2, <2>1, <2>6
  <2>8. Cong(Q, e * hinv, r)
    BY <1>2, <2>5, <2>7, CongTrans
  <2> QED
    BY <2>8 DEF e
<1>10. BaseMul(c - M1(c, sk), hinv) = r
  <2>1. r \in -Half .. Half /\ (c - m) * hinv \in Int
    BY <1>2, QFacts
  <2> QED
    BY <1>8, <1>9, <2>1, ReducedUnique DEF BaseMul
<1> QED
  BY <1>8, <1>10 DEF R2Bytes, hinv

(* SOTP undone: the message comes back, and a coefficient that SOTP accepts*)
(* is the encoding of the message it is read as.                           *)
LEMMA SotpFacts ==
  ASSUME NEW u \in BitPairs
  PROVE  /\ \A msg \in Bits :
              LET m == SotpEncode(msg, u)
              IN m \in -1 .. 1 /\ ~SotpFails(m, u) /\ SotpMessage(m, u) = msg
         /\ \A a \in Int : ~SotpFails(a, u) =>
              SotpMessage(a, u) \in Bits /\ SotpEncode(SotpMessage(a, u), u) = a
<1>1. PICK x \in Bits, y \in Bits : u = <<x, y>>
  BY DEF BitPairs
<1>2. u[1] = x /\ u[2] = y /\ (x = 0 \/ x = 1) /\ (y = 0 \/ y = 1)
  BY <1>1 DEF Bits
<1>3. ASSUME NEW msg \in Bits
      PROVE  LET m == SotpEncode(msg, u)
             IN m \in -1 .. 1 /\ ~SotpFails(m, u) /\ SotpMessage(m, u) = msg
  <2>1. msg = 0 \/ msg = 1
    BY DEF Bits
  <2>2. SotpEncode(msg, u) = Xor(x, msg) - y
    BY <1>2 DEF SotpEncode, Cbd1
  <2>3. Xor(x, msg) \in {0, 1} /\ Xor(x, Xor(x, msg)) = msg
    BY <1>2, <2>1 DEF Xor
  <2> DEFINE m == Xor(x, msg) - y
  <2>4. m + y = Xor(x, msg) /\ m \in -1 .. 1 /\ (m + y) % 2 = Xor(x, msg)
    BY <1>2, <2>3
  <2>5. ~SotpFails(m, u) /\ SotpMessage(m, u) = msg
    BY <1>2, <2>3, <2>4 DEF SotpFails, SotpMessage, Bits
  <2> QED
    BY <2>2, <2>4, <2>5
<1>4. ASSUME NEW a \in Int, ~SotpFails(a, u)
      PROVE  SotpMessage(a, u) \in Bits /\ SotpEncode(SotpMessage(a, u), u) = a
  <2> DEFINE b == a + y
  <2>1. b = 0 \/ b = 1
    BY <1>2, <1>4 DEF SotpFails, Bits
  <2>2. SotpMessage(a, u) = Xor(x, b)
    <3>1. b % 2 = b
      BY <2>1
    <3> QED
      BY <1>2, <1>4, <3>1 DEF SotpMessage
  <2>3. a = b - y
    BY <1>2
  <2> HIDE DEF b
  <2>4. Xor(x, b) \in {0, 1} /\ Xor(x, Xor(x, b)) = b
    BY <1>2, <2>1 DEF Xor
  <2>5. SotpEncode(Xor(x, b), u) = b - y
    BY <1>2, <2>4 DEF SotpEncode, Cbd1
  <2> QED
    BY <2>2, <2>3, <2>4, <2>5 DEF Bits
<1> QED
  BY <1>3, <1>4

(* What an encapsulation to a canonical key holds.                         *)
LEMMA NtruMade ==
  ASSUME NEW o \in NtruOracles, NEW pk \in 0 .. Q - 1, NEW msg \in Bits
  PROVE  LET r == Cbd1(o.h[msg])
             m == SotpEncode(msg, o.g[ToBytes(r)])
             e == NtruEncapsulate(o, pk, msg)
         IN /\ r \in -1 .. 1 /\ ToBytes(r) \in RBytes /\ o.g[ToBytes(r)] \in BitPairs
            /\ m \in -1 .. 1
            /\ e.status = 0 /\ e.ss = <<"hash_h", msg, pk>>
            /\ e.ct \in 0 .. Q - 1 /\ Cong(Q, e.ct, pk * r + m)
<1> DEFINE r == Cbd1(o.h[msg])
           m == SotpEncode(msg, o.g[ToBytes(r)])
           e == NtruEncapsulate(o, pk, msg)
<1>1. o.h \in [Bits -> BitPairs] /\ o.g \in [RBytes -> BitPairs]
  BY DEF NtruOracles
<1>2. o.h[msg] \in BitPairs
  BY <1>1
<1>3. r \in -1 .. 1
  BY <1>2, Cbd1Facts
<1>4. ~NonCanonical(pk)
  BY QFacts DEF NonCanonical
<1>5. e = [status |-> 0, ct |-> ToBytes(Reduced(pk * r + m)), ss |-> <<"hash_h", msg, pk>>]
  BY <1>4 DEF NtruEncapsulate
<1> HIDE DEF r
<1>6. ToBytes(r) \in RBytes
  <2>1. r = -1 \/ r = 0 \/ r = 1
    BY <1>3
  <2> QED
    BY <2>1 DEF RBytes
<1>7. o.g[ToBytes(r)] \in BitPairs
  BY <1>1, <1>6
<1>8. m \in -1 .. 1
  BY <1>7, SotpFacts
<1> HIDE DEF m
<1>9. pk * r + m \in Int
  <2>1. pk \in Int /\ r \in Int /\ m \in Int
    BY <1>3, <1>8, QFacts
  <2> QED
    BY <2>1
<1>10. ToBytes(Reduced(pk * r + m)) \in 0 .. Q - 1
       /\ Cong(Q, ToBytes(Reduced(pk * r + m)), pk * r + m)
  BY <1>9, PackedFacts
<1> HIDE DEF e
<1> QED
  BY <1>3, <1>5, <1>6, <1>7, <1>8, <1>10 DEF r, m, e

(* crypto_kem_dec opens what crypto_kem_enc made for the key.              *)
LEMMA NtruOpens ==
  ASSUME NEW o \in NtruOracles, NEW pk, NEW sk, NEW f1, NEW g1, Fits(pk, sk, f1, g1),
         NEW msg \in Bits,
         NEW u \in HashG(o, R2Bytes(NtruEncapsulate(o, pk, msg).ct, sk))
  PROVE  NtruDecapsulate(o, NtruEncapsulate(o, pk, msg).ct, sk, u)
           = [status |-> 0, ss |-> NtruEncapsulate(o, pk, msg).ss]
<1> DEFINE r == Cbd1(o.h[msg])
           v == o.g[ToBytes(r)]
           m == SotpEncode(msg, v)
           e == NtruEncapsulate(o, pk, msg)
           c == e.ct
<1>1. pk \in 0 .. Q - 1 /\ sk.f \in 0 .. Q - 1 /\ sk.hinv \in 0 .. Q - 1 /\ sk.hash = pk
  BY DEF Fits
<1>2. /\ r \in -1 .. 1 /\ ToBytes(r) \in RBytes /\ v \in BitPairs /\ m \in -1 .. 1
      /\ e.ss = <<"hash_h", msg, pk>>
      /\ c \in 0 .. Q - 1 /\ Cong(Q, c, pk * r + m)
  BY <1>1, NtruMade
<1>3. ~SotpFails(m, v) /\ SotpMessage(m, v) = msg
  BY <1>2, SotpFacts
<1> HIDE DEF e, m
<1>4. c \in Int
  BY <1>2, QFacts
<1> HIDE DEF c
<1>5. M1(c, sk) = m /\ R2Bytes(c, sk) = ToBytes(r)
  <2> HIDE DEF r, v
  <2> QED
    BY <1>2, <1>4, Decrypts
<1>6. u = v
  BY <1>2, <1>5 DEF HashG, c, e
<1>7. ~UnpackingFails(c, sk)
  BY <1>1, <1>2, QFacts DEF UnpackingFails, NonCanonical
<1>8. NtruDecapsulate(o, c, sk, u) = [status |-> 0, ss |-> <<"hash_h", msg, sk.hash>>]
  BY <1>3, <1>5, <1>6, <1>7 DEF NtruDecapsulate
<1> QED
  BY <1>1, <1>2, <1>8 DEF c, e

(* What crypto_kem_dec accepts, crypto_kem_enc made: the ciphertext is the *)
(* encapsulation of the message it is read as.                             *)
LEMMA NtruAccepts ==
  ASSUME NEW o \in NtruOracles, NEW pk, NEW sk, NEW f1, NEW g1, Fits(pk, sk, f1, g1),
         NEW c \in Words, NEW u \in HashG(o, R2Bytes(c, sk)),
         NtruDecapsulate(o, c, sk, u) # [status |-> 1, ss |-> Zeros]
  PROVE  \E msg \in Bits : LET e == NtruEncapsulate(o, pk, msg)
                           IN /\ e.ct = c
                              /\ NtruDecapsulate(o, c, sk, u) = [status |-> 0, ss |-> e.ss]
<1> DEFINE a == M1(c, sk)
           hinv == sk.hinv
           x == BaseMul(c - a, hinv)
           msg == SotpMessage(a, u)
           r == Cbd1(o.h[msg])
           e == NtruEncapsulate(o, pk, msg)
<1>1. /\ Q \in Nat /\ pk \in 0 .. Q - 1 /\ sk.f \in 0 .. Q - 1 /\ hinv \in 0 .. Q - 1
      /\ sk.hash = pk /\ Cong(Q, hinv * pk, 1)
  BY QFacts DEF Fits
<1>2. /\ ~UnpackingFails(c, sk) /\ ~SotpFails(a, u) /\ R2Bytes(c, sk) = ToBytes(r)
      /\ NtruDecapsulate(o, c, sk, u) = [status |-> 0, ss |-> <<"hash_h", msg, sk.hash>>]
  BY DEF NtruDecapsulate
<1>3. c \in 0 .. Q - 1 /\ c \in Int
  BY <1>1, <1>2, NtruAssumption DEF UnpackingFails, NonCanonical
<1>4. a \in Int
  <2> DEFINE y == BaseMul(c, sk.f)
  <2>1. c * sk.f \in Int
    BY <1>1, <1>3
  <2>2. y \in -Half .. Half
    BY <2>1, ReducedFacts DEF BaseMul
  <2> HIDE DEF y
  <2>3. y \in Int
    BY <2>2, QFacts
  <2>4. CRepMod3(y) \in Int
    BY <2>3, QFacts DEF CRepMod3, NearestThird, AddQ, Half
  <2> QED
    BY <2>4 DEF M1, y
<1> HIDE DEF a
<1>5. u \in BitPairs
  <2>1. o.g \in [RBytes -> BitPairs]
    BY DEF NtruOracles
  <2> QED
    BY <2>1 DEF HashG
<1>6. msg \in Bits /\ SotpEncode(msg, u) = a
  BY <1>2, <1>4, <1>5, SotpFacts
<1> HIDE DEF msg
<1>7. /\ r \in -1 .. 1 /\ ToBytes(r) \in RBytes
      /\ e.ss = <<"hash_h", msg, pk>> /\ e.ct \in 0 .. Q - 1
      /\ Cong(Q, e.ct, pk * r + SotpEncode(msg, o.g[ToBytes(r)]))
  BY <1>1, <1>6, NtruMade
<1> HIDE DEF r, e
<1>8. u = o.g[ToBytes(r)]
  BY <1>2, <1>7 DEF HashG
<1>9. Cong(Q, e.ct, pk * r + a)
  BY <1>6, <1>7, <1>8
<1>10. /\ c - a \in Int /\ hinv \in Int /\ pk \in Int /\ r \in Int /\ e.ct \in Int
       /\ (c - a) * hinv \in Int /\ pk * r \in Int /\ pk * r + a \in Int
       /\ r \in -Half .. Half
  BY <1>1, <1>3, <1>4, <1>7, QFacts
<1>11. x \in -Half .. Half /\ Cong(Q, x, (c - a) * hinv) /\ ToBytes(x) = ToBytes(r)
  BY <1>2, <1>10, ReducedFacts DEF BaseMul, R2Bytes, a
<1> HIDE DEF x
<1>12. Cong(Q, (c - a) * hinv, r)
  <2> DEFINE w == ToBytes(r)
             z == (c - a) * hinv
  <2>1. Cong(Q, w, r) /\ Cong(Q, w, x) /\ w \in 0 .. Q - 1
    BY <1>10, <1>11, ToBytesFacts
  <2>2. z \in Int /\ w \in Int /\ x \in Int /\ Cong(Q, x, z)
    BY <1>1, <1>10, <1>11, <2>1, QFacts
  <2> HIDE DEF w, z
  <2>3. Cong(Q, z, x) /\ Cong(Q, x, w)
    BY <1>1, <2>1, <2>2, CongSym
  <2>4. Cong(Q, z, w)
    BY <1>1, <2>2, <2>3, CongTrans
  <2>5. Cong(Q, z, r)
    BY <1>1, <1>10, <2>1, <2>2, <2>4, CongTrans
  <2> QED
    BY <2>5 DEF z
<1>13. Cong(Q, c - a, pk * r)
  <2> DEFINE z == (c - a) * hinv
             I == hinv * pk
             b == c - a
  <2>1. z * pk = b * I /\ r * pk = pk * r
    BY <1>10
  <2>2. z \in Int /\ I \in Int /\ b \in Int /\ Cong(Q, z, r) /\ Cong(Q, I, 1)
    BY <1>1, <1>10, <1>12
  <2> HIDE DEF z, I, b
  <2>3. Cong(Q, z * pk, r * pk)
    BY <1>1, <1>10, <2>2, CongTimes
  <2>4. Cong(Q, b * I, b)
    BY <1>1, <2>2, CongOne
  <2>5. b * I \in Int
    BY <2>2
  <2>6. Cong(Q, b, b * I)
    BY <1>1, <2>2, <2>4, <2>5, CongSym
  <2>7. Cong(Q, b * I, pk * r)
    BY <2>1, <2>3
  <2>8. Cong(Q, b, pk * r)
    BY <1>1, <1>10, <2>2, <2>5, <2>6, <2>7, CongTrans
  <2> QED
    BY <2>8 DEF b
<1>14. Cong(Q, c, pk * r + a)
  <2> DEFINE b == c - a
             z == pk * r
  <2>1. b \in Int /\ z \in Int /\ Cong(Q, b, z) /\ c = b + a
    BY <1>3, <1>4, <1>10, <1>13
  <2> HIDE DEF b, z
  <2>2. Cong(Q, a, a)
    BY <1>1, <1>4, CongRefl
  <2>3. Cong(Q, b + a, z + a)
    BY <1>1, <1>4, <2>1, <2>2, CongAdd
  <2> QED
    BY <2>1, <2>3 DEF z
<1>15. e.ct = c
  <2> DEFINE z == pk * r + a
             d == e.ct
  <2>1. z \in Int /\ d \in Int /\ d \in 0 .. Q - 1 /\ Cong(Q, c, z) /\ Cong(Q, d, z)
    BY <1>7, <1>9, <1>10, <1>14
  <2> HIDE DEF z, d
  <2>2. Cong(Q, z, c)
    BY <1>1, <1>3, <2>1, CongSym
  <2>3. Cong(Q, d, c)
    BY <1>1, <1>3, <2>1, <2>2, CongTrans
  <2>4. d - c < Q /\ c - d < Q
    BY <1>1, <1>3, <2>1
  <2>5. d = c
    BY <1>1, <1>3, <2>1, <2>3, <2>4, CongUnique
  <2> QED
    BY <2>5 DEF d
<1> QED
  BY <1>1, <1>2, <1>6, <1>7, <1>15 DEF e

-----------------------------------------------------------------------------
(* SMAUG-T: values modulo SmaugQ, kept with fewer bits in a ciphertext.    *)

LEMMA SmaugFacts ==
  /\ SmaugQ \in Nat /\ SmaugQ > 0 /\ SmaugP \in Nat /\ SmaugP > 0
  /\ PPrime \in Nat /\ PPrime > 0
  /\ SmaugQ % 4 = 0 /\ SmaugQ % SmaugP = 0 /\ SmaugQ % PPrime = 0
BY SmaugAssumption

LEMMA Quarters ==
  /\ SmaugQ \div 4 \in Nat /\ SmaugQ \div 4 > 0 /\ SmaugQ = 4 * (SmaugQ \div 4)
  /\ SmaugQ \div 2 = 2 * (SmaugQ \div 4)
BY SmaugFacts

(* A width divides the modulus; half of it, rounded down, is the most that *)
(* rounding to a multiple of it moves a value.                             *)
LEMMA Widths ==
  ASSUME NEW n \in Nat, n > 0, NEW to \in Nat, to > 0, n % to = 0
  PROVE  /\ n \div to \in Nat /\ n \div to > 0 /\ n = to * (n \div to)
         /\ n \div (2 * to) \in Nat
         /\ 2 * (n \div (2 * to)) <= n \div to /\ n \div to <= 2 * (n \div (2 * to)) + 1
<1> DEFINE w == n \div to
           h == n \div (2 * to)
           t == 2 * to
<1>0. n \div to \in Int /\ n = (n \div to) * to + (n % to)
  <2>1. n \in Int
    OBVIOUS
  <2> HIDE DEF w, h, t
  <2> QED
    BY <2>1, DivMod
<1>1. w \in Int /\ n = w * to + 0
  <2> HIDE DEF w
  <2>1. w \in Int /\ n = w * to + (n % to)
    BY <1>0, Zenon DEF w
  <2> QED
    BY <2>1
<1>2. n = w * to
  BY <1>1
<1>3. w > 0
  <2> SUFFICES ASSUME w <= 0 PROVE FALSE
    BY <1>1
  <2>1. w * to <= 0
    BY <1>1
  <2> QED
    BY <1>2, <2>1
<1>t. t \in Nat /\ t > 0 /\ t = 2 * to
  OBVIOUS
<1> DEFINE hh == n \div t
           rest == n % t
<1> HIDE DEF t
<1>4. hh \in Int /\ rest \in 0 .. t - 1 /\ n = hh * t + rest
  BY <1>t, DivMod
<1>5. hh * t = (2 * hh) * to
  BY <1>4, <1>t
<1> HIDE DEF w, h
<1> HIDE DEF hh, rest
<1>6. hh >= 0
  <2> SUFFICES ASSUME hh <= -1 PROVE FALSE
    BY <1>4
  <2>1. (-hh) * t >= 1 * t
    BY <1>4, <1>t
  <2>2. (-hh) * t = -(hh * t) /\ hh * t \in Int /\ 1 * t = t
    BY <1>4, <1>t
  <2> QED
    BY <1>4, <1>t, <2>1, <2>2
<1>7. 2 * hh <= w
  <2> SUFFICES ASSUME w <= 2 * hh - 1 PROVE FALSE
    BY <1>1, <1>4
  <2>1. w * to <= (2 * hh - 1) * to
    BY <1>1, <1>4
  <2>2. (2 * hh - 1) * to = (2 * hh) * to - to /\ (2 * hh) * to \in Int
    BY <1>4
  <2> QED
    BY <1>2, <1>4, <1>t, <1>5, <2>1, <2>2
<1>8. w <= 2 * hh + 1
  <2> SUFFICES ASSUME w >= 2 * hh + 2 PROVE FALSE
    BY <1>1, <1>4
  <2>1. w * to >= (2 * hh + 2) * to
    BY <1>1, <1>4
  <2>2. (2 * hh + 2) * to = (2 * hh) * to + t /\ (2 * hh) * to \in Int
    BY <1>4, <1>t
  <2> QED
    BY <1>2, <1>4, <1>t, <1>5, <2>1, <2>2
<1>9. to * w = w * to
  BY <1>1
<1>10. w \in Nat /\ hh \in Nat
  BY <1>1, <1>3, <1>4, <1>6
<1>11. n \div (2 * to) = hh /\ n \div to = w
  BY DEF hh, w, t
<1> QED
  BY <1>2, <1>3, <1>7, <1>8, <1>9, <1>10, <1>11

(* Rounding: what a rounded value stands for differs from the value by at  *)
(* most half a width.                                                      *)
LEMMA RoundFacts ==
  ASSUME NEW a \in Int, NEW to \in {SmaugP, PPrime}
  PROVE  /\ Round(a, to) \in 0 .. to - 1
         /\ \E d \in -(SmaugQ \div (2 * to)) .. SmaugQ \div (2 * to) :
              Cong(SmaugQ, Round(a, to) * (SmaugQ \div to), a + d)
<1> DEFINE w == SmaugQ \div to
           h == SmaugQ \div (2 * to)
           y == (a + h) % SmaugQ
           k == y \div w
           t == y % w
<1>1. to \in Nat /\ to > 0 /\ SmaugQ % to = 0 /\ SmaugQ \in Nat /\ SmaugQ > 0
  BY SmaugFacts
<1>2. /\ w \in Nat /\ w > 0 /\ SmaugQ = to * w /\ h \in Nat
      /\ 2 * h <= w /\ w <= 2 * h + 1
  BY <1>1, Widths
<1>3. Round(a, to) = k
  BY DEF Round
<1> HIDE DEF w, h
<1>4. a + h \in Int
  BY <1>2
<1>5. y \in 0 .. SmaugQ - 1 /\ Cong(SmaugQ, y, a + h)
  BY <1>1, <1>4, CongMod
<1> HIDE DEF y
<1>6. y \in Int
  BY <1>1, <1>5
<1>7. k \in Int /\ y = k * w + t /\ t \in 0 .. w - 1 /\ t \in Int
  BY <1>2, <1>6
<1> HIDE DEF k, t
<1>8. k \in 0 .. to - 1
  <2>1. k >= 0
    <3> SUFFICES ASSUME k <= -1 PROVE FALSE
      BY <1>7
    <3>1. (-k) * w >= 1 * w /\ (-k) * w = -(k * w)
      BY <1>2, <1>7
    <3> QED
      BY <1>1, <1>2, <1>5, <1>7, <3>1
  <2>2. k < to
    <3> SUFFICES ASSUME k >= to PROVE FALSE
      BY <1>1, <1>7
    <3>1. k * w >= to * w
      BY <1>1, <1>2, <1>7
    <3> QED
      BY <1>1, <1>2, <1>5, <1>7, <3>1
  <2> QED
    BY <1>1, <1>7, <2>1, <2>2
<1>9. k * w = y - t /\ k * w \in Int
  BY <1>2, <1>6, <1>7
<1>10. h - t \in -h .. h /\ h - t \in Int
  BY <1>2, <1>7
<1>11. Cong(SmaugQ, k * w, a + (h - t))
  <2> DEFINE b == a + h
  <2>1. b \in Int /\ Cong(SmaugQ, y, b) /\ a + (h - t) = b - t
    BY <1>2, <1>4, <1>5, <1>7
  <2> HIDE DEF b
  <2>2. Cong(SmaugQ, t, t)
    BY <1>1, <1>7, CongRefl
  <2>3. Cong(SmaugQ, y - t, b - t)
    BY <1>1, <1>6, <1>7, <2>1, <2>2, CongSub
  <2> QED
    BY <1>9, <2>1, <2>3
<1>12. \E d \in -h .. h : Cong(SmaugQ, k * w, a + d)
  BY <1>10, <1>11
<1> QED
  BY <1>3, <1>8, <1>12 DEF h, w

LEMMA DivUnique ==
  ASSUME NEW n \in Nat, n > 0, NEW q \in Int, NEW x \in Int, q * n <= x, x < (q + 1) * n
  PROVE  x \div n = q
<1> DEFINE p == x \div n
           t == x % n
<1>1. p \in Int /\ t \in 0 .. n - 1 /\ x = p * n + t
  BY DivMod
<1> HIDE DEF p, t
<1>2. p * n \in Int /\ q * n \in Int /\ (p + 1) * n = p * n + n /\ (q + 1) * n = q * n + n
  BY <1>1
<1>3. ~ (p >= q + 1)
  <2> SUFFICES ASSUME p >= q + 1 PROVE FALSE
    OBVIOUS
  <2>1. p * n >= (q + 1) * n
    BY <1>1
  <2> QED
    BY <1>1, <1>2, <2>1
<1>4. ~ (p + 1 <= q)
  <2> SUFFICES ASSUME p + 1 <= q PROVE FALSE
    OBVIOUS
  <2>1. (p + 1) * n <= q * n
    BY <1>1
  <2> QED
    BY <1>1, <1>2, <2>1
<1>5. p = q
  BY <1>1, <1>3, <1>4
<1> QED
  BY <1>5 DEF p

(* indcpa_dec's last line takes a value to the nearer of 0 and half the    *)
(* modulus.                                                                *)
Decode(delta) == ((delta + (SmaugQ \div 4)) % SmaugQ) \div (SmaugQ \div 2)

LEMMA DecodeRange ==
  ASSUME NEW delta \in Int
  PROVE  Decode(delta) \in {0, 1}
<1> DEFINE u == SmaugQ \div 4
           y == (delta + u) % SmaugQ
<1>1. u \in Nat /\ u > 0 /\ SmaugQ = 4 * u /\ SmaugQ \div 2 = 2 * u
  BY Quarters
<1>2. Decode(delta) = y \div (2 * u)
  BY <1>1 DEF Decode
<1> HIDE DEF u
<1>3. y \in 0 .. SmaugQ - 1
  BY <1>1, CongMod
<1> HIDE DEF y
<1>4. y \in Int /\ 2 * u \in Nat /\ 2 * u > 0 /\ 0 \in Int /\ 1 \in Int
  BY <1>1, <1>3
<1> DEFINE w == 2 * u
<1>5. w \in Nat /\ w > 0 /\ SmaugQ = w + w /\ 0 * w = 0 /\ (0 + 1) * w = w
      /\ 1 * w = w /\ (1 + 1) * w = w + w
  BY <1>1
<1> HIDE DEF w
<1>6. CASE y < w
  <2>1. y \div w = 0
    BY <1>3, <1>4, <1>5, <1>6, DivUnique
  <2> QED
    BY <1>2, <2>1 DEF w
<1>7. CASE ~ (y < w)
  <2>1. y \div w = 1
    BY <1>3, <1>4, <1>5, <1>7, DivUnique
  <2> QED
    BY <1>2, <2>1 DEF w
<1> QED
  BY <1>6, <1>7

LEMMA Decodes ==
  ASSUME NEW mu \in {0, 1}, NEW noise \in Int, 4 * noise < SmaugQ, 4 * (-noise) < SmaugQ,
         NEW delta \in Int, Cong(SmaugQ, delta, (SmaugQ \div 2) * mu + noise)
  PROVE  Decode(delta) = mu
<1> DEFINE u == SmaugQ \div 4
           w == 2 * u
           z == (w * mu + noise) + u
<1>1. u \in Nat /\ u > 0 /\ SmaugQ = 4 * u /\ SmaugQ \div 2 = w
  BY Quarters
<1>2. Decode(delta) = ((delta + u) % SmaugQ) \div w /\ Cong(SmaugQ, delta, w * mu + noise)
  BY <1>1 DEF Decode
<1> HIDE DEF u
<1>3. (mu = 0 \/ mu = 1) /\ SmaugQ \in Nat /\ SmaugQ > 0
  BY SmaugFacts
<1>4. w * mu + noise \in Int /\ (w * mu = 0 \/ w * mu = w) /\ u \in Int /\ delta + u \in Int
  BY <1>1, <1>3
<1>5. z \in Int /\ z \in 0 .. SmaugQ - 1
  BY <1>1, <1>4
<1>6. Cong(SmaugQ, u, u)
  BY <1>3, <1>4, CongRefl
<1>7. Cong(SmaugQ, delta + u, z)
  BY <1>2, <1>3, <1>4, <1>6, CongAdd
<1>8. mu * w <= z /\ z < (mu + 1) * w
  BY <1>1, <1>3
<1> HIDE DEF z
<1>9. (delta + u) % SmaugQ = z % SmaugQ
  BY <1>3, <1>4, <1>5, <1>7, CongModEqual
<1>10. z % SmaugQ = z
  BY <1>3, <1>5
<1>11. w \in Nat /\ w > 0 /\ mu \in Int
  BY <1>1, <1>3
<1> HIDE DEF w
<1>12. z \div w = mu
  BY <1>5, <1>8, <1>11, DivUnique
<1> QED
  BY <1>2, <1>9, <1>10, <1>12

(* The noise a decryption is left with stays below a quarter.              *)
LEMMA SmallTerm ==
  ASSUME NEW a \in Int, NEW c \in -1 .. 1
  PROVE  a * c <= Abs(a) /\ -(a * c) <= Abs(a) /\ a * c \in Int
<1>1. c = -1 \/ c = 0 \/ c = 1
  OBVIOUS
<1>2. a * c = -a \/ a * c = 0 \/ a * c = a
  BY <1>1
<1> QED
  BY <1>2 DEF Abs

LEMMA SmallProduct ==
  ASSUME NEW h \in Nat, NEW d \in -h .. h, NEW c \in -1 .. 1
  PROVE  d * c <= Abs(c) * h /\ -(d * c) <= Abs(c) * h /\ d * c \in Int
<1>1. c = -1 \/ c = 0 \/ c = 1
  OBVIOUS
<1>2. (d * c = -d /\ Abs(c) * h = h) \/ (d * c = 0 /\ Abs(c) * h = 0) \/ (d * c = d /\ Abs(c) * h = h)
  BY <1>1 DEF Abs
<1>3. d \in Int /\ d <= h /\ -d <= h
  OBVIOUS
<1> QED
  BY <1>2, <1>3

LEMMA SmallNoise ==
  ASSUME NEW s \in Sparse, NEW e \in Noise, NEW r \in Coins,
         NEW d1 \in -(SmaugQ \div (2 * SmaugP)) .. SmaugQ \div (2 * SmaugP),
         NEW d2 \in -(SmaugQ \div (2 * SmaugP)) .. SmaugQ \div (2 * SmaugP),
         NEW d3 \in -(SmaugQ \div (2 * PPrime)) .. SmaugQ \div (2 * PPrime)
  PROVE  LET noise == ((e[1] * r[1] + e[2] * r[2]) + (d1 * s[1] + d2 * s[2])) + d3
         IN noise \in Int /\ 4 * noise < SmaugQ /\ 4 * (-noise) < SmaugQ
<1> DEFINE h == SmaugQ \div (2 * SmaugP)
           k == SmaugQ \div (2 * PPrime)
<1>1. h \in Nat /\ k \in Nat
  BY SmaugFacts, Widths
<1>2. /\ s[1] \in -1 .. 1 /\ s[2] \in -1 .. 1 /\ r[1] \in -1 .. 1 /\ r[2] \in -1 .. 1
      /\ e[1] \in Int /\ e[2] \in Int
  BY SmaugAssumption
<1>3. 4 * ((Abs(e[1]) + Abs(e[2])) + (Abs(s[1]) + Abs(s[2])) * h + k) < SmaugQ
  BY SmaugAssumption DEF L1
<1>4. d1 \in -h .. h /\ d2 \in -h .. h /\ d3 \in -k .. k
  OBVIOUS
<1> HIDE DEF h, k
<1> DEFINE p1 == e[1] * r[1]
           p2 == e[2] * r[2]
           p3 == d1 * s[1]
           p4 == d2 * s[2]
<1>5. /\ p1 <= Abs(e[1]) /\ -p1 <= Abs(e[1]) /\ p1 \in Int
      /\ p2 <= Abs(e[2]) /\ -p2 <= Abs(e[2]) /\ p2 \in Int
  BY <1>2, SmallTerm
<1>6. /\ p3 <= Abs(s[1]) * h /\ -p3 <= Abs(s[1]) * h /\ p3 \in Int
      /\ p4 <= Abs(s[2]) * h /\ -p4 <= Abs(s[2]) * h /\ p4 \in Int
  BY <1>1, <1>2, <1>4, SmallProduct
<1>7. /\ Abs(e[1]) \in Nat /\ Abs(e[2]) \in Nat /\ Abs(s[1]) \in Nat /\ Abs(s[2]) \in Nat
  BY <1>2 DEF Abs
<1>8. /\ (Abs(s[1]) + Abs(s[2])) * h = Abs(s[1]) * h + Abs(s[2]) * h
      /\ Abs(s[1]) * h \in Int /\ Abs(s[2]) * h \in Int
  BY <1>1, <1>7
<1> HIDE DEF p1, p2, p3, p4
<1> DEFINE noise == ((p1 + p2) + (p3 + p4)) + d3
<1>9. d3 \in Int /\ d3 <= k /\ -d3 <= k /\ SmaugQ \in Nat
  BY <1>1, <1>4, SmaugFacts
<1>10. noise \in Int /\ 4 * noise < SmaugQ /\ 4 * (-noise) < SmaugQ
  BY <1>1, <1>3, <1>5, <1>6, <1>7, <1>8, <1>9
<1> QED
  BY <1>10 DEF p1, p2, p3, p4

(* Decryption undoes encryption, and a ciphertext is one of the ciphertexts*)
(* whoever makes it.                                                       *)
LEMMA SmaugDecrypts ==
  ASSUME NEW A \in Matrices, NEW s \in Sparse, NEW e \in Noise, NEW d,
         NEW r \in Coins, NEW mu \in Messages
  PROVE  LET c == IndcpaEnc(SmaugKeyPair(A, s, e, d).pk, mu, r)
         IN IndcpaDec(s, c) = mu
<1> DEFINE b == SmaugKeyPair(A, s, e, d).pk.b
           c1 == Round(Dot(Column(A, 1), r), SmaugP)
           c2 == Round(Dot(Column(A, 2), r), SmaugP)
           v == Round((SmaugQ \div 2) * mu + Dot(b, r), PPrime)
           w == SmaugQ \div SmaugP
           wv == SmaugQ \div PPrime
           h == SmaugQ \div (2 * SmaugP)
           k == SmaugQ \div (2 * PPrime)
           half == (SmaugQ \div 2) * mu
           delta == v * wv + (c1 * s[1] + c2 * s[2]) * w
<1>1. SmaugQ \in Nat /\ SmaugQ > 0 /\ half \in Int /\ w \in Nat /\ wv \in Nat
      /\ SmaugP \in Nat /\ PPrime \in Nat
  <2>1. mu = 0 \/ mu = 1
    BY DEF Messages
  <2>2. half \in Int
    BY <2>1, Quarters
  <2> QED
    BY <2>2, SmaugFacts, Widths
<1>2. /\ s[1] \in -1 .. 1 /\ s[2] \in -1 .. 1 /\ r[1] \in -1 .. 1 /\ r[2] \in -1 .. 1
      /\ e[1] \in Int /\ e[2] \in Int
  BY SmaugAssumption
<1>3. /\ A[1][1] \in 0 .. SmaugQ - 1 /\ A[1][2] \in 0 .. SmaugQ - 1
      /\ A[2][1] \in 0 .. SmaugQ - 1 /\ A[2][2] \in 0 .. SmaugQ - 1
  BY SmaugAssumption
<1>4. /\ A[1][1] \in Int /\ A[1][2] \in Int /\ A[2][1] \in Int /\ A[2][2] \in Int
      /\ s[1] \in Int /\ s[2] \in Int /\ r[1] \in Int /\ r[2] \in Int
  BY <1>1, <1>2, <1>3
<1>5. IndcpaDec(s, IndcpaEnc(SmaugKeyPair(A, s, e, d).pk, mu, r)) = Decode(delta)
  <2>1. SmaugKeyPair(A, s, e, d).pk.A = A
    BY DEF SmaugKeyPair
  <2>2. IndcpaEnc(SmaugKeyPair(A, s, e, d).pk, mu, r) = <<ComputeC1(A, r), v>>
    BY <2>1 DEF IndcpaEnc, ComputeC2
  <2>3. ComputeC1(A, r)[1] = c1 /\ ComputeC1(A, r)[2] = c2
    BY DEF ComputeC1, Rows
  <2> HIDE DEF c1, c2, v
  <2>4. IndcpaDec(s, <<ComputeC1(A, r), v>>) = Decode(delta)
    BY <2>3 DEF IndcpaDec, Dot, Decode
  <2> QED
    BY <2>2, <2>4
<1> DEFINE x1 == e[1] - (A[1][1] * s[1] + A[1][2] * s[2])
           x2 == e[2] - (A[2][1] * s[1] + A[2][2] * s[2])
           y1 == A[1][1] * r[1] + A[2][1] * r[2]
           y2 == A[1][2] * r[1] + A[2][2] * r[2]
           z == half + (b[1] * r[1] + b[2] * r[2])
<1>6. x1 \in Int /\ x2 \in Int /\ y1 \in Int /\ y2 \in Int
  <2>1. \A i, j, k1, k2 \in Int : i * j + k1 * k2 \in Int
    OBVIOUS
  <2>2. y1 \in Int /\ y2 \in Int
    BY <1>4, <2>1
  <2>3. /\ A[1][1] * s[1] + A[1][2] * s[2] \in Int
        /\ A[2][1] * s[1] + A[2][2] * s[2] \in Int
    BY <1>4, <2>1
  <2>4. \A i, j \in Int : i - j \in Int
    OBVIOUS
  <2> QED
    BY <1>2, <2>2, <2>3, <2>4
<1>7. b[1] = x1 % SmaugQ /\ b[2] = x2 % SmaugQ
  BY DEF SmaugKeyPair, Dot, Rows
<1>8. c1 = Round(y1, SmaugP) /\ c2 = Round(y2, SmaugP) /\ v = Round(z, PPrime)
  BY DEF Dot, Column, Rows
<1> HIDE DEF b, c1, c2, v, w, wv, h, k, half, x1, x2, y1, y2
<1>9. /\ Cong(SmaugQ, b[1], x1) /\ Cong(SmaugQ, b[2], x2) /\ b[1] \in Int /\ b[2] \in Int
  <2>1. /\ x1 % SmaugQ \in 0 .. SmaugQ - 1 /\ Cong(SmaugQ, x1 % SmaugQ, x1)
        /\ x2 % SmaugQ \in 0 .. SmaugQ - 1 /\ Cong(SmaugQ, x2 % SmaugQ, x2)
    BY <1>1, <1>6, CongMod
  <2> QED
    BY <1>1, <1>7, <2>1
<1>10. z \in Int
  BY <1>1, <1>4, <1>9
<1> HIDE DEF z
<1>11. /\ c1 \in 0 .. SmaugP - 1 /\ c2 \in 0 .. SmaugP - 1 /\ v \in 0 .. PPrime - 1
       /\ c1 \in Int /\ c2 \in Int /\ v \in Int
  BY <1>1, <1>6, <1>8, <1>10, RoundFacts
<1>12. PICK d1 \in -h .. h, d2 \in -h .. h, d3 \in -k .. k :
         /\ Cong(SmaugQ, c1 * w, y1 + d1) /\ Cong(SmaugQ, c2 * w, y2 + d2)
         /\ Cong(SmaugQ, v * wv, z + d3)
  <2>1. \E d1 \in -h .. h : Cong(SmaugQ, c1 * w, y1 + d1)
    BY <1>6, <1>8, RoundFacts DEF h, w
  <2>2. \E d2 \in -h .. h : Cong(SmaugQ, c2 * w, y2 + d2)
    BY <1>6, <1>8, RoundFacts DEF h, w
  <2>3. \E d3 \in -k .. k : Cong(SmaugQ, v * wv, z + d3)
    BY <1>8, <1>10, RoundFacts DEF k, wv
  <2> QED
    BY <2>1, <2>2, <2>3
<1> DEFINE noise == ((e[1] * r[1] + e[2] * r[2]) + (d1 * s[1] + d2 * s[2])) + d3
<1>13. noise \in Int /\ 4 * noise < SmaugQ /\ 4 * (-noise) < SmaugQ
  BY <1>12, SmallNoise DEF h, k
<1>14. d1 \in Int /\ d2 \in Int /\ d3 \in Int
  <2>1. h \in Nat /\ k \in Nat
    BY SmaugFacts, Widths DEF h, k
  <2> QED
    BY <2>1, <1>12
<1> DEFINE V == v * wv
           C1 == c1 * w
           C2 == c2 * w
<1>15. V \in Int /\ C1 \in Int /\ C2 \in Int
  BY <1>1, <1>11
<1>16. delta = V + (C1 * s[1] + C2 * s[2]) /\ delta \in Int
  BY <1>1, <1>4, <1>11
<1> HIDE DEF V, C1, C2, noise, delta
(* The matrix cancels: c1 is made with its columns, b with its rows.       *)
<1>17. Cong(SmaugQ, V + (C1 * s[1] + C2 * s[2]),
                    half + (((e[1] * r[1] + e[2] * r[2]) + (d1 * s[1] + d2 * s[2])) + d3))
  <2>1. Cong(SmaugQ, C1, (A[1][1] * r[1] + A[2][1] * r[2]) + d1)
    BY <1>12 DEF C1, y1
  <2>2. Cong(SmaugQ, C2, (A[1][2] * r[1] + A[2][2] * r[2]) + d2)
    BY <1>12 DEF C2, y2
  <2>3. Cong(SmaugQ, V, (half + (b[1] * r[1] + b[2] * r[2])) + d3)
    BY <1>12 DEF V, z
  <2>4. /\ Cong(SmaugQ, b[1], e[1] - (A[1][1] * s[1] + A[1][2] * s[2]))
        /\ Cong(SmaugQ, b[2], e[2] - (A[2][1] * s[1] + A[2][2] * s[2]))
    BY <1>9 DEF x1, x2
  <2> DEFINE a11 == A[1][1]
             a12 == A[1][2]
             a21 == A[2][1]
             a22 == A[2][2]
             s1 == s[1]
             s2 == s[2]
             e1 == e[1]
             e2 == e[2]
             r1 == r[1]
             r2 == r[2]
             b1 == b[1]
             b2 == b[2]
  <2>5. /\ a11 \in Int /\ a12 \in Int /\ a21 \in Int /\ a22 \in Int
        /\ s1 \in Int /\ s2 \in Int /\ e1 \in Int /\ e2 \in Int
        /\ r1 \in Int /\ r2 \in Int /\ b1 \in Int /\ b2 \in Int
    BY <1>2, <1>4, <1>9
  <2>6. /\ Cong(SmaugQ, b1, e1 - (a11 * s1 + a12 * s2))
        /\ Cong(SmaugQ, b2, e2 - (a21 * s1 + a22 * s2))
        /\ Cong(SmaugQ, C1, (a11 * r1 + a21 * r2) + d1)
        /\ Cong(SmaugQ, C2, (a12 * r1 + a22 * r2) + d2)
        /\ Cong(SmaugQ, V, (half + (b1 * r1 + b2 * r2)) + d3)
    BY <2>1, <2>2, <2>3, <2>4
  <2> HIDE DEF a11, a12, a21, a22, s1, s2, e1, e2, r1, r2, b1, b2
  <2>7. Cong(SmaugQ, V + (C1 * s1 + C2 * s2),
                     half + (((e1 * r1 + e2 * r2) + (d1 * s1 + d2 * s2)) + d3))
    <3>1. PICK k1 \in Int, k2 \in Int, k3 \in Int, k4 \in Int, k5 \in Int :
            /\ b1 = (e1 - (a11 * s1 + a12 * s2)) + k1 * SmaugQ
            /\ b2 = (e2 - (a21 * s1 + a22 * s2)) + k2 * SmaugQ
            /\ C1 = ((a11 * r1 + a21 * r2) + d1) + k3 * SmaugQ
            /\ C2 = ((a12 * r1 + a22 * r2) + d2) + k4 * SmaugQ
            /\ V = ((half + (b1 * r1 + b2 * r2)) + d3) + k5 * SmaugQ
      BY <2>6 DEF Cong
    <3> DEFINE kk == (k5 + (k1 * r1 + k2 * r2)) + (k3 * s1 + k4 * s2)
    <3>2. kk \in Int
      BY <2>5, <3>1
    <3>3. V + (C1 * s1 + C2 * s2)
            = (half + (((e1 * r1 + e2 * r2) + (d1 * s1 + d2 * s2)) + d3)) + kk * SmaugQ
      BY <1>1, <1>14, <1>15, <2>5, <3>1
    <3> QED
      BY <3>2, <3>3 DEF Cong
  <2> QED
    BY <2>7 DEF s1, s2, e1, e2, r1, r2
<1>18. Cong(SmaugQ, delta, (SmaugQ \div 2) * mu + noise)
  BY <1>16, <1>17 DEF noise, half
<1>19. Decode(delta) = mu
  BY <1>13, <1>16, <1>18, Decodes DEF Messages
<1> QED
  BY <1>5, <1>19 DEF delta

(* What each decapsulation answers to a ciphertext that encapsulation made,*)
(* and to any ciphertext.                                                  *)
LEMMA NtruAnswers ==
  ASSUME NEW o \in NtruOracles, NEW p \in NtruKeyPairs, NEW c \in Words,
         NEW u \in HashG(o, R2Bytes(c, p.sk))
  PROVE  /\ \A msg \in Bits : NtruEncapsulate(o, p.pk, msg).ct = c =>
              NtruDecapsulate(o, c, p.sk, u)
                = [status |-> 0, ss |-> NtruEncapsulate(o, p.pk, msg).ss]
         /\ \/ \E msg \in Bits :
                 /\ NtruEncapsulate(o, p.pk, msg).ct = c
                 /\ NtruDecapsulate(o, c, p.sk, u)
                      = [status |-> 0, ss |-> NtruEncapsulate(o, p.pk, msg).ss]
            \/ /\ \A msg \in Bits : NtruEncapsulate(o, p.pk, msg).ct # c
               /\ NtruDecapsulate(o, c, p.sk, u) = [status |-> 1, ss |-> Zeros]
<1>1. PICK f1, g1 \in -1 .. 1 : Fits(p.pk, p.sk, f1, g1)
  BY NtruKeyFits
<1>2. ASSUME NEW msg \in Bits, NtruEncapsulate(o, p.pk, msg).ct = c
      PROVE  NtruDecapsulate(o, c, p.sk, u)
               = [status |-> 0, ss |-> NtruEncapsulate(o, p.pk, msg).ss]
  <2>1. u \in HashG(o, R2Bytes(NtruEncapsulate(o, p.pk, msg).ct, p.sk))
    BY <1>2
  <2> QED
    BY <1>1, <1>2, <2>1, NtruOpens
<1>3. CASE NtruDecapsulate(o, c, p.sk, u) # [status |-> 1, ss |-> Zeros]
  <2>1. \E msg \in Bits : LET e == NtruEncapsulate(o, p.pk, msg)
                         IN /\ e.ct = c
                            /\ NtruDecapsulate(o, c, p.sk, u) = [status |-> 0, ss |-> e.ss]
    BY <1>1, <1>3, NtruAccepts
  <2> QED
    BY <1>2, <2>1
<1>4. CASE NtruDecapsulate(o, c, p.sk, u) = [status |-> 1, ss |-> Zeros]
  <2>1. \A msg \in Bits : NtruEncapsulate(o, p.pk, msg).ct # c
    <3> SUFFICES ASSUME NEW msg \in Bits, NtruEncapsulate(o, p.pk, msg).ct = c
                 PROVE  FALSE
      OBVIOUS
    <3>1. NtruDecapsulate(o, c, p.sk, u)
            = [status |-> 0, ss |-> NtruEncapsulate(o, p.pk, msg).ss]
      BY <1>2
    <3>2. NtruDecapsulate(o, c, p.sk, u).status = 0 /\ NtruDecapsulate(o, c, p.sk, u).status = 1
      BY <1>4, <3>1
    <3> QED
      BY <3>2
  <2> QED
    BY <1>2, <1>4, <2>1
<1> QED
  BY <1>3, <1>4

LEMMA SmaugMade ==
  ASSUME NEW o \in SmaugOracles, NEW p \in SmaugKeyPairs, NEW mu \in Messages
  PROVE  LET e == SmaugEncapsulate(o, p.pk, mu)
         IN /\ e.status = 0 /\ e.ct \in SmaugCiphertexts
            /\ p.sk.pk = p.pk /\ p.sk.s \in Sparse
            /\ IndcpaDec(p.sk.s, e.ct) = mu
<1>1. PICK A \in Matrices, s \in Sparse, n \in Noise : p = SmaugKeyPair(A, s, n, D)
  BY DEF SmaugKeyPairs
<1>2. p.sk.pk = p.pk /\ p.sk.s = s /\ p.pk.A = A
  BY <1>1 DEF SmaugKeyPair
<1>3. o[mu] \in Coins
  BY DEF SmaugOracles
<1> DEFINE r == o[mu]
           e == SmaugEncapsulate(o, p.pk, mu)
<1>4. e.status = 0 /\ e.ct = IndcpaEnc(p.pk, mu, r)
  BY DEF SmaugEncapsulate
<1> HIDE DEF e, r
<1>5. r \in Coins
  BY <1>3 DEF r
<1>6. IndcpaDec(s, e.ct) = mu
  BY <1>1, <1>4, <1>5, SmaugDecrypts
<1>7. e.ct \in SmaugCiphertexts
  <2> DEFINE b == p.pk.b
             x1 == Dot(Column(A, 1), r)
             x2 == Dot(Column(A, 2), r)
             z == (SmaugQ \div 2) * mu + Dot(b, r)
  <2>1. e.ct = <<ComputeC1(A, r), Round(z, PPrime)>>
    BY <1>2, <1>4 DEF IndcpaEnc, ComputeC2
  <2>2. ComputeC1(A, r) = [i \in Rows |-> IF i = 1 THEN Round(x1, SmaugP) ELSE Round(x2, SmaugP)]
    BY DEF ComputeC1, Rows
  <2>3. r[1] \in Int /\ r[2] \in Int
    <3>1. r[1] \in -1 .. 1 /\ r[2] \in -1 .. 1
      BY <1>5, SmaugAssumption
    <3> QED
      BY <3>1
  <2>4. x1 \in Int /\ x2 \in Int
    <3>1. /\ A[1][1] \in 0 .. SmaugQ - 1 /\ A[1][2] \in 0 .. SmaugQ - 1
          /\ A[2][1] \in 0 .. SmaugQ - 1 /\ A[2][2] \in 0 .. SmaugQ - 1
      BY SmaugAssumption
    <3>2. /\ A[1][1] \in Int /\ A[1][2] \in Int /\ A[2][1] \in Int /\ A[2][2] \in Int
      BY <3>1, SmaugFacts
    <3>3. \A i, j, k1, k2 \in Int : i * j + k1 * k2 \in Int
      OBVIOUS
    <3>4. x1 = A[1][1] * r[1] + A[2][1] * r[2] /\ x2 = A[1][2] * r[1] + A[2][2] * r[2]
      BY DEF Dot, Column, Rows
    <3> HIDE DEF x1, x2
    <3> QED
      BY <2>3, <3>2, <3>3, <3>4
  <2>5. z \in Int
    <3> DEFINE y1 == n[1] - Dot(A[1], s)
               y2 == n[2] - Dot(A[2], s)
    <3>1. b[1] = y1 % SmaugQ /\ b[2] = y2 % SmaugQ
      BY <1>1 DEF SmaugKeyPair, Rows
    <3>2. y1 \in Int /\ y2 \in Int
      <4>1. /\ A[1][1] \in 0 .. SmaugQ - 1 /\ A[1][2] \in 0 .. SmaugQ - 1
            /\ A[2][1] \in 0 .. SmaugQ - 1 /\ A[2][2] \in 0 .. SmaugQ - 1
            /\ s[1] \in -1 .. 1 /\ s[2] \in -1 .. 1 /\ n[1] \in Int /\ n[2] \in Int
        BY SmaugAssumption
      <4>2. /\ A[1][1] \in Int /\ A[1][2] \in Int /\ A[2][1] \in Int /\ A[2][2] \in Int
            /\ s[1] \in Int /\ s[2] \in Int
        BY <4>1, SmaugFacts
      <4>3. \A i, j, k1, k2 \in Int : i * j + k1 * k2 \in Int
        OBVIOUS
      <4>4. Dot(A[1], s) \in Int /\ Dot(A[2], s) \in Int
        BY <4>2, <4>3 DEF Dot
      <4> QED
        BY <4>1, <4>4
    <3> HIDE DEF y1, y2, b
    <3>3. y1 % SmaugQ \in 0 .. SmaugQ - 1 /\ y2 % SmaugQ \in 0 .. SmaugQ - 1
      BY <3>2, CongMod, SmaugFacts
    <3>4. b[1] \in Int /\ b[2] \in Int
      BY <3>1, <3>3, SmaugFacts
    <3>5. \A i, j, k1, k2 \in Int : i * j + k1 * k2 \in Int
      OBVIOUS
    <3>6. Dot(b, r) \in Int
      BY <2>3, <3>4, <3>5 DEF Dot
    <3>7. (mu = 0 \/ mu = 1) /\ SmaugQ \div 2 \in Int
      BY Quarters DEF Messages
    <3> QED
      BY <3>6, <3>7
  <2> HIDE DEF x1, x2, z
  <2>6. /\ Round(x1, SmaugP) \in 0 .. SmaugP - 1 /\ Round(x2, SmaugP) \in 0 .. SmaugP - 1
        /\ Round(z, PPrime) \in 0 .. PPrime - 1
    BY <2>4, <2>5, RoundFacts
  <2>7. ComputeC1(A, r) \in [Rows -> 0 .. SmaugP - 1]
    BY <2>2, <2>6
  <2> QED
    BY <2>1, <2>6, <2>7 DEF SmaugCiphertexts
<1> QED
  BY <1>2, <1>4, <1>6, <1>7 DEF e

LEMMA SmaugAnswers ==
  ASSUME NEW o \in SmaugOracles, NEW p \in SmaugKeyPairs, NEW c \in SmaugCiphertexts
  PROVE  /\ \A mu \in Messages : SmaugEncapsulate(o, p.pk, mu).ct = c =>
              SmaugDecapsulate(o, c, p.sk)
                = [status |-> 0, ss |-> SmaugEncapsulate(o, p.pk, mu).ss]
         /\ \/ \E mu \in Messages :
                 /\ SmaugEncapsulate(o, p.pk, mu).ct = c
                 /\ SmaugDecapsulate(o, c, p.sk)
                      = [status |-> 0, ss |-> SmaugEncapsulate(o, p.pk, mu).ss]
            \/ /\ \A mu \in Messages : SmaugEncapsulate(o, p.pk, mu).ct # c
               /\ SmaugDecapsulate(o, c, p.sk) = [status |-> 0, ss |-> Rejected(p.sk.d, c)]
<1> DEFINE got1 == SmaugDecapsulate(o, c, p.sk)
           mu1 == IndcpaDec(p.sk.s, c)
           e1 == SmaugEncapsulate(o, p.pk, mu1)
<1>1. p.sk.pk = p.pk /\ p.sk.s \in Sparse
  <2>1. 0 \in Messages
    BY DEF Messages
  <2> QED
    BY <2>1, SmaugMade
<1>2. mu1 \in Messages
  <2> DEFINE s == p.sk.s
             delta == c[2] * (SmaugQ \div PPrime) + Dot(c[1], s) * (SmaugQ \div SmaugP)
  <2>1. mu1 = Decode(delta)
    BY DEF IndcpaDec, Decode
  <2>2. s[1] \in -1 .. 1 /\ s[2] \in -1 .. 1
    BY <1>1, SmaugAssumption
  <2>3. c[1][1] \in 0 .. SmaugP - 1 /\ c[1][2] \in 0 .. SmaugP - 1 /\ c[2] \in 0 .. PPrime - 1
    BY DEF SmaugCiphertexts, Rows
  <2>4. /\ s[1] \in Int /\ s[2] \in Int /\ c[1][1] \in Int /\ c[1][2] \in Int /\ c[2] \in Int
    BY <2>2, <2>3, SmaugFacts
  <2>5. \A i, j, k1, k2 \in Int : i * j + k1 * k2 \in Int
    OBVIOUS
  <2>6. Dot(c[1], s) \in Int
    BY <2>4, <2>5 DEF Dot
  <2>7. SmaugQ \div PPrime \in Int /\ SmaugQ \div SmaugP \in Int
    BY SmaugFacts, Widths
  <2>8. delta \in Int
    BY <2>4, <2>5, <2>6, <2>7
  <2> QED
    BY <2>1, <2>8, DecodeRange DEF Messages
<1>3. got1 = [status |-> 0, ss |-> IF c # e1.ct THEN Rejected(p.sk.d, c) ELSE e1.ss]
  BY <1>1 DEF SmaugDecapsulate, Differ
<1>4. ASSUME NEW mu \in Messages, SmaugEncapsulate(o, p.pk, mu).ct = c
      PROVE  mu1 = mu
  BY <1>4, SmaugMade
<1> HIDE DEF got1, mu1
<1>5. CASE c = e1.ct
  BY <1>2, <1>3, <1>4, <1>5 DEF got1
<1>6. CASE c # e1.ct
  <2>1. \A mu \in Messages : SmaugEncapsulate(o, p.pk, mu).ct # c
    BY <1>4, <1>6
  <2>2. got1 = [status |-> 0, ss |-> Rejected(p.sk.d, c)]
    BY <1>3, <1>6
  <2> QED
    BY <2>1, <2>2 DEF got1
<1> QED
  BY <1>5, <1>6

-----------------------------------------------------------------------------
(* The exchange.                                                           *)

KeyPairs == IF family = "NTRU+" THEN NtruKeyPairs ELSE SmaugKeyPairs
Oracles == IF family = "NTRU+" THEN NtruOracles ELSE SmaugOracles
Ciphertexts == IF family = "NTRU+" THEN Words ELSE SmaugCiphertexts

IInv ==
  /\ pc \in {"keyPair", "encapsulate", "deliver", "decapsulate", "done"}
  /\ family \in {"NTRU+", "SMAUG-T"}
  /\ oracle \in Oracles
  /\ pc # "keyPair" => pair \in KeyPairs
  /\ pc \in {"keyPair", "encapsulate"} => sent = Nothing
  /\ pc # "done" => got = Nothing
  /\ pc = "deliver" => sent.status = 0
  /\ sent.status = 0 => sent \in Made
  /\ pc = "decapsulate" => ct \in Ciphertexts /\ (sent.status = 0 => ct = sent.ct)
  /\ SecretsAgree
  /\ OnlyEncapsulations

LEMMA MadeIs ==
  /\ family = "NTRU+" => Made = {NtruEncapsulate(oracle, pair.pk, msg) : msg \in Bits}
  /\ family = "SMAUG-T" => Made = {SmaugEncapsulate(oracle, pair.pk, mu) : mu \in Messages}
BY DEF Made

LEMMA RefusalIs ==
  /\ family = "NTRU+" => Refusal = [status |-> 1, ss |-> Zeros]
  /\ family = "SMAUG-T" => Refusal = [status |-> 0, ss |-> Rejected(pair.sk.d, ct)]
BY DEF Refusal

LEMMA NothingStatus == Nothing.status = -1
BY DEF Nothing

LEMMA InitIInv ==
  ASSUME Init
  PROVE  IInv
<1>1. pc = "keyPair" /\ sent = Nothing /\ got = Nothing
  BY DEF Init
<1>2. family \in {"NTRU+", "SMAUG-T"} /\ oracle \in Oracles
  BY DEF Init, Oracles
<1>3. sent.status # 0
  BY <1>1, NothingStatus
<1> QED
  BY <1>1, <1>2, <1>3 DEF IInv, SecretsAgree, OnlyEncapsulations

(* Before an answer, the two properties ask nothing.                       *)
LEMMA NoAnswerYet ==
  ASSUME IInv, got' = got, got = Nothing, pc' # "done" \/ sent'.status # 0
  PROVE  SecretsAgree' /\ OnlyEncapsulations'
<1>1. got' = Nothing'
  BY DEF Nothing
<1>2. OnlyEncapsulations'
  BY <1>1 DEF OnlyEncapsulations
<1>3. SecretsAgree'
  BY DEF SecretsAgree
<1> QED
  BY <1>2, <1>3

LEMMA KeyPairStep ==
  ASSUME IInv, GenerateKeyPair
  PROVE  IInv'
<1>1. /\ pc = "keyPair" /\ pc' = "encapsulate" /\ family' = family /\ oracle' = oracle
      /\ sent' = sent /\ ct' = ct /\ got' = got
  BY DEF GenerateKeyPair
<1>2. pair' \in KeyPairs'
  BY <1>1 DEF GenerateKeyPair, KeyPairs
<1>3. /\ sent = Nothing /\ got = Nothing /\ family \in {"NTRU+", "SMAUG-T"} /\ oracle \in Oracles
  BY <1>1 DEF IInv
<1>4. oracle' \in Oracles'
  BY <1>1, <1>3 DEF Oracles
<1>5. sent'.status # 0 /\ sent' = Nothing' /\ got' = Nothing'
  BY <1>1, <1>3, NothingStatus DEF Nothing
<1>6. SecretsAgree' /\ OnlyEncapsulations'
  BY <1>1, <1>3, <1>5, NoAnswerYet
<1> QED
  BY <1>1, <1>2, <1>3, <1>4, <1>5, <1>6 DEF IInv

(* A key that packs no polynomial is refused; the rest is made.            *)
LEMMA NtruSendsStep ==
  ASSUME IInv, NtruSends
  PROVE  IInv'
<1>1. /\ pc = "encapsulate" /\ family = "NTRU+" /\ family' = family /\ oracle' = oracle
      /\ pair' = pair /\ ct' = ct /\ got' = got
      /\ pc' = IF sent'.status = 0 THEN "deliver" ELSE "done"
  BY DEF NtruSends
<1>2. PICK msg \in Bits, pk \in {pair.pk} \cup {w \in Words : NonCanonical(w)} :
        sent' = NtruEncapsulate(oracle, pk, msg)
  BY DEF NtruSends
<1>3. /\ oracle \in NtruOracles /\ pair \in NtruKeyPairs /\ got = Nothing /\ oracle \in Oracles
      /\ pair \in KeyPairs
  BY <1>1 DEF IInv, Oracles, KeyPairs
<1>4. oracle' \in Oracles' /\ pair' \in KeyPairs'
  BY <1>1, <1>3 DEF Oracles, KeyPairs
<1>5. sent'.status = 0 => sent' \in Made'
  <2>1. CASE NonCanonical(pk)
    <3>1. sent' = [status |-> 1, ct |-> 0, ss |-> Zeros]
      BY <1>2, <2>1 DEF NtruEncapsulate
    <3>2. sent'.status = 1
      BY <3>1
    <3> QED
      BY <3>2
  <2>2. CASE ~NonCanonical(pk)
    <3>1. pk = pair.pk
      BY <1>2, <2>2
    <3>2. sent' \in Made
      BY <1>1, <1>2, <3>1, MadeIs
    <3> QED
      BY <1>1, <3>2 DEF Made
  <2> QED
    BY <2>1, <2>2
<1>6. pc' # "done" \/ sent'.status # 0
  BY <1>1
<1>7. SecretsAgree' /\ OnlyEncapsulations'
  BY <1>1, <1>3, <1>6, NoAnswerYet
<1>8. got' = Nothing'
  BY <1>1, <1>3 DEF Nothing
<1> QED
  BY <1>1, <1>4, <1>5, <1>7, <1>8 DEF IInv

LEMMA SmaugSendsStep ==
  ASSUME IInv, SmaugSends
  PROVE  IInv'
<1>1. /\ pc = "encapsulate" /\ family = "SMAUG-T" /\ family' = family /\ oracle' = oracle
      /\ pair' = pair /\ ct' = ct /\ got' = got /\ pc' = "deliver"
  BY DEF SmaugSends
<1>2. PICK mu \in Messages : sent' = SmaugEncapsulate(oracle, pair.pk, mu)
  BY DEF SmaugSends
<1>3. got = Nothing /\ oracle \in Oracles /\ pair \in KeyPairs
  BY <1>1 DEF IInv
<1>4. oracle' \in Oracles' /\ pair' \in KeyPairs'
  BY <1>1, <1>3 DEF Oracles, KeyPairs
<1>5. sent'.status = 0
  BY <1>2 DEF SmaugEncapsulate
<1>6. sent' \in Made'
  <2>1. sent' \in Made
    BY <1>1, <1>2, MadeIs
  <2> QED
    BY <1>1, <2>1 DEF Made
<1>7. SecretsAgree' /\ OnlyEncapsulations'
  BY <1>1, <1>3, NoAnswerYet
<1>8. got' = Nothing'
  BY <1>1, <1>3 DEF Nothing
<1> QED
  BY <1>1, <1>4, <1>5, <1>6, <1>7, <1>8 DEF IInv

(* What was made is a ciphertext of its family's.                          *)
LEMMA MadeIsCiphertext ==
  ASSUME IInv, pc # "keyPair", NEW e \in Made
  PROVE  e.ct \in Ciphertexts
<1>1. family \in {"NTRU+", "SMAUG-T"} /\ oracle \in Oracles /\ pair \in KeyPairs
  BY DEF IInv
<1>2. CASE family = "NTRU+"
  <2>1. oracle \in NtruOracles /\ pair \in NtruKeyPairs
    BY <1>1, <1>2 DEF Oracles, KeyPairs
  <2>2. PICK msg \in Bits : e = NtruEncapsulate(oracle, pair.pk, msg)
    BY <1>2, MadeIs
  <2>3. pair.pk \in 0 .. Q - 1
    BY <2>1, NtruKeyFits DEF Fits
  <2>4. e.ct \in 0 .. Q - 1
    BY <2>1, <2>2, <2>3, NtruMade
  <2> QED
    BY <1>2, <2>4, NtruAssumption DEF Ciphertexts
<1>3. CASE family = "SMAUG-T"
  <2>1. oracle \in SmaugOracles /\ pair \in SmaugKeyPairs
    BY <1>1, <1>3 DEF Oracles, KeyPairs
  <2>2. PICK mu \in Messages : e = SmaugEncapsulate(oracle, pair.pk, mu)
    BY <1>3, MadeIs
  <2> QED
    BY <1>3, <2>1, <2>2, SmaugMade DEF Ciphertexts
<1> QED
  BY <1>1, <1>2, <1>3

LEMMA ArrivalStep ==
  ASSUME IInv, Deliver \/ ForeignArrives
  PROVE  IInv'
<1>1. /\ pc \in {"deliver", "encapsulate"} /\ pc' = "decapsulate"
      /\ family' = family /\ oracle' = oracle /\ pair' = pair /\ sent' = sent /\ got' = got
  BY DEF Deliver, ForeignArrives
<1>2. /\ family \in {"NTRU+", "SMAUG-T"} /\ oracle \in Oracles /\ pair \in KeyPairs
      /\ got = Nothing /\ (sent.status = 0 => sent \in Made)
  BY <1>1 DEF IInv
<1>3. oracle' \in Oracles' /\ pair' \in KeyPairs' /\ (sent'.status = 0 => sent' \in Made')
  BY <1>1, <1>2 DEF Oracles, KeyPairs, Made
<1>4. ct' \in Ciphertexts /\ (sent.status = 0 => ct' = sent.ct)
  <2>1. CASE Deliver
    <3>1. ct' = sent.ct /\ sent.status = 0 /\ pc # "keyPair"
      BY <2>1 DEF Deliver, IInv
    <3> QED
      BY <1>2, <3>1, MadeIsCiphertext
  <2>2. CASE ForeignArrives
    <3>1. sent = Nothing
      BY <2>2 DEF ForeignArrives, IInv
    <3>2. ct' \in Ciphertexts
      BY <2>2 DEF ForeignArrives, Ciphertexts
    <3> QED
      BY <3>1, <3>2, NothingStatus
  <2> QED
    BY <2>1, <2>2
<1>5. ct' \in Ciphertexts' /\ (sent'.status = 0 => ct' = sent'.ct)
  BY <1>1, <1>4 DEF Ciphertexts
<1>6. SecretsAgree' /\ OnlyEncapsulations'
  BY <1>1, <1>2, NoAnswerYet
<1>7. got' = Nothing'
  BY <1>1, <1>2 DEF Nothing
<1> QED
  BY <1>1, <1>2, <1>3, <1>5, <1>6, <1>7 DEF IInv

(* The answer: the receiver's and the sender's secret are one, and a       *)
(* ciphertext nobody made is refused.                                      *)
LEMMA AnswerStep ==
  ASSUME IInv, NtruReceives \/ SmaugReceives
  PROVE  IInv'
<1>1. /\ pc = "decapsulate" /\ pc' = "done"
      /\ family' = family /\ oracle' = oracle /\ pair' = pair /\ sent' = sent /\ ct' = ct
  BY DEF NtruReceives, SmaugReceives
<1>2. /\ family \in {"NTRU+", "SMAUG-T"} /\ oracle \in Oracles /\ pair \in KeyPairs
      /\ ct \in Ciphertexts /\ (sent.status = 0 => sent \in Made /\ ct = sent.ct)
  BY <1>1 DEF IInv
<1>3. oracle' \in Oracles' /\ pair' \in KeyPairs' /\ (sent'.status = 0 => sent' \in Made')
      /\ Made' = Made /\ Refusal' = Refusal
  BY <1>1, <1>2 DEF Oracles, KeyPairs, Made, Refusal
<1>4. /\ \A e \in Made : e.ct = ct => got' = [status |-> 0, ss |-> e.ss]
      /\ \/ \E e \in Made : e.ct = ct /\ got' = [status |-> 0, ss |-> e.ss]
         \/ (\A e \in Made : e.ct # ct) /\ got' = Refusal
  <2>1. CASE NtruReceives
    <3>1. /\ family = "NTRU+" /\ oracle \in NtruOracles /\ pair \in NtruKeyPairs /\ ct \in Words
      BY <1>2, <2>1 DEF NtruReceives, Oracles, KeyPairs, Ciphertexts
    <3>2. PICK u \in HashG(oracle, R2Bytes(ct, pair.sk)) :
            got' = NtruDecapsulate(oracle, ct, pair.sk, u)
      BY <2>1 DEF NtruReceives
    <3>3. /\ Made = {NtruEncapsulate(oracle, pair.pk, msg) : msg \in Bits}
          /\ Refusal = [status |-> 1, ss |-> Zeros]
      BY <3>1, MadeIs, RefusalIs
    <3>4. /\ \A msg \in Bits : NtruEncapsulate(oracle, pair.pk, msg).ct = ct =>
                got' = [status |-> 0, ss |-> NtruEncapsulate(oracle, pair.pk, msg).ss]
          /\ \/ \E msg \in Bits :
                   /\ NtruEncapsulate(oracle, pair.pk, msg).ct = ct
                   /\ got' = [status |-> 0, ss |-> NtruEncapsulate(oracle, pair.pk, msg).ss]
             \/ /\ \A msg \in Bits : NtruEncapsulate(oracle, pair.pk, msg).ct # ct
                /\ got' = [status |-> 1, ss |-> Zeros]
      BY <3>1, <3>2, NtruAnswers
    <3> QED
      BY <3>3, <3>4
  <2>2. CASE SmaugReceives
    <3>1. /\ family = "SMAUG-T" /\ oracle \in SmaugOracles /\ pair \in SmaugKeyPairs
          /\ ct \in SmaugCiphertexts /\ got' = SmaugDecapsulate(oracle, ct, pair.sk)
      BY <1>2, <2>2 DEF SmaugReceives, Oracles, KeyPairs, Ciphertexts
    <3>2. /\ Made = {SmaugEncapsulate(oracle, pair.pk, mu) : mu \in Messages}
          /\ Refusal = [status |-> 0, ss |-> Rejected(pair.sk.d, ct)]
      BY <3>1, MadeIs, RefusalIs
    <3>3. /\ \A mu \in Messages : SmaugEncapsulate(oracle, pair.pk, mu).ct = ct =>
                got' = [status |-> 0, ss |-> SmaugEncapsulate(oracle, pair.pk, mu).ss]
          /\ \/ \E mu \in Messages :
                   /\ SmaugEncapsulate(oracle, pair.pk, mu).ct = ct
                   /\ got' = [status |-> 0, ss |-> SmaugEncapsulate(oracle, pair.pk, mu).ss]
             \/ /\ \A mu \in Messages : SmaugEncapsulate(oracle, pair.pk, mu).ct # ct
                /\ got' = [status |-> 0, ss |-> Rejected(pair.sk.d, ct)]
      BY <3>1, SmaugAnswers
    <3> QED
      BY <3>2, <3>3
  <2> QED
    BY <2>1, <2>2
<1>5. SecretsAgree'
  <2>1. sent.status = 0 => got' = [status |-> 0, ss |-> sent.ss]
    BY <1>2, <1>4
  <2> QED
    BY <1>1, <2>1 DEF SecretsAgree
<1>6. OnlyEncapsulations'
  <2>1. \/ \E e \in Made' : e.ct = ct' /\ got' = [status |-> 0, ss |-> e.ss]
        \/ (\A e \in Made' : e.ct # ct') /\ got' = Refusal'
    BY <1>1, <1>3, <1>4
  <2> QED
    BY <2>1 DEF OnlyEncapsulations
<1> QED
  BY <1>1, <1>2, <1>3, <1>5, <1>6 DEF IInv

LEMMA StutterStep ==
  ASSUME IInv, UNCHANGED vars
  PROVE  IInv'
BY DEF IInv, vars, Oracles, KeyPairs, Ciphertexts, Made, Refusal, SecretsAgree,
       OnlyEncapsulations, Nothing

THEOREM InductiveInvariant == Spec => []IInv
<1>1. Init => IInv
  BY InitIInv
<1>2. IInv /\ [Next]_vars => IInv'
  BY KeyPairStep, NtruSendsStep, SmaugSendsStep, ArrivalStep, AnswerStep, StutterStep DEF Next
<1> QED
  BY <1>1, <1>2, PTL DEF Spec

(* What encapsulate sent, decapsulate opens with the sender's secret:      *)
(* kem.c's three functions, for every key pair key generation can return,  *)
(* every message, all noise below the bound and any hash functions.        *)
THEOREM SecretsAgreeAlways == Spec => []SecretsAgree
<1>1. IInv => SecretsAgree
  BY DEF IInv
<1> QED
  BY <1>1, InductiveInvariant, PTL

(* Of all strings of a ciphertext's size decapsulate opens exactly the     *)
(* encapsulations to the receiver's key, with their message's secret, and  *)
(* answers each other one with its family's refusal.                       *)
THEOREM OnlyEncapsulationsOpen == Spec => []OnlyEncapsulations
<1>1. IInv => OnlyEncapsulations
  BY DEF IInv
<1> QED
  BY <1>1, InductiveInvariant, PTL
=============================================================================
