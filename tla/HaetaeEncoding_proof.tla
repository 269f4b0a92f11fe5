------------------------ MODULE HaetaeEncoding_proof ------------------------
(***************************************************************************)
(* What HAETAE's encodings promise, for all sizes, tables and bytes.       *)
(*                                                                         *)
(* The entropy coder (RansCodec), for all tables that fit RansAssumption:  *)
(* encoder and decoder are each other's reverse.  The invariant keeps the  *)
(* states one of them has gone through, and the other walks through them   *)
(* backwards.                                                              *)
(*                                                                         *)
(* The layout of a signature (HaetaePacking), for every size of a          *)
(* signature, every base, every byte and every pair of sets of encodings.  *)
(***************************************************************************)
EXTENDS HaetaePacking, RansCodec, SequenceTheorems, TLAPS

-----------------------------------------------------------------------------
(* Division and digits.                                                    *)

LEMMA DivMod ==
  ASSUME NEW a \in Int, NEW n \in Nat, n > 0
  PROVE  a \div n \in Int /\ a % n \in 0 .. n - 1 /\ a = (a \div n) * n + (a % n)
OBVIOUS

LEMMA DivModUnique ==
  ASSUME NEW n \in Nat, n > 0, NEW q \in Int, NEW t \in 0 .. n - 1, NEW a \in Int,
         a = q * n + t
  PROVE  a \div n = q /\ a % n = t
<1> DEFINE p == a \div n
           u == a % n
<1>1. p \in Int /\ u \in 0 .. n - 1 /\ a = p * n + u
  BY DivMod
<1> HIDE DEF p, u
<1>2. p * n \in Int /\ q * n \in Int /\ (p + 1) * n = p * n + n /\ (q + 1) * n = q * n + n
  BY <1>1
<1>3. ~ (p >= q + 1)
  <2> SUFFICES ASSUME p >= q + 1 PROVE FALSE
    OBVIOUS
  <2>1. p * n >= (q + 1) * n
    BY <1>1
  <2> QED
    BY <1>1, <1>2, <2>1
<1>4. ~ (p + 1 <= q)
  <2> SUFFICES ASSUME p + 1 <= q PROVE FALSE
    OBVIOUS
  <2>1. (p + 1) * n <= q * n
    BY <1>1
  <2> QED
    BY <1>1, <1>2, <2>1
<1>5. p = q
  BY <1>1, <1>3, <1>4
<1>6. u = t
  BY <1>1, <1>2, <1>5
<1> QED
  BY <1>5, <1>6 DEF p, u

(* Quotients of bounded numbers.                                           *)
LEMMA DivBounds ==
  ASSUME NEW n \in Nat, n > 0, NEW a \in Nat, NEW m \in Nat
  PROVE  /\ a \div n \in Nat
         /\ a < m * n => a \div n < m
         /\ a >= m * n => a \div n >= m
<1> DEFINE p == a \div n
           u == a % n
<1>1. p \in Int /\ u \in 0 .. n - 1 /\ a = p * n + u
  BY DivMod
<1> HIDE DEF p, u
<1>2. p * n \in Int /\ (p + 1) * n = p * n + n /\ 0 * n = 0
  BY <1>1
<1>3. p >= 0
  <2> SUFFICES ASSUME p + 1 <= 0 PROVE FALSE
    BY <1>1
  <2>1. (p + 1) * n <= 0 * n
    BY <1>1
  <2> QED
    BY <1>1, <1>2, <2>1
<1>4. ASSUME a < m * n, p >= m PROVE FALSE
  <2>1. p * n >= m * n /\ m * n \in Int
    BY <1>1, <1>4
  <2> QED
    BY <1>1, <1>2, <1>4, <2>1
<1>5. ASSUME a >= m * n, p + 1 <= m PROVE FALSE
  <2>1. (p + 1) * n <= m * n /\ m * n \in Int
    BY <1>1, <1>5
  <2> QED
    BY <1>1, <1>2, <1>5, <2>1
<1>6. (a < m * n => p < m) /\ (a >= m * n => p >= m)
  BY <1>1, <1>4, <1>5
<1> QED
  BY <1>1, <1>3, <1>6 DEF p

-----------------------------------------------------------------------------
(* The constants.                                                          *)

Top == Low * Base               \* RANS_BYTE_L << 8
Alphabet(c) == 0 .. Symbols[c] - 1
Floor(c, s) == Unit * Freq[c][s]

LEMMA Constants ==
  /\ Base \in Nat /\ Base > 1 /\ Unit \in Nat /\ Unit > 0 /\ Scale \in Nat /\ Scale > 0
  /\ Low \in Nat /\ Low > 0 /\ Top \in Nat /\ Low < Top
  /\ FlushBytes = 4
<1>1. Base \in Nat /\ Base > 1 /\ Unit \in Nat /\ Unit > 0 /\ Scale \in Nat /\ Scale > 0
  BY RansAssumption
<1>2. Low \in Nat /\ Low > 0
  <2>1. Unit * Scale \in Nat /\ Unit * Scale >= 1 * 1
    BY <1>1
  <2> QED
    BY <2>1 DEF Low
<1>3. Top \in Nat /\ Top >= Low * 2
  BY <1>1, <1>2 DEF Top
<1> QED
  BY <1>1, <1>2, <1>3 DEF FlushBytes

(* What *--ptr = x & 0xff; x >>= 8 makes of a state.                       *)
LEMMA LastByte ==
  ASSUME NEW y \in 0 .. Top - 1
  PROVE  /\ y \div Base \in Nat /\ y \div Base < Low /\ y % Base \in 0 .. Base - 1
         /\ y = (y \div Base) * Base + (y % Base)
<1>1. Base \in Nat /\ Base > 0 /\ y \in Nat /\ Low \in Nat /\ y < Low * Base
  BY Constants DEF Top
<1>2. y \div Base \in Nat /\ y \div Base < Low
  BY <1>1, DivBounds
<1>3. y % Base \in 0 .. Base - 1 /\ y = (y \div Base) * Base + (y % Base)
  <2>1. y \in Int /\ Base \in Nat /\ Base > 0
    BY <1>1
  <2> QED
    BY <2>1, DivMod
<1> QED
  BY <1>2, <1>3

LEMMA Tables ==
  ASSUME NEW c \in Codecs
  PROVE  /\ Symbols[c] \in Nat /\ Length[c] \in Nat /\ BufBytes[c] \in Nat /\ BufBytes[c] >= 4
         /\ Offset[c] \in Nat /\ Values[c] \subseteq Int /\ Cut \in Nat
         /\ \A s \in Alphabet(c) :
              /\ s \in Nat /\ Freq[c][s] \in Nat /\ Freq[c][s] > 0 /\ Start[c][s] \in Nat
              /\ Start[c][s] + Freq[c][s] <= Scale
              /\ \A r \in 0 .. Scale - 1 :
                   SymbolAt[c][r] = s <=> r \in Start[c][s] .. Start[c][s] + Freq[c][s] - 1
              /\ \A y \in 1 .. XMax(c, s) - 1 :
                   Put(c, s, y) = (y \div Freq[c][s]) * Scale + (y % Freq[c][s]) + Start[c][s]
         /\ \A r \in 0 .. Scale - 1 : SymbolAt[c][r] \in Alphabet(c)
<1>1. /\ Symbols[c] \in Nat \ {0} /\ Length[c] \in Nat /\ BufBytes[c] \in Nat /\ BufBytes[c] >= 4
      /\ Offset[c] \in Nat /\ Values[c] \subseteq Int /\ Cut \in Nat
  BY RansAssumption DEF FlushBytes
<1>2. /\ Start[c] \in [Alphabet(c) -> Nat] /\ Freq[c] \in [Alphabet(c) -> Nat \ {0}]
      /\ SymbolAt[c] \in [0 .. Scale - 1 -> Alphabet(c)]
  BY RansAssumption DEF Alphabet
<1>3. \A s \in Alphabet(c) :
        /\ Start[c][s] + Freq[c][s] <= Scale
        /\ \A r \in 0 .. Scale - 1 :
             SymbolAt[c][r] = s <=> r \in Start[c][s] .. Start[c][s] + Freq[c][s] - 1
        /\ \A y \in 1 .. XMax(c, s) - 1 :
             Put(c, s, y) = (y \div Freq[c][s]) * Scale + (y % Freq[c][s]) + Start[c][s]
  BY RansAssumption DEF Alphabet
<1>4. \A s \in Alphabet(c) :
        s \in Nat /\ Freq[c][s] \in Nat /\ Freq[c][s] > 0 /\ Start[c][s] \in Nat
  BY <1>1, <1>2 DEF Alphabet
<1>5. \A r \in 0 .. Scale - 1 : SymbolAt[c][r] \in Alphabet(c)
  BY <1>2
<1> QED
  BY <1>1, <1>3, <1>4, <1>5

LEMMA SymbolFacts ==
  ASSUME NEW c \in Codecs, NEW s \in Alphabet(c)
  PROVE  /\ FromSymbol(c, s) \in Int /\ Encodable(c, FromSymbol(c, s))
         /\ ToSymbol(c, FromSymbol(c, s)) = s
<1>1. s \in 0 .. Symbols[c] - 1 /\ Symbols[c] \in Nat /\ Offset[c] \in Nat /\ Cut \in Nat
  BY Tables DEF Alphabet
<1>2. CASE c = "h"
  BY <1>1, <1>2 DEF FromSymbol, Encodable, ToSymbol
<1>3. CASE c # "h"
  BY <1>1, <1>3 DEF FromSymbol, Encodable, ToSymbol
<1> QED
  BY <1>2, <1>3

LEMMA ValueFacts ==
  ASSUME NEW c \in Codecs, NEW v \in Values[c], Encodable(c, v)
  PROVE  ToSymbol(c, v) \in Alphabet(c) /\ FromSymbol(c, ToSymbol(c, v)) = v
<1>1. Symbols[c] \in Nat /\ Offset[c] \in Nat /\ Cut \in Nat /\ v \in Int
  BY Tables
<1>2. CASE c = "h"
  <2>1. Cut < Symbols[c] /\ v \in 0 .. Symbols[c] + Offset[c] - 1
    BY <1>2, RansAssumption
  <2> QED
    BY <1>1, <1>2, <2>1 DEF FromSymbol, Encodable, ToSymbol, Alphabet
<1>3. CASE c # "h"
  BY <1>1, <1>3 DEF FromSymbol, Encodable, ToSymbol, Alphabet
<1> QED
  BY <1>2, <1>3

(* Putting a symbol and advancing over it are each other's reverse, and    *)
(* between [Floor, XMax) and [RANS_BYTE_L, RANS_BYTE_L << 8) one to one.   *)
LEMMA PutFacts ==
  ASSUME NEW c \in Codecs, NEW s \in Alphabet(c), NEW y \in Floor(c, s) .. XMax(c, s) - 1
  PROVE  /\ Put(c, s, y) \in Low .. Top - 1
         /\ SymbolAt[c][Put(c, s, y) % Scale] = s
         /\ Advance(c, s, Put(c, s, y)) = y
<1> DEFINE f == Freq[c][s]
           st == Start[c][s]
           X == Put(c, s, y)
           q == y \div f
           t == y % f
           m == Unit * Base
<1>1. /\ f \in Nat /\ f > 0 /\ st \in Nat /\ st + f <= Scale
      /\ \A r \in 0 .. Scale - 1 : SymbolAt[c][r] = s <=> r \in st .. st + f - 1
      /\ \A z \in 1 .. XMax(c, s) - 1 :
           Put(c, s, z) = (z \div Freq[c][s]) * Scale + (z % Freq[c][s]) + Start[c][s]
  BY Tables
<1>2. /\ Floor(c, s) = Unit * f /\ XMax(c, s) = m * f
      /\ m \in Nat /\ m * Scale = Top /\ Unit * Scale = Low
      /\ Scale \in Nat /\ Scale > 0 /\ Unit \in Nat /\ Unit > 0 /\ Low \in Nat /\ Top \in Nat
  BY Constants, <1>1 DEF Floor, XMax, Top, Low
<1>3. Unit * f \in Nat /\ Unit * f >= 1 /\ m * f \in Int
  BY <1>1, <1>2
<1>4. y \in Nat /\ y \in 1 .. XMax(c, s) - 1 /\ y >= Unit * f /\ y < m * f
  BY <1>2, <1>3
<1>5. X = q * Scale + t + st
  BY <1>1, <1>4
<1>6. q \in Nat /\ q >= Unit /\ q < m
  <2>1. (y < m * f => y \div f < m) /\ y \div f \in Nat
    BY <1>1, <1>2, <1>4, DivBounds
  <2>2. y >= Unit * f => y \div f >= Unit
    BY <1>1, <1>2, <1>4, DivBounds
  <2> QED
    BY <1>4, <2>1, <2>2
<1>7. t \in 0 .. f - 1 /\ y = q * f + t
  BY <1>1, <1>4, DivMod
<1> HIDE DEF f, st, X, q, t, m
<1>8. t + st \in 0 .. Scale - 1 /\ t + st \in st .. st + f - 1
  BY <1>1, <1>2, <1>7
<1>9. q * Scale \in Nat /\ X \in Int /\ X = q * Scale + (t + st)
  BY <1>1, <1>2, <1>5, <1>6, <1>7
<1>10. X \div Scale = q /\ X % Scale = t + st
  <2> DEFINE w == t + st
  <2>1. w \in 0 .. Scale - 1 /\ X = q * Scale + w /\ q \in Int
    BY <1>6, <1>8, <1>9
  <2> HIDE DEF w
  <2>2. X \div Scale = q /\ X % Scale = w
    BY <1>2, <1>9, <2>1, DivModUnique
  <2> QED
    BY <2>2 DEF w
<1>11. X \in Low .. Top - 1
  <2>1. q * Scale >= Unit * Scale
    BY <1>2, <1>6
  <2>2. q + 1 <= m
    BY <1>2, <1>6
  <2>3. (q + 1) * Scale <= m * Scale /\ (q + 1) * Scale = q * Scale + Scale
    BY <1>2, <1>6, <2>2
  <2> QED
    BY <1>2, <1>8, <1>9, <2>1, <2>3
<1>12. SymbolAt[c][X % Scale] = s
  BY <1>1, <1>8, <1>10
<1>13. Advance(c, s, X) = f * q + (t + st) - st
  BY <1>10 DEF Advance, f, st
<1>14. f * q = q * f /\ q * f \in Int
  BY <1>1, <1>6
<1>15. Advance(c, s, X) = y
  BY <1>1, <1>7, <1>13, <1>14
<1> QED
  BY <1>11, <1>12, <1>15 DEF X

LEMMA AdvanceFacts ==
  ASSUME NEW c \in Codecs, NEW z \in Nat, NEW s, s = SymbolAt[c][z % Scale]
  PROVE  /\ s \in Alphabet(c)
         /\ Advance(c, s, z) \in 0 .. z
         /\ z \in Low .. Top - 1 =>
              /\ Advance(c, s, z) \in Floor(c, s) .. XMax(c, s) - 1
              /\ Put(c, s, Advance(c, s, z)) = z
<1> DEFINE q == z \div Scale
           r == z % Scale
<1>1. Scale \in Nat /\ Scale > 0 /\ Unit \in Nat /\ Unit > 0 /\ Base \in Nat /\ Low \in Nat
      /\ Top \in Nat
  BY Constants
<1>2. q \in Nat /\ r \in 0 .. Scale - 1 /\ z = q * Scale + r
  <2>1. r \in 0 .. Scale - 1 /\ z = q * Scale + r
    BY <1>1, DivMod
  <2>2. q \in Nat
    BY <1>1, DivBounds
  <2> QED
    BY <2>1, <2>2
<1>3. s \in Alphabet(c)
  BY <1>2, Tables
<1> DEFINE f == Freq[c][s]
           st == Start[c][s]
           m == Unit * Base
           A == Advance(c, s, z)
<1>4. /\ f \in Nat /\ f > 0 /\ st \in Nat /\ st + f <= Scale
      /\ \A i \in 0 .. Scale - 1 : SymbolAt[c][i] = s <=> i \in st .. st + f - 1
      /\ \A i \in 1 .. XMax(c, s) - 1 :
           Put(c, s, i) = (i \div Freq[c][s]) * Scale + (i % Freq[c][s]) + Start[c][s]
  BY <1>3, Tables
<1>5. r \in st .. st + f - 1
  BY <1>2, <1>4
<1>6. /\ Floor(c, s) = Unit * f /\ XMax(c, s) = m * f
      /\ m \in Nat /\ m * Scale = Top /\ Unit * Scale = Low
  BY <1>1, <1>4 DEF Floor, XMax, Top, Low
<1>7. A = f * q + r - st
  BY DEF Advance
<1>8. ASSUME NEW i \in 1 .. XMax(c, s) - 1 PROVE Put(c, s, i) = (i \div f) * Scale + (i % f) + st
  BY <1>4
<1>9. (z < m * Scale => q < m) /\ (z >= Unit * Scale => q >= Unit)
  <2>1. z < m * Scale => z \div Scale < m
    BY <1>1, <1>6, DivBounds
  <2>2. z >= Unit * Scale => z \div Scale >= Unit
    BY <1>1, DivBounds
  <2> QED
    BY <2>1, <2>2
<1> HIDE DEF q, r, f, st, m, A
<1>10. f * q \in Nat /\ q * Scale \in Nat /\ f * q <= q * Scale /\ f * q = q * f
  BY <1>1, <1>2, <1>4
<1>11. A \in 0 .. z
  BY <1>2, <1>4, <1>5, <1>7, <1>10
<1>12. ASSUME z \in Low .. Top - 1
       PROVE  A \in Floor(c, s) .. XMax(c, s) - 1 /\ Put(c, s, A) = z
  <2>1. q >= Unit /\ q < m
    BY <1>1, <1>6, <1>9, <1>12
  <2>2. q * f >= Unit * f /\ Unit * f \in Nat /\ Unit * f >= 1
    BY <1>1, <1>2, <1>4, <2>1
  <2>3. q + 1 <= m
    BY <1>2, <1>6, <2>1
  <2>4. (q + 1) * f <= m * f /\ (q + 1) * f = q * f + f /\ m * f \in Int
    BY <1>2, <1>4, <1>6, <2>3
  <2>5. A \in Floor(c, s) .. XMax(c, s) - 1 /\ A \in 1 .. XMax(c, s) - 1
    BY <1>2, <1>4, <1>5, <1>6, <1>7, <1>10, <2>2, <2>4
  <2>6. r - st \in 0 .. f - 1 /\ A = q * f + (r - st)
    BY <1>2, <1>4, <1>5, <1>7, <1>10
  <2>7. A \div f = q /\ A % f = r - st
    <3> DEFINE w == r - st
    <3>1. A \in Int /\ q \in Int /\ w \in 0 .. f - 1 /\ A = q * f + w
      BY <1>2, <1>11, <2>6
    <3> HIDE DEF w
    <3>2. A \div f = q /\ A % f = w
      BY <1>4, <3>1, DivModUnique
    <3> QED
      BY <3>2 DEF w
  <2>8. Put(c, s, A) = q * Scale + (r - st) + st
    BY <1>8, <2>5, <2>7
  <2>9. Put(c, s, A) = z
    BY <1>2, <1>4, <1>10, <2>8
  <2> QED
    BY <2>5, <2>9
<1> QED
  BY <1>3, <1>11, <1>12 DEF A

-----------------------------------------------------------------------------
(* The four bytes of a state.                                              *)

Digits(y) == <<y % Base, (y \div Base) % Base, (y \div (Base * Base)) % Base,
               (y \div (Base * Base * Base)) % Base>>

FirstOf(e) == e[1] + Base * e[2] + Base * Base * e[3] + Base * Base * Base * e[4]

LEMMA DivDiv ==
  ASSUME NEW a \in Nat, NEW n \in Nat, n > 0, NEW m \in Nat, m > 0
  PROVE  a \div (m * n) = (a \div m) \div n
<1> DEFINE q == a \div m
           t == a % m
           r == q \div n
           u == q % n
<1>1. q \in Int /\ t \in 0 .. m - 1 /\ a = q * m + t
  BY DivMod
<1>2. r \in Int /\ u \in 0 .. n - 1 /\ q = r * n + u
  BY <1>1, DivMod
<1> HIDE DEF q, t, r, u
<1> DEFINE w == u * m + t
           k == m * n
<1>3. u * m \in Nat /\ u + 1 <= n /\ k \in Nat /\ k > 0
  BY <1>2
<1>4. (u + 1) * m <= n * m /\ (u + 1) * m = u * m + m /\ n * m = k
  BY <1>2, <1>3
<1>5. w \in 0 .. k - 1
  BY <1>1, <1>3, <1>4
<1>6. a = r * k + w
  <2>1. (r * n + u) * m = r * k + u * m
    BY <1>2
  <2>2. r * k \in Int
    BY <1>2, <1>3
  <2> QED
    BY <1>1, <1>2, <1>3, <2>1, <2>2
<1> HIDE DEF w, k
<1>7. a \div k = r
  BY <1>2, <1>3, <1>5, <1>6, DivModUnique
<1> QED
  BY <1>7 DEF k, r, q

LEMMA Nested ==
  ASSUME NEW y \in Nat
  PROVE  /\ y \div (Base * Base) = (y \div Base) \div Base
         /\ y \div (Base * Base * Base) = ((y \div Base) \div Base) \div Base
<1>1. Base \in Nat /\ Base > 0 /\ Base * Base \in Nat /\ Base * Base > 0
  BY Constants
<1>2. y \div (Base * Base) = (y \div Base) \div Base
  BY <1>1, DivDiv
<1> DEFINE sq == Base * Base
<1>3. y \div (sq * Base) = (y \div sq) \div Base
  <2>1. sq \in Nat /\ sq > 0
    BY <1>1
  <2> HIDE DEF sq
  <2> QED
    BY <1>1, <2>1, DivDiv
<1> QED
  BY <1>2, <1>3

LEMMA DigitsOf ==
  ASSUME NEW y \in 0 .. Top - 1
  PROVE  /\ Digits(y) \in Seq(0 .. Base - 1) /\ Len(Digits(y)) = 4
         /\ FirstOf(Digits(y)) = y
<1> DEFINE q1 == y \div Base
           q2 == q1 \div Base
           q3 == q2 \div Base
           d1 == y % Base
           d2 == q1 % Base
           d3 == q2 % Base
           d4 == q3 % Base
<1>1. Base \in Nat /\ Base > 1 /\ Top \in Nat
  BY Constants
<1>2. y < Base * Base * Base * Base
  <2>1. Top <= Base * Base * Base * Base
    BY RansAssumption DEF Top
  <2>2. Base * Base * Base * Base \in Nat
    BY <1>1
  <2> QED
    BY <1>1, <2>1, <2>2
<1>3. y \in Nat /\ q1 \in Nat /\ q2 \in Nat /\ q3 \in Nat
  BY <1>1, DivBounds
<1>4. q1 < Base * Base * Base
  <2> DEFINE m == Base * Base * Base
  <2>1. m \in Nat /\ m * Base = Base * Base * Base * Base
    BY <1>1
  <2> HIDE DEF m
  <2>2. y < m * Base
    BY <1>2, <2>1
  <2> QED
    BY <1>1, <1>3, <2>1, <2>2, DivBounds DEF m
<1>5. q2 < Base * Base
  <2> DEFINE m == Base * Base
  <2>1. m \in Nat /\ m * Base = Base * Base * Base
    BY <1>1
  <2> HIDE DEF m
  <2>2. q1 < m * Base
    BY <1>4, <2>1
  <2> HIDE DEF q1
  <2> QED
    BY <1>1, <1>3, <2>1, <2>2, DivBounds DEF m
<1>6. q3 < Base
  BY <1>1, <1>3, <1>5, DivBounds
<1>7. d1 \in 0 .. Base - 1 /\ y = q1 * Base + d1
  BY <1>1, <1>3, DivMod
<1>8. d2 \in 0 .. Base - 1 /\ q1 = q2 * Base + d2
  <2> HIDE DEF q1
  <2> QED
    BY <1>1, <1>3, DivMod
<1>9. d3 \in 0 .. Base - 1 /\ q2 = q3 * Base + d3
  <2> HIDE DEF q2
  <2> QED
    BY <1>1, <1>3, DivMod
<1>10. d4 = q3
  <2> HIDE DEF q3
  <2> QED
    BY <1>1, <1>3, <1>6
<1>11. Digits(y) = <<d1, d2, d3, d4>>
  BY <1>3, Nested DEF Digits
<1> HIDE DEF q1, q2, q3, d1, d2, d3, d4
<1>12. d4 \in 0 .. Base - 1
  BY <1>1, <1>3, <1>6, <1>10
<1>13. Digits(y) \in Seq(0 .. Base - 1) /\ Len(Digits(y)) = 4
       /\ Digits(y)[1] = d1 /\ Digits(y)[2] = d2 /\ Digits(y)[3] = d3 /\ Digits(y)[4] = d4
  <2> DEFINE S == 0 .. Base - 1
  <2>1. d1 \in S /\ d2 \in S /\ d3 \in S /\ d4 \in S
    BY <1>7, <1>8, <1>9, <1>12
  <2> HIDE DEF S
  <2>2. Digits(y) \in Seq(S)
    BY <1>11, <2>1
  <2>3. Len(Digits(y)) = 4
       /\ Digits(y)[1] = d1 /\ Digits(y)[2] = d2 /\ Digits(y)[3] = d3 /\ Digits(y)[4] = d4
    BY <1>11
  <2> QED
    BY <2>2, <2>3 DEF S
<1>14. FirstOf(Digits(y)) = d1 + Base * d2 + Base * Base * d3 + Base * Base * Base * d4
  BY <1>13 DEF FirstOf
<1>15. y = ((d4 * Base + d3) * Base + d2) * Base + d1
  BY <1>7, <1>8, <1>9, <1>10
<1>16. d1 \in Int /\ d2 \in Int /\ d3 \in Int /\ d4 \in Int /\ Base \in Int
  BY <1>1, <1>7, <1>8, <1>9, <1>12
<1>17. \A i1, i2, i3, i4, i5 \in Int :
         ((i4 * i5 + i3) * i5 + i2) * i5 + i1
         = i1 + i5 * i2 + i5 * i5 * i3 + i5 * i5 * i5 * i4
  OBVIOUS
<1>18. FirstOf(Digits(y)) = y
  BY <1>14, <1>15, <1>16, <1>17
<1> QED
  BY <1>13, <1>18

(* A string of at least four bytes starts with the digits of its state.    *)
LEMMA DigitsAre ==
  ASSUME NEW e \in Seq(0 .. Base - 1), Len(e) >= 4
  PROVE  /\ FirstOf(e) \in Nat
         /\ Digits(FirstOf(e)) = <<e[1], e[2], e[3], e[4]>>
<1>1. Base \in Nat /\ Base > 1
  BY Constants
<1>2. PICK e1, e2, e3, e4 \in 0 .. Base - 1 :
        e[1] = e1 /\ e[2] = e2 /\ e[3] = e3 /\ e[4] = e4
  <2>1. \A k \in 1 .. Len(e) : e[k] \in 0 .. Base - 1
    BY ElementOfSeq
  <2>2. Len(e) \in Nat /\ 1 \in 1 .. Len(e) /\ 2 \in 1 .. Len(e)
        /\ 3 \in 1 .. Len(e) /\ 4 \in 1 .. Len(e)
    OBVIOUS
  <2> QED
    BY <2>1, <2>2
<1>3. e1 \in Nat /\ e2 \in Nat /\ e3 \in Nat /\ e4 \in Nat
  BY <1>1
<1>4. \A i, k \in Nat : i * Base + k \in Nat
  BY <1>1
<1>5. PICK q2 \in Nat : q2 = e4 * Base + e3
  BY <1>3, <1>4
<1>6. PICK q1 \in Nat : q1 = q2 * Base + e2
  BY <1>3, <1>4
<1>7. PICK y \in Nat : y = q1 * Base + e1
  BY <1>3, <1>4
<1>8. FirstOf(e) = y
  <2>1. FirstOf(e) = e1 + Base * e2 + Base * Base * e3 + Base * Base * Base * e4
    BY <1>2 DEF FirstOf
  <2>2. \A i1, i2, i3, i4, i5 \in Int :
         ((i4 * i5 + i3) * i5 + i2) * i5 + i1
         = i1 + i5 * i2 + i5 * i5 * i3 + i5 * i5 * i5 * i4
    OBVIOUS
  <2>3. e1 \in Int /\ e2 \in Int /\ e3 \in Int /\ e4 \in Int /\ Base \in Int
    BY <1>1, <1>3
  <2> QED
    BY <1>5, <1>6, <1>7, <2>1, <2>2, <2>3
<1>9. y \div Base = q1 /\ y % Base = e1
  BY <1>1, <1>7, DivModUnique
<1>10. q1 \div Base = q2 /\ q1 % Base = e2
  BY <1>1, <1>6, DivModUnique
<1>11. q2 \div Base = e4 /\ q2 % Base = e3
  BY <1>1, <1>3, <1>5, DivModUnique
<1>12. e4 % Base = e4
  BY <1>1
<1>13. Digits(y) = <<e1, e2, e3, e4>>
  BY <1>9, <1>10, <1>11, <1>12, Nested DEF Digits
<1> QED
  BY <1>2, <1>8, <1>13

-----------------------------------------------------------------------------
(* Counting a sequence from its end: what is put in front of it leaves     *)
(* the rest where it was.                                                  *)

FromEnd(e, k) == e[Len(e) + 1 - k]

LEMMA PutInFront ==
  ASSUME NEW S, NEW w \in Seq(S), NEW e \in Seq(S)
  PROVE  /\ w \o e \in Seq(S) /\ Len(w \o e) = Len(w) + Len(e)
         /\ \A k \in 1 .. Len(e) : FromEnd(w \o e, k) = FromEnd(e, k)
<1>1. Len(w) \in Nat /\ Len(e) \in Nat
  OBVIOUS
<1>2. w \o e \in Seq(S) /\ Len(w \o e) = Len(w) + Len(e)
      /\ \A i \in 1 .. Len(w) + Len(e) :
           (w \o e)[i] = IF i <= Len(w) THEN w[i] ELSE e[i - Len(w)]
  BY ConcatProperties
<1>3. ASSUME NEW k \in 1 .. Len(e) PROVE FromEnd(w \o e, k) = FromEnd(e, k)
  <2>0. Len(w) + Len(e) + 1 - k \in 1 .. Len(w) + Len(e)
    BY <1>1
  <2>1. PICK i \in 1 .. Len(w) + Len(e) : i = Len(w) + Len(e) + 1 - k
    BY <2>0
  <2>2. ~ (i <= Len(w)) /\ i - Len(w) = Len(e) + 1 - k
    BY <1>1, <2>1
  <2> QED
    BY <1>2, <2>1, <2>2 DEF FromEnd
<1> QED
  BY <1>2, <1>3

LEMMA PutOneInFront ==
  ASSUME NEW S, NEW t \in S, NEW e \in Seq(S)
  PROVE  /\ <<t>> \o e \in Seq(S) /\ Len(<<t>> \o e) = Len(e) + 1
         /\ FromEnd(<<t>> \o e, Len(e) + 1) = t
         /\ \A k \in 1 .. Len(e) : FromEnd(<<t>> \o e, k) = FromEnd(e, k)
<1>1. <<t>> \in Seq(S) /\ Len(<<t>>) = 1 /\ <<t>>[1] = t /\ Len(e) \in Nat
  OBVIOUS
<1>2. /\ <<t>> \o e \in Seq(S) /\ Len(<<t>> \o e) = Len(e) + 1
      /\ \A k \in 1 .. Len(e) : FromEnd(<<t>> \o e, k) = FromEnd(e, k)
  <2> DEFINE w == <<t>>
  <2>1. w \in Seq(S) /\ Len(w) = 1
    BY <1>1
  <2> HIDE DEF w
  <2>2. /\ w \o e \in Seq(S) /\ Len(w \o e) = Len(w) + Len(e)
        /\ \A k \in 1 .. Len(e) : FromEnd(w \o e, k) = FromEnd(e, k)
    BY <2>1, PutInFront
  <2>3. Len(w) + Len(e) = Len(e) + 1
    BY <1>1, <2>1
  <2> QED
    BY <2>2, <2>3 DEF w
<1>3. (<<t>> \o e)[1] = t
  OBVIOUS
<1>4. Len(<<t>> \o e) + 1 - (Len(e) + 1) = 1
  BY <1>1, <1>2
<1> QED
  BY <1>2, <1>3, <1>4 DEF FromEnd

-----------------------------------------------------------------------------
(* The states an encoder has gone through: y after j values of v and p     *)
(* bytes of e, both counted from the end.                                  *)

AtRansEncInit(y, j, p) == y = Low /\ j = 0 /\ p = 0

AfterByte(e, H, y, j, p) ==
  /\ p \in 1 .. Len(e)
  /\ \E b \in 0 .. Top - 1 :
       <<b, j, p - 1>> \in H /\ y = b \div Base /\ FromEnd(e, p) = b % Base

AfterSymbol(c, v, H, y, j, p) ==
  /\ j \in 1 .. Len(v)
  /\ \E s \in Alphabet(c) : \E b \in Floor(c, s) .. XMax(c, s) - 1 :
       <<b, j - 1, p>> \in H /\ FromEnd(v, j) = FromSymbol(c, s) /\ y = Put(c, s, b)

Written(c, v, e, H) ==
  \A y, j, p \in Nat : <<y, j, p>> \in H =>
    AtRansEncInit(y, j, p) \/ AfterByte(e, H, y, j, p) \/ AfterSymbol(c, v, H, y, j, p)

EncoderWasAt(c, v, e, y, j, p) == \E H : <<y, j, p>> \in H /\ Written(c, v, e, H)

LEMMA EncoderStart ==
  ASSUME NEW c, NEW v, NEW e
  PROVE  EncoderWasAt(c, v, e, Low, 0, 0)
<1> DEFINE H == {<<Low, 0, 0>>}
<1>1. Written(c, v, e, H)
  BY DEF Written, AtRansEncInit
<1> QED
  BY <1>1 DEF EncoderWasAt

(* More bytes and more values leave a state reached.                       *)
LEMMA EncoderMore ==
  ASSUME NEW c, NEW v \in Seq(Int), NEW e \in Seq(0 .. Base - 1),
         NEW w \in Seq(0 .. Base - 1), NEW u \in Seq(Int),
         NEW H, Written(c, v, e, H)
  PROVE  Written(c, u \o v, w \o e, H)
<1>1. /\ Len(w \o e) = Len(w) + Len(e)
      /\ \A k \in 1 .. Len(e) : FromEnd(w \o e, k) = FromEnd(e, k)
  BY PutInFront
<1>2. /\ Len(u \o v) = Len(u) + Len(v)
      /\ \A k \in 1 .. Len(v) : FromEnd(u \o v, k) = FromEnd(v, k)
  BY PutInFront
<1>3. Len(w) \in Nat /\ Len(e) \in Nat /\ Len(u) \in Nat /\ Len(v) \in Nat
  OBVIOUS
<1>4. SUFFICES ASSUME NEW y \in Nat, NEW j \in Nat, NEW p \in Nat, <<y, j, p>> \in H
      PROVE  \/ AtRansEncInit(y, j, p) \/ AfterByte(w \o e, H, y, j, p)
             \/ AfterSymbol(c, u \o v, H, y, j, p)
  BY DEF Written
<1>5. ASSUME AfterByte(e, H, y, j, p) PROVE AfterByte(w \o e, H, y, j, p)
  <2>1. p \in 1 .. Len(w \o e) /\ FromEnd(w \o e, p) = FromEnd(e, p)
    BY <1>1, <1>3, <1>5 DEF AfterByte
  <2> QED
    BY <1>5, <2>1 DEF AfterByte
<1>6. ASSUME AfterSymbol(c, v, H, y, j, p) PROVE AfterSymbol(c, u \o v, H, y, j, p)
  <2>1. j \in 1 .. Len(u \o v) /\ FromEnd(u \o v, j) = FromEnd(v, j)
    BY <1>2, <1>3, <1>6 DEF AfterSymbol
  <2> QED
    BY <1>6, <2>1 DEF AfterSymbol
<1> QED
  BY <1>4, <1>5, <1>6 DEF Written

LEMMA EncoderMoreBytes ==
  ASSUME NEW c, NEW v \in Seq(Int), NEW e \in Seq(0 .. Base - 1),
         NEW w \in Seq(0 .. Base - 1),
         NEW y, NEW j, NEW p, EncoderWasAt(c, v, e, y, j, p)
  PROVE  EncoderWasAt(c, v, w \o e, y, j, p)
<1>1. PICK H : <<y, j, p>> \in H /\ Written(c, v, e, H)
  BY DEF EncoderWasAt
<1>2. <<>> \in Seq(Int) /\ <<>> \o v = v
  BY ConcatEmptySeq
<1>3. Written(c, <<>> \o v, w \o e, H)
  BY <1>1, <1>2, EncoderMore
<1> QED
  BY <1>1, <1>2, <1>3 DEF EncoderWasAt

LEMMA EncoderWrites ==
  ASSUME NEW c, NEW v \in Seq(Int), NEW e \in Seq(0 .. Base - 1),
         NEW y \in 0 .. Top - 1, NEW j \in Nat, NEW e2, e2 = <<y % Base>> \o e,
         EncoderWasAt(c, v, e, y, j, Len(e))
  PROVE  EncoderWasAt(c, v, e2, y \div Base, j, Len(e) + 1)
<1>1. PICK H : <<y, j, Len(e)>> \in H /\ Written(c, v, e, H)
  BY DEF EncoderWasAt
<1> DEFINE z == y \div Base
           t == y % Base
           n == Len(e) + 1
           G == H \cup {<<z, j, n>>}
<1>2. t \in 0 .. Base - 1 /\ z \in Nat /\ n \in Nat /\ Len(e) \in Nat
  <2>1. z \in Nat /\ t \in 0 .. Base - 1
    BY LastByte
  <2>2. Len(e) \in Nat
    OBVIOUS
  <2> QED
    BY <2>1, <2>2
<1> HIDE DEF t, z
<1>3. e2 \in Seq(0 .. Base - 1) /\ Len(e2) = n /\ FromEnd(e2, n) = t
  BY <1>2, PutOneInFront DEF t
<1>4. Written(c, v, e2, H)
  <2>1. <<>> \in Seq(Int) /\ <<>> \o v = v
    BY ConcatEmptySeq
  <2>2. <<t>> \in Seq(0 .. Base - 1)
    <3> DEFINE S == 0 .. Base - 1
    <3>1. t \in S
      BY <1>2
    <3> HIDE DEF S
    <3>2. <<t>> \in Seq(S)
      BY <3>1
    <3> QED
      BY <3>2 DEF S
  <2>3. Written(c, <<>> \o v, <<t>> \o e, H)
    BY <1>1, <2>1, <2>2, EncoderMore
  <2> QED
    BY <2>1, <2>3 DEF t
<1> HIDE DEF n
<1>5. Written(c, v, e2, G)
  <2> SUFFICES ASSUME NEW a \in Nat, NEW i \in Nat, NEW p \in Nat, <<a, i, p>> \in G
      PROVE  AtRansEncInit(a, i, p) \/ AfterByte(e2, G, a, i, p) \/ AfterSymbol(c, v, G, a, i, p)
    BY DEF Written
  <2>1. CASE <<a, i, p>> \in H
    <3>1. AtRansEncInit(a, i, p) \/ AfterByte(e2, H, a, i, p) \/ AfterSymbol(c, v, H, a, i, p)
      BY <1>4, <2>1 DEF Written
    <3>2. AfterByte(e2, H, a, i, p) => AfterByte(e2, G, a, i, p)
      BY DEF AfterByte
    <3>3. AfterSymbol(c, v, H, a, i, p) => AfterSymbol(c, v, G, a, i, p)
      BY DEF AfterSymbol
    <3> QED
      BY <3>1, <3>2, <3>3
  <2>2. CASE a = z /\ i = j /\ p = n
    <3>1. p \in 1 .. Len(e2) /\ p - 1 = Len(e)
      BY <1>2, <1>3, <2>2 DEF n
    <3>2. <<y, i, p - 1>> \in G /\ a = y \div Base /\ FromEnd(e2, p) = y % Base
      BY <1>1, <1>3, <2>2, <3>1 DEF z, t
    <3> QED
      BY <3>1, <3>2 DEF AfterByte
  <2> QED
    BY <2>1, <2>2
<1>6. <<z, j, n>> \in G
  OBVIOUS
<1> QED
  BY <1>5, <1>6 DEF EncoderWasAt, z, n

LEMMA EncoderPuts ==
  ASSUME NEW c \in Codecs, NEW v \in Seq(Int), NEW e \in Seq(0 .. Base - 1),
         NEW s \in Alphabet(c), NEW y \in Floor(c, s) .. XMax(c, s) - 1, NEW p \in Nat,
         NEW v2, v2 = <<FromSymbol(c, s)>> \o v,
         EncoderWasAt(c, v, e, y, Len(v), p)
  PROVE  EncoderWasAt(c, v2, e, Put(c, s, y), Len(v) + 1, p)
<1>1. PICK H : <<y, Len(v), p>> \in H /\ Written(c, v, e, H)
  BY DEF EncoderWasAt
<1> DEFINE z == Put(c, s, y)
           t == FromSymbol(c, s)
           n == Len(v) + 1
           G == H \cup {<<z, n, p>>}
<1>2. t \in Int /\ z \in Nat /\ n \in Nat /\ Len(v) \in Nat
  <2>1. Low \in Nat /\ Top \in Nat
    BY Constants
  <2> QED
    BY <2>1, PutFacts, SymbolFacts
<1> HIDE DEF t, z
<1>3. v2 \in Seq(Int) /\ Len(v2) = n /\ FromEnd(v2, n) = t
  BY <1>2, PutOneInFront DEF t
<1>4. Written(c, v2, e, H)
  <2>1. <<>> \in Seq(0 .. Base - 1) /\ <<>> \o e = e
    BY ConcatEmptySeq
  <2>2. <<t>> \in Seq(Int)
    BY <1>2
  <2>3. Written(c, <<t>> \o v, <<>> \o e, H)
    BY <1>1, <2>1, <2>2, EncoderMore
  <2> QED
    BY <2>1, <2>3 DEF t
<1> HIDE DEF n
<1>5. Written(c, v2, e, G)
  <2> SUFFICES ASSUME NEW a \in Nat, NEW i \in Nat, NEW q \in Nat, <<a, i, q>> \in G
      PROVE  AtRansEncInit(a, i, q) \/ AfterByte(e, G, a, i, q) \/ AfterSymbol(c, v2, G, a, i, q)
    BY DEF Written
  <2>1. CASE <<a, i, q>> \in H
    <3>1. AtRansEncInit(a, i, q) \/ AfterByte(e, H, a, i, q) \/ AfterSymbol(c, v2, H, a, i, q)
      BY <1>4, <2>1 DEF Written
    <3>2. AfterByte(e, H, a, i, q) => AfterByte(e, G, a, i, q)
      BY DEF AfterByte
    <3>3. AfterSymbol(c, v2, H, a, i, q) => AfterSymbol(c, v2, G, a, i, q)
      BY DEF AfterSymbol
    <3> QED
      BY <3>1, <3>2, <3>3
  <2>2. CASE a = z /\ i = n /\ q = p
    <3>1. i \in 1 .. Len(v2) /\ i - 1 = Len(v)
      BY <1>2, <1>3, <2>2 DEF n
    <3>2. <<y, i - 1, q>> \in G /\ a = Put(c, s, y) /\ FromEnd(v2, i) = FromSymbol(c, s)
      BY <1>1, <1>3, <2>2, <3>1 DEF z, t
    <3> QED
      BY <3>1, <3>2 DEF AfterSymbol
  <2> QED
    BY <2>1, <2>2
<1>6. <<z, n, p>> \in G
  OBVIOUS
<1> QED
  BY <1>5, <1>6 DEF EncoderWasAt, z, n

(* Walking back: what the state before was can be told from the state.     *)
LEMMA EncoderPutLast ==
  ASSUME NEW c \in Codecs, NEW v, NEW e, NEW y \in Nat, NEW j \in Nat, NEW p \in Nat,
         EncoderWasAt(c, v, e, y, j, p), y >= Low
  PROVE  \/ y = Low /\ j = 0 /\ p = 0
         \/ /\ j \in 1 .. Len(v)
            /\ \E s \in Alphabet(c) : \E b \in Floor(c, s) .. XMax(c, s) - 1 :
                 /\ EncoderWasAt(c, v, e, b, j - 1, p)
                 /\ FromEnd(v, j) = FromSymbol(c, s) /\ y = Put(c, s, b)
<1>1. PICK H : <<y, j, p>> \in H /\ Written(c, v, e, H)
  BY DEF EncoderWasAt
<1>2. \A b \in 0 .. Top - 1 : b \div Base < Low
  BY Constants, DivBounds DEF Top
<1>3. \A b : <<b, j - 1, p>> \in H => EncoderWasAt(c, v, e, b, j - 1, p)
  BY <1>1 DEF EncoderWasAt
<1>4. Low \in Nat /\ \A b \in 0 .. Top - 1 : b \div Base \in Nat
  BY Constants, DivBounds
<1>5. ASSUME AfterByte(e, H, y, j, p) PROVE FALSE
  <2>1. PICK b \in 0 .. Top - 1 : y = b \div Base
    BY <1>5 DEF AfterByte
  <2>2. b \div Base < Low
    BY <1>2
  <2> QED
    BY <1>4, <2>1, <2>2
<1>6. AtRansEncInit(y, j, p) \/ AfterSymbol(c, v, H, y, j, p)
  BY <1>1, <1>5 DEF Written
<1> QED
  BY <1>3, <1>6 DEF AtRansEncInit, AfterSymbol

LEMMA EncoderWroteLast ==
  ASSUME NEW c \in Codecs, NEW v, NEW e, NEW y \in Nat, NEW j \in Nat, NEW p \in Nat,
         EncoderWasAt(c, v, e, y, j, p), y < Low
  PROVE  /\ p \in 1 .. Len(e)
         /\ \E b \in 0 .. Top - 1 :
              EncoderWasAt(c, v, e, b, j, p - 1) /\ y = b \div Base /\ FromEnd(e, p) = b % Base
<1>1. PICK H : <<y, j, p>> \in H /\ Written(c, v, e, H)
  BY DEF EncoderWasAt
<1>2. \A s \in Alphabet(c) : \A b \in Floor(c, s) .. XMax(c, s) - 1 : Put(c, s, b) \in Low .. Top - 1
  BY PutFacts
<1>3. \A b : <<b, j, p - 1>> \in H => EncoderWasAt(c, v, e, b, j, p - 1)
  BY <1>1 DEF EncoderWasAt
<1>4. Low \in Nat /\ Top \in Nat
  BY Constants
<1>5. y # Low
  BY <1>4
<1>6. ASSUME NEW s \in Alphabet(c), NEW b \in Floor(c, s) .. XMax(c, s) - 1, y = Put(c, s, b)
      PROVE  FALSE
  BY <1>2, <1>4, <1>6
<1>7. AfterByte(e, H, y, j, p)
  <2>1. ~ AtRansEncInit(y, j, p)
    BY <1>5 DEF AtRansEncInit
  <2>2. ~ AfterSymbol(c, v, H, y, j, p)
    BY <1>6 DEF AfterSymbol
  <2> QED
    BY <1>1, <2>1, <2>2 DEF Written
<1> QED
  BY <1>3, <1>7 DEF AfterByte

-----------------------------------------------------------------------------
(* The states a decoder has gone through: y after j values of d and the    *)
(* first p bytes of e.                                                     *)

SymbolOf(c, y) == SymbolAt[c][y % Scale]

AtRansDecInit(e, y, j, p) == y = FirstOf(e) /\ j = 0 /\ p = 4

AfterRead(c, e, d, H, y, j, p) ==
  /\ p \in 5 .. Len(e) /\ j \in 1 .. Len(d)
  /\ \E s \in Alphabet(c) : \E b \in Floor(c, s) .. Low - 1 :
       <<b, j, p - 1>> \in H /\ d[j] = FromSymbol(c, s) /\ y = b * Base + e[p]

AfterAdvance(c, d, H, y, j, p) ==
  /\ p >= 4 /\ j \in 1 .. Len(d)
  /\ \E b \in Low .. Top - 1 :
       /\ <<b, j - 1, p>> \in H
       /\ d[j] = FromSymbol(c, SymbolOf(c, b)) /\ y = Advance(c, SymbolOf(c, b), b)

ReadBack(c, e, d, H) ==
  \A y, j, p \in Nat : <<y, j, p>> \in H =>
    AtRansDecInit(e, y, j, p) \/ AfterRead(c, e, d, H, y, j, p) \/ AfterAdvance(c, d, H, y, j, p)

DecoderWasAt(c, e, d, y, j, p) == \E H : <<y, j, p>> \in H /\ ReadBack(c, e, d, H)

LEMMA DecoderStart ==
  ASSUME NEW c, NEW e, NEW d
  PROVE  DecoderWasAt(c, e, d, FirstOf(e), 0, 4)
<1> DEFINE H == {<<FirstOf(e), 0, 4>>}
<1>1. ReadBack(c, e, d, H)
  BY DEF ReadBack, AtRansDecInit
<1> QED
  BY <1>1 DEF DecoderWasAt

LEMMA DecoderReads ==
  ASSUME NEW c \in Codecs, NEW e \in Seq(0 .. Base - 1), NEW d \in Seq(Int),
         NEW j \in 1 .. Len(d), NEW s \in Alphabet(c), d[j] = FromSymbol(c, s),
         NEW y \in Floor(c, s) .. Low - 1, NEW p \in Nat, p >= 4, p < Len(e),
         NEW z, z = y * Base + e[p + 1],
         DecoderWasAt(c, e, d, y, j, p)
  PROVE  DecoderWasAt(c, e, d, z, j, p + 1)
<1>1. PICK H : <<y, j, p>> \in H /\ ReadBack(c, e, d, H)
  BY DEF DecoderWasAt
<1> DEFINE n == p + 1
           G == H \cup {<<z, j, n>>}
<1>2. n \in 5 .. Len(e) /\ n - 1 = p
  OBVIOUS
<1>3. z = y * Base + e[n]
  OBVIOUS
<1> HIDE DEF n
<1>4. ReadBack(c, e, d, G)
  <2> SUFFICES ASSUME NEW a \in Nat, NEW i \in Nat, NEW q \in Nat, <<a, i, q>> \in G
      PROVE  \/ AtRansDecInit(e, a, i, q) \/ AfterRead(c, e, d, G, a, i, q)
             \/ AfterAdvance(c, d, G, a, i, q)
    BY DEF ReadBack
  <2>1. CASE <<a, i, q>> \in H
    <3>1. \/ AtRansDecInit(e, a, i, q) \/ AfterRead(c, e, d, H, a, i, q)
          \/ AfterAdvance(c, d, H, a, i, q)
      BY <1>1, <2>1 DEF ReadBack
    <3>2. AfterRead(c, e, d, H, a, i, q) => AfterRead(c, e, d, G, a, i, q)
      BY DEF AfterRead
    <3>3. AfterAdvance(c, d, H, a, i, q) => AfterAdvance(c, d, G, a, i, q)
      BY DEF AfterAdvance
    <3> QED
      BY <3>1, <3>2, <3>3
  <2>2. CASE a = z /\ i = j /\ q = n
    <3>1. <<y, i, q - 1>> \in G /\ d[i] = FromSymbol(c, s) /\ a = y * Base + e[q]
      BY <1>1, <1>2, <1>3, <2>2
    <3>2. q \in 5 .. Len(e) /\ i \in 1 .. Len(d)
      BY <1>2, <2>2
    <3> QED
      BY <3>1, <3>2 DEF AfterRead
  <2> QED
    BY <2>1, <2>2
<1>5. <<z, j, n>> \in G
  OBVIOUS
<1> QED
  BY <1>4, <1>5 DEF DecoderWasAt, n

LEMMA DecoderAdvances ==
  ASSUME NEW c \in Codecs, NEW e, NEW d \in Seq(Int), NEW y \in Low .. Top - 1,
         NEW s \in Alphabet(c), s = SymbolOf(c, y), NEW p \in Nat, p >= 4,
         NEW d2, d2 = Append(d, FromSymbol(c, s)),
         DecoderWasAt(c, e, d, y, Len(d), p)
  PROVE  DecoderWasAt(c, e, d2, Advance(c, s, y), Len(d) + 1, p)
<1>1. PICK H : <<y, Len(d), p>> \in H /\ ReadBack(c, e, d, H)
  BY DEF DecoderWasAt
<1> DEFINE n == Len(d) + 1
           z == Advance(c, s, y)
           t == FromSymbol(c, s)
           G == H \cup {<<z, n, p>>}
<1>2. t \in Int
  BY SymbolFacts
<1> HIDE DEF z, t
<1>3. Len(d2) = n /\ d2[n] = t /\ \A i \in 1 .. Len(d) : d2[i] = d[i]
  BY <1>2, AppendProperties DEF t
<1>4. Len(d) \in Nat
  OBVIOUS
<1> HIDE DEF n
<1>5. ReadBack(c, e, d2, G)
  <2> SUFFICES ASSUME NEW a \in Nat, NEW i \in Nat, NEW q \in Nat, <<a, i, q>> \in G
      PROVE  \/ AtRansDecInit(e, a, i, q) \/ AfterRead(c, e, d2, G, a, i, q)
             \/ AfterAdvance(c, d2, G, a, i, q)
    BY DEF ReadBack
  <2>1. CASE <<a, i, q>> \in H
    <3>1. \/ AtRansDecInit(e, a, i, q) \/ AfterRead(c, e, d, H, a, i, q)
          \/ AfterAdvance(c, d, H, a, i, q)
      BY <1>1, <2>1 DEF ReadBack
    <3>2. i \in 1 .. Len(d) => i \in 1 .. Len(d2) /\ d2[i] = d[i]
      BY <1>3, <1>4 DEF n
    <3>3. AfterRead(c, e, d, H, a, i, q) => AfterRead(c, e, d2, G, a, i, q)
      BY <3>2 DEF AfterRead
    <3>4. AfterAdvance(c, d, H, a, i, q) => AfterAdvance(c, d2, G, a, i, q)
      BY <3>2 DEF AfterAdvance
    <3> QED
      BY <3>1, <3>3, <3>4
  <2>2. CASE a = z /\ i = n /\ q = p
    <3>1. i \in 1 .. Len(d2) /\ i - 1 = Len(d)
      BY <1>3, <1>4, <2>2 DEF n
    <3>2. /\ <<y, i - 1, q>> \in G /\ d2[i] = FromSymbol(c, SymbolOf(c, y))
          /\ a = Advance(c, SymbolOf(c, y), y)
      BY <1>1, <1>3, <2>2, <3>1 DEF z, t
    <3> QED
      BY <2>2, <3>1, <3>2 DEF AfterAdvance
  <2> QED
    BY <2>1, <2>2
<1>6. <<z, n, p>> \in G
  OBVIOUS
<1> QED
  BY <1>5, <1>6 DEF DecoderWasAt, z, n

(* Walking back.                                                           *)
LEMMA SameSymbol ==
  ASSUME NEW c \in Codecs, NEW s \in Alphabet(c), NEW r \in Alphabet(c),
         FromSymbol(c, s) = FromSymbol(c, r)
  PROVE  s = r
<1>1. ToSymbol(c, FromSymbol(c, s)) = s
  BY SymbolFacts
<1>2. ToSymbol(c, FromSymbol(c, r)) = r
  BY SymbolFacts
<1> QED
  BY <1>1, <1>2

LEMMA FloorTimesBase ==
  ASSUME NEW c \in Codecs, NEW s \in Alphabet(c)
  PROVE  /\ Floor(c, s) \in Nat /\ Floor(c, s) > 0 /\ Floor(c, s) <= Low
         /\ XMax(c, s) = Floor(c, s) * Base /\ XMax(c, s) \in Nat
<1> DEFINE f == Freq[c][s]
<1>1. f \in Nat /\ f > 0 /\ f <= Scale
  BY Tables, Constants
<1>2. Unit \in Nat /\ Unit > 0 /\ Base \in Nat /\ Scale \in Nat
  BY Constants
<1> HIDE DEF f
<1>3. Unit * f \in Nat /\ Unit * f > 0 /\ Unit * f <= Unit * Scale /\ Unit * Base * f \in Nat
  BY <1>1, <1>2
<1>4. Unit * Base * f = (Unit * f) * Base
  BY <1>1, <1>2
<1> QED
  BY <1>3, <1>4 DEF Floor, XMax, Low, f

LEMMA DecoderAtStart ==
  ASSUME NEW c, NEW e, NEW d, NEW y \in Nat, NEW p \in Nat, DecoderWasAt(c, e, d, y, 0, p)
  PROVE  y = FirstOf(e) /\ p = 4
<1>1. PICK H : <<y, 0, p>> \in H /\ ReadBack(c, e, d, H)
  BY DEF DecoderWasAt
<1>2. ~ AfterRead(c, e, d, H, y, 0, p) /\ ~ AfterAdvance(c, d, H, y, 0, p)
  <2>1. 0 \notin 1 .. Len(d)
    OBVIOUS
  <2> QED
    BY <2>1 DEF AfterRead, AfterAdvance
<1> QED
  BY <1>1, <1>2 DEF ReadBack, AtRansDecInit

LEMMA DecoderReadLast ==
  ASSUME NEW c \in Codecs, NEW e \in Seq(0 .. Base - 1), NEW d, NEW j \in 1 .. Len(d),
         NEW s \in Alphabet(c), d[j] = FromSymbol(c, s), j \in Nat,
         NEW y \in Nat, y >= XMax(c, s), NEW p \in Nat,
         DecoderWasAt(c, e, d, y, j, p)
  PROVE  /\ p \in 5 .. Len(e) /\ e[p] = y % Base /\ y \div Base >= Floor(c, s)
         /\ DecoderWasAt(c, e, d, y \div Base, j, p - 1)
<1>1. PICK H : <<y, j, p>> \in H /\ ReadBack(c, e, d, H)
  BY DEF DecoderWasAt
<1>2. ASSUME AtRansDecInit(e, y, j, p) PROVE FALSE
  BY <1>2 DEF AtRansDecInit
<1>3. ASSUME AfterAdvance(c, d, H, y, j, p) PROVE FALSE
  <2>1. PICK b \in Low .. Top - 1 :
          d[j] = FromSymbol(c, SymbolOf(c, b)) /\ y = Advance(c, SymbolOf(c, b), b)
    BY <1>3 DEF AfterAdvance
  <2>2. b \in Nat
    BY Constants
  <2>3. PICK r : r = SymbolOf(c, b)
    OBVIOUS
  <2>4. r \in Alphabet(c) /\ Advance(c, r, b) \in Floor(c, r) .. XMax(c, r) - 1
    BY <2>2, <2>3, AdvanceFacts DEF SymbolOf
  <2>5. r = s
    BY <2>1, <2>3, <2>4, SameSymbol
  <2>6. Floor(c, s) \in Nat /\ XMax(c, s) \in Nat
    BY FloorTimesBase
  <2> QED
    BY <2>1, <2>3, <2>4, <2>5, <2>6
<1>4. AfterRead(c, e, d, H, y, j, p)
  BY <1>1, <1>2, <1>3 DEF ReadBack
<1>a. PICK r \in Alphabet(c) : \E b \in Floor(c, r) .. Low - 1 :
        <<b, j, p - 1>> \in H /\ d[j] = FromSymbol(c, r) /\ y = b * Base + e[p]
  BY <1>4 DEF AfterRead
<1>5. PICK b \in Floor(c, r) .. Low - 1 :
        <<b, j, p - 1>> \in H /\ d[j] = FromSymbol(c, r) /\ y = b * Base + e[p]
  BY <1>a
<1>6. r = s
  BY <1>5, SameSymbol
<1>7. p \in 5 .. Len(e)
  BY <1>4 DEF AfterRead
<1>8. PICK t \in 0 .. Base - 1 : t = e[p]
  <2>1. Len(e) \in Nat
    OBVIOUS
  <2>2. p \in 1 .. Len(e)
    BY <1>7, <2>1
  <2> QED
    BY <2>2, ElementOfSeq
<1>9. b \in Int /\ b >= Floor(c, s) /\ Base \in Nat /\ Base > 0
  BY <1>6, FloorTimesBase, Constants
<1>10. y \in Int /\ y = b * Base + t
  BY <1>5, <1>8
<1>11. y \div Base = b /\ y % Base = t
  BY <1>9, <1>10, DivModUnique
<1> QED
  BY <1>1, <1>5, <1>7, <1>8, <1>9, <1>11 DEF DecoderWasAt

LEMMA DecoderAdvancedLast ==
  ASSUME NEW c \in Codecs, NEW e \in Seq(0 .. Base - 1), NEW d, NEW j \in 1 .. Len(d),
         NEW s \in Alphabet(c), d[j] = FromSymbol(c, s), j \in Nat,
         NEW y \in Nat, y < XMax(c, s), NEW p \in Nat,
         DecoderWasAt(c, e, d, y, j, p)
  PROVE  /\ p >= 4 /\ y \in Floor(c, s) .. XMax(c, s) - 1
         /\ Put(c, s, y) \in Low .. Top - 1
         /\ DecoderWasAt(c, e, d, Put(c, s, y), j - 1, p)
<1>1. PICK H : <<y, j, p>> \in H /\ ReadBack(c, e, d, H)
  BY DEF DecoderWasAt
<1>2. ASSUME AtRansDecInit(e, y, j, p) PROVE FALSE
  BY <1>2 DEF AtRansDecInit
<1>3. ASSUME AfterRead(c, e, d, H, y, j, p) PROVE FALSE
  <2>a. PICK r \in Alphabet(c) : \E b \in Floor(c, r) .. Low - 1 :
          <<b, j, p - 1>> \in H /\ d[j] = FromSymbol(c, r) /\ y = b * Base + e[p]
    BY <1>3 DEF AfterRead
  <2>1. PICK b \in Floor(c, r) .. Low - 1 :
          <<b, j, p - 1>> \in H /\ d[j] = FromSymbol(c, r) /\ y = b * Base + e[p]
    BY <2>a
  <2>2. r = s
    BY <2>1, SameSymbol
  <2>3. p \in 5 .. Len(e)
    BY <1>3 DEF AfterRead
  <2>4. PICK t \in 0 .. Base - 1 : t = e[p]
    <3>1. Len(e) \in Nat
      OBVIOUS
    <3>2. p \in 1 .. Len(e)
      BY <2>3, <3>1
    <3> QED
      BY <3>2, ElementOfSeq
  <2>5. PICK m \in Nat : m = Floor(c, s) /\ XMax(c, s) = m * Base
    BY FloorTimesBase
  <2>6. b \in Nat /\ b >= m /\ Base \in Nat /\ t \in Nat
    BY <2>2, <2>5, Constants
  <2>7. b * Base >= m * Base /\ b * Base \in Nat /\ m * Base \in Nat
    BY <2>5, <2>6
  <2>8. y = b * Base + t
    BY <2>1, <2>4
  <2> QED
    BY <2>5, <2>6, <2>7, <2>8
<1>4. AfterAdvance(c, d, H, y, j, p)
  BY <1>1, <1>2, <1>3 DEF ReadBack
<1>5. PICK b \in Low .. Top - 1 :
        /\ <<b, j - 1, p>> \in H
        /\ d[j] = FromSymbol(c, SymbolOf(c, b)) /\ y = Advance(c, SymbolOf(c, b), b)
  BY <1>4 DEF AfterAdvance
<1>6. b \in Nat
  BY Constants
<1>7. PICK r : r = SymbolOf(c, b)
  OBVIOUS
<1>8. /\ r \in Alphabet(c) /\ Advance(c, r, b) \in Floor(c, r) .. XMax(c, r) - 1
      /\ Put(c, r, Advance(c, r, b)) = b
  BY <1>6, <1>7, AdvanceFacts DEF SymbolOf
<1>9. r = s
  BY <1>5, <1>7, <1>8, SameSymbol
<1>10. p >= 4
  BY <1>4 DEF AfterAdvance
<1> QED
  BY <1>1, <1>5, <1>7, <1>8, <1>9, <1>10 DEF DecoderWasAt

-----------------------------------------------------------------------------
(* The inductive invariant.                                                *)

CodecTypes ==
  /\ whose \in {"caller", "wire", "again"} /\ codec \in Codecs /\ x \in 0 .. Top - 1
  /\ encoded \in Seq(0 .. Base - 1) /\ bytes \in Seq(0 .. Base - 1) /\ pos \in 0 .. Len(bytes)
  /\ source \in Seq(Int) /\ decoded \in Seq(Int)
  /\ Len(source) <= Length[codec] /\ Len(decoded) <= Length[codec]
  /\ Len(encoded) <= BufBytes[codec]

AtStart ==
  stage = "start" =>
    /\ whose = "caller" /\ x = Low /\ pos = 0
    /\ encoded = <<>> /\ source = <<>> /\ bytes = <<>> /\ decoded = <<>>

(* A symbol costs at most three bytes, and after each the state is smaller *)
(* by as much.                                                             *)
RoomWhileEmitting ==
  \/ Len(encoded) + 4 <= BufBytes[codec]
  \/ Len(encoded) + 3 <= BufBytes[codec] /\ x < Base * Base * Base
  \/ Len(encoded) + 2 <= BufBytes[codec] /\ x < Base * Base
  \/ Len(encoded) + 1 <= BufBytes[codec] /\ x < Base

Encoder ==
  /\ stage \in {"encode", "emit", "encoded", "refused"} => whose # "wire"
  /\ stage = "encode" => x >= Low /\ Len(encoded) + 4 <= BufBytes[codec]
  /\ stage = "emit" =>
       /\ Len(source) < Length[codec] /\ RoomWhileEmitting
       /\ \E s \in Alphabet(codec) :
            ToSymbol(codec, value) = s /\ FromSymbol(codec, s) = value /\ x >= Floor(codec, s)

(* The caller's vector: first forwards, then all the way back.             *)
CallerSide ==
  whose = "caller" =>
    /\ stage \in {"encode", "emit"} =>
         /\ decoded = <<>> /\ pos = 0
         /\ EncoderWasAt(codec, source, encoded, x, Len(source), Len(encoded))
    /\ stage \in {"encoded", "received"} =>
         /\ decoded = <<>> /\ pos = 0 /\ x >= Low
         /\ Len(source) = Length[codec] /\ Len(encoded) >= 4 /\ FirstOf(encoded) = x
         /\ EncoderWasAt(codec, source, encoded, x, Length[codec], Len(encoded) - 4)
    /\ stage = "received" => bytes = encoded
    /\ stage \in {"decode", "read"} =>
         /\ Len(source) = Length[codec]
         /\ \A k \in 1 .. Len(decoded) : decoded[k] = source[k]
         /\ EncoderWasAt(codec, source, bytes, x, Length[codec] - Len(decoded), Len(bytes) - pos)
    /\ stage = "decode" => x >= Low
    /\ stage = "accepted" => decoded = source
    /\ stage # "rejected"

(* Foreign bytes: forwards.                                                *)
Starved == x < Low /\ pos = Len(bytes)

WireSide ==
  whose = "wire" =>
    /\ encoded = <<>> /\ source = <<>>
    /\ stage = "received" => decoded = <<>> /\ pos = 0 /\ Len(bytes) >= 4
    /\ stage = "decode" =>
         \/ Starved
         \/ /\ x >= Low /\ pos >= 4
            /\ DecoderWasAt(codec, bytes, decoded, x, Len(decoded), pos)
    /\ stage = "read" =>
         \/ Starved
         \/ /\ pos >= 4 /\ Len(decoded) > 0
            /\ \E s \in Alphabet(codec) :
                 decoded[Len(decoded)] = FromSymbol(codec, s) /\ x >= Floor(codec, s)
            /\ DecoderWasAt(codec, bytes, decoded, x, Len(decoded), pos)
    /\ stage = "accepted" =>
         /\ Len(decoded) = Length[codec]
         /\ DecoderWasAt(codec, bytes, decoded, Low, Length[codec], Len(bytes))

(* What was decoded of them, encoded: all the way back.                    *)
AgainSide ==
  whose = "again" =>
    /\ Len(decoded) = Length[codec]
    /\ stage \in {"encode", "emit"} =>
         /\ Len(encoded) <= Len(bytes)
         /\ DecoderWasAt(codec, bytes, decoded, x, Length[codec] - Len(source),
                         Len(bytes) - Len(encoded))
         /\ \A k \in 1 .. Len(encoded) : FromEnd(encoded, k) = FromEnd(bytes, k)
    /\ stage = "emit" => value = decoded[Length[codec] - Len(source)]
    /\ stage \in {"encode", "emit", "encoded", "refused"}
    /\ stage = "encoded" => encoded = bytes
    /\ stage = "refused" => Len(bytes) > BufBytes[codec]

SymbolsDecoded ==
  whose # "caller" =>
    \A k \in 1 .. Len(decoded) : \E s \in Alphabet(codec) : decoded[k] = FromSymbol(codec, s)

CodecInv ==
  /\ CodecTypes /\ AtStart /\ Encoder
  /\ CallerSide /\ WireSide /\ AgainSide /\ SymbolsDecoded

LEMMA CodecSizes ==
  ASSUME CodecTypes
  PROVE  /\ Len(encoded) \in Nat /\ Len(source) \in Nat /\ Len(bytes) \in Nat
         /\ Len(decoded) \in Nat /\ x \in Nat /\ pos \in Nat
         /\ Length[codec] \in Nat /\ BufBytes[codec] \in Nat /\ BufBytes[codec] >= 4
<1>1. Len(encoded) \in Nat /\ Len(source) \in Nat /\ Len(bytes) \in Nat /\ Len(decoded) \in Nat
  BY LenProperties DEF CodecTypes
<1>2. x \in Nat /\ pos \in Nat
  BY <1>1, Constants DEF CodecTypes
<1>3. Length[codec] \in Nat /\ BufBytes[codec] \in Nat /\ BufBytes[codec] >= 4
  BY Tables DEF CodecTypes
<1> QED
  BY <1>1, <1>2, <1>3

LEMMA CodecInit == InitCodec => CodecInv
<1> SUFFICES ASSUME InitCodec PROVE CodecInv
  OBVIOUS
<1> USE DEF InitCodec
<1>1. /\ <<>> \in Seq(0 .. Base - 1) /\ <<>> \in Seq(Int) /\ Len(<<>>) = 0
  BY EmptySeq
<1>2. Low \in 0 .. Top - 1
  BY Constants
<1>3. Length[codec] \in Nat /\ BufBytes[codec] \in Nat
  BY Tables
<1>4. CodecTypes
  BY <1>1, <1>2, <1>3 DEF CodecTypes
<1> QED
  BY <1>1, <1>4 DEF CodecInv, AtStart, Encoder, CallerSide, WireSide, AgainSide, SymbolsDecoded

LEMMA BeginEncodeInv == CodecInv /\ BeginEncode => CodecInv'
<1> SUFFICES ASSUME CodecInv, BeginEncode PROVE CodecInv'
  OBVIOUS
<1>1. /\ stage = "start" /\ stage' = "encode"
      /\ UNCHANGED <<whose, codec, x, value, encoded, source, bytes, pos, decoded>>
  BY DEF BeginEncode
<1>2. /\ CodecTypes /\ whose = "caller" /\ x = Low /\ pos = 0
      /\ encoded = <<>> /\ source = <<>> /\ bytes = <<>> /\ decoded = <<>>
  BY <1>1 DEF CodecInv, AtStart
<1>3. Len(<<>>) = 0 /\ BufBytes[codec] >= 4 /\ BufBytes[codec] \in Nat /\ Low \in Nat
  BY <1>2, CodecSizes, Constants
<1>4. CodecTypes'
  BY <1>1, <1>2 DEF CodecTypes
<1>5. AtStart'
  BY <1>1 DEF AtStart
<1>6. Encoder'
  BY <1>1, <1>2, <1>3 DEF Encoder
<1>7. EncoderWasAt(codec, source, encoded, x, Len(source), Len(encoded))
  BY <1>2, <1>3, EncoderStart
<1>8. CallerSide'
  BY <1>1, <1>2, <1>7 DEF CallerSide
<1>9. WireSide' /\ AgainSide' /\ SymbolsDecoded'
  BY <1>1, <1>2 DEF WireSide, AgainSide, SymbolsDecoded
<1> QED
  BY <1>4, <1>5, <1>6, <1>8, <1>9 DEF CodecInv

LEMMA ReencodeInv == CodecInv /\ Reencode => CodecInv'
<1> SUFFICES ASSUME CodecInv, Reencode PROVE CodecInv'
  OBVIOUS
<1>1. /\ stage = "accepted" /\ whose = "wire" /\ whose' = "again" /\ stage' = "encode" /\ x' = Low
      /\ UNCHANGED <<codec, value, encoded, source, bytes, pos, decoded>>
  BY DEF Reencode
<1>2. /\ CodecTypes /\ encoded = <<>> /\ source = <<>> /\ Len(decoded) = Length[codec]
      /\ DecoderWasAt(codec, bytes, decoded, Low, Length[codec], Len(bytes))
      /\ SymbolsDecoded
  BY <1>1 DEF CodecInv, WireSide
<1>3. /\ Len(<<>>) = 0 /\ BufBytes[codec] >= 4 /\ BufBytes[codec] \in Nat /\ Length[codec] \in Nat
      /\ Len(bytes) \in Nat /\ Low \in 0 .. Top - 1 /\ Low \in Nat
  BY <1>2, CodecSizes, Constants
<1>4. CodecTypes'
  BY <1>1, <1>2, <1>3 DEF CodecTypes
<1>5. AtStart' /\ WireSide' /\ CallerSide'
  BY <1>1 DEF AtStart, WireSide, CallerSide
<1>6. Encoder'
  BY <1>1, <1>2, <1>3 DEF Encoder
<1>7. Length[codec] - Len(source) = Length[codec] /\ Len(bytes) - Len(encoded) = Len(bytes)
      /\ 0 <= Len(bytes)
  BY <1>2, <1>3
<1>8. AgainSide'
  BY <1>1, <1>2, <1>3, <1>7 DEF AgainSide
<1>9. SymbolsDecoded'
  BY <1>1, <1>2 DEF SymbolsDecoded
<1> QED
  BY <1>4, <1>5, <1>6, <1>8, <1>9 DEF CodecInv

LEMMA TakeInv == CodecInv /\ Take => CodecInv'
<1> SUFFICES ASSUME CodecInv, Take PROVE CodecInv'
  OBVIOUS
<1>1. /\ stage = "encode" /\ Len(source) < Length[codec] /\ value' \in NextValues
      /\ stage' = IF Encodable(codec, value') THEN "emit" ELSE "refused"
      /\ UNCHANGED <<whose, codec, x, encoded, source, bytes, pos, decoded>>
  BY DEF Take
<1>2. CodecTypes /\ x >= Low /\ Len(encoded) + 4 <= BufBytes[codec] /\ whose # "wire"
  BY <1>1 DEF CodecInv, Encoder
<1>3. /\ codec \in Codecs /\ x \in Nat /\ Low \in Nat /\ Len(source) \in Nat
      /\ Length[codec] \in Nat /\ Len(encoded) \in Nat
  BY <1>2, CodecSizes, Constants DEF CodecTypes
<1>4. \A s \in Alphabet(codec) : x >= Floor(codec, s)
  BY <1>2, <1>3, FloorTimesBase
<1>5. CodecTypes'
  BY <1>1, <1>2 DEF CodecTypes
<1>6. AtStart'
  BY <1>1 DEF AtStart
<1>7. CASE whose = "caller"
  <2>1. value' \in Values[codec]
    BY <1>1, <1>7 DEF NextValues
  <2>2. ASSUME Encodable(codec, value')
        PROVE  \E s \in Alphabet(codec) :
                 ToSymbol(codec, value') = s /\ FromSymbol(codec, s) = value' /\ x >= Floor(codec, s)
    BY <1>3, <1>4, <2>1, <2>2, ValueFacts
  <2>3. Encoder'
    BY <1>1, <1>2, <2>2 DEF Encoder, RoomWhileEmitting
  <2>4. CallerSide'
    BY <1>1, <1>7 DEF CodecInv, CallerSide
  <2>5. WireSide' /\ AgainSide' /\ SymbolsDecoded'
    BY <1>1, <1>7 DEF WireSide, AgainSide, SymbolsDecoded
  <2> QED
    BY <1>5, <1>6, <2>3, <2>4, <2>5 DEF CodecInv
<1>8. CASE whose = "again"
  <2>1. value' = decoded[Length[codec] - Len(source)]
    BY <1>1, <1>8 DEF NextValues
  <2>2. Len(decoded) = Length[codec] /\ Length[codec] - Len(source) \in 1 .. Len(decoded)
    BY <1>1, <1>3, <1>8 DEF CodecInv, AgainSide
  <2>3. PICK s \in Alphabet(codec) : value' = FromSymbol(codec, s)
    BY <1>8, <2>1, <2>2 DEF CodecInv, SymbolsDecoded
  <2>4. Encodable(codec, value') /\ ToSymbol(codec, value') = s
    BY <1>3, <2>3, SymbolFacts
  <2>5. Encoder'
    BY <1>1, <1>2, <1>4, <2>3, <2>4 DEF Encoder, RoomWhileEmitting
  <2>6. AgainSide'
    BY <1>1, <1>8, <2>1, <2>4 DEF CodecInv, AgainSide
  <2>7. WireSide' /\ CallerSide'
    BY <1>1, <1>8 DEF WireSide, CallerSide
  <2>8. SymbolsDecoded'
    BY <1>1 DEF CodecInv, SymbolsDecoded
  <2> QED
    BY <1>5, <1>6, <2>5, <2>6, <2>7, <2>8 DEF CodecInv
<1> QED
  BY <1>2, <1>7, <1>8 DEF CodecTypes

(* One byte less is one power of the base less.                            *)
LEMMA RoomAfterByte ==
  ASSUME NEW y \in 0 .. Top - 1, y >= Base, NEW n \in Nat, NEW buf \in Nat,
         \/ n + 4 <= buf
         \/ n + 3 <= buf /\ y < Base * Base * Base
         \/ n + 2 <= buf /\ y < Base * Base
         \/ n + 1 <= buf /\ y < Base
  PROVE  \/ n + 1 + 4 <= buf
         \/ n + 1 + 3 <= buf /\ y \div Base < Base * Base * Base
         \/ n + 1 + 2 <= buf /\ y \div Base < Base * Base
         \/ n + 1 + 1 <= buf /\ y \div Base < Base
<1>1. Base \in Nat /\ Base > 0 /\ y \in Nat
  BY Constants
<1> DEFINE sq == Base * Base
           cube == Base * Base * Base
           z == y \div Base
<1>2. sq \in Nat /\ cube \in Nat /\ cube = sq * Base /\ cube * Base = Base * Base * Base * Base
  BY <1>1
<1>3. Top <= cube * Base /\ Top \in Nat
  <2>1. Top <= Base * Base * Base * Base
    BY RansAssumption DEF Top
  <2> QED
    BY <1>2, <2>1, Constants
<1>4. y < cube * Base
  <2>1. cube * Base \in Int
    BY <1>1, <1>2
  <2> QED
    BY <1>1, <1>3, <2>1
<1>5. z \in Nat
  BY LastByte
<1> HIDE DEF sq, cube
<1>6. z < cube
  BY <1>1, <1>2, <1>4, DivBounds
<1>7. y < sq * Base => z < sq
  BY <1>1, <1>2, DivBounds
<1>8. y < Base * Base => z < Base
  BY <1>1, DivBounds
<1>9. y < cube => z < sq
  BY <1>2, <1>7
<1>10. y < sq => z < Base
  BY <1>8 DEF sq
<1> HIDE DEF z
<1>11. CASE n + 4 <= buf
  <2>1. n + 1 + 3 <= buf
    BY <1>11
  <2> QED
    BY <2>1, <1>6 DEF cube, z
<1>12. CASE n + 3 <= buf /\ y < Base * Base * Base
  <2>1. n + 1 + 2 <= buf /\ y < cube
    BY <1>12 DEF cube
  <2> QED
    BY <2>1, <1>9 DEF sq, z
<1>13. CASE n + 2 <= buf /\ y < Base * Base
  <2>1. n + 1 + 1 <= buf /\ y < sq
    BY <1>13 DEF sq
  <2> QED
    BY <2>1, <1>10 DEF z
<1>14. CASE n + 1 <= buf /\ y < Base
  BY <1>1, <1>14
<1> QED
  BY <1>11, <1>12, <1>13, <1>14

LEMMA EmitInv == CodecInv /\ Emit => CodecInv'
<1> SUFFICES ASSUME CodecInv, Emit PROVE CodecInv'
  OBVIOUS
<1> DEFINE z == x \div Base
           t == x % Base
           j == Length[codec] - Len(source)
           p == Len(bytes) - Len(encoded)
<1>1. /\ stage = "emit" /\ stage' = "emit" /\ x >= XMax(codec, ToSymbol(codec, value))
      /\ encoded' = <<t>> \o encoded /\ x' = z
      /\ UNCHANGED <<whose, codec, value, source, bytes, pos, decoded>>
  BY DEF Emit, TooLarge, Symbol
<1>2. CodecTypes /\ whose # "wire" /\ Len(source) < Length[codec] /\ RoomWhileEmitting
  BY <1>1 DEF CodecInv, Encoder
<1>3. PICK s \in Alphabet(codec) :
        ToSymbol(codec, value) = s /\ FromSymbol(codec, s) = value /\ x >= Floor(codec, s)
  BY <1>1 DEF CodecInv, Encoder
<1>4. /\ codec \in Codecs /\ x \in Nat /\ x \in 0 .. Top - 1 /\ Low \in Nat /\ Len(source) \in Nat
      /\ Length[codec] \in Nat /\ Len(encoded) \in Nat /\ Len(bytes) \in Nat
      /\ BufBytes[codec] \in Nat /\ Base \in Nat /\ Base > 0 /\ Top \in Nat /\ Low < Top
  BY <1>2, CodecSizes, Constants DEF CodecTypes
<1>5. z \in Nat /\ z < Low /\ t \in 0 .. Base - 1
  BY <1>4, LastByte
<1>6. PICK m \in Nat : m = Floor(codec, s) /\ m > 0 /\ XMax(codec, s) = m * Base
  BY <1>4, FloorTimesBase
<1>7. x >= m * Base /\ m * Base >= Base /\ m * Base \in Nat
  <2>1. x >= m * Base
    BY <1>1, <1>3, <1>6
  <2>2. m * Base >= 1 * Base /\ m * Base \in Nat /\ 1 * Base = Base
    BY <1>4, <1>6
  <2> QED
    BY <2>1, <2>2
<1>8. x >= Base /\ z >= Floor(codec, s)
  BY <1>4, <1>6, <1>7, DivBounds
<1>9. encoded \in Seq(0 .. Base - 1)
  BY <1>2 DEF CodecTypes
<1> HIDE DEF z, t
<1>10. /\ encoded' \in Seq(0 .. Base - 1) /\ Len(encoded') = Len(encoded) + 1
       /\ FromEnd(encoded', Len(encoded) + 1) = t
       /\ \A k \in 1 .. Len(encoded) : FromEnd(encoded', k) = FromEnd(encoded, k)
  <2> DEFINE S == 0 .. Base - 1
  <2>1. t \in S /\ encoded \in Seq(S)
    BY <1>5, <1>9
  <2> HIDE DEF S
  <2>2. /\ <<t>> \o encoded \in Seq(S) /\ Len(<<t>> \o encoded) = Len(encoded) + 1
        /\ FromEnd(<<t>> \o encoded, Len(encoded) + 1) = t
        /\ \A k \in 1 .. Len(encoded) : FromEnd(<<t>> \o encoded, k) = FromEnd(encoded, k)
    BY <2>1, PutOneInFront
  <2> QED
    BY <1>1, <2>2 DEF S
<1>11. /\ RoomWhileEmitting'
       /\ Len(encoded) + 1 <= BufBytes[codec]
  <2>1. \/ Len(encoded) + 4 <= BufBytes[codec]
        \/ Len(encoded) + 3 <= BufBytes[codec] /\ x < Base * Base * Base
        \/ Len(encoded) + 2 <= BufBytes[codec] /\ x < Base * Base
        \/ Len(encoded) + 1 <= BufBytes[codec] /\ x < Base
    BY <1>2 DEF RoomWhileEmitting
  <2>2. \/ Len(encoded) + 1 + 4 <= BufBytes[codec]
        \/ Len(encoded) + 1 + 3 <= BufBytes[codec] /\ z < Base * Base * Base
        \/ Len(encoded) + 1 + 2 <= BufBytes[codec] /\ z < Base * Base
        \/ Len(encoded) + 1 + 1 <= BufBytes[codec] /\ z < Base
    BY <1>4, <1>8, <2>1, RoomAfterByte DEF z
  <2>3. RoomWhileEmitting'
    BY <1>1, <1>10, <2>2 DEF RoomWhileEmitting
  <2>4. Len(encoded) + 1 <= BufBytes[codec]
    <3>1. \/ Len(encoded) + 1 + 4 <= BufBytes[codec] \/ Len(encoded) + 1 + 3 <= BufBytes[codec]
          \/ Len(encoded) + 1 + 2 <= BufBytes[codec] \/ Len(encoded) + 1 + 1 <= BufBytes[codec]
      BY <2>2
    <3> QED
      BY <1>4, <3>1
  <2> QED
    BY <2>3, <2>4
<1>12. CodecTypes'
  <2>1. z \in 0 .. Top - 1
    BY <1>4, <1>5
  <2> QED
    BY <1>1, <1>2, <1>10, <1>11, <2>1 DEF CodecTypes
<1>13. AtStart' /\ WireSide'
  BY <1>1, <1>2 DEF AtStart, WireSide
<1>14. Encoder'
  BY <1>1, <1>2, <1>3, <1>8, <1>11 DEF Encoder
<1>15. SymbolsDecoded'
  BY <1>1 DEF CodecInv, SymbolsDecoded
<1>16. CallerSide'
  <2> SUFFICES ASSUME whose = "caller"
               PROVE  /\ decoded = <<>> /\ pos = 0
                      /\ EncoderWasAt(codec, source, encoded', z, Len(source), Len(encoded'))
    BY <1>1 DEF CallerSide
  <2>1. /\ decoded = <<>> /\ pos = 0
        /\ EncoderWasAt(codec, source, encoded, x, Len(source), Len(encoded))
    BY <1>1 DEF CodecInv, CallerSide
  <2>2. source \in Seq(Int)
    BY <1>2 DEF CodecTypes
  <2>3. EncoderWasAt(codec, source, encoded', z, Len(source), Len(encoded) + 1)
    BY <1>1, <1>4, <1>9, <2>1, <2>2, EncoderWrites DEF z, t
  <2> QED
    BY <1>10, <2>1, <2>3
<1>17. AgainSide'
  <2> SUFFICES ASSUME whose = "again"
               PROVE  /\ Len(decoded) = Length[codec] /\ Len(encoded') <= Len(bytes)
                      /\ DecoderWasAt(codec, bytes, decoded, z, j, Len(bytes) - Len(encoded'))
                      /\ \A k \in 1 .. Len(encoded') : FromEnd(encoded', k) = FromEnd(bytes, k)
                      /\ value = decoded[j]
    BY <1>1 DEF AgainSide
  <2>1. /\ Len(decoded) = Length[codec] /\ Len(encoded) <= Len(bytes) /\ value = decoded[j]
        /\ DecoderWasAt(codec, bytes, decoded, x, j, p)
        /\ \A k \in 1 .. Len(encoded) : FromEnd(encoded, k) = FromEnd(bytes, k)
    BY <1>1 DEF CodecInv, AgainSide
  <2>2. j \in 1 .. Len(decoded) /\ j \in Nat /\ p \in Nat
    BY <1>2, <1>4, <2>1
  <2>3. bytes \in Seq(0 .. Base - 1)
    BY <1>2 DEF CodecTypes
  <2>4. decoded[j] = FromSymbol(codec, s) /\ x >= XMax(codec, s)
    BY <1>1, <1>3, <2>1
  <2> HIDE DEF j, p
  <2>5. p \in 5 .. Len(bytes) /\ bytes[p] = t /\ DecoderWasAt(codec, bytes, decoded, z, j, p - 1)
    <3>1. codec \in Codecs /\ x \in Nat /\ DecoderWasAt(codec, bytes, decoded, x, j, p)
      BY <1>4, <2>1
    <3>2. /\ p \in 5 .. Len(bytes) /\ bytes[p] = x % Base
          /\ DecoderWasAt(codec, bytes, decoded, x \div Base, j, p - 1)
      BY <2>2, <2>3, <2>4, <3>1, DecoderReadLast
    <3> QED
      BY <3>2 DEF z, t
  <2>6. Len(bytes) - Len(encoded') = p - 1 /\ Len(encoded') <= Len(bytes)
    BY <1>4, <1>10, <2>5 DEF p
  <2>7. FromEnd(bytes, Len(encoded) + 1) = t
    <3>1. Len(bytes) + 1 - (Len(encoded) + 1) = p
      BY <1>4 DEF p
    <3> QED
      BY <2>5, <3>1 DEF FromEnd
  <2>8. ASSUME NEW k \in 1 .. Len(encoded') PROVE FromEnd(encoded', k) = FromEnd(bytes, k)
    <3>1. k \in 1 .. Len(encoded) \/ k = Len(encoded) + 1
      BY <1>4, <1>10
    <3> QED
      BY <1>10, <2>1, <2>7, <3>1
  <2> QED
    BY <2>1, <2>5, <2>6, <2>8
<1> QED
  BY <1>12, <1>13, <1>14, <1>15, <1>16, <1>17 DEF CodecInv

LEMMA PutSymbolInv == CodecInv /\ PutSymbol => CodecInv'
<1> SUFFICES ASSUME CodecInv, PutSymbol PROVE CodecInv'
  OBVIOUS
<1> DEFINE j == Length[codec] - Len(source)
           p == Len(bytes) - Len(encoded)
<1>1. /\ stage = "emit" /\ ~ (x >= XMax(codec, ToSymbol(codec, value)))
      /\ x' = Put(codec, ToSymbol(codec, value), x) /\ source' = <<value>> \o source
      /\ stage' = IF RoomToFlush(Len(encoded)) THEN "encode" ELSE "refused"
      /\ UNCHANGED <<whose, codec, value, encoded, bytes, pos, decoded>>
  BY DEF PutSymbol, TooLarge, Symbol
<1>2. CodecTypes /\ whose # "wire" /\ Len(source) < Length[codec]
  BY <1>1 DEF CodecInv, Encoder
<1>3. PICK s \in Alphabet(codec) :
        ToSymbol(codec, value) = s /\ FromSymbol(codec, s) = value /\ x >= Floor(codec, s)
  BY <1>1 DEF CodecInv, Encoder
<1>4. /\ codec \in Codecs /\ x \in Nat /\ Len(source) \in Nat
      /\ Length[codec] \in Nat /\ Len(encoded) \in Nat /\ Len(bytes) \in Nat
      /\ BufBytes[codec] \in Nat /\ Low \in Nat /\ Top \in Nat
  BY <1>2, CodecSizes, Constants DEF CodecTypes
<1>5. Floor(codec, s) \in Nat /\ XMax(codec, s) \in Nat
  BY <1>4, FloorTimesBase
<1>6. x \in Floor(codec, s) .. XMax(codec, s) - 1 /\ x < XMax(codec, s)
  BY <1>1, <1>3, <1>4, <1>5
<1>7. x' = Put(codec, s, x) /\ x' \in Low .. Top - 1
  BY <1>1, <1>3, <1>4, <1>6, PutFacts
<1>8. value \in Int
  BY <1>3, <1>4, SymbolFacts
<1>9. source' \in Seq(Int) /\ Len(source') = Len(source) + 1
  BY <1>1, <1>2, <1>8, PutOneInFront DEF CodecTypes
<1>10. RoomToFlush(Len(encoded)) <=> Len(encoded) + 4 <= BufBytes[codec]
  BY <1>4 DEF RoomToFlush, FlushBytes
<1>11. CodecTypes'
  <2>1. x' \in 0 .. Top - 1 /\ Len(source') <= Length[codec]
    BY <1>2, <1>4, <1>7, <1>9
  <2> QED
    BY <1>1, <1>2, <1>9, <2>1 DEF CodecTypes
<1>12. AtStart' /\ WireSide'
  BY <1>1, <1>2 DEF AtStart, WireSide
<1>13. Encoder'
  BY <1>1, <1>2, <1>4, <1>7, <1>10 DEF Encoder
<1>14. SymbolsDecoded'
  BY <1>1 DEF CodecInv, SymbolsDecoded
<1>15. CallerSide'
  <2> SUFFICES ASSUME whose = "caller"
               PROVE  /\ decoded = <<>> /\ pos = 0
                      /\ EncoderWasAt(codec, source', encoded, x', Len(source'), Len(encoded))
    BY <1>1 DEF CallerSide
  <2>1. /\ decoded = <<>> /\ pos = 0
        /\ EncoderWasAt(codec, source, encoded, x, Len(source), Len(encoded))
    BY <1>1 DEF CodecInv, CallerSide
  <2>2. source \in Seq(Int) /\ encoded \in Seq(0 .. Base - 1)
    BY <1>2 DEF CodecTypes
  <2>3. EncoderWasAt(codec, source', encoded, Put(codec, s, x), Len(source) + 1, Len(encoded))
    BY <1>1, <1>3, <1>4, <1>6, <2>1, <2>2, EncoderPuts
  <2> QED
    BY <1>7, <1>9, <2>1, <2>3
<1>16. AgainSide'
  <2> SUFFICES ASSUME whose = "again"
               PROVE  /\ Len(decoded) = Length[codec] /\ Len(encoded) <= Len(bytes)
                      /\ DecoderWasAt(codec, bytes, decoded, x', Length[codec] - Len(source'), p)
                      /\ \A k \in 1 .. Len(encoded) : FromEnd(encoded, k) = FromEnd(bytes, k)
                      /\ stage' = "refused" => Len(bytes) > BufBytes[codec]
    BY <1>1 DEF AgainSide
  <2>1. /\ Len(decoded) = Length[codec] /\ Len(encoded) <= Len(bytes) /\ value = decoded[j]
        /\ DecoderWasAt(codec, bytes, decoded, x, j, p)
        /\ \A k \in 1 .. Len(encoded) : FromEnd(encoded, k) = FromEnd(bytes, k)
    BY <1>1 DEF CodecInv, AgainSide
  <2>2. j \in 1 .. Len(decoded) /\ j \in Nat /\ p \in Nat
    BY <1>2, <1>4, <2>1
  <2>3. bytes \in Seq(0 .. Base - 1)
    BY <1>2 DEF CodecTypes
  <2>4. decoded[j] = FromSymbol(codec, s)
    BY <1>3, <2>1
  <2>5. Length[codec] - Len(source') = j - 1
    BY <1>4, <1>9
  <2> HIDE DEF j
  <2>6. p >= 4 /\ DecoderWasAt(codec, bytes, decoded, Put(codec, s, x), j - 1, p)
    <3> HIDE DEF p
    <3> QED
      BY <1>4, <1>6, <2>1, <2>2, <2>3, <2>4, DecoderAdvancedLast
  <2>7. stage' = "refused" => Len(bytes) > BufBytes[codec]
    BY <1>1, <1>4, <1>10, <2>6
  <2> QED
    BY <1>7, <2>1, <2>5, <2>6, <2>7
<1> QED
  BY <1>11, <1>12, <1>13, <1>14, <1>15, <1>16 DEF CodecInv

(* Four bytes and what stands behind them.                                 *)
LEMMA FrontAndBack ==
  ASSUME NEW S, NEW w \in Seq(S), Len(w) = 4, NEW e \in Seq(S), NEW b \in Seq(S),
         Len(b) = Len(e) + 4, \A i \in 1 .. 4 : w[i] = b[i],
         \A k \in 1 .. Len(e) : FromEnd(e, k) = FromEnd(b, k)
  PROVE  w \o e = b
<1>1. Len(e) \in Nat
  OBVIOUS
<1>a. Len(w) + Len(e) = Len(b)
  BY <1>1
<1>2. /\ w \o e \in Seq(S) /\ Len(w \o e) = Len(b)
      /\ \A i \in 1 .. Len(w) + Len(e) :
           (w \o e)[i] = IF i <= Len(w) THEN w[i] ELSE e[i - Len(w)]
  <2>1. /\ w \o e \in Seq(S) /\ Len(w \o e) = Len(w) + Len(e)
        /\ \A i \in 1 .. Len(w) + Len(e) :
             (w \o e)[i] = IF i <= Len(w) THEN w[i] ELSE e[i - Len(w)]
    BY ConcatProperties
  <2> QED
    BY <1>a, <2>1
<1>3. ASSUME NEW i \in 1 .. Len(w \o e) PROVE (w \o e)[i] = b[i]
  <2>1. i \in 1 .. Len(w) + Len(e) /\ Len(w) + Len(e) = Len(e) + 4
    BY <1>1, <1>2
  <2>2. CASE i <= 4
    BY <1>2, <2>1, <2>2
  <2>3. CASE ~ (i <= 4)
    <3>1. Len(e) + 5 - i \in 1 .. Len(e)
      BY <1>1, <2>1, <2>3
    <3>2. PICK k \in 1 .. Len(e) : k = Len(e) + 5 - i
      BY <3>1
    <3>3. Len(e) + 1 - k = i - 4 /\ Len(b) + 1 - k = i
      BY <1>1, <2>1, <3>2
    <3>4. e[i - 4] = b[i]
      BY <3>3 DEF FromEnd
    <3> QED
      BY <1>2, <2>1, <2>3, <3>4
  <2> QED
    BY <2>2, <2>3
<1> QED
  BY <1>2, <1>3, SeqEqual

LEMMA FlushInv == CodecInv /\ Flush => CodecInv'
<1> SUFFICES ASSUME CodecInv, Flush PROVE CodecInv'
  OBVIOUS
<1>1. /\ stage = "encode" /\ stage' = "encoded" /\ Len(source) = Length[codec]
      /\ encoded' = Digits(x) \o encoded
      /\ UNCHANGED <<whose, codec, x, value, source, bytes, pos, decoded>>
  BY DEF Flush, Digits
<1>2. CodecTypes /\ x >= Low /\ Len(encoded) + 4 <= BufBytes[codec] /\ whose # "wire"
  BY <1>1 DEF CodecInv, Encoder
<1>3. /\ codec \in Codecs /\ x \in Nat /\ x \in 0 .. Top - 1 /\ Length[codec] \in Nat
      /\ Len(encoded) \in Nat /\ Len(bytes) \in Nat /\ BufBytes[codec] \in Nat
  BY <1>2, CodecSizes DEF CodecTypes
<1>4. encoded \in Seq(0 .. Base - 1) /\ bytes \in Seq(0 .. Base - 1)
  BY <1>2 DEF CodecTypes
<1>5. /\ Digits(x) \in Seq(0 .. Base - 1) /\ Len(Digits(x)) = 4 /\ FirstOf(Digits(x)) = x
  BY <1>3, DigitsOf
<1>6. /\ encoded' \in Seq(0 .. Base - 1) /\ Len(encoded') = Len(encoded) + 4
      /\ \A i \in 1 .. Len(Digits(x)) + Len(encoded) :
           encoded'[i] = IF i <= Len(Digits(x)) THEN Digits(x)[i] ELSE encoded[i - Len(Digits(x))]
  <2> DEFINE w == Digits(x)
  <2>1. w \in Seq(0 .. Base - 1) /\ Len(w) = 4
    BY <1>5
  <2> HIDE DEF w
  <2>2. /\ w \o encoded \in Seq(0 .. Base - 1) /\ Len(w \o encoded) = Len(w) + Len(encoded)
        /\ \A i \in 1 .. Len(w) + Len(encoded) :
             (w \o encoded)[i] = IF i <= Len(w) THEN w[i] ELSE encoded[i - Len(w)]
    BY <1>4, <2>1, ConcatProperties
  <2>3. Len(w) + Len(encoded) = Len(encoded) + 4
    BY <1>3, <2>1
  <2> QED
    BY <1>1, <2>2, <2>3 DEF w
<1>7. FirstOf(encoded') = x
  <2>1. \A i \in 1 .. 4 : encoded'[i] = Digits(x)[i]
    BY <1>3, <1>5, <1>6
  <2> QED
    BY <1>5, <2>1 DEF FirstOf
<1>8. CodecTypes'
  BY <1>1, <1>2, <1>6 DEF CodecTypes
<1>9. AtStart' /\ WireSide'
  BY <1>1, <1>2 DEF AtStart, WireSide
<1>10. Encoder' /\ SymbolsDecoded'
  BY <1>1, <1>2 DEF CodecInv, Encoder, SymbolsDecoded
<1>11. CallerSide'
  <2> SUFFICES ASSUME whose = "caller"
               PROVE  /\ decoded = <<>> /\ pos = 0 /\ Len(encoded') >= 4
                      /\ EncoderWasAt(codec, source, encoded', x, Length[codec], Len(encoded') - 4)
    BY <1>1, <1>2, <1>7 DEF CallerSide
  <2>1. /\ decoded = <<>> /\ pos = 0
        /\ EncoderWasAt(codec, source, encoded, x, Length[codec], Len(encoded))
    BY <1>1 DEF CodecInv, CallerSide
  <2>2. source \in Seq(Int)
    BY <1>2 DEF CodecTypes
  <2>3. EncoderWasAt(codec, source, encoded', x, Length[codec], Len(encoded))
    BY <1>1, <1>4, <1>5, <2>1, <2>2, EncoderMoreBytes
  <2>4. Len(encoded') >= 4 /\ Len(encoded') - 4 = Len(encoded)
    BY <1>3, <1>6
  <2> QED
    BY <2>1, <2>3, <2>4
<1>12. AgainSide'
  <2> SUFFICES ASSUME whose = "again"
               PROVE  Len(decoded) = Length[codec] /\ encoded' = bytes
    BY <1>1 DEF AgainSide
  <2> DEFINE p == Len(bytes) - Len(encoded)
  <2>1. /\ Len(decoded) = Length[codec] /\ Len(encoded) <= Len(bytes)
        /\ DecoderWasAt(codec, bytes, decoded, x, Length[codec] - Len(source), p)
        /\ \A k \in 1 .. Len(encoded) : FromEnd(encoded, k) = FromEnd(bytes, k)
    BY <1>1 DEF CodecInv, AgainSide
  <2>2. Length[codec] - Len(source) = 0 /\ p \in Nat
    BY <1>1, <1>3, <2>1
  <2>3. x = FirstOf(bytes) /\ p = 4
    <3> HIDE DEF p
    <3> QED
      BY <1>3, <2>1, <2>2, DecoderAtStart
  <2>4. Len(bytes) = Len(encoded) + 4
    BY <1>3, <2>3
  <2>5. Digits(x) = <<bytes[1], bytes[2], bytes[3], bytes[4]>>
    BY <1>3, <1>4, <2>3, <2>4, DigitsAre
  <2>6. \A i \in 1 .. 4 : Digits(x)[i] = bytes[i]
    <3>1. \A i \in 1 .. 4 : i = 1 \/ i = 2 \/ i = 3 \/ i = 4
      OBVIOUS
    <3> QED
      BY <2>5, <3>1
  <2>7. Digits(x) \o encoded = bytes
    BY <1>4, <1>5, <2>1, <2>4, <2>6, FrontAndBack
  <2> QED
    BY <1>1, <2>1, <2>7
<1> QED
  BY <1>8, <1>9, <1>10, <1>11, <1>12 DEF CodecInv

LEMMA DeliverBytesInv == CodecInv /\ DeliverBytes => CodecInv'
<1> SUFFICES ASSUME CodecInv, DeliverBytes PROVE CodecInv'
  OBVIOUS
<1>1. /\ stage = "encoded" /\ whose = "caller" /\ bytes' = encoded /\ stage' = "received"
      /\ UNCHANGED <<whose, codec, x, value, encoded, source, pos, decoded>>
  BY DEF DeliverBytes
<1>2. CodecTypes /\ pos = 0
  BY <1>1 DEF CodecInv, CallerSide
<1>3. Len(encoded) \in Nat
  BY <1>2, CodecSizes
<1>4. CodecTypes'
  BY <1>1, <1>2, <1>3 DEF CodecTypes
<1>5. AtStart' /\ Encoder' /\ WireSide' /\ AgainSide' /\ SymbolsDecoded'
  BY <1>1 DEF AtStart, Encoder, WireSide, AgainSide, SymbolsDecoded
<1>6. CallerSide'
  BY <1>1 DEF CodecInv, CallerSide
<1> QED
  BY <1>4, <1>5, <1>6 DEF CodecInv

LEMMA ReceiveBytesInv == CodecInv /\ ReceiveBytes => CodecInv'
<1> SUFFICES ASSUME CodecInv, ReceiveBytes PROVE CodecInv'
  OBVIOUS
<1>1. /\ stage = "start" /\ whose' = "wire" /\ bytes' \in ForeignBytes /\ stage' = "received"
      /\ UNCHANGED <<codec, x, value, encoded, source, pos, decoded>>
  BY DEF ReceiveBytes
<1>2. CodecTypes /\ pos = 0 /\ encoded = <<>> /\ source = <<>> /\ decoded = <<>>
  BY <1>1 DEF CodecInv, AtStart
<1>3. bytes' \in Seq(0 .. Base - 1) /\ Len(bytes') >= 4
  BY <1>1, RansAssumption DEF FlushBytes
<1>4. Len(bytes') \in Nat /\ 0 \in 0 .. Len(bytes') /\ Len(<<>>) = 0
  BY <1>3
<1>5. CodecTypes'
  BY <1>1, <1>2, <1>3, <1>4 DEF CodecTypes
<1>6. AtStart' /\ Encoder' /\ CallerSide' /\ AgainSide'
  BY <1>1 DEF AtStart, Encoder, CallerSide, AgainSide
<1>7. WireSide' /\ SymbolsDecoded'
  BY <1>1, <1>2, <1>3, <1>4 DEF WireSide, SymbolsDecoded
<1> QED
  BY <1>5, <1>6, <1>7 DEF CodecInv

LEMMA DecInitInv == CodecInv /\ DecInit => CodecInv'
<1> SUFFICES ASSUME CodecInv, DecInit PROVE CodecInv'
  OBVIOUS
<1>1. /\ stage = "received" /\ FirstState = FirstOf(bytes)
      /\ UNCHANGED <<whose, codec, value, encoded, source, bytes, decoded>>
  BY DEF DecInit, FirstState, FirstOf
<1>2. CodecTypes /\ SymbolsDecoded
  BY <1>1 DEF CodecInv
<1>3. Low \in Nat /\ Top \in Nat /\ Low < Top /\ Top = Low * Base /\ FlushBytes = 4
      /\ Len(bytes) \in Nat /\ Length[codec] \in Nat /\ Len(<<>>) = 0
  BY <1>2, Constants, CodecSizes DEF Top
<1>4. Len(bytes) >= 4 /\ decoded = <<>> /\ whose # "again"
  BY <1>1, <1>2 DEF CodecInv, CallerSide, WireSide, AgainSide, CodecTypes
<1>5. SymbolsDecoded'
  BY <1>1, <1>2 DEF SymbolsDecoded
<1>6. CASE /\ FirstState < Low \/ Low * Base <= FirstState
           /\ stage' = "rejected"
           /\ UNCHANGED <<x, pos>>
  <2>1. whose # "caller"
    <3> SUFFICES ASSUME whose = "caller" PROVE FALSE
      OBVIOUS
    <3>1. FirstOf(bytes) = x /\ x >= Low
      BY <1>1 DEF CodecInv, CallerSide
    <3>2. x \in 0 .. Top - 1
      BY <1>2 DEF CodecTypes
    <3> QED
      BY <1>1, <1>3, <1>6, <3>1, <3>2
  <2>2. CodecTypes'
    BY <1>1, <1>2, <1>6 DEF CodecTypes
  <2>3. AtStart' /\ Encoder' /\ CallerSide' /\ AgainSide'
    BY <1>1, <1>4, <1>6, <2>1 DEF AtStart, Encoder, CallerSide, AgainSide
  <2>4. WireSide'
    BY <1>1, <1>6 DEF CodecInv, WireSide
  <2> QED
    BY <1>5, <2>2, <2>3, <2>4 DEF CodecInv
<1>7. CASE /\ Low <= FirstState /\ FirstState < Low * Base
           /\ stage' = "decode" /\ x' = FirstState /\ pos' = FlushBytes
  <2>1. x' = FirstOf(bytes) /\ pos' = 4 /\ stage' = "decode" /\ x' >= Low /\ x' < Top
    <3>1. FirstOf(bytes) \in Nat
      BY <1>2, <1>4, DigitsAre DEF CodecTypes
    <3> QED
      BY <1>1, <1>3, <1>7, <3>1
  <2>2. x' \in 0 .. Top - 1 /\ pos' \in 0 .. Len(bytes)
    <3>1. FirstOf(bytes) \in Nat
      BY <1>2, <1>4, DigitsAre DEF CodecTypes
    <3> QED
      BY <1>3, <1>4, <2>1, <3>1
  <2>3. CodecTypes'
    BY <1>1, <1>2, <2>2 DEF CodecTypes
  <2>4. AtStart' /\ Encoder' /\ AgainSide'
    BY <1>1, <1>4, <2>1 DEF AtStart, Encoder, AgainSide
  <2>5. CallerSide'
    <3> SUFFICES ASSUME whose = "caller"
                 PROVE  /\ Len(source) = Length[codec]
                        /\ \A k \in 1 .. Len(decoded) : decoded[k] = source[k]
                        /\ EncoderWasAt(codec, source, bytes, x', Length[codec] - Len(decoded),
                                        Len(bytes) - 4)
      BY <1>1, <2>1 DEF CallerSide
    <3>1. /\ Len(source) = Length[codec] /\ FirstOf(bytes) = x
          /\ EncoderWasAt(codec, source, bytes, x, Length[codec], Len(bytes) - 4)
      BY <1>1 DEF CodecInv, CallerSide
    <3>2. Length[codec] - Len(decoded) = Length[codec]
      BY <1>3, <1>4
    <3>3. \A k \in 1 .. Len(decoded) : decoded[k] = source[k]
      BY <1>3, <1>4
    <3> QED
      BY <2>1, <3>1, <3>2, <3>3
  <2>6. WireSide'
    <3> SUFFICES ASSUME whose = "wire"
                 PROVE  /\ encoded = <<>> /\ source = <<>>
                        /\ DecoderWasAt(codec, bytes, decoded, x', Len(decoded), 4)
      BY <1>1, <2>1 DEF WireSide
    <3>1. encoded = <<>> /\ source = <<>>
      BY DEF CodecInv, WireSide
    <3>2. DecoderWasAt(codec, bytes, decoded, FirstOf(bytes), 0, 4)
      BY DecoderStart
    <3> QED
      BY <1>3, <1>4, <2>1, <3>1, <3>2
  <2> QED
    BY <1>5, <2>3, <2>4, <2>5, <2>6 DEF CodecInv
<1> QED
  BY <1>6, <1>7 DEF DecInit

LEMMA DecodeSymbolInv == CodecInv /\ DecodeSymbol => CodecInv'
<1> SUFFICES ASSUME CodecInv, DecodeSymbol PROVE CodecInv'
  OBVIOUS
<1>1. PICK s : s = SymbolOf(codec, x)
  OBVIOUS
<1>2. /\ stage = "decode" /\ stage' = "read" /\ Len(decoded) < Length[codec]
      /\ decoded' = Append(decoded, FromSymbol(codec, s)) /\ x' = Advance(codec, s, x)
      /\ UNCHANGED <<whose, codec, value, encoded, source, bytes, pos>>
  BY <1>1 DEF DecodeSymbol, SymbolOf
<1>3. CodecTypes
  BY DEF CodecInv
<1>4. /\ codec \in Codecs /\ x \in Nat /\ x \in 0 .. Top - 1 /\ Low \in Nat /\ Top \in Nat
      /\ Len(decoded) \in Nat /\ Length[codec] \in Nat /\ Len(bytes) \in Nat /\ pos \in Nat
      /\ source \in Seq(Int) /\ decoded \in Seq(Int)
  BY <1>3, CodecSizes, Constants DEF CodecTypes
<1>5. /\ s \in Alphabet(codec) /\ Advance(codec, s, x) \in 0 .. x
      /\ x \in Low .. Top - 1 =>
           Advance(codec, s, x) \in Floor(codec, s) .. XMax(codec, s) - 1
  BY <1>1, <1>4, AdvanceFacts DEF SymbolOf
<1>6. FromSymbol(codec, s) \in Int
  BY <1>4, <1>5, SymbolFacts
<1>7. /\ decoded' \in Seq(Int) /\ Len(decoded') = Len(decoded) + 1
      /\ \A k \in 1 .. Len(decoded) : decoded'[k] = decoded[k]
      /\ decoded'[Len(decoded) + 1] = FromSymbol(codec, s)
  BY <1>2, <1>4, <1>6, AppendProperties
<1>8. CodecTypes'
  <2>1. x' \in 0 .. Top - 1 /\ Len(decoded') <= Length[codec]
    BY <1>2, <1>4, <1>5, <1>7
  <2> QED
    BY <1>2, <1>3, <1>7, <2>1 DEF CodecTypes
<1>9. AtStart' /\ Encoder'
  BY <1>2 DEF AtStart, Encoder
<1>10. whose # "again"
  BY <1>2 DEF CodecInv, AgainSide
<1>11. AgainSide'
  BY <1>2, <1>10 DEF AgainSide
<1>12. SymbolsDecoded'
  <2> SUFFICES ASSUME whose # "caller", NEW k \in 1 .. Len(decoded')
               PROVE  \E r \in Alphabet(codec) : decoded'[k] = FromSymbol(codec, r)
    BY <1>2 DEF SymbolsDecoded
  <2>1. k \in 1 .. Len(decoded) \/ k = Len(decoded) + 1
    BY <1>4, <1>7
  <2> QED
    BY <1>5, <1>7, <2>1 DEF CodecInv, SymbolsDecoded
<1>13. CallerSide'
  <2> DEFINE j == Length[codec] - Len(decoded)
             p == Len(bytes) - pos
  <2> SUFFICES ASSUME whose = "caller"
               PROVE  /\ Len(source) = Length[codec]
                      /\ \A k \in 1 .. Len(decoded') : decoded'[k] = source[k]
                      /\ EncoderWasAt(codec, source, bytes, x', Length[codec] - Len(decoded'), p)
    BY <1>2 DEF CallerSide
  <2>1. /\ Len(source) = Length[codec] /\ x >= Low
        /\ \A k \in 1 .. Len(decoded) : decoded[k] = source[k]
        /\ EncoderWasAt(codec, source, bytes, x, j, p)
    BY <1>2 DEF CodecInv, CallerSide
  <2>2. j \in Nat /\ j > 0 /\ p \in Nat
    BY <1>2, <1>3, <1>4 DEF CodecTypes
  <2>3. Length[codec] - Len(decoded') = j - 1 /\ Len(source) + 1 - j = Len(decoded) + 1
    BY <1>4, <1>7, <2>1
  <2> HIDE DEF j, p
  <2>a. \E r \in Alphabet(codec) : \E b \in Floor(codec, r) .. XMax(codec, r) - 1 :
          /\ EncoderWasAt(codec, source, bytes, b, j - 1, p)
          /\ FromEnd(source, j) = FromSymbol(codec, r) /\ x = Put(codec, r, b)
    <3>1. ~ (j = 0)
      BY <2>2
    <3> QED
      BY <1>4, <2>1, <2>2, <3>1, EncoderPutLast
  <2>b. PICK r \in Alphabet(codec) : \E b \in Floor(codec, r) .. XMax(codec, r) - 1 :
          /\ EncoderWasAt(codec, source, bytes, b, j - 1, p)
          /\ FromEnd(source, j) = FromSymbol(codec, r) /\ x = Put(codec, r, b)
    BY <2>a
  <2>4. PICK b \in Floor(codec, r) .. XMax(codec, r) - 1 :
          /\ EncoderWasAt(codec, source, bytes, b, j - 1, p)
          /\ FromEnd(source, j) = FromSymbol(codec, r) /\ x = Put(codec, r, b)
    BY <2>b
  <2>5. SymbolAt[codec][Put(codec, r, b) % Scale] = r /\ Advance(codec, r, Put(codec, r, b)) = b
    BY <1>4, PutFacts
  <2>6. r = s
    BY <1>1, <2>4, <2>5 DEF SymbolOf
  <2>7. x' = b
    BY <1>2, <2>4, <2>5, <2>6
  <2>8. source[Len(decoded) + 1] = FromSymbol(codec, s)
    BY <2>3, <2>4, <2>6 DEF FromEnd
  <2>9. ASSUME NEW k \in 1 .. Len(decoded') PROVE decoded'[k] = source[k]
    <3>1. k \in 1 .. Len(decoded) \/ k = Len(decoded) + 1
      BY <1>4, <1>7
    <3> QED
      BY <1>7, <2>1, <2>8, <3>1
  <2> QED
    BY <2>1, <2>3, <2>4, <2>7, <2>9
<1>14. WireSide'
  <2> SUFFICES ASSUME whose = "wire" PROVE WireSide'
    BY <1>2 DEF WireSide
  <2>1. encoded = <<>> /\ source = <<>>
    BY DEF CodecInv, WireSide
  <2>2. CASE Starved
    <3>1. Starved'
      BY <1>2, <1>4, <1>5, <2>2 DEF Starved
    <3> QED
      BY <1>2, <2>1, <3>1 DEF WireSide
  <2>3. CASE /\ x >= Low /\ pos >= 4
             /\ DecoderWasAt(codec, bytes, decoded, x, Len(decoded), pos)
    <3>1. x \in Low .. Top - 1
      BY <1>4, <2>3
    <3>2. DecoderWasAt(codec, bytes, decoded', x', Len(decoded) + 1, pos)
      BY <1>1, <1>2, <1>4, <1>5, <2>3, <3>1, DecoderAdvances
    <3>3. x' >= Floor(codec, s)
      BY <1>2, <1>4, <1>5, <3>1, FloorTimesBase
    <3>4. Len(decoded') > 0 /\ decoded'[Len(decoded')] = FromSymbol(codec, s)
      BY <1>4, <1>7
    <3> QED
      BY <1>2, <1>5, <1>7, <2>1, <2>3, <3>2, <3>3, <3>4 DEF WireSide
  <2> QED
    BY <1>2, <2>2, <2>3 DEF CodecInv, WireSide
<1> QED
  BY <1>8, <1>9, <1>11, <1>12, <1>13, <1>14 DEF CodecInv

LEMMA ReadByteInv == CodecInv /\ ReadByte => CodecInv'
<1> SUFFICES ASSUME CodecInv, ReadByte PROVE CodecInv'
  OBVIOUS
<1>1. /\ stage = "read" /\ stage' = "read" /\ x < Low /\ pos < Len(bytes)
      /\ x' = x * Base + bytes[pos + 1] /\ pos' = pos + 1
      /\ UNCHANGED <<whose, codec, value, encoded, source, bytes, decoded>>
  BY DEF ReadByte, MoreToRead
<1>2. CodecTypes
  BY DEF CodecInv
<1>3. /\ codec \in Codecs /\ x \in Nat /\ Low \in Nat /\ Base \in Nat /\ Base > 0
      /\ Top = Low * Base /\ Top \in Nat
      /\ Len(decoded) \in Nat /\ Length[codec] \in Nat /\ Len(bytes) \in Nat /\ pos \in Nat
      /\ bytes \in Seq(0 .. Base - 1) /\ decoded \in Seq(Int) /\ Len(decoded) <= Length[codec]
  BY <1>2, CodecSizes, Constants DEF CodecTypes, Top
<1>4. PICK t \in 0 .. Base - 1 : t = bytes[pos + 1]
  <2>1. pos + 1 \in 1 .. Len(bytes)
    BY <1>1, <1>3
  <2> QED
    BY <1>3, <2>1, ElementOfSeq
<1>5. x' \in 0 .. Top - 1 /\ x' >= x
  <2>1. x' = x * Base + t
    BY <1>1, <1>4
  <2>2. x + 1 <= Low
    BY <1>1, <1>3
  <2>3. (x + 1) * Base <= Low * Base /\ (x + 1) * Base = x * Base + Base /\ x * Base \in Nat
    BY <1>3, <2>2
  <2>4. x * Base >= x * 1 /\ x * 1 = x
    BY <1>3
  <2>5. PICK m \in Nat : m = x * Base /\ m + Base <= Top /\ m >= x
    BY <1>3, <2>3, <2>4
  <2>6. x' = m + t
    BY <2>1, <2>5
  <2>7. m + t \in 0 .. Top - 1 /\ m + t >= x
    <3>1. Base \in Nat /\ Top \in Nat /\ x \in Nat
      BY <1>3
    <3> QED
      BY <2>5, <3>1
  <2> QED
    BY <2>6, <2>7
<1>6. CodecTypes'
  <2>1. pos' \in 0 .. Len(bytes)
    BY <1>1, <1>3
  <2> QED
    BY <1>1, <1>2, <1>5, <2>1 DEF CodecTypes
<1>7. AtStart' /\ Encoder'
  BY <1>1 DEF AtStart, Encoder
<1>8. AgainSide' /\ SymbolsDecoded'
  BY <1>1 DEF CodecInv, AgainSide, SymbolsDecoded
<1>9. CallerSide'
  <2> DEFINE j == Length[codec] - Len(decoded)
             p == Len(bytes) - pos
  <2> SUFFICES ASSUME whose = "caller"
               PROVE  /\ Len(source) = Length[codec]
                      /\ \A k \in 1 .. Len(decoded) : decoded[k] = source[k]
                      /\ EncoderWasAt(codec, source, bytes, x', j, Len(bytes) - pos')
    BY <1>1 DEF CallerSide
  <2>1. /\ Len(source) = Length[codec]
        /\ \A k \in 1 .. Len(decoded) : decoded[k] = source[k]
        /\ EncoderWasAt(codec, source, bytes, x, j, p)
    BY <1>1 DEF CodecInv, CallerSide
  <2>2. j \in Nat /\ p \in Nat
    BY <1>1, <1>3
  <2>3. Len(bytes) - pos' = p - 1 /\ Len(bytes) + 1 - p = pos + 1
    BY <1>1, <1>3
  <2> HIDE DEF j, p
  <2>a. \E b \in 0 .. Top - 1 :
          /\ EncoderWasAt(codec, source, bytes, b, j, p - 1)
          /\ x = b \div Base /\ FromEnd(bytes, p) = b % Base
    <3>1. codec \in Codecs /\ x \in Nat /\ x < Low
      BY <1>1, <1>3
    <3> QED
      BY <2>1, <2>2, <3>1, EncoderWroteLast
  <2>4. PICK b \in 0 .. Top - 1 :
          /\ EncoderWasAt(codec, source, bytes, b, j, p - 1)
          /\ x = b \div Base /\ FromEnd(bytes, p) = b % Base
    BY <2>a
  <2>5. t = b % Base
    BY <1>4, <2>3, <2>4 DEF FromEnd
  <2>6. b = (b \div Base) * Base + (b % Base)
    BY LastByte
  <2>7. x' = b
    BY <1>1, <1>4, <2>4, <2>5, <2>6
  <2> QED
    BY <2>1, <2>3, <2>4, <2>7
<1>10. WireSide'
  <2> SUFFICES ASSUME whose = "wire" PROVE WireSide'
    BY <1>1 DEF WireSide
  <2>1. /\ encoded = <<>> /\ source = <<>>
        /\ pos >= 4 /\ Len(decoded) > 0
        /\ DecoderWasAt(codec, bytes, decoded, x, Len(decoded), pos)
        /\ \E s \in Alphabet(codec) :
             decoded[Len(decoded)] = FromSymbol(codec, s) /\ x >= Floor(codec, s)
    BY <1>1, <1>3 DEF CodecInv, WireSide, Starved
  <2>2. PICK s \in Alphabet(codec) :
          decoded[Len(decoded)] = FromSymbol(codec, s) /\ x >= Floor(codec, s)
    BY <2>1
  <2>3. Floor(codec, s) \in Nat
    BY <1>3, FloorTimesBase
  <2>4. x \in Floor(codec, s) .. Low - 1 /\ x' >= Floor(codec, s)
    BY <1>1, <1>3, <1>5, <2>2, <2>3
  <2>5. Len(decoded) \in 1 .. Len(decoded)
    BY <1>3, <2>1
  <2>6. DecoderWasAt(codec, bytes, decoded, x', Len(decoded), pos + 1)
    BY <1>1, <1>3, <2>1, <2>2, <2>4, <2>5, DecoderReads
  <2>7. pos' >= 4
    BY <1>1, <1>3, <2>1
  <2> QED
    BY <1>1, <2>1, <2>2, <2>4, <2>6, <2>7 DEF WireSide
<1> QED
  BY <1>6, <1>7, <1>8, <1>9, <1>10 DEF CodecInv

LEMMA ReadDoneInv == CodecInv /\ ReadDone => CodecInv'
<1> SUFFICES ASSUME CodecInv, ReadDone PROVE CodecInv'
  OBVIOUS
<1>1. /\ stage = "read" /\ stage' = "decode" /\ ~ (x < Low /\ pos < Len(bytes))
      /\ UNCHANGED <<whose, codec, x, value, encoded, source, bytes, pos, decoded>>
  BY DEF ReadDone, MoreToRead
<1>2. CodecTypes
  BY DEF CodecInv
<1>3. /\ codec \in Codecs /\ x \in Nat /\ Low \in Nat /\ Len(bytes) \in Nat /\ pos \in Nat
      /\ pos <= Len(bytes) /\ Len(decoded) \in Nat /\ Length[codec] \in Nat
      /\ Len(decoded) <= Length[codec]
  BY <1>2, CodecSizes, Constants DEF CodecTypes
<1>4. x >= Low \/ Starved
  BY <1>1, <1>3 DEF Starved
<1>5. CodecTypes' /\ AtStart' /\ Encoder' /\ SymbolsDecoded'
  BY <1>1 DEF CodecInv, CodecTypes, AtStart, Encoder, SymbolsDecoded
<1>6. AgainSide'
  BY <1>1 DEF CodecInv, AgainSide
<1>7. CallerSide'
  <2> DEFINE j == Length[codec] - Len(decoded)
             p == Len(bytes) - pos
  <2> SUFFICES ASSUME whose = "caller"
               PROVE  /\ Len(source) = Length[codec]
                      /\ \A k \in 1 .. Len(decoded) : decoded[k] = source[k]
                      /\ EncoderWasAt(codec, source, bytes, x, j, p)
                      /\ x >= Low
    BY <1>1 DEF CallerSide
  <2>1. /\ Len(source) = Length[codec]
        /\ \A k \in 1 .. Len(decoded) : decoded[k] = source[k]
        /\ EncoderWasAt(codec, source, bytes, x, j, p)
    BY <1>1 DEF CodecInv, CallerSide
  <2>2. j \in Nat /\ p \in Nat
    BY <1>3
  <2>3. ASSUME x < Low PROVE FALSE
    <3>1. p = 0
      BY <1>1, <1>3, <2>3
    <3> HIDE DEF j, p
    <3>2. p \in 1 .. Len(bytes)
      BY <1>3, <2>1, <2>2, <2>3, EncoderWroteLast
    <3> QED
      BY <3>1, <3>2
  <2> QED
    BY <1>3, <2>1, <2>3
<1>8. WireSide'
  <2> SUFFICES ASSUME whose = "wire" PROVE WireSide'
    BY <1>1 DEF WireSide
  <2>1. encoded = <<>> /\ source = <<>>
    BY DEF CodecInv, WireSide
  <2>2. \/ Starved
        \/ x >= Low /\ pos >= 4 /\ DecoderWasAt(codec, bytes, decoded, x, Len(decoded), pos)
    BY <1>1, <1>4 DEF CodecInv, WireSide
  <2>3. Starved' = Starved
    BY <1>1 DEF Starved
  <2> QED
    BY <1>1, <2>1, <2>2, <2>3 DEF WireSide
<1> QED
  BY <1>5, <1>6, <1>7, <1>8 DEF CodecInv

LEMMA VerifyInv == CodecInv /\ Verify => CodecInv'
<1> SUFFICES ASSUME CodecInv, Verify PROVE CodecInv'
  OBVIOUS
<1>1. /\ stage = "decode" /\ Len(decoded) = Length[codec]
      /\ stage' = IF x = Low /\ pos = Len(bytes) THEN "accepted" ELSE "rejected"
      /\ UNCHANGED <<whose, codec, x, value, encoded, source, bytes, pos, decoded>>
  BY DEF Verify, Consistent
<1>2. CodecTypes
  BY DEF CodecInv
<1>3. /\ codec \in Codecs /\ x \in Nat /\ Low \in Nat /\ Len(bytes) \in Nat /\ pos \in Nat
      /\ pos <= Len(bytes) /\ Length[codec] \in Nat
      /\ source \in Seq(Int) /\ decoded \in Seq(Int)
  BY <1>2, CodecSizes, Constants DEF CodecTypes
<1>4. CodecTypes' /\ AtStart' /\ Encoder' /\ SymbolsDecoded'
  BY <1>1 DEF CodecInv, CodecTypes, AtStart, Encoder, SymbolsDecoded
<1>5. AgainSide'
  BY <1>1 DEF CodecInv, AgainSide
<1>6. CallerSide'
  <2> DEFINE p == Len(bytes) - pos
  <2> SUFFICES ASSUME whose = "caller" PROVE stage' = "accepted" /\ decoded = source
    BY <1>1 DEF CallerSide
  <2>1. /\ Len(source) = Length[codec] /\ x >= Low
        /\ \A k \in 1 .. Len(decoded) : decoded[k] = source[k]
        /\ EncoderWasAt(codec, source, bytes, x, Length[codec] - Len(decoded), p)
    BY <1>1 DEF CodecInv, CallerSide
  <2>2. Length[codec] - Len(decoded) = 0 /\ p \in Nat
    BY <1>1, <1>3
  <2>3. x = Low /\ p = 0
    <3>1. 0 \notin 1 .. Len(source)
      OBVIOUS
    <3>2. EncoderWasAt(codec, source, bytes, x, 0, p)
      BY <2>1, <2>2
    <3> HIDE DEF p
    <3> QED
      BY <1>3, <2>1, <2>2, <3>1, <3>2, EncoderPutLast
  <2>4. pos = Len(bytes)
    BY <1>3, <2>3
  <2>5. decoded = source
    BY <1>1, <1>3, <2>1, SeqEqual
  <2> QED
    BY <1>1, <2>3, <2>4, <2>5
<1>7. WireSide'
  <2> SUFFICES ASSUME whose = "wire" PROVE WireSide'
    BY <1>1 DEF WireSide
  <2>1. encoded = <<>> /\ source = <<>>
    BY DEF CodecInv, WireSide
  <2>2. ASSUME x = Low, pos = Len(bytes)
        PROVE  DecoderWasAt(codec, bytes, decoded, Low, Length[codec], Len(bytes))
    <3>1. ~ Starved
      BY <1>3, <2>2 DEF Starved
    <3> QED
      BY <1>1, <2>2, <3>1 DEF CodecInv, WireSide
  <2> QED
    BY <1>1, <2>1, <2>2 DEF WireSide
<1> QED
  BY <1>4, <1>5, <1>6, <1>7 DEF CodecInv

LEMMA CodecStutter == CodecInv /\ UNCHANGED codecVars => CodecInv'
BY DEF codecVars, CodecInv, CodecTypes, AtStart, Encoder, RoomWhileEmitting, CallerSide, WireSide,
       Starved, AgainSide, SymbolsDecoded

THEOREM CodecInductive == SpecCodec => []CodecInv
<1>1. CodecInv /\ [NextCodec]_codecVars => CodecInv'
  BY BeginEncodeInv, ReencodeInv, TakeInv, EmitInv, PutSymbolInv, FlushInv, DeliverBytesInv,
     ReceiveBytesInv, DecInitInv, DecodeSymbolInv, ReadByteInv, ReadDoneInv, VerifyInv, CodecStutter
     DEF NextCodec
<1> QED
  BY CodecInit, <1>1, PTL DEF SpecCodec

-----------------------------------------------------------------------------
(* The properties.                                                         *)

(* The state stays in its interval between two symbols, and no count       *)
(* leaves its vector (rans_byte.h:47-52, 329).                             *)
THEOREM StateStaysTyped == SpecCodec => []StateTyped
<1>1. CodecInv => StateTyped
  <2> SUFFICES ASSUME CodecInv PROVE StateTyped
    OBVIOUS
  <2>1. stage = "encode" => x >= Low
    BY DEF CodecInv, Encoder
  <2>2. stage = "decode" /\ x < Low => pos = Len(bytes)
    <3> SUFFICES ASSUME stage = "decode", x < Low PROVE pos = Len(bytes)
      OBVIOUS
    <3>1. CodecTypes
      BY DEF CodecInv
    <3>2. ~ (x >= Low)
      BY <3>1, CodecSizes, Constants
    <3> QED
      BY <3>1, <3>2 DEF CodecInv, CodecTypes, CallerSide, WireSide, AgainSide, Starved
  <2> QED
    BY <2>1, <2>2 DEF CodecInv, CodecTypes, StateTyped, Top
<1> QED
  BY <1>1, CodecInductive, PTL

(* The encoder never writes in front of its buffer, although it looks only *)
(* after each symbol (encoding.c:552-555, 644-647).                        *)
THEOREM CoderStaysInside == SpecCodec => []InsideBuffer
<1>1. CodecInv => InsideBuffer
  BY DEF CodecInv, CodecTypes, InsideBuffer
<1> QED
  BY <1>1, CodecInductive, PTL

(* What an encoder wrote is accepted and decodes to what was encoded.      *)
THEOREM VectorDecodesBack == SpecCodec => []DecodesBack
<1>1. CodecInv => DecodesBack
  BY DEF CodecInv, CallerSide, DecodesBack
<1> QED
  BY <1>1, CodecInductive, PTL

(* Bytes the decoder accepts are what the encoder makes of the vector they *)
(* decode to (encoding.c:600-608).                                         *)
THEOREM EncodingIsOne == SpecCodec => []OneEncoding
<1>1. CodecInv => OneEncoding
  BY DEF CodecInv, AgainSide, OneEncoding
<1> QED
  BY <1>1, CodecInductive, PTL

-----------------------------------------------------------------------------
(* What the buffer holds.                                                  *)

HeadAt(hd) == \A p \in 0 .. HeadBytes - 1 : sig[p] = hd[p + 1]
WordAt(q, w) == \A k \in 1 .. Len(w) : sig[q + k - 1] = w[k]
ZeroFrom(q) == \A p \in Places : p >= q => sig[p] = 0

FirstWord == HeadBytes + 2
SecondWord == FirstWord + size_enc_hb_z1
End == SecondWord + size_enc_h

LengthsAt ==
  /\ sig[HeadBytes] = size_enc_hb_z1 - BaseHb
  /\ sig[HeadBytes + 1] = size_enc_h - BaseH

Candidate ==
  /\ hb \in WordsHb /\ h \in WordsH
  /\ size_enc_hb_z1 = Len(hb) /\ size_enc_h = Len(h)
  /\ InRange(size_enc_hb_z1, BaseHb) /\ InRange(size_enc_h, BaseH)
  /\ End <= CryptoBytes

Packing == {"pack", "packed_head", "encoded", "copy_hb", "copy_h", "refused"}
Unpacking == {"received", "sizes", "decode_hb", "decode_h", "padding", "accepted", "rejected"}

(* The buffer while a candidate is packed, and afterwards.                 *)
PackInv ==
  /\ pc \in Packing => origin = "packed"
  /\ pc \in {"packed_head", "encoded"} => at = HeadBytes /\ HeadAt(head) /\ ZeroFrom(HeadBytes)
  /\ pc = "encoded" => size_enc_hb_z1 = Len(hb) /\ size_enc_h = Len(h)
  /\ pc = "copy_hb" => /\ Candidate /\ at = FirstWord
                       /\ HeadAt(head) /\ LengthsAt /\ ZeroFrom(FirstWord)
  /\ pc = "copy_h" => /\ Candidate /\ at = SecondWord
                      /\ HeadAt(head) /\ LengthsAt /\ WordAt(FirstWord, hb)
                      /\ ZeroFrom(SecondWord)
  /\ pc \in {"packed"} \cup Unpacking /\ origin = "packed" =>
       /\ Candidate
       /\ HeadAt(head) /\ LengthsAt /\ WordAt(FirstWord, hb) /\ WordAt(SecondWord, h)
       /\ ZeroFrom(End)
  /\ pc = "packed" => origin = "packed"

(* What has been unpacked is what the buffer holds.                        *)
UnpackInv ==
  /\ pc \in Unpacking \ {"received", "rejected"} =>
       LengthsAt /\ unpacked.head = Read(0, HeadBytes)
  /\ pc \in {"sizes", "decode_hb"} => at = FirstWord
  /\ pc \in {"decode_hb", "decode_h", "padding", "accepted"} => End <= CryptoBytes
  /\ pc = "decode_h" => at = SecondWord
  /\ pc \in {"decode_h", "padding", "accepted"} => unpacked.hb = Read(FirstWord, size_enc_hb_z1)
  /\ pc = "padding" => at = End
  /\ pc \in {"padding", "accepted"} => unpacked.h = Read(SecondWord, size_enc_h)
  /\ pc = "accepted" => ZeroFrom(End)
  /\ pc = "rejected" => origin = "foreign"

Labels == Packing \cup Unpacking \cup {"packed"}

IInv ==
  /\ TypeOK
  /\ pc \in Labels
  /\ unpacked \in [head : Seq(Bytes), hb : Seq(Bytes), h : Seq(Bytes)]
  /\ PackInv
  /\ UnpackInv

-----------------------------------------------------------------------------
(* Constants and the buffer.                                               *)

LEMMA Sizes ==
  /\ MaxByte \in Nat /\ HeadBytes \in Nat /\ BaseHb \in Nat /\ BaseH \in Nat
  /\ CryptoBytes \in Nat /\ HeadBytes + 2 < CryptoBytes
  /\ 0 \in Bytes
BY PackingAssumption DEF PackingAssumption, Bytes

LEMMA Words ==
  /\ \A w \in WordsHb \cup WordsH : w \in Seq(Bytes) /\ Len(w) \in Nat
  /\ <<>> \in Seq(Bytes) /\ Len(<<>>) = 0
BY PackingAssumption DEF PackingAssumption

LEMMA WriteType ==
  ASSUME NEW s \in [Places -> Bytes], NEW p \in Nat, NEW w \in Seq(Bytes)
  PROVE  Write(s, p, w) \in [Places -> Bytes]
<1>1. \A q \in Places : q \in p .. p + Len(w) - 1 => q - p + 1 \in 1 .. Len(w)
  BY Sizes DEF Places
<1>2. \A k \in 1 .. Len(w) : w[k] \in Bytes
  OBVIOUS
<1> QED
  BY <1>1, <1>2 DEF Write

LEMMA ReadType ==
  ASSUME sig \in [Places -> Bytes], NEW p \in Nat, NEW n \in Nat, p + n <= CryptoBytes
  PROVE  /\ Read(p, n) \in Seq(Bytes)
         /\ Len(Read(p, n)) = n
         /\ \A k \in 1 .. n : Read(p, n)[k] = sig[p + k - 1]
<1>1. \A k \in 1 .. n : p + k - 1 \in Places
  BY Sizes DEF Places
<1>2. \A k \in 1 .. n : sig[p + k - 1] \in Bytes
  BY <1>1
<1>3. [k \in 1 .. n |-> sig[p + k - 1]] \in Seq(Bytes)
  BY <1>2
<1> QED
  BY <1>3 DEF Read

(* A word in its place is read back.                                       *)
LEMMA ReadsBack ==
  ASSUME NEW p, NEW w \in Seq(Bytes), WordAt(p, w)
  PROVE  Read(p, Len(w)) = w
<1>1. w = [k \in 1 .. Len(w) |-> w[k]]
  OBVIOUS
<1>2. \A k \in 1 .. Len(w) : sig[p + k - 1] = w[k]
  BY DEF WordAt
<1> QED
  BY <1>1, <1>2 DEF Read

-----------------------------------------------------------------------------
(* The inductive invariant.                                                *)

LEMMA InitInv == Init => IInv
<1> SUFFICES ASSUME Init PROVE IInv
  OBVIOUS
<1>1. TypeOK
  BY Sizes DEF Init, TypeOK, Bytes
<1>2. unpacked \in [head : Seq(Bytes), hb : Seq(Bytes), h : Seq(Bytes)]
  BY Words DEF Init
<1> QED
  BY <1>1, <1>2 DEF Init, IInv, PackInv, UnpackInv, Labels, Packing, Unpacking

(* pack_sig                                                                *)
LEMMA PackHeadInv == IInv /\ PackHead => IInv'
<1> SUFFICES ASSUME IInv, PackHead PROVE IInv'
  OBVIOUS
<1> USE Sizes DEF PackHead, IInv, TypeOK
<1>1. Clear(sig) \in [Places -> Bytes]
  BY DEF Clear
<1>2. head \in [1 .. HeadBytes -> Bytes] /\ head \in Seq(Bytes) /\ Len(head) = HeadBytes
  BY PackingAssumption DEF PackingAssumption
<1>6. sig' = Write(Clear(sig), 0, head)
  <2>1. ChallengeBytes \in Nat /\ ChallengeBytes <= HeadBytes
    BY PackingAssumption DEF PackingAssumption
  <2>2. \A q \in Places : q < HeadBytes => head[q + 1] \in Bytes
    BY <1>2 DEF Places
  <2>3. \A q \in Places : q < ChallengeBytes => Or(Clear(sig)[q], head[q + 1]) = head[q + 1]
    BY <2>1, <2>2, PackingAssumption DEF PackingAssumption, Clear, Places
  <2>4. \A q \in Places : WithHead(Clear(sig))[q] = Write(Clear(sig), 0, head)[q]
    BY <1>2, <2>1, <2>3 DEF WithHead, Write, Places
  <2>5. WithHead(Clear(sig)) = Write(Clear(sig), 0, head)
    BY <2>4 DEF WithHead, Write
  <2> QED
    BY <2>5
<1>3. sig' \in [Places -> Bytes]
  BY <1>1, <1>2, <1>6, WriteType
<1>4. TypeOK'
  BY <1>3
<1>5. HeadAt(head)' /\ ZeroFrom(HeadBytes)'
  <2>1. head' = head
    OBVIOUS
  <2>2. \A q \in Places : sig'[q] = IF q < HeadBytes THEN head[q + 1] ELSE 0
    BY ONLY Sizes, <1>2, <1>6 DEF Write, Clear, Places
  <2>3. \A q \in 0 .. HeadBytes - 1 : q \in Places
    BY DEF Places
  <2> QED
    BY ONLY Sizes, <2>1, <2>2, <2>3 DEF HeadAt, ZeroFrom, Places
<1> QED
  BY <1>4, <1>5 DEF PackInv, UnpackInv, Labels, Packing, Unpacking

LEMMA EncodeInv == IInv /\ Encode => IInv'
<1> SUFFICES ASSUME IInv, Encode PROVE IInv'
  OBVIOUS
<1> USE Sizes DEF Encode, IInv, TypeOK
<1>1. TypeOK'
  BY Words
<1>2. (HeadAt(head) /\ ZeroFrom(HeadBytes)) = (HeadAt(head) /\ ZeroFrom(HeadBytes))'
  BY DEF HeadAt, ZeroFrom
<1> QED
  BY <1>1, <1>2 DEF PackInv, UnpackInv, Labels, Packing, Unpacking

LEMMA CheckSizesInv == IInv /\ CheckSizes => IInv'
<1> SUFFICES ASSUME IInv, CheckSizes PROVE IInv'
  OBVIOUS
<1> USE Sizes DEF IInv, TypeOK
<1>0. pc = "encoded" /\ at = HeadBytes /\ HeadAt(head) /\ ZeroFrom(HeadBytes)
      /\ size_enc_hb_z1 = Len(hb) /\ size_enc_h = Len(h) /\ origin = "packed"
  BY DEF CheckSizes, PackInv, Packing
<1>1. CASE pc' = "refused"
  BY <1>0, <1>1 DEF CheckSizes, PackInv, UnpackInv, Labels, Packing, Unpacking
<1>2. CASE pc' = "copy_hb"
  <2> DEFINE lengths == <<size_enc_hb_z1 - BaseHb, size_enc_h - BaseH>>
  <2>1. /\ size_enc_h # 0 /\ size_enc_hb_z1 # 0
        /\ InRange(size_enc_h, BaseH) /\ InRange(size_enc_hb_z1, BaseHb)
        /\ Fits(size_enc_hb_z1, size_enc_h)
        /\ sig' = Write(sig, HeadBytes, lengths)
        /\ at' = HeadBytes + 2
        /\ UNCHANGED <<origin, head, hb, h, size_enc_hb_z1, size_enc_h, unpacked>>
    BY <1>0, <1>2 DEF CheckSizes
  <2>2. size_enc_hb_z1 - BaseHb \in Bytes /\ size_enc_h - BaseH \in Bytes
    BY <2>1 DEF InRange, Bytes
  <2>3. lengths \in Seq(Bytes) /\ Len(lengths) = 2
        /\ lengths[1] = size_enc_hb_z1 - BaseHb /\ lengths[2] = size_enc_h - BaseH
    BY <2>2
  <2> HIDE DEF lengths
  <2>4. sig' \in [Places -> Bytes]
    BY <2>1, <2>3, WriteType
  <2>5. TypeOK'
    BY <2>1, <2>4
  <2>6. Candidate'
    BY <1>0, <2>1, Words DEF Candidate, InRange, Fits, End, SecondWord, FirstWord
  <2>7. HeadAt(head)'
    BY <1>0, <2>1, <2>3 DEF HeadAt, Write, Places
  <2>8. LengthsAt'
    <3>1. sig'[HeadBytes] = lengths[1]
      BY <2>1, <2>3 DEF Write, Places
    <3>2. sig'[HeadBytes + 1] = lengths[2]
      BY <2>1, <2>3 DEF Write, Places
    <3> QED
      BY <2>1, <2>3, <3>1, <3>2 DEF LengthsAt
  <2>9. ZeroFrom(FirstWord)'
    BY <1>0, <2>1, <2>3 DEF ZeroFrom, FirstWord, Write, Places
  <2> QED
    BY <1>0, <1>2, <2>1, <2>5, <2>6, <2>7, <2>8, <2>9
       DEF PackInv, UnpackInv, Labels, Packing, Unpacking, FirstWord
<1> QED
  BY <1>1, <1>2 DEF CheckSizes

LEMMA CopyHbInv == IInv /\ CopyHb => IInv'
<1> SUFFICES ASSUME IInv, CopyHb PROVE IInv'
  OBVIOUS
<1> USE Sizes DEF IInv, TypeOK
<1>0. pc = "copy_hb" /\ at = FirstWord /\ Candidate
      /\ HeadAt(head) /\ LengthsAt /\ ZeroFrom(FirstWord) /\ origin = "packed"
  BY DEF CopyHb, PackInv, Packing
<1>1. /\ sig' = Write(sig, FirstWord, hb) /\ at' = SecondWord /\ pc' = "copy_h"
      /\ UNCHANGED <<origin, head, hb, h, size_enc_hb_z1, size_enc_h, unpacked>>
  BY <1>0 DEF CopyHb, SecondWord
<1>2. hb \in Seq(Bytes) /\ Len(hb) \in Nat /\ Len(h) \in Nat
  BY <1>0, Words DEF Candidate
<1>3. FirstWord \in Nat
  BY DEF FirstWord
<1>4. sig' \in [Places -> Bytes]
  BY <1>1, <1>2, <1>3, WriteType
<1>5. at' \in 0 .. CryptoBytes
  BY <1>0, <1>1, <1>2 DEF Candidate, End, SecondWord, FirstWord
<1>6. TypeOK'
  BY <1>1, <1>4, <1>5
<1>7. Candidate'
  BY <1>0, <1>1 DEF Candidate, End, SecondWord, FirstWord
<1>8. HeadAt(head)' /\ LengthsAt'
  BY <1>0, <1>1, <1>2 DEF HeadAt, LengthsAt, Write, Places, FirstWord
<1>9. WordAt(FirstWord, hb)'
  <2> SUFFICES ASSUME NEW k \in 1 .. Len(hb) PROVE sig'[FirstWord + k - 1] = hb[k]
    BY <1>1 DEF WordAt, FirstWord
  <2>1. FirstWord + k - 1 \in Places
    BY <1>0, <1>2 DEF Candidate, End, SecondWord, FirstWord, Places
  <2>2. FirstWord + k - 1 \in FirstWord .. FirstWord + Len(hb) - 1
        /\ (FirstWord + k - 1) - FirstWord + 1 = k
    BY <1>2, <1>3
  <2> QED
    BY <1>1, <2>1, <2>2 DEF Write
<1>10. ZeroFrom(SecondWord)'
  BY <1>0, <1>1, <1>2 DEF ZeroFrom, SecondWord, FirstWord, Write, Places, Candidate
<1>11. SecondWord' = SecondWord
  BY <1>1 DEF SecondWord, FirstWord
<1> QED
  BY <1>0, <1>1, <1>6, <1>7, <1>8, <1>9, <1>10, <1>11
     DEF PackInv, UnpackInv, Labels, Packing, Unpacking

LEMMA CopyHInv == IInv /\ CopyH => IInv'
<1> SUFFICES ASSUME IInv, CopyH PROVE IInv'
  OBVIOUS
<1> USE Sizes DEF IInv, TypeOK
<1>0. pc = "copy_h" /\ at = SecondWord /\ Candidate /\ HeadAt(head) /\ LengthsAt
      /\ WordAt(FirstWord, hb) /\ ZeroFrom(SecondWord) /\ origin = "packed"
  BY DEF CopyH, PackInv, Packing
<1>1. /\ sig' = Write(sig, SecondWord, h) /\ pc' = "packed"
      /\ UNCHANGED <<origin, head, hb, h, at, size_enc_hb_z1, size_enc_h, unpacked>>
  BY <1>0 DEF CopyH
<1>2. h \in Seq(Bytes) /\ Len(hb) \in Nat /\ Len(h) \in Nat
  BY <1>0, Words DEF Candidate
<1>3. SecondWord \in Nat /\ FirstWord \in Nat
  BY DEF SecondWord, FirstWord
<1>4. sig' \in [Places -> Bytes]
  BY <1>1, <1>2, <1>3, WriteType
<1>6. TypeOK'
  BY <1>1, <1>4
<1>7. Candidate' /\ FirstWord' = FirstWord /\ SecondWord' = SecondWord
  BY <1>0, <1>1 DEF Candidate, End, SecondWord, FirstWord
<1>8. HeadAt(head)' /\ LengthsAt'
  BY <1>0, <1>1, <1>2 DEF HeadAt, LengthsAt, Write, Places, SecondWord, FirstWord
<1>9. WordAt(FirstWord, hb)'
  <2> SUFFICES ASSUME NEW k \in 1 .. Len(hb) PROVE sig'[FirstWord + k - 1] = hb[k]
    BY <1>1, <1>7 DEF WordAt
  <2>1. FirstWord + k - 1 \in Places
    BY <1>0, <1>2 DEF Candidate, End, SecondWord, FirstWord, Places
  <2>2. FirstWord + k - 1 \notin SecondWord .. SecondWord + Len(h) - 1
    BY <1>0, <1>2 DEF SecondWord, FirstWord, Candidate
  <2>3. sig[FirstWord + k - 1] = hb[k]
    BY <1>0 DEF WordAt
  <2> QED
    BY <1>1, <2>1, <2>2, <2>3 DEF Write
<1>10. WordAt(SecondWord, h)'
  <2> SUFFICES ASSUME NEW k \in 1 .. Len(h) PROVE sig'[SecondWord + k - 1] = h[k]
    BY <1>1, <1>7 DEF WordAt
  <2>1. SecondWord + k - 1 \in Places
    BY <1>0, <1>2, <1>3 DEF Candidate, End, Places
  <2>2. SecondWord + k - 1 \in SecondWord .. SecondWord + Len(h) - 1
        /\ (SecondWord + k - 1) - SecondWord + 1 = k
    BY <1>2, <1>3
  <2> QED
    BY <1>1, <2>1, <2>2 DEF Write
<1>11. ZeroFrom(End)'
  BY <1>0, <1>1, <1>2, <1>3 DEF ZeroFrom, End, SecondWord, FirstWord, Write, Places, Candidate
<1> QED
  BY <1>0, <1>1, <1>6, <1>7, <1>8, <1>9, <1>10, <1>11
     DEF PackInv, UnpackInv, Labels, Packing, Unpacking

LEMMA RetryInv == IInv /\ Retry => IInv'
BY DEF IInv, TypeOK, Retry, PackInv, UnpackInv, Labels, Packing, Unpacking

LEMMA DeliverInv == IInv /\ Deliver => IInv'
<1> SUFFICES ASSUME IInv, Deliver PROVE IInv'
  OBVIOUS
<1> USE DEF IInv, TypeOK, Deliver
<1>1. Candidate' = Candidate /\ HeadAt(head)' = HeadAt(head) /\ LengthsAt' = LengthsAt
      /\ WordAt(FirstWord, hb)' = WordAt(FirstWord, hb)
      /\ WordAt(SecondWord, h)' = WordAt(SecondWord, h) /\ ZeroFrom(End)' = ZeroFrom(End)
  BY DEF Candidate, HeadAt, LengthsAt, WordAt, ZeroFrom, End, SecondWord, FirstWord
<1>2. TypeOK'
  OBVIOUS
<1> QED
  BY <1>1, <1>2 DEF PackInv, UnpackInv, Labels, Packing, Unpacking

(* unpack_sig                                                              *)
LEMMA ReceiveInv == IInv /\ Receive => IInv'
<1> SUFFICES ASSUME IInv, Receive PROVE IInv'
  OBVIOUS
<1>1. sig' \in [Places -> Bytes]
  BY PackingAssumption DEF PackingAssumption, Receive
<1> QED
  BY <1>1 DEF IInv, TypeOK, Receive, PackInv, UnpackInv, Labels, Packing, Unpacking

(* The contents of a packed buffer, as long as nothing touches them.       *)
Contents ==
  /\ Candidate
  /\ HeadAt(head) /\ LengthsAt /\ WordAt(FirstWord, hb) /\ WordAt(SecondWord, h)
  /\ ZeroFrom(End)

LEMMA ContentsKept ==
  ASSUME UNCHANGED <<head, hb, h, sig, size_enc_hb_z1, size_enc_h>>
  PROVE  /\ Contents' = Contents /\ LengthsAt' = LengthsAt
         /\ FirstWord' = FirstWord /\ SecondWord' = SecondWord /\ End' = End
         /\ ZeroFrom(End)' = ZeroFrom(End)
         /\ Read(FirstWord, size_enc_hb_z1)' = Read(FirstWord, size_enc_hb_z1)
         /\ Read(SecondWord, size_enc_h)' = Read(SecondWord, size_enc_h)
         /\ Read(0, HeadBytes)' = Read(0, HeadBytes)
<1>1. FirstWord' = FirstWord /\ SecondWord' = SecondWord /\ End' = End
  BY DEF End, SecondWord, FirstWord
<1> QED
  BY <1>1 DEF Contents, Candidate, HeadAt, LengthsAt, WordAt, ZeroFrom, Read

LEMMA Difference ==
  ASSUME NEW b \in 0 .. MaxByte, NEW c \in Nat
  PROVE  b + c \in Nat /\ (b + c) - c = b /\ \A n \in Nat : b = n - c => b + c = n
BY Sizes

LEMMA UnpackHeadInv == IInv /\ UnpackHead => IInv'
<1> SUFFICES ASSUME IInv, UnpackHead PROVE IInv'
  OBVIOUS
<1> USE Sizes DEF IInv, TypeOK
<1>1. /\ pc = "received" /\ pc' = "sizes" /\ at' = FirstWord
      /\ unpacked' = [unpacked EXCEPT !.head = Read(0, HeadBytes)]
      /\ size_enc_hb_z1' = sig[HeadBytes] + BaseHb /\ size_enc_h' = sig[HeadBytes + 1] + BaseH
      /\ UNCHANGED <<origin, head, hb, h, sig>>
  BY DEF UnpackHead, FirstWord
<1>2. HeadBytes \in Places /\ HeadBytes + 1 \in Places
  BY DEF Places
<1>3. sig[HeadBytes] \in 0 .. MaxByte /\ sig[HeadBytes + 1] \in 0 .. MaxByte
  BY <1>2 DEF Bytes
<1>4. FirstWord \in 0 .. CryptoBytes /\ FirstWord' = FirstWord
  BY DEF FirstWord
<1>a. PICK b1 \in 0 .. MaxByte : b1 = sig[HeadBytes]
  BY <1>3
<1>b. PICK b2 \in 0 .. MaxByte : b2 = sig[HeadBytes + 1]
  BY <1>3
<1>c. size_enc_hb_z1' = b1 + BaseHb /\ size_enc_h' = b2 + BaseH
  BY <1>1, <1>a, <1>b
<1>d. /\ b1 + BaseHb \in Nat /\ b1 + BaseHb - BaseHb = b1
      /\ b2 + BaseH \in Nat /\ b2 + BaseH - BaseH = b2
      /\ \A n \in Nat : b1 = n - BaseHb => b1 + BaseHb = n
      /\ \A n \in Nat : b2 = n - BaseH => b2 + BaseH = n
  BY Difference
<1>e. size_enc_hb_z1' \in Nat /\ size_enc_h' \in Nat
  BY <1>c, <1>d
<1>5. TypeOK'
  BY <1>1, <1>e, <1>4
<1>6. Read(0, HeadBytes) \in Seq(Bytes)
  BY ReadType
<1>7. unpacked' \in [head : Seq(Bytes), hb : Seq(Bytes), h : Seq(Bytes)]
      /\ unpacked'.head = Read(0, HeadBytes)
  BY <1>1, <1>6
<1>8. LengthsAt'
  <2>1. sig'[HeadBytes] = b1 /\ sig'[HeadBytes + 1] = b2
    BY <1>1, <1>a, <1>b
  <2>2. b1 = size_enc_hb_z1' - BaseHb /\ b2 = size_enc_h' - BaseH
    BY <1>c, <1>d
  <2> QED
    BY <2>1, <2>2 DEF LengthsAt
<1>9. Read(0, HeadBytes)' = Read(0, HeadBytes)
  BY <1>1 DEF Read
<1>10. ASSUME origin = "packed" PROVE Contents'
  <2>1. Contents
    BY <1>1, <1>10 DEF PackInv, Unpacking, Contents
  <2>2. size_enc_hb_z1' = size_enc_hb_z1 /\ size_enc_h' = size_enc_h
    <3>1. b1 = size_enc_hb_z1 - BaseHb /\ b2 = size_enc_h - BaseH
      BY <1>a, <1>b, <2>1 DEF Contents, LengthsAt
    <3>2. size_enc_hb_z1 \in Nat /\ size_enc_h \in Nat
      OBVIOUS
    <3> QED
      BY <1>c, <1>d, <3>1, <3>2
  <2> QED
    BY <1>1, <2>1, <2>2, ContentsKept
<1> QED
  BY <1>1, <1>4, <1>5, <1>7, <1>8, <1>9, <1>10
     DEF PackInv, UnpackInv, Labels, Packing, Unpacking, Contents

LEMMA UnpackSizesInv == IInv /\ UnpackSizes => IInv'
<1> SUFFICES ASSUME IInv, UnpackSizes PROVE IInv'
  OBVIOUS
<1> USE Sizes DEF IInv, TypeOK, UnpackSizes
<1>1. TypeOK'
  OBVIOUS
<1>2. TooLong = ~(End <= CryptoBytes)
  BY DEF TooLong, End, SecondWord, FirstWord
<1>3. origin = "packed" => Contents
  BY DEF PackInv, Unpacking, Contents
<1>4. origin = "packed" => End <= CryptoBytes
  BY <1>3 DEF Contents, Candidate
<1>5. pc' = "decode_hb" => End <= CryptoBytes
  BY <1>2
<1> QED
  BY <1>1, <1>2, <1>3, <1>4, <1>5, ContentsKept
     DEF PackInv, UnpackInv, Labels, Packing, Unpacking, Contents

LEMMA DecodeHbInv == IInv /\ DecodeHb => IInv'
<1> SUFFICES ASSUME IInv, DecodeHb PROVE IInv'
  OBVIOUS
<1> USE Sizes DEF IInv, TypeOK
<1> DEFINE w == Read(FirstWord, size_enc_hb_z1)
<1>1. pc = "decode_hb" /\ at = FirstWord /\ End <= CryptoBytes /\ LengthsAt
      /\ unpacked.head = Read(0, HeadBytes)
  BY DEF DecodeHb, UnpackInv, Unpacking
<1>2. UNCHANGED <<origin, head, hb, h, sig, size_enc_hb_z1, size_enc_h>>
  BY DEF DecodeHb
<1>3. origin = "packed" => Contents
  BY <1>1 DEF PackInv, Unpacking, Contents
<1>4. origin = "packed" => w \in WordsHb
  BY <1>3, Words, ReadsBack DEF Contents, Candidate
<1>5. FirstWord \in Nat /\ FirstWord + size_enc_hb_z1 = SecondWord
  BY DEF FirstWord, SecondWord
<1>6. CASE w \in WordsHb
  <2>1. unpacked' = [unpacked EXCEPT !.hb = w] /\ at' = SecondWord /\ pc' = "decode_h"
    BY <1>1, <1>5, <1>6 DEF DecodeHb
  <2>2. w \in Seq(Bytes)
    BY <1>6, Words
  <2> HIDE DEF w
  <2>3. unpacked' \in [head : Seq(Bytes), hb : Seq(Bytes), h : Seq(Bytes)]
        /\ unpacked'.head = unpacked.head /\ unpacked'.hb = w
    BY <2>1, <2>2
  <2>4. at' \in 0 .. CryptoBytes
    BY <1>1, <1>5, <2>1 DEF End
  <2>5. TypeOK'
    BY <1>2, <2>4
  <2>6. w' = w
    BY <1>2, ContentsKept DEF w
  <2> QED
    BY <1>1, <1>2, <1>3, <2>1, <2>3, <2>5, <2>6, ContentsKept
       DEF PackInv, UnpackInv, Labels, Packing, Unpacking, Contents, w
<1>7. CASE w \notin WordsHb
  <2>1. pc' = "rejected" /\ UNCHANGED <<at, unpacked>>
    BY <1>1, <1>7 DEF DecodeHb
  <2>2. origin # "packed"
    BY <1>4, <1>7
  <2> QED
    BY <1>2, <2>1, <2>2 DEF PackInv, UnpackInv, Labels, Packing, Unpacking
<1> QED
  BY <1>6, <1>7

LEMMA DecodeHInv == IInv /\ DecodeH => IInv'
<1> SUFFICES ASSUME IInv, DecodeH PROVE IInv'
  OBVIOUS
<1> USE Sizes DEF IInv, TypeOK
<1> DEFINE w == Read(SecondWord, size_enc_h)
<1>1. pc = "decode_h" /\ at = SecondWord /\ End <= CryptoBytes /\ LengthsAt
      /\ unpacked.head = Read(0, HeadBytes) /\ unpacked.hb = Read(FirstWord, size_enc_hb_z1)
  BY DEF DecodeH, UnpackInv, Unpacking
<1>2. UNCHANGED <<origin, head, hb, h, sig, size_enc_hb_z1, size_enc_h>>
  BY DEF DecodeH
<1>3. origin = "packed" => Contents
  BY <1>1 DEF PackInv, Unpacking, Contents
<1>4. origin = "packed" => w \in WordsH
  BY <1>3, Words, ReadsBack DEF Contents, Candidate
<1>5. SecondWord \in Nat /\ SecondWord + size_enc_h = End
  BY DEF FirstWord, SecondWord, End
<1>6. CASE w \in WordsH
  <2>1. unpacked' = [unpacked EXCEPT !.h = w] /\ at' = End /\ pc' = "padding"
    BY <1>1, <1>5, <1>6 DEF DecodeH
  <2>2. w \in Seq(Bytes)
    BY <1>6, Words
  <2> HIDE DEF w
  <2>3. unpacked' \in [head : Seq(Bytes), hb : Seq(Bytes), h : Seq(Bytes)]
        /\ unpacked'.head = unpacked.head /\ unpacked'.hb = unpacked.hb /\ unpacked'.h = w
    BY <2>1, <2>2
  <2>4. at' \in 0 .. CryptoBytes
    BY <1>1, <1>5, <2>1
  <2>5. TypeOK'
    BY <1>2, <2>4
  <2>6. w' = w
    BY <1>2, ContentsKept DEF w
  <2> QED
    BY <1>1, <1>2, <1>3, <2>1, <2>3, <2>5, <2>6, ContentsKept
       DEF PackInv, UnpackInv, Labels, Packing, Unpacking, Contents, w
<1>7. CASE w \notin WordsH
  <2>1. pc' = "rejected" /\ UNCHANGED <<at, unpacked>>
    BY <1>1, <1>7 DEF DecodeH
  <2>2. origin # "packed"
    BY <1>4, <1>7
  <2> QED
    BY <1>2, <2>1, <2>2 DEF PackInv, UnpackInv, Labels, Packing, Unpacking
<1> QED
  BY <1>6, <1>7

LEMMA CheckPaddingInv == IInv /\ CheckPadding => IInv'
<1> SUFFICES ASSUME IInv, CheckPadding PROVE IInv'
  OBVIOUS
<1> USE Sizes DEF IInv, TypeOK
<1>1. pc = "padding" /\ at = End /\ UnpackInv
      /\ UNCHANGED <<origin, head, hb, h, sig, at, size_enc_hb_z1, size_enc_h, unpacked>>
  BY DEF CheckPadding, UnpackInv
<1>2. (\A p \in Padding : sig[p] = 0) <=> ZeroFrom(End)
  BY <1>1 DEF Padding, ZeroFrom, Places
<1>3. origin = "packed" => Contents
  BY <1>1 DEF PackInv, Unpacking, Contents
<1>4. pc' = IF ZeroFrom(End) THEN "accepted" ELSE "rejected"
  BY <1>2 DEF CheckPadding
<1>5. pc' = "rejected" => origin = "foreign"
  BY <1>3, <1>4 DEF Contents
<1>6. TypeOK'
  BY <1>1
<1> QED
  BY <1>1, <1>3, <1>4, <1>5, <1>6, ContentsKept
     DEF PackInv, UnpackInv, Labels, Packing, Unpacking, Contents

LEMMA InductiveInvariant == Spec => []IInv
<1>1. IInv /\ UNCHANGED vars => IInv'
  BY DEF vars, IInv, TypeOK, PackInv, UnpackInv, Candidate, HeadAt, LengthsAt, WordAt,
         ZeroFrom, End, SecondWord, FirstWord, Read
<1>2. IInv /\ [Next]_vars => IInv'
  BY <1>1, PackHeadInv, EncodeInv, CheckSizesInv, CopyHbInv, CopyHInv, RetryInv, DeliverInv,
     ReceiveInv, UnpackHeadInv, UnpackSizesInv, DecodeHbInv, DecodeHInv, CheckPaddingInv
     DEF Next
<1> QED
  BY InitInv, <1>2, PTL DEF Spec

-----------------------------------------------------------------------------
(* The theorems.                                                           *)

(* Every stored length is a byte, for every base and every encoding        *)
(* (packing.c:196-203).                                                    *)
THEOREM TypeCorrect == Spec => []TypeOK
<1>1. IInv => TypeOK
  BY DEF IInv
<1> QED
  BY <1>1, InductiveInvariant, PTL

(* pack_sig and unpack_sig stay inside the signature, whatever lengths the *)
(* encodings have and whatever lengths a signature claims                  *)
(* (packing.c:208-211, 261-263).                                           *)
THEOREM NothingOutside == Spec => []InsideSignature
<1>1. IInv => InsideSignature
  <2> SUFFICES ASSUME IInv PROVE InsideSignature
    OBVIOUS
  <2>1. pc \in {"copy_hb", "decode_hb"} => at = FirstWord /\ End <= CryptoBytes
    BY DEF IInv, PackInv, UnpackInv, Candidate
  <2>2. pc \in {"copy_h", "decode_h"} => at = SecondWord /\ End <= CryptoBytes
    BY DEF IInv, PackInv, UnpackInv, Candidate
  <2> QED
    BY <2>1, <2>2, Sizes DEF IInv, TypeOK, InsideSignature, End, SecondWord, FirstWord
<1> QED
  BY <1>1, InductiveInvariant, PTL

(* What pack_sig packed, unpack_sig accepts and returns.                   *)
THEOREM PackedIsUnpacked == Spec => []RoundTrip
<1>1. IInv => RoundTrip
  <2> SUFFICES ASSUME IInv, origin = "packed"
               PROVE  /\ pc # "rejected"
                      /\ pc = "accepted" => unpacked = [head |-> head, hb |-> hb, h |-> h]
    BY DEF RoundTrip
  <2>1. pc # "rejected"
    BY DEF IInv, UnpackInv
  <2>2. ASSUME pc = "accepted" PROVE unpacked = [head |-> head, hb |-> hb, h |-> h]
    <3>1. /\ Contents
          /\ unpacked.head = Read(0, HeadBytes)
          /\ unpacked.hb = Read(FirstWord, size_enc_hb_z1)
          /\ unpacked.h = Read(SecondWord, size_enc_h)
          /\ unpacked \in [head : Seq(Bytes), hb : Seq(Bytes), h : Seq(Bytes)]
      BY <2>2 DEF IInv, PackInv, UnpackInv, Unpacking, Contents
    <3>2. unpacked.hb = hb /\ unpacked.h = h
      BY <3>1, Words, ReadsBack DEF Contents, Candidate
    <3>3. Read(0, HeadBytes) = head
      <4>1. head = [k \in 1 .. HeadBytes |-> head[k]]
        BY PackingAssumption DEF PackingAssumption, IInv, TypeOK
      <4>2. \A k \in 1 .. HeadBytes : sig[0 + k - 1] = head[k]
        <5> SUFFICES ASSUME NEW k \in 1 .. HeadBytes PROVE sig[0 + k - 1] = head[k]
          OBVIOUS
        <5>1. k - 1 \in 0 .. HeadBytes - 1 /\ (k - 1) + 1 = k /\ 0 + k - 1 = k - 1
          BY Sizes
        <5> QED
          BY <3>1, <5>1 DEF Contents, HeadAt
      <4> QED
        BY <4>1, <4>2 DEF Read
    <3> QED
      BY <3>1, <3>2, <3>3
  <2> QED
    BY <2>1, <2>2
<1> QED
  BY <1>1, InductiveInvariant, PTL

(* Two words that stand one behind the other in the buffer.                *)
LEMMA Follows ==
  ASSUME NEW a \in Seq(Bytes), NEW b \in Seq(Bytes),
         \A i \in 1 .. Len(a) : a[i] = sig[i - 1],
         \A k \in 1 .. Len(b) : b[k] = sig[Len(a) + k - 1]
  PROVE  /\ a \o b \in Seq(Bytes) /\ Len(a \o b) = Len(a) + Len(b)
         /\ \A i \in 1 .. Len(a) + Len(b) : (a \o b)[i] = sig[i - 1]
<1>1. a \o b \in Seq(Bytes) /\ Len(a \o b) = Len(a) + Len(b)
  OBVIOUS
<1>2. ASSUME NEW i \in 1 .. Len(a) + Len(b) PROVE (a \o b)[i] = sig[i - 1]
  <2>1. CASE i <= Len(a)
    BY <2>1
  <2>2. CASE ~(i <= Len(a))
    <3>1. Len(a) \in Nat /\ Len(b) \in Nat
      OBVIOUS
    <3>2. i - Len(a) \in 1 .. Len(b)
      BY <2>2, <3>1
    <3>3. PICK k \in 1 .. Len(b) : k = i - Len(a)
      BY <3>2
    <3>4. (a \o b)[i] = b[k]
      BY <2>2, <3>1, <3>3
    <3>5. Len(a) + k - 1 = i - 1
      BY <3>1, <3>3
    <3> QED
      BY <3>3, <3>4, <3>5
  <2> QED
    BY <2>1, <2>2
<1> QED
  BY <1>1, <1>2

(* unpack_sig accepts nothing but what pack_sig makes of the same parts    *)
(* (packing.c:277-282).                                                    *)
THEOREM OneFormOnly == Spec => []OneForm
<1>1. IInv => OneForm
  <2> DEFINE lengths == <<Len(unpacked.hb) - BaseHb, Len(unpacked.h) - BaseH>>
             one == unpacked.head \o lengths
             two == one \o unpacked.hb
             parts == two \o unpacked.h
  <2> SUFFICES ASSUME IInv, pc = "accepted"
               PROVE  sig = Write([p \in Places |-> 0], 0, parts)
    BY DEF OneForm
  <2>1. /\ unpacked.head = Read(0, HeadBytes)
        /\ unpacked.hb = Read(FirstWord, size_enc_hb_z1)
        /\ unpacked.h = Read(SecondWord, size_enc_h)
        /\ LengthsAt /\ ZeroFrom(End) /\ End <= CryptoBytes
        /\ sig \in [Places -> Bytes]
        /\ size_enc_hb_z1 \in Nat /\ size_enc_h \in Nat
    BY DEF IInv, TypeOK, UnpackInv, Unpacking
  <2>2. FirstWord \in Nat /\ SecondWord \in Nat /\ End \in Nat
        /\ FirstWord <= CryptoBytes /\ SecondWord <= CryptoBytes
    BY <2>1, Sizes DEF FirstWord, SecondWord, End
  <2>3. /\ unpacked.head \in Seq(Bytes) /\ Len(unpacked.head) = HeadBytes
        /\ \A k \in 1 .. HeadBytes : unpacked.head[k] = sig[k - 1]
    <3>1. HeadBytes \in Nat /\ 0 \in Nat /\ 0 + HeadBytes <= CryptoBytes
      BY Sizes
    <3>2. /\ Read(0, HeadBytes) \in Seq(Bytes)
          /\ Len(Read(0, HeadBytes)) = HeadBytes
          /\ \A k \in 1 .. HeadBytes : Read(0, HeadBytes)[k] = sig[0 + k - 1]
      BY <2>1, <3>1, ReadType
    <3>3. \A k \in 1 .. HeadBytes : 0 + k - 1 = k - 1
      BY <3>1
    <3> QED
      BY <2>1, <3>2, <3>3
  <2>4. /\ unpacked.hb \in Seq(Bytes) /\ Len(unpacked.hb) = size_enc_hb_z1
        /\ \A k \in 1 .. size_enc_hb_z1 : unpacked.hb[k] = sig[FirstWord + k - 1]
    <3>1. FirstWord \in Nat /\ size_enc_hb_z1 \in Nat /\ FirstWord + size_enc_hb_z1 <= CryptoBytes
      BY <2>1, <2>2 DEF SecondWord
    <3>2. /\ Read(FirstWord, size_enc_hb_z1) \in Seq(Bytes)
          /\ Len(Read(FirstWord, size_enc_hb_z1)) = size_enc_hb_z1
          /\ \A k \in 1 .. size_enc_hb_z1 : Read(FirstWord, size_enc_hb_z1)[k] = sig[FirstWord + k - 1]
      BY <2>1, <3>1, ReadType
    <3> QED
      BY <2>1, <3>2
  <2>5. /\ unpacked.h \in Seq(Bytes) /\ Len(unpacked.h) = size_enc_h
        /\ \A k \in 1 .. size_enc_h : unpacked.h[k] = sig[SecondWord + k - 1]
    <3>1. SecondWord \in Nat /\ size_enc_h \in Nat /\ SecondWord + size_enc_h <= CryptoBytes
      BY <2>1, <2>2 DEF End
    <3>2. /\ Read(SecondWord, size_enc_h) \in Seq(Bytes)
          /\ Len(Read(SecondWord, size_enc_h)) = size_enc_h
          /\ \A k \in 1 .. size_enc_h : Read(SecondWord, size_enc_h)[k] = sig[SecondWord + k - 1]
      BY <2>1, <3>1, ReadType
    <3> QED
      BY <2>1, <3>2
  <2>6. HeadBytes \in Places /\ HeadBytes + 1 \in Places
    BY Sizes DEF Places
  <2>7. lengths \in Seq(Bytes) /\ Len(lengths) = 2
        /\ lengths[1] = sig[HeadBytes] /\ lengths[2] = sig[HeadBytes + 1]
    BY <2>1, <2>4, <2>5, <2>6 DEF LengthsAt
  <2> HIDE DEF lengths
  <2>8. one \in Seq(Bytes) /\ Len(one) = FirstWord
        /\ \A i \in 1 .. FirstWord : one[i] = sig[i - 1]
    <3>1. ASSUME NEW k \in 1 .. 2 PROVE lengths[k] = sig[HeadBytes + k - 1]
      <4>1. k = 1 \/ k = 2
        OBVIOUS
      <4>2. HeadBytes + 1 - 1 = HeadBytes /\ HeadBytes + 2 - 1 = HeadBytes + 1
        BY Sizes
      <4> QED
        BY <2>7, <4>1, <4>2
    <3>2. \A k \in 1 .. Len(lengths) :
            lengths[k] = sig[Len(unpacked.head) + k - 1]
      BY <2>3, <2>7, <3>1
    <3>3. \A i \in 1 .. Len(unpacked.head) : unpacked.head[i] = sig[i - 1]
      BY <2>3
    <3>4. /\ one \in Seq(Bytes) /\ Len(one) = Len(unpacked.head) + Len(lengths)
          /\ \A i \in 1 .. Len(unpacked.head) + Len(lengths) : one[i] = sig[i - 1]
      BY <2>3, <2>7, <3>2, <3>3, Follows
    <3>5. Len(unpacked.head) + Len(lengths) = FirstWord
      BY <2>3, <2>7 DEF FirstWord
    <3> QED
      BY <3>4, <3>5
  <2> HIDE DEF one
  <2>9. two \in Seq(Bytes) /\ Len(two) = SecondWord
        /\ \A i \in 1 .. SecondWord : two[i] = sig[i - 1]
    BY <2>2, <2>4, <2>8, Follows DEF SecondWord
  <2> HIDE DEF two
  <2>10. parts \in Seq(Bytes) /\ Len(parts) = End
         /\ \A i \in 1 .. End : parts[i] = sig[i - 1]
    BY <2>2, <2>5, <2>9, Follows DEF End
  <2> HIDE DEF parts
  <2>11. \A q \in Places :
           sig[q] = IF q \in 0 .. 0 + Len(parts) - 1 THEN parts[q - 0 + 1] ELSE 0
    <3> SUFFICES ASSUME NEW q \in Places
                 PROVE  sig[q] = IF q \in 0 .. 0 + Len(parts) - 1 THEN parts[q - 0 + 1] ELSE 0
      OBVIOUS
    <3>1. CASE q < End
      <4>1. q + 1 \in 1 .. End /\ (q + 1) - 1 = q /\ q - 0 + 1 = q + 1
            /\ q \in 0 .. 0 + Len(parts) - 1
        BY <2>2, <2>10, <3>1, Sizes DEF Places
      <4> QED
        BY <2>10, <4>1
    <3>2. CASE ~(q < End)
      <4>1. q \notin 0 .. 0 + Len(parts) - 1 /\ q >= End
        BY <2>2, <2>10, <3>2, Sizes DEF Places
      <4> QED
        BY <2>1, <4>1 DEF ZeroFrom
    <3> QED
      BY <3>1, <3>2
  <2>12. sig = [q \in Places |-> sig[q]]
    BY <2>1
  <2>13. \A q \in Places : [p \in Places |-> 0][q] = 0
    OBVIOUS
  <2> QED
    BY <2>11, <2>12, <2>13 DEF Write
<1> QED
  BY <1>1, InductiveInvariant, PTL
=============================================================================
