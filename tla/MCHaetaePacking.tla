-------------------------- MODULE MCHaetaePacking --------------------------
(* Bytes of two bits.  Words of any length, from too short for a base to   *)
(* too long for a byte.                                                    *)
EXTENDS HaetaePacking

Bit(n, k) == (n \div 2^k) % 2
MCOr(a, b) ==
  LET Either(k) == IF Bit(a, k) = 1 \/ Bit(b, k) = 1 THEN 2^k ELSE 0
  IN  Either(0) + Either(1)

WordsUpTo(n, P(_)) == {w \in UNION {[1 .. k -> 0 .. 1] : k \in 1 .. n} : P(w)}

MCMaxByte == 3
MCCryptoBytes == 11
MCChallengeBytes == 1
MCHeadBytes == 2
MCBaseHb == 2
MCBaseH == 1
MCWordsHb == WordsUpTo(6, LAMBDA w : w[Len(w)] = 1)
MCWordsH == WordsUpTo(5, LAMBDA w : w[1] = 1)
MCHeads == {<<1, 0>>, <<2, 3>>}
MCForeign ==   \* any lengths, then bytes up to 2; no word has a 2
  { [q \in 0 .. 10 |-> IF q = 0 THEN 3 ELSE IF q = 1 THEN 1
                       ELSE IF q < 4 THEN lengths[q] ELSE rest[q]] :
      lengths \in [2 .. 3 -> 0 .. 3], rest \in [4 .. 10 -> 0 .. 2] }
=============================================================================
