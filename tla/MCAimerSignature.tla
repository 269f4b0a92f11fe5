-------------------------- MODULE MCAimerSignature --------------------------
(* The field of eight elements, polynomials over GF(2) modulo x^3 + x + 1, *)
(* a number's bits being the coefficients.                                 *)
EXTENDS AimerSignature

MCElements == 0 .. 7
Bit(x, k) == (x \div 2^k) % 2
FromBits(b(_)) == b(0) + 2 * b(1) + 4 * b(2)
MCPlus == [x \in MCElements |-> [y \in MCElements |->
             FromBits(LAMBDA k : (Bit(x, k) + Bit(y, k)) % 2)]]
Exp == [k \in 0 .. 6 |-> <<1, 2, 4, 3, 6, 7, 5>>[k + 1]]
Log(x) == CHOOSE k \in 0 .. 6 : Exp[k] = x
MCTimes == [x \in MCElements |-> [y \in MCElements |->
              IF 0 \in {x, y} THEN 0 ELSE Exp[(Log(x) + Log(y)) % 7]]]

(* Linear maps by the images of 1, 2 and 4.                                *)
Linear(m) == [x \in MCElements |->
                MCPlus[MCPlus[Bit(x, 0) * m[1]][Bit(x, 1) * m[2]]][Bit(x, 2) * m[3]]]

MCL == 2
MCLogN == 2
MCPow2 == [d \in 0 .. 2 |-> 2 ^ d]
MCT == 2
MCMatA == [i \in 1 .. 4 |-> Linear(<< <<1, 2, 4>>, <<3, 6, 5>>, <<2, 5, 7>>, <<6, 1, 4>> >>[i])]
MCVecB == [i \in 1 .. 3 |-> <<5, 3, 6>>[i]]
MCExponents == [i \in 1 .. 3 |-> <<1, 2, 1>>[i]]
TapeOf(n) == [pt |-> n % 8, y |-> [i \in 1 .. 2 |-> (3 * n + i) % 8],
              a |-> [i \in 1 .. 3 |-> (5 * n + 2 * i + 1) % 8], c |-> (7 * n + 3) % 8]
MCDraws == {[r \in 0 .. 1 |-> [p \in 0 .. 3 |-> TapeOf(4 * r + p + 3)]]}
MCChallenges == {[i \in 1 .. 3 |-> <<0, 2, 7>>[i]], [i \in 1 .. 3 |-> <<4, 4, 0>>[i]]}
MCJunk == {5}
(* 3 makes a key, 5 has a zero S-box input; each challenge hides the gap   *)
(* of one of the two keys that are no keys.                                *)
MCPts == {3, 5}
MCCts == {2}
=============================================================================
