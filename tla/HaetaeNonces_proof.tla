------------------------- MODULE HaetaeNonces_proof -------------------------
(***************************************************************************)
(* Freshness of HAETAE's nonces, for every width of the counter and every  *)
(* dimension.  FreshSamples is not inductive: it needs to know that before *)
(* the counter wraps the nonces used are exactly those below `drawn`, and  *)
(* that the caller's counter and the callee's nonce agree between          *)
(* candidates although key generation advances them separately.            *)
(***************************************************************************)
EXTENDS HaetaeNonces, TLAPS

(* A candidate has at most as many polynomials as its dimension.           *)
PolyInv ==
  /\ poly <= Polys(op)
  /\ pc \in {"judge", "done"} => poly = Polys(op)
  /\ pc = "start" => op = "none" /\ poly = 0 /\ drawn = 0
  /\ pc # "start" => op # "none"

(* The nonces used so far are those below drawn, and ni is the next one.   *)
DrawnInv ==
  drawn <= Wide =>
    /\ ni = IF drawn = Wide THEN 0 ELSE drawn
    /\ \A n \in Nonces : samples[n] = IF n < drawn THEN 1 ELSE 0

(* Between candidates the caller's counter is the next nonce; while key    *)
(* generation draws, it is the candidate's first.                          *)
CounterInv ==
  drawn <= Wide =>
    /\ pc \in {"judge", "done"} => counter = ni
    /\ pc \in {"start", "draw"} /\ op # "sign" =>
         \/ counter + poly = drawn
         \/ drawn = Wide /\ counter = 0 /\ poly = 0

(* Sign bytes were hashed from nonces up to drawn, once each; from drawn   *)
(* itself only between two candidates.                                     *)
SignInv ==
  drawn < Wide =>
    /\ \A n \in Nonces :
         /\ signs[n] <= 1
         /\ signs[n] # 0 => \/ n < drawn
                            \/ n = drawn /\ (pc \in {"judge", "done"} \/ poly = 0)
    /\ pc \in {"judge", "done"} /\ op = "sign" => signs[drawn] = 1

IInv == TypeOK /\ PolyInv /\ DrawnInv /\ CounterInv /\ SignInv

-----------------------------------------------------------------------------
LEMMA Constants ==
  /\ Wide \in Nat \ {0}
  /\ K \in Nat \ {0}
  /\ L \in Nat \ {0}
  /\ M \in Nat
  /\ Nonces = 0 .. Wide - 1
  /\ \A o : Polys(o) \in 1 .. L + K
  /\ Polys("keypair") = KeyStep
BY NoncesAssumption DEF Nonces, M, Polys, KeyStep

(* A uint16_t that does not exceed its range wraps only at its end.        *)
LEMMA Wrapping ==
  /\ \A n \in Int : Uint16(n) \in Nonces
  /\ \A n \in Nonces : Uint16(n) = n
  /\ Uint16(Wide) = 0
BY Constants DEF Uint16

(* Recording one more use of a nonce.                                      *)
LEMMA Counting ==
  ASSUME NEW uses \in [Nonces -> 0 .. 2], NEW n \in Nonces
  PROVE  /\ Count(uses, n) \in [Nonces -> 0 .. 2]
         /\ \A k \in Nonces : k # n => Count(uses, n)[k] = uses[k]
         /\ uses[n] = 0 => Count(uses, n)[n] = 1
BY DEF Count

-----------------------------------------------------------------------------
LEMMA InitIInv == Init => IInv
<1> SUFFICES ASSUME Init PROVE IInv
  OBVIOUS
<1> USE Constants DEF Init
<1>1. TypeOK
  BY DEF TypeOK, Verdicts
<1>2. PolyInv
  BY DEF PolyInv
<1>3. DrawnInv
  BY DEF DrawnInv
<1>4. CounterInv
  BY DEF CounterInv
<1>5. SignInv
  BY DEF SignInv
<1> QED
  BY <1>1, <1>2, <1>3, <1>4, <1>5 DEF IInv

LEMMA BeginIInv ==
  ASSUME IInv, NEW o \in {"keypair", "sign"}, Begin(o)
  PROVE  IInv'
<1> USE Constants DEF IInv, Begin
<1>1. TypeOK'
  BY DEF TypeOK
<1>2. PolyInv'
  BY DEF PolyInv, TypeOK
<1>3. DrawnInv'
  BY DEF DrawnInv
<1>4. CounterInv'
  BY DEF CounterInv, PolyInv, TypeOK
<1>5. SignInv'
  BY DEF SignInv, PolyInv
<1> QED
  BY <1>1, <1>2, <1>3, <1>4, <1>5

LEMMA DrawPolyIInv ==
  ASSUME IInv, DrawPoly
  PROVE  IInv'
<1> USE Constants DEF IInv, DrawPoly
<1>1. samples' \in [Nonces -> 0 .. 2] /\ ni' \in Nonces
  <2>1. ni + 1 \in Int
    BY DEF TypeOK
  <2>2. Uint16(ni + 1) \in Nonces
    BY ONLY <2>1, Wrapping
  <2> QED
    BY <2>2, Counting DEF TypeOK
<1>2. TypeOK'
  BY <1>1 DEF TypeOK
<1>3. PolyInv'
  BY DEF PolyInv, TypeOK
<1>4. DrawnInv'
  <2> SUFFICES ASSUME drawn' <= Wide
               PROVE  /\ ni' = IF drawn' = Wide THEN 0 ELSE drawn'
                      /\ \A n \in Nonces : samples'[n] = IF n < drawn' THEN 1 ELSE 0
    BY DEF DrawnInv
  <2>1. drawn < Wide /\ drawn' = drawn + 1 /\ ni = drawn
    BY DEF DrawnInv, TypeOK
  <2>2. ni' = IF drawn' = Wide THEN 0 ELSE drawn'
    <3>1. CASE drawn + 1 = Wide
      BY <2>1, <3>1, Wrapping
    <3>2. CASE drawn + 1 < Wide
      BY <2>1, <3>2, Wrapping DEF TypeOK
    <3> QED
      BY <2>1, <3>1, <3>2 DEF TypeOK
  <2>3. ASSUME NEW n \in Nonces
        PROVE  samples'[n] = IF n < drawn' THEN 1 ELSE 0
    <3>1. CASE n = ni
      BY <2>1, <3>1, Counting DEF DrawnInv, TypeOK
    <3>2. CASE n # ni
      <4>1. samples'[n] = samples[n]
        BY <3>2, Counting DEF TypeOK
      <4> QED
        BY <2>1, <3>2, <4>1 DEF DrawnInv, TypeOK
    <3> QED
      BY <3>1, <3>2
  <2> QED
    BY <2>2, <2>3
<1>5. CounterInv'
  BY DEF CounterInv, TypeOK, PolyInv
<1>6. SignInv'
  BY DEF SignInv, TypeOK
<1> QED
  BY <1>2, <1>3, <1>4, <1>5, <1>6

LEMMA KeyCandidateIInv ==
  ASSUME IInv, KeyCandidate
  PROVE  IInv'
<1> USE Constants DEF IInv, KeyCandidate
<1>1. TypeOK'
  BY Wrapping DEF TypeOK, KeyStep
<1>2. PolyInv'
  BY DEF PolyInv
<1>3. DrawnInv'
  BY DEF DrawnInv
<1>4. CounterInv'
  <2> SUFFICES ASSUME drawn <= Wide
               PROVE  counter' = ni
    BY DEF CounterInv
  <2>1. counter + KeyStep = drawn
    BY DEF CounterInv, TypeOK
  <2>2. CASE drawn = Wide
    BY <2>1, <2>2, Wrapping DEF DrawnInv
  <2>3. CASE drawn < Wide
    BY <2>1, <2>3, Wrapping DEF DrawnInv, TypeOK
  <2> QED
    BY <2>2, <2>3 DEF TypeOK
<1>5. SignInv'
  BY DEF SignInv, TypeOK
<1> QED
  BY <1>1, <1>2, <1>3, <1>4, <1>5

LEMMA OutsideBallIInv ==
  ASSUME IInv, OutsideBall
  PROVE  IInv'
<1> USE Constants DEF IInv, OutsideBall
<1>1. First \in Nonces
  BY Wrapping DEF First, TypeOK
<1>2. TypeOK'
  BY <1>1 DEF TypeOK, Turns, Verdicts
<1>3. PolyInv'
  BY DEF PolyInv
<1>4. DrawnInv'
  BY DEF DrawnInv
<1>5. CounterInv'
  BY DEF CounterInv
<1>6. SignInv'
  BY DEF SignInv, TypeOK
<1> QED
  BY <1>2, <1>3, <1>4, <1>5, <1>6

LEMMA InsideBallIInv ==
  ASSUME IInv, InsideBall
  PROVE  IInv'
<1> USE Constants DEF IInv, InsideBall
<1>1. signs' = Count(signs, ni) /\ counter' = ni
  BY DEF SignNonce, CounterOf
<1>2. TypeOK'
  BY <1>1, Counting DEF TypeOK
<1>3. PolyInv'
  BY DEF PolyInv
<1>4. DrawnInv'
  BY DEF DrawnInv
<1>5. CounterInv'
  BY <1>1 DEF CounterInv
<1>6. SignInv'
  <2> SUFFICES ASSUME drawn < Wide
               PROVE  /\ \A n \in Nonces : /\ signs'[n] <= 1
                                           /\ signs'[n] # 0 => n <= drawn
                      /\ signs'[drawn] = 1
    BY DEF SignInv, TypeOK
  <2>1. ni = drawn /\ ni \in Nonces /\ poly # 0
    BY DEF DrawnInv, TypeOK
  <2>2. signs[ni] = 0
    BY <2>1 DEF SignInv, TypeOK
  <2>3. signs'[ni] = 1
    BY <1>1, <2>1, <2>2, Counting DEF TypeOK
  <2>4. ASSUME NEW n \in Nonces, n # ni
        PROVE  signs'[n] <= 1 /\ (signs'[n] # 0 => n <= drawn)
    <3>1. signs'[n] = signs[n]
      BY <1>1, <2>1, <2>4, Counting DEF TypeOK
    <3> QED
      BY <2>1, <2>4, <3>1 DEF SignInv, TypeOK
  <2> QED
    BY <2>1, <2>3, <2>4
<1> QED
  BY <1>2, <1>3, <1>4, <1>5, <1>6

LEMMA RejectIInv ==
  ASSUME IInv, Reject
  PROVE  IInv'
<1> USE Constants DEF IInv, Reject
<1>1. First \in Nonces
  BY Wrapping DEF First, TypeOK
<1>2. TypeOK'
  BY <1>1 DEF TypeOK, Turns, Verdicts
<1>3. PolyInv'
  BY DEF PolyInv
<1>4. DrawnInv'
  BY DEF DrawnInv, CounterInv
<1>5. CounterInv'
  BY DEF CounterInv, DrawnInv, TypeOK
<1>6. SignInv'
  BY DEF SignInv
<1> QED
  BY <1>2, <1>3, <1>4, <1>5, <1>6

LEMMA AcceptIInv ==
  ASSUME IInv, Accept
  PROVE  IInv'
<1> USE Constants DEF IInv, Accept
<1>1. First \in Nonces
  BY Wrapping DEF First, TypeOK
<1>2. TypeOK'
  BY <1>1 DEF TypeOK, Turns, Verdicts
<1>3. PolyInv'
  BY DEF PolyInv
<1>4. DrawnInv'
  BY DEF DrawnInv
<1>5. CounterInv'
  BY DEF CounterInv
<1>6. SignInv'
  BY DEF SignInv
<1> QED
  BY <1>2, <1>3, <1>4, <1>5, <1>6

-----------------------------------------------------------------------------
(* The strengthening holds in every reachable state.                       *)
THEOREM InductiveInvariant == Spec => []IInv
<1>1. IInv /\ [Next]_vars => IInv'
  <2> SUFFICES ASSUME IInv, [Next]_vars PROVE IInv'
    OBVIOUS
  <2>1. CASE Begin("keypair") \/ Begin("sign")
    BY <2>1, BeginIInv
  <2>2. CASE DrawPoly
    BY <2>2, DrawPolyIInv
  <2>3. CASE KeyCandidate
    BY <2>3, KeyCandidateIInv
  <2>4. CASE OutsideBall
    BY <2>4, OutsideBallIInv
  <2>5. CASE InsideBall
    BY <2>5, InsideBallIInv
  <2>6. CASE Reject
    BY <2>6, RejectIInv
  <2>7. CASE Accept
    BY <2>7, AcceptIInv
  <2>8. CASE UNCHANGED vars
    BY <2>8 DEF vars, IInv, TypeOK, PolyInv, DrawnInv, CounterInv, SignInv
  <2> QED
    BY <2>1, <2>2, <2>3, <2>4, <2>5, <2>6, <2>7, <2>8 DEF Next, Work
<1> QED
  BY InitIInv, <1>1, PTL DEF Spec

(* Counter and nonces stay 16-bit values, and so on.                       *)
THEOREM TypeCorrect == Spec => []TypeOK
<1>1. IInv => TypeOK
  BY DEF IInv
<1> QED
  BY InductiveInvariant, <1>1, PTL

(* For every width and dimension: no stream serves two polynomials of a    *)
(* call before the counter has gone once round.                            *)
THEOREM SamplesAreFresh == Spec => []FreshSamples
<1>1. IInv => FreshSamples
  BY Constants DEF IInv, DrawnInv, FreshSamples
<1> QED
  BY InductiveInvariant, <1>1, PTL

(* For every width and dimension: the sign byte of a signature shares its  *)
(* nonce with no polynomial drawn and no other sign byte.                  *)
THEOREM SignBytesAreFresh == Spec => []SignByteFresh
<1>1. IInv => SignByteFresh
  <2> SUFFICES ASSUME IInv, op = "sign", pc \in {"judge", "done"}, drawn < Wide
               PROVE  /\ samples[counter] = 0
                      /\ signs[counter] = 1
                      /\ \A n \in Nonces : signs[n] <= 1
    BY DEF SignByteFresh
  <2>1. counter = drawn /\ drawn \in Nonces
    BY Constants DEF IInv, CounterInv, DrawnInv, TypeOK
  <2> QED
    BY <2>1, Constants DEF IInv, DrawnInv, SignInv
<1> QED
  BY InductiveInvariant, <1>1, PTL
=============================================================================
