---------------------------- MODULE Aimer_proof ----------------------------
(***************************************************************************)
(* AIMer, for any parameter set, field and linear layer.  First the seed   *)
(* trees: the verifier recovers every seed but the hidden one's, and never *)
(* that one.  The inductive invariant follows the heap numbering: nodes of *)
(* one depth are a range of it, the hidden path has one node in each, and  *)
(* halving a node's number gives its parent's.  On entry to a level the    *)
(* array holds, of that level, every child of a node off the path.         *)
(*                                                                         *)
(* Then the signature: what is accepted, and what is not.  The shares of   *)
(* all parties add up to the witness, so the v shares add up to what the   *)
(* S-boxes lack to their relation, weighted with the challenges; and what  *)
(* signer and verifier have hashed determines every part of a signature.   *)
(* The inductive invariant names, for every stage, what has been computed  *)
(* so far as a function of the key, the tapes and the challenges.          *)
(***************************************************************************)
EXTENDS SeedTree, AimerSignature, SequenceTheorems, WellFoundedInduction, TLAPS

-----------------------------------------------------------------------------
(* Induction over the natural numbers, for a set.                          *)

LEMMA LeastElement ==
  ASSUME NEW S \in SUBSET Nat, S # {}
  PROVE  \E n \in S : \A m \in S : n <= m
<1> DEFINE R == {ss \in Nat \X Nat : ss[1] < ss[2]}
<1>1. IsWellFoundedOn(R, Nat)
  BY NatLessThanWellFounded, Zenon DEF OpToRel
<1>2. \A m, n \in Nat : m < n => <<m, n>> \in R
  OBVIOUS
<1> HIDE DEF R
<1>3. PICK n \in S : \A m \in S : ~ (<<m, n>> \in R)
  BY <1>1, WFMin
<1>4. ASSUME NEW m \in S
      PROVE  n <= m
  <2>1. m \in Nat /\ n \in Nat
    OBVIOUS
  <2>2. ~ (m < n)
    BY <1>2, <1>3, <2>1
  <2> QED
    BY <2>1, <2>2
<1> QED
  BY <1>4

LEMMA SetInduction ==
  ASSUME NEW S, 0 \in S, \A n \in Nat : n \in S => n + 1 \in S
  PROVE  \A n \in Nat : n \in S
<1> SUFFICES ASSUME NEW k \in Nat, k \notin S
             PROVE  FALSE
  OBVIOUS
<1> DEFINE U == {n \in Nat : n \notin S}
<1>1. U \in SUBSET Nat /\ U # {}
  OBVIOUS
<1>2. PICK n \in U : \A m \in U : n <= m
  BY <1>1, LeastElement
<1>3. n \in Nat /\ n # 0 /\ n - 1 \in Nat /\ n \notin S
  OBVIOUS
<1>4. n - 1 \in S
  <2>1. ~ (n <= n - 1)
    BY <1>3
  <2> QED
    BY <1>2, <1>3, <2>1
<1>5. (n - 1) + 1 \in S
  BY <1>3, <1>4
<1> QED
  BY <1>3, <1>5

-----------------------------------------------------------------------------
(* Powers, levels and ancestors.                                           *)

Level(d) == Pow2[d] .. 2 * Pow2[d] - 1

LEMMA Constants ==
  /\ T \in Nat /\ T > 0 /\ LogN \in Nat /\ LogN > 0
  /\ Pow2[0] = 1
  /\ \A d \in 0 .. LogN : Pow2[d] \in Nat
  /\ \A d \in 0 .. LogN - 1 : Pow2[d + 1] = 2 * Pow2[d]
  /\ Reps = 0 .. T - 1 /\ Parties = 0 .. N - 1
BY AimerParametersAssumption DEF Reps, Parties

LEMMA Powers == \A d \in 0 .. LogN : Pow2[d] \in Nat /\ Pow2[d] >= 1
<1> DEFINE S == {d \in Nat : d <= LogN => Pow2[d] \in Nat /\ Pow2[d] >= 1}
<1>1. 0 \in S
  BY Constants
<1>2. ASSUME NEW d \in Nat, d \in S
      PROVE  d + 1 \in S
  <2>1. CASE d + 1 <= LogN
    <3>1. d \in 0 .. LogN - 1 /\ d + 1 \in Nat
      BY <2>1, Constants
    <3>2. Pow2[d + 1] = 2 * Pow2[d] /\ Pow2[d] \in Nat /\ Pow2[d] >= 1
      BY <1>2, <3>1, Constants
    <3> QED
      BY <3>1, <3>2
  <2> QED
    BY <2>1
<1> HIDE DEF S
<1>3. \A d \in Nat : d \in S
  BY <1>1, <1>2, SetInduction
<1> QED
  BY <1>3, Constants DEF S

LEMMA PowersGrow ==
  ASSUME NEW d \in 0 .. LogN, NEW e \in 0 .. LogN, d < e
  PROVE  2 * Pow2[d] <= Pow2[e]
<1> DEFINE S == {k \in Nat : d + 1 + k <= LogN => 2 * Pow2[d] <= Pow2[d + 1 + k]}
<1>1. 0 \in S
  <2>1. d \in 0 .. LogN - 1 /\ d + 1 + 0 = d + 1
    BY Constants
  <2> QED
    BY <2>1, Constants, Powers
<1>2. ASSUME NEW k \in Nat, k \in S
      PROVE  k + 1 \in S
  <2>1. CASE d + 1 + (k + 1) <= LogN
    <3> DEFINE j == d + 1 + k
    <3>1. j \in 0 .. LogN - 1 /\ j + 1 = d + 1 + (k + 1) /\ j \in 0 .. LogN
      BY <2>1, Constants
    <3>2. 2 * Pow2[d] <= Pow2[j]
      BY <1>2, <3>1, Constants
    <3> HIDE DEF j
    <3>3. Pow2[j + 1] = 2 * Pow2[j] /\ Pow2[j] \in Nat /\ Pow2[d] \in Nat
      BY <3>1, Constants
    <3>4. 2 * Pow2[d] <= Pow2[j + 1]
      BY <3>2, <3>3
    <3> QED
      BY <3>1, <3>4
  <2> QED
    BY <2>1
<1>3. \A k \in Nat : k \in S
  <2> HIDE DEF S
  <2> QED
    BY <1>1, <1>2, SetInduction
<1>4. PICK k \in Nat : e = d + 1 + k
  <2>1. e - d - 1 \in Nat /\ e = d + 1 + (e - d - 1)
    BY Constants
  <2> QED
    BY <2>1
<1>5. d + 1 + k <= LogN
  BY <1>4, Constants
<1>6. 2 * Pow2[d] <= Pow2[d + 1 + k]
  BY <1>3, <1>5
<1> QED
  BY <1>4, <1>6

LEMMA Leaves == N \in Nat /\ N >= 2 /\ \A d \in 0 .. LogN - 1 : 2 * Pow2[d] <= N
<1>1. ASSUME NEW d \in 0 .. LogN - 1
      PROVE  2 * Pow2[d] <= N
  <2>1. d \in 0 .. LogN /\ LogN \in 0 .. LogN /\ d < LogN
    BY Constants
  <2> QED
    BY <2>1, PowersGrow DEF N
<1>2. N \in Nat
  BY Constants DEF N
<1>3. 0 \in 0 .. LogN - 1 /\ 2 * Pow2[0] = 2
  BY Constants
<1> QED
  BY <1>1, <1>2, <1>3

(* Halving once more divides by twice as much.                             *)
LEMMA DivTwice ==
  ASSUME NEW x \in Nat, NEW p \in Nat, p >= 1
  PROVE  x \div (2 * p) = (x \div p) \div 2
<1> DEFINE q == x \div p
           h == q \div 2
           w == 2 * p
<1>1. q \in Nat /\ x % p \in 0 .. p - 1 /\ x = q * p + (x % p)
  OBVIOUS
<1>2. h \in Nat /\ q % 2 \in 0 .. 1 /\ q = h * 2 + (q % 2)
  BY <1>1
<1>3. \E r \in 0 .. w - 1 : x = h * w + r
  <2>1. q * p = h * w + (q % 2) * p
    <3> HIDE DEF q, h
    <3>1. q % 2 = 0 \/ q % 2 = 1
      BY <1>2
    <3>2. CASE q % 2 = 0
      <4>1. q = 2 * h
        BY <1>2, <3>2
      <4> QED
        BY <4>1, <1>2, <3>2
    <3>3. CASE q % 2 = 1
      <4>1. q = 2 * h + 1
        BY <1>2, <3>3
      <4> QED
        BY <4>1, <1>2, <3>3
    <3> QED
      BY <3>1, <3>2, <3>3
  <2>2. (q % 2) * p \in 0 .. p
    <3> HIDE DEF q
    <3>1. q % 2 = 0 \/ q % 2 = 1
      BY <1>2
    <3> QED
      BY <3>1
  <2>3. h * w \in Nat
    BY <1>2
  <2> DEFINE a == (q % 2) * p
             b == x % p
  <2> HIDE DEF q, h
  <2>4. a \in 0 .. p /\ b \in 0 .. p - 1 /\ x = h * w + a + b
    BY <1>1, <2>1, <2>2
  <2> HIDE DEF a, b
  <2>5. a + b \in 0 .. w - 1 /\ x = h * w + (a + b)
    BY <2>3, <2>4
  <2> QED
    BY <2>5
<1>4. w \in Nat /\ w > 0
  OBVIOUS
<1>5. x \div w = h
  <2> HIDE DEF w, h, q
  <2>1. PICK r \in 0 .. w - 1 : x = h * w + r
    BY <1>3
  <2>2. x \div w \in Nat /\ x % w \in 0 .. w - 1 /\ x = (x \div w) * w + (x % w)
    BY <1>4
  <2> DEFINE k == x \div w
             s == x % w
  <2>3. k \in Nat /\ s \in 0 .. w - 1 /\ h * w + r = k * w + s /\ h \in Nat
    BY <1>2, <2>1, <2>2
  <2> HIDE DEF k, s
  <2>4. ~ (k >= h + 1)
    <3> SUFFICES ASSUME k >= h + 1
                 PROVE  FALSE
      OBVIOUS
    <3>1. k * w >= (h + 1) * w
      BY <1>4, <2>3
    <3>2. (h + 1) * w = h * w + w
      BY <1>4, <2>3
    <3> QED
      BY <1>4, <2>1, <2>3, <3>1, <3>2
  <2>5. ~ (h >= k + 1)
    <3> SUFFICES ASSUME h >= k + 1
                 PROVE  FALSE
      OBVIOUS
    <3>1. h * w >= (k + 1) * w
      BY <1>4, <2>3
    <3>2. (k + 1) * w = k * w + w
      BY <1>4, <2>3
    <3> QED
      BY <1>4, <2>1, <2>3, <3>1, <3>2
  <2>6. k = h
    BY <2>3, <2>4, <2>5
  <2> QED
    BY <2>6 DEF k
<1> QED
  BY <1>5

LEMMA AncestorStep ==
  ASSUME NEW leaf \in Parties, NEW up \in 0 .. LogN - 1
  PROVE  Ancestor(leaf, up + 1) = Ancestor(leaf, up) \div 2
<1>1. leaf + N \in Nat /\ Pow2[up] \in Nat /\ Pow2[up] >= 1 /\ Pow2[up + 1] = 2 * Pow2[up]
  <2>1. up \in 0 .. LogN
    BY Constants
  <2> QED
    BY <2>1, Constants, Powers, Leaves
<1>2. (leaf + N) \div (2 * Pow2[up]) = ((leaf + N) \div Pow2[up]) \div 2
  BY <1>1, DivTwice
<1> QED
  BY <1>1, <1>2 DEF Ancestor

LEMMA AncestorFirst == ASSUME NEW leaf \in Parties PROVE Ancestor(leaf, 0) = leaf + N
BY Constants, Leaves DEF Ancestor

(* An ancestor lies at its own depth.                                      *)
LEMMA AncestorLevel ==
  ASSUME NEW leaf \in Parties, NEW up \in 0 .. LogN
  PROVE  Ancestor(leaf, up) \in Level(LogN - up)
<1> DEFINE S == {u \in Nat : u <= LogN => Ancestor(leaf, u) \in Level(LogN - u)}
<1>1. 0 \in S
  <2>1. leaf + N \in Level(LogN) /\ LogN - 0 = LogN
    BY Constants, Leaves DEF Level, N
  <2> QED
    BY <2>1, AncestorFirst
<1>2. ASSUME NEW u \in Nat, u \in S
      PROVE  u + 1 \in S
  <2>1. CASE u + 1 <= LogN
    <3> DEFINE d == LogN - (u + 1)
               a == Ancestor(leaf, u)
    <3>1. d \in 0 .. LogN - 1 /\ d + 1 = LogN - u /\ u \in 0 .. LogN - 1
      BY <2>1, Constants
    <3>2. a \in Level(d + 1)
      BY <1>2, <3>1, Constants
    <3>3. Ancestor(leaf, u + 1) = a \div 2
      BY <3>1, AncestorStep
    <3> HIDE DEF d, a
    <3>4. Pow2[d + 1] = 2 * Pow2[d] /\ Pow2[d] \in Nat
      BY <3>1, Constants
    <3>5. a \div 2 \in Level(d)
      BY <3>2, <3>4 DEF Level
    <3> QED
      BY <3>3, <3>5 DEF d
  <2> QED
    BY <2>1
<1>3. \A u \in Nat : u \in S
  <2> HIDE DEF S
  <2> QED
    BY <1>1, <1>2, SetInduction
<1> QED
  BY <1>3, Constants

LEMMA LevelNodes ==
  ASSUME NEW d \in 0 .. LogN, NEW i \in Level(d)
  PROVE  i \in 1 .. 2 * N - 1 /\ (d >= 1 => i >= 2)
<1>1. Pow2[d] \in Nat /\ Pow2[d] >= 1 /\ N \in Nat /\ Pow2[d] <= N
  <2>1. CASE d = LogN
    BY <2>1, Powers DEF N
  <2>2. CASE d # LogN
    <3>1. d \in 0 .. LogN - 1
      BY <2>2, Constants
    <3> QED
      BY <3>1, Powers, Leaves
  <2> QED
    BY <2>1, <2>2
<1>2. d >= 1 => Pow2[d] >= 2
  <2> SUFFICES ASSUME d >= 1
               PROVE  Pow2[d] >= 2
    OBVIOUS
  <2>1. 0 \in 0 .. LogN /\ 0 < d /\ 2 * Pow2[0] = 2
    BY Constants
  <2>2. 2 * Pow2[0] <= Pow2[d]
    BY <2>1, PowersGrow
  <2> QED
    BY <2>1, <2>2
<1> QED
  BY <1>1, <1>2 DEF Level

LEMMA LevelsApart ==
  ASSUME NEW d \in 0 .. LogN, NEW e \in 0 .. LogN, NEW i \in Level(d), i \in Level(e)
  PROVE  d = e
<1>1. Pow2[d] \in Nat /\ Pow2[e] \in Nat
  BY Powers
<1>2. ~ (d < e)
  <2> SUFFICES ASSUME d < e PROVE FALSE
    OBVIOUS
  <2>1. 2 * Pow2[d] <= Pow2[e]
    BY PowersGrow
  <2> QED
    BY <1>1, <2>1 DEF Level
<1>3. ~ (e < d)
  <2> SUFFICES ASSUME e < d PROVE FALSE
    OBVIOUS
  <2>1. 2 * Pow2[e] <= Pow2[d]
    BY PowersGrow
  <2> QED
    BY <1>1, <2>1 DEF Level
<1> QED
  BY <1>2, <1>3, Constants

LEMMA Parents ==
  ASSUME NEW d \in 0 .. LogN - 1, NEW i \in Level(d + 1)
  PROVE  i \div 2 \in Level(d) /\ i = 2 * (i \div 2) + (i % 2) /\ i % 2 \in {0, 1}
<1>1. Pow2[d + 1] = 2 * Pow2[d] /\ Pow2[d] \in Nat
  BY Constants
<1> QED
  BY <1>1 DEF Level

LEMMA Children ==
  ASSUME NEW d \in 0 .. LogN - 1, NEW i \in Level(d), NEW side \in {0, 1}
  PROVE  2 * i + side \in Level(d + 1) /\ (2 * i + side) \div 2 = i
<1>1. Pow2[d + 1] = 2 * Pow2[d] /\ Pow2[d] \in Nat
  BY Constants
<1> QED
  BY <1>1 DEF Level

LEMMA Siblings ==
  ASSUME NEW d \in 0 .. LogN - 1, NEW i \in Level(d + 1)
  PROVE  /\ Sibling(i) \in Level(d + 1)
         /\ Sibling(i) # i
         /\ \A j \in Level(d + 1) : j \div 2 = i \div 2 => j = i \/ j = Sibling(i)
<1>1. Pow2[d + 1] = 2 * Pow2[d] /\ Pow2[d] \in Nat
  BY Constants
<1> QED
  BY <1>1 DEF Level, Sibling

-----------------------------------------------------------------------------
(* The path from the root to a leaf that stays hidden.                     *)

PathAt(leaf, d) == Ancestor(leaf, LogN - d)
OnPath(leaf, i) == \E up \in 0 .. LogN : i = Ancestor(leaf, up)

LEMMA PathLevels ==
  ASSUME NEW leaf \in Parties
  PROVE  /\ \A d \in 0 .. LogN : PathAt(leaf, d) \in Level(d)
         /\ \A d \in 0 .. LogN - 1 : PathAt(leaf, d + 1) \div 2 = PathAt(leaf, d)
         /\ PathAt(leaf, 0) = 1
         /\ PathAt(leaf, LogN) = leaf + N
<1>1. ASSUME NEW d \in 0 .. LogN
      PROVE  PathAt(leaf, d) \in Level(d)
  <2>1. LogN - d \in 0 .. LogN /\ LogN - (LogN - d) = d
    BY Constants
  <2> QED
    BY <2>1, AncestorLevel DEF PathAt
<1>2. ASSUME NEW d \in 0 .. LogN - 1
      PROVE  PathAt(leaf, d + 1) \div 2 = PathAt(leaf, d)
  <2> DEFINE up == LogN - (d + 1)
  <2>1. up \in 0 .. LogN - 1 /\ up + 1 = LogN - d
    BY Constants
  <2> HIDE DEF up
  <2>2. Ancestor(leaf, up + 1) = Ancestor(leaf, up) \div 2
    BY <2>1, AncestorStep
  <2> QED
    BY <2>1, <2>2 DEF PathAt, up
<1>3. PathAt(leaf, 0) = 1
  <2>1. 0 \in 0 .. LogN
    BY Constants
  <2> QED
    BY <1>1, <2>1, Constants DEF Level
<1>4. PathAt(leaf, LogN) = leaf + N
  <2>1. LogN - LogN = 0
    BY Constants
  <2> QED
    BY <2>1, AncestorFirst DEF PathAt
<1> QED
  BY <1>1, <1>2, <1>3, <1>4

LEMMA OnePerLevel ==
  ASSUME NEW leaf \in Parties, NEW d \in 0 .. LogN, NEW i \in Level(d), OnPath(leaf, i)
  PROVE  i = PathAt(leaf, d)
<1>1. PICK up \in 0 .. LogN : i = Ancestor(leaf, up)
  BY DEF OnPath
<1>2. i \in Level(LogN - up) /\ LogN - up \in 0 .. LogN
  BY <1>1, AncestorLevel, Constants
<1>3. LogN - up = d
  BY <1>2, LevelsApart
<1>4. up = LogN - d
  BY <1>3, Constants
<1> QED
  BY <1>1, <1>4 DEF PathAt

LEMMA SiblingOffPath ==
  ASSUME NEW leaf \in Parties, NEW d \in 0 .. LogN - 1
  PROVE  ~ OnPath(leaf, Sibling(PathAt(leaf, d + 1)))
<1>1. d + 1 \in 0 .. LogN
  BY Constants
<1>2. PathAt(leaf, d + 1) \in Level(d + 1)
  BY <1>1, PathLevels
<1>3. /\ Sibling(PathAt(leaf, d + 1)) \in Level(d + 1)
      /\ Sibling(PathAt(leaf, d + 1)) # PathAt(leaf, d + 1)
  BY <1>2, Siblings
<1> QED
  BY <1>1, <1>3, OnePerLevel

LEMMA ChildOnPath ==
  ASSUME NEW leaf \in Parties, NEW d \in 0 .. LogN - 1, NEW i \in Level(d),
         NEW side \in {0, 1}, OnPath(leaf, 2 * i + side)
  PROVE  OnPath(leaf, i)
<1>1. 2 * i + side \in Level(d + 1) /\ (2 * i + side) \div 2 = i
  BY Children
<1>2. d + 1 \in 0 .. LogN /\ d \in 0 .. LogN /\ LogN - d \in 0 .. LogN
  BY Constants
<1>3. 2 * i + side = PathAt(leaf, d + 1)
  BY <1>1, <1>2, OnePerLevel
<1>4. PathAt(leaf, d + 1) \div 2 = PathAt(leaf, d)
  BY PathLevels
<1>5. i = PathAt(leaf, d)
  BY <1>1, <1>3, <1>4
<1> QED
  BY <1>2, <1>5 DEF OnPath, PathAt

-----------------------------------------------------------------------------
(* The inductive invariant.                                                *)

Full(r) == \A k \in 0 .. 2 * N - 2 : nodes[r][k] = <<r, k + 1>>

(* The trees before the one in progress are expanded, that one as far as   *)
(* its inner nodes have been passed.                                       *)
Expanding ==
  /\ depth = 0
  /\ index \in 0 .. N
  /\ path = [r \in Reps |-> [d \in 0 .. LogN - 1 |-> Garbage]]
  /\ tree = [k \in 0 .. 2 * N - 3 |-> Garbage]
  /\ \A r \in 0 .. rep - 1 : Full(r)
  /\ \A k \in 0 .. 2 * index - 2 : nodes[rep][k] = <<rep, k + 1>>

RevealedBy(r, d) == pc = "reveal" => r < rep \/ (r = rep /\ d < depth)

Published ==
  \A r \in Reps, d \in 0 .. LogN - 1 :
    path[r][d] = IF RevealedBy(r, d) THEN <<r, Sibling(Ancestor(hidden[r], d))>>
                 ELSE Garbage

NothingHidden ==
  \A k \in 0 .. 2 * N - 3 : \A r \in Reps : \A i \in 1 .. 2 * N - 1 :
    OnPath(hidden[r], i) => tree[k] # <<r, i>>

Revealing == index = Ancestor(hidden[rep], depth)

(* The verifier's array, where what is not said is anything.               *)
Held(i) == tree[i - 2] = <<rep, i>>
OffPath(i, d) == i # PathAt(hidden[rep], d)

Rebuilding ==
  /\ depth \in 1 .. LogN
  /\ index = 0
  /\ depth > 1 => \A i \in Level(depth) : OffPath(i \div 2, depth - 1) => Held(i)

ExpandingLevel ==
  /\ depth \in 1 .. LogN - 1
  /\ index \in Pow2[depth] .. 2 * Pow2[depth]
  /\ \A i \in Level(depth) : OffPath(i, depth) => Held(i)
  /\ \A i \in Level(depth + 1) :
       i \div 2 < index /\ OffPath(i \div 2, depth) => Held(i)

Rebuilt ==
  /\ depth = LogN
  /\ index = 0
  /\ \A i \in Level(LogN) : OffPath(i, LogN) => Held(i)

IInv ==
  /\ TypeOK
  /\ pc = "expand" => Expanding
  /\ pc # "expand" => (\A r \in Reps : Full(r)) /\ Published /\ NothingHidden
  /\ pc = "reveal" => Revealing
  /\ pc = "rebuild" => Rebuilding
  /\ pc = "expandLevel" => ExpandingLevel
  /\ pc \in {"read", "done"} => Rebuilt

-----------------------------------------------------------------------------
(* Signing.                                                                *)

LEMMA InitIInv == Init => IInv
<1> SUFFICES ASSUME Init PROVE IInv
  OBVIOUS
<1>1. TypeOK
  BY Constants, Leaves DEF Init, TypeOK, Seeds
<1>2. Expanding
  BY Constants, Leaves DEF Init, Expanding
<1> QED
  BY <1>1, <1>2 DEF Init, IInv

LEMMA ExpandingFacts ==
  ASSUME IInv, pc = "expand"
  PROVE  TypeOK /\ Expanding /\ rep \in 0 .. T - 1 /\ index \in 0 .. N
<1>1. TypeOK /\ Expanding
  BY DEF IInv
<1>2. rep \in 0 .. T - 1
  BY <1>1, Constants DEF TypeOK
<1>3. index \in 0 .. N
  BY <1>1 DEF Expanding
<1> QED
  BY <1>1, <1>2, <1>3

LEMMA ExpandRootIInv ==
  ASSUME IInv, ExpandRoot
  PROVE  IInv'
<1> USE DEF ExpandRoot
<1>1. TypeOK /\ Expanding /\ rep \in 0 .. T - 1
  BY Constants DEF IInv, TypeOK
<1>2. <<rep, 1>> \in Seeds /\ 0 \in 0 .. 2 * N - 2
  BY <1>1, Constants, Leaves DEF Seeds
<1>3. TypeOK'
  BY <1>1, <1>2, Constants, Leaves DEF TypeOK
<1>4. Expanding'
  <2>1. index' \in 0 .. N /\ depth' = 0
    BY <1>1, Leaves DEF Expanding
  <2>2. \A r \in 0 .. rep' - 1 : Full(r)'
    BY <1>1, Constants DEF Expanding, Full, TypeOK
  <2>3. \A k \in 0 .. 2 * index' - 2 : nodes'[rep'][k] = <<rep', k + 1>>
    <3>1. nodes'[rep][0] = <<rep, 1>> /\ index' = 1 /\ rep' = rep
      BY <1>1, <1>2, Constants DEF TypeOK
    <3> QED
      BY <3>1
  <2> QED
    BY <1>1, <2>1, <2>2, <2>3 DEF Expanding
<1> QED
  BY <1>3, <1>4 DEF IInv

LEMMA ExpandNodeIInv ==
  ASSUME IInv, ExpandNode
  PROVE  IInv'
<1> USE DEF ExpandNode, Inner
<1>1. TypeOK /\ Expanding /\ rep \in 0 .. T - 1 /\ index \in 1 .. N - 1
  BY ExpandingFacts, Leaves
<1> DEFINE l == 2 * index - 1
<1>2. /\ l \in 0 .. 2 * N - 2 /\ l + 1 \in 0 .. 2 * N - 2 /\ l + 1 = 2 * index
      /\ index - 1 \in 0 .. 2 * index - 2
  <2>1. index \in Int /\ 1 <= index /\ index <= N - 1 /\ N \in Nat
    BY <1>1, Leaves
  <2> QED
    BY <2>1
<1>3. nodes[rep][index - 1] = <<rep, index>>
  <2>1. \A k \in 0 .. 2 * index - 2 : nodes[rep][k] = <<rep, k + 1>>
    BY <1>1 DEF Expanding
  <2>2. index \in Int /\ index - 1 \in 0 .. 2 * index - 2 /\ (index - 1) + 1 = index
    BY <1>1, <1>2
  <2> HIDE DEF ExpandNode, Inner
  <2>3. nodes[rep][index - 1] = <<rep, (index - 1) + 1>>
    BY <2>1, <2>2
  <2> QED
    BY <2>2, <2>3
<1>4. nodes' = [nodes EXCEPT ![rep][l] = <<rep, l + 1>>, ![rep][l + 1] = <<rep, l + 2>>]
  <2>1. 2 * index = l + 1 /\ 2 * index + 0 = l + 1 /\ 2 * index + 1 = l + 2
    BY <1>1, Leaves
  <2>2. Squeeze(rep, index, nodes[rep][index - 1], 0) = <<rep, l + 1>>
    BY <1>3, <2>1 DEF Squeeze
  <2>3. Squeeze(rep, index, nodes[rep][index - 1], 1) = <<rep, l + 2>>
    BY <1>3, <2>1 DEF Squeeze
  <2> QED
    BY <1>2, <2>2, <2>3
<1>5. <<rep, l + 1>> \in Seeds /\ <<rep, l + 2>> \in Seeds
  BY <1>1, Constants, Leaves DEF Seeds
<1>6. nodes \in [Reps -> [0 .. 2 * N - 2 -> Seeds]]
  BY <1>1 DEF TypeOK
<1>7. /\ nodes' \in [Reps -> [0 .. 2 * N - 2 -> Seeds]]
      /\ \A r \in Reps : r # rep => nodes'[r] = nodes[r]
      /\ \A k \in 0 .. 2 * N - 2 :
           nodes'[rep][k] = IF k = l THEN <<rep, l + 1>>
                            ELSE IF k = l + 1 THEN <<rep, l + 2>> ELSE nodes[rep][k]
  <2> HIDE DEF l, ExpandNode
  <2>1. l \in Int /\ l # l + 1
    BY <1>2
  <2> QED
    BY <1>1, <1>2, <1>4, <1>5, <1>6, <2>1, Constants
<1>8. TypeOK'
  <2>1. index' \in 0 .. 2 * N - 1 /\ index' <= N
    BY <1>1, Leaves
  <2> HIDE DEF l
  <2> QED
    BY <1>1, <1>7, <2>1 DEF TypeOK
<1>9. Expanding'
  <2>1. index' \in 0 .. N /\ depth' = 0
    BY <1>1, Leaves DEF Expanding
  <2>2. \A r \in 0 .. rep' - 1 : Full(r)'
    BY <1>1, <1>7, Constants DEF Expanding, Full
  <2>3. \A k \in 0 .. 2 * index' - 2 : nodes'[rep'][k] = <<rep', k + 1>>
    <3> SUFFICES ASSUME NEW k \in 0 .. 2 * index' - 2
                 PROVE  nodes'[rep'][k] = <<rep', k + 1>>
      OBVIOUS
    <3>1. k \in 0 .. 2 * N - 2 /\ (k \in 0 .. 2 * index - 2 \/ k = l \/ k = l + 1)
      BY <1>1, Leaves
    <3>2. k \in 0 .. 2 * index - 2 => nodes[rep][k] = <<rep, k + 1>>
      BY <1>1 DEF Expanding
    <3>3. l \in Int /\ l + 1 + 1 = l + 2 /\ rep' = rep
      BY <1>2
    <3>4. k \in 0 .. 2 * index - 2 => k # l /\ k # l + 1
      BY <1>1, Leaves
    <3> HIDE DEF l, ExpandNode
    <3> QED
      BY <1>7, <3>1, <3>2, <3>3, <3>4
  <2> QED
    BY <1>1, <2>1, <2>2, <2>3 DEF Expanding
<1> QED
  BY <1>8, <1>9 DEF IInv

LEMMA FullTree ==
  ASSUME Expanding, rep \in 0 .. T - 1, index = N
  PROVE  \A r \in 0 .. rep : Full(r)
<1>1. Full(rep)
  BY DEF Expanding, Full
<1>2. \A r \in 0 .. rep - 1 : Full(r)
  BY DEF Expanding
<1>3. \A r \in 0 .. rep : r = rep \/ r \in 0 .. rep - 1
  BY Constants
<1> QED
  BY <1>1, <1>2, <1>3

LEMMA NextTreeIInv ==
  ASSUME IInv, NextTree
  PROVE  IInv'
<1> USE DEF NextTree, Inner
<1>1. TypeOK /\ Expanding /\ rep \in 0 .. T - 1 /\ index = N
  BY ExpandingFacts, Leaves
<1>2. TypeOK'
  BY <1>1, Constants, Leaves DEF TypeOK
<1>3. Expanding'
  <2>1. \A r \in 0 .. rep' - 1 : Full(r)'
    <3>1. \A r \in 0 .. rep : Full(r)
      BY <1>1, FullTree
    <3>2. rep' - 1 = rep /\ nodes' = nodes
      BY <1>1
    <3> QED
      BY <3>1, <3>2 DEF Full
  <2>2. index' = 0 /\ 0 \in 0 .. N /\ 2 * index' - 2 = -2
    BY Leaves
  <2> QED
    BY <1>1, <2>1, <2>2 DEF Expanding
<1> QED
  BY <1>2, <1>3 DEF IInv

LEMMA ChallengeIInv ==
  ASSUME IInv, Challenge
  PROVE  IInv'
<1> USE DEF Challenge, Inner
<1>1. TypeOK /\ Expanding /\ rep \in 0 .. T - 1 /\ index = N
  BY ExpandingFacts, Leaves
<1>2. 0 \in Reps /\ hidden'[0] \in Parties
  BY Constants
<1>3. TypeOK'
  <2>1. index' \in 0 .. 2 * N - 1 /\ depth' \in 0 .. LogN /\ rep' \in Reps
    <3>1. hidden'[0] \in 0 .. N - 1
      BY <1>2, Constants
    <3> QED
      BY <1>2, <3>1, Constants, Leaves
  <2> QED
    BY <1>1, <2>1 DEF TypeOK
<1>4. \A r \in Reps : Full(r)'
  <2>1. \A r \in Reps : Full(r)
    BY <1>1, FullTree, Constants
  <2> QED
    BY <2>1 DEF Full
<1>5. Published'
  BY <1>1, Constants DEF Expanding, Published, RevealedBy
<1>6. NothingHidden'
  <2>1. \A k \in 0 .. 2 * N - 3 : tree'[k] = <<-1, 0>>
    BY <1>1 DEF Expanding, Garbage
  <2>2. \A r \in Reps : r # -1
    BY Constants
  <2> QED
    BY <2>1, <2>2 DEF NothingHidden
<1>7. Revealing'
  BY <1>2, AncestorFirst DEF Revealing
<1> QED
  BY <1>3, <1>4, <1>5, <1>6, <1>7 DEF IInv

LEMMA RevealSiblingIInv ==
  ASSUME IInv, RevealSibling
  PROVE  IInv'
<1> USE DEF RevealSibling, Revealed
<1>1. /\ TypeOK /\ Revealing /\ Published /\ NothingHidden
      /\ \A r \in Reps : Full(r)
      /\ rep \in Reps /\ hidden[rep] \in Parties /\ depth \in 0 .. LogN - 1
  BY Constants DEF IInv, TypeOK
<1> DEFINE leaf == hidden[rep]
           d == LogN - (depth + 1)
<1>2. /\ d \in 0 .. LogN - 1 /\ d + 1 \in 0 .. LogN /\ LogN - (d + 1) = depth
      /\ LogN - d = depth + 1 /\ depth + 1 \in 0 .. LogN /\ d \in 0 .. LogN
  BY <1>1, Constants
<1>3. index = PathAt(leaf, d + 1)
  BY <1>1, <1>2 DEF Revealing, PathAt
<1>4. index \in Level(d + 1) /\ index' = PathAt(leaf, d)
  <2> HIDE DEF d, leaf
  <2>1. leaf \in Parties
    BY <1>1 DEF leaf
  <2> QED
    BY <1>2, <1>3, <2>1, PathLevels
<1>5. Revealing'
  BY <1>2, <1>4 DEF Revealing, PathAt
<1>6. Sibling(index) \in Level(d + 1)
  <2> HIDE DEF d
  <2> QED
    BY <1>2, <1>4, Siblings
<1>7. Sibling(index) \in 1 .. 2 * N - 1 /\ index' \in 1 .. 2 * N - 1
  <2> HIDE DEF d, leaf
  <2>1. PathAt(leaf, d) \in Level(d)
    BY <1>1, <1>2, PathLevels DEF leaf
  <2> QED
    BY <1>2, <1>4, <1>6, <2>1, LevelNodes
<1>8. nodes[rep][Sibling(index) - 1] = <<rep, Sibling(index)>>
  <2> DEFINE k == Sibling(index) - 1
  <2>1. k \in 0 .. 2 * N - 2 /\ k + 1 = Sibling(index)
    BY <1>7, Leaves
  <2> HIDE DEF k
  <2>2. nodes[rep][k] = <<rep, k + 1>>
    BY <1>1, <2>1 DEF Full
  <2> QED
    BY <2>1, <2>2 DEF k
<1>9. <<rep, Sibling(index)>> \in Seeds
  BY <1>1, <1>7 DEF Seeds
<1>10. path' = [path EXCEPT ![rep][depth] = <<rep, Sibling(Ancestor(leaf, depth))>>]
  BY <1>1, <1>8 DEF Revealing
<1>11. TypeOK'
  <2>1. path' \in [Reps -> [0 .. LogN - 1 -> Seeds]]
    BY <1>1, <1>8, <1>9 DEF TypeOK
  <2>2. index' \in 0 .. 2 * N - 1 /\ depth' \in 0 .. LogN
    BY <1>1, <1>2, <1>7
  <2> HIDE DEF d
  <2> QED
    BY <1>1, <2>1, <2>2 DEF TypeOK
<1>12. Published'
  <2> SUFFICES ASSUME NEW r \in Reps, NEW e \in 0 .. LogN - 1
               PROVE  path'[r][e] = IF RevealedBy(r, e)' THEN <<r, Sibling(Ancestor(hidden[r], e))>>
                                    ELSE Garbage
    BY DEF Published
  <2>1. path[r][e] = IF RevealedBy(r, e) THEN <<r, Sibling(Ancestor(hidden[r], e))>>
                     ELSE Garbage
    BY <1>1 DEF Published
  <2>2. path \in [Reps -> [0 .. LogN - 1 -> Seeds]]
    BY <1>1 DEF TypeOK
  <2>3. CASE r = rep /\ e = depth
    <3>1. RevealedBy(r, e)'
      BY <2>3, <1>1 DEF RevealedBy
    <3>2. path'[r][e] = <<r, Sibling(Ancestor(leaf, e))>>
      <4> HIDE DEF RevealSibling
      <4> QED
        BY <1>1, <1>10, <2>2, <2>3
    <3> QED
      BY <2>3, <3>1, <3>2
  <2>4. CASE ~ (r = rep /\ e = depth)
    <3>1. path'[r][e] = path[r][e]
      BY <1>1, <1>10, <2>2, <2>4
    <3>2. RevealedBy(r, e)' <=> RevealedBy(r, e)
      BY <2>4, <1>1, Constants DEF RevealedBy
    <3> QED
      BY <2>1, <3>1, <3>2
  <2> QED
    BY <2>3, <2>4
<1>13. NothingHidden' /\ \A r \in Reps : Full(r)'
  BY <1>1 DEF NothingHidden, Full
<1> QED
  BY <1>5, <1>11, <1>12, <1>13 DEF IInv

LEMMA NextProofIInv ==
  ASSUME IInv, NextProof
  PROVE  IInv'
<1> USE DEF NextProof
<1>1. /\ TypeOK /\ Published /\ NothingHidden /\ rep \in 0 .. T - 1
      /\ \A r \in Reps : Full(r)
  BY Constants DEF IInv, TypeOK
<1>2. rep + 1 \in Reps /\ hidden[rep + 1] \in Parties
  BY <1>1, Constants DEF TypeOK
<1>3. TypeOK'
  <2>1. index' \in 0 .. 2 * N - 1 /\ depth' \in 0 .. LogN /\ rep' \in Reps
    <3>1. hidden[rep + 1] \in 0 .. N - 1
      BY <1>2, Constants
    <3> QED
      BY <1>2, <3>1, Constants, Leaves
  <2> QED
    BY <1>1, <2>1 DEF TypeOK
<1>4. Revealing'
  BY <1>2, AncestorFirst DEF Revealing
<1>5. Published'
  <2>1. \A r \in Reps, d \in 0 .. LogN - 1 : RevealedBy(r, d)' <=> RevealedBy(r, d)
    BY <1>1, Constants DEF RevealedBy
  <2> QED
    BY <1>1, <2>1 DEF Published
<1>6. NothingHidden' /\ \A r \in Reps : Full(r)'
  BY <1>1 DEF NothingHidden, Full
<1> QED
  BY <1>3, <1>4, <1>5, <1>6 DEF IInv

LEMMA PublishIInv ==
  ASSUME IInv, Publish
  PROVE  IInv'
<1> USE DEF Publish
<1>1. /\ TypeOK /\ Published /\ NothingHidden /\ rep \in 0 .. T - 1
      /\ \A r \in Reps : Full(r)
  BY Constants DEF IInv, TypeOK
<1>2. TypeOK'
  BY <1>1, Constants, Leaves DEF TypeOK
<1>3. Published'
  <2>1. \A r \in Reps, d \in 0 .. LogN - 1 : RevealedBy(r, d)' /\ RevealedBy(r, d)
    BY <1>1, Constants DEF RevealedBy
  <2> QED
    BY <1>1, <2>1 DEF Published
<1>4. NothingHidden' /\ \A r \in Reps : Full(r)'
  BY <1>1 DEF NothingHidden, Full
<1>5. Rebuilding'
  BY Constants DEF Rebuilding
<1> QED
  BY <1>2, <1>3, <1>4, <1>5 DEF IInv

-----------------------------------------------------------------------------
(* Verifying.                                                              *)

LEMMA VerifyingFacts ==
  ASSUME IInv, pc # "expand"
  PROVE  /\ TypeOK /\ Published /\ NothingHidden
         /\ \A r \in Reps : Full(r)
         /\ rep \in Reps /\ hidden[rep] \in Parties
         /\ tree \in [0 .. 2 * N - 3 -> Seeds]
BY DEF IInv, TypeOK

LEMMA Published2 ==
  ASSUME Published, pc # "reveal", NEW d \in 0 .. LogN - 1, rep \in Reps
  PROVE  path[rep][d] = <<rep, Sibling(Ancestor(hidden[rep], d))>>
BY DEF Published, RevealedBy

(* The sibling of a level's hidden node completes that level.              *)
LEMMA CopyCompletes ==
  ASSUME IInv, pc = "rebuild", CopySibling
  PROVE  /\ tree' \in [0 .. 2 * N - 3 -> Seeds]
         /\ \A i \in Level(depth) : OffPath(i, depth) => tree'[i - 2] = <<rep, i>>
         /\ \A k \in 0 .. 2 * N - 3 : \A r \in Reps : \A i \in 1 .. 2 * N - 1 :
              OnPath(hidden[r], i) => tree'[k] # <<r, i>>
<1>1. /\ TypeOK /\ Published /\ NothingHidden /\ Rebuilding
      /\ rep \in Reps /\ hidden[rep] \in Parties
      /\ tree \in [0 .. 2 * N - 3 -> Seeds]
  BY VerifyingFacts DEF IInv
<1> DEFINE leaf == hidden[rep]
           d == depth - 1
           own == PathAt(leaf, depth)
           s == Sibling(own)
<1>2. /\ leaf \in Parties /\ depth \in 1 .. LogN /\ d \in 0 .. LogN - 1
      /\ d + 1 = depth /\ depth \in 0 .. LogN /\ LogN - depth \in 0 .. LogN - 1
  BY <1>1, Constants DEF Rebuilding
<1> HIDE DEF leaf, d
<1>3. own \in Level(depth)
  BY <1>2, PathLevels
<1>4. /\ s \in Level(depth)
      /\ \A j \in Level(depth) : j \div 2 = own \div 2 => j = own \/ j = s
  <2> HIDE DEF own
  <2>1. /\ Sibling(own) \in Level(d + 1)
        /\ \A j \in Level(d + 1) : j \div 2 = own \div 2 => j = own \/ j = Sibling(own)
    BY <1>2, <1>3, Siblings
  <2> QED
    BY <1>2, <2>1
<1>5. own \div 2 = PathAt(leaf, d)
  BY <1>2, PathLevels
<1>6. ~ OnPath(leaf, s)
  BY <1>2, SiblingOffPath
<1>7. path[rep][PathEntry(depth)] = <<rep, s>>
  BY <1>1, <1>2, Published2 DEF PathEntry, PathAt, leaf
<1>8. tree' = [tree EXCEPT ![s - 2] = <<rep, s>>]
  BY <1>7 DEF CopySibling, PathAt, leaf
<1> HIDE DEF own, s
<1>9. s \in 1 .. 2 * N - 1 /\ s >= 2
  BY <1>2, <1>4, LevelNodes
<1>10. <<rep, s>> \in Seeds /\ s - 2 \in 0 .. 2 * N - 3
  BY <1>1, <1>9, Leaves DEF Seeds
<1>11. tree' \in [0 .. 2 * N - 3 -> Seeds]
  BY <1>1, <1>8, <1>10
<1>12. ASSUME NEW i \in Level(depth), OffPath(i, depth)
       PROVE  tree'[i - 2] = <<rep, i>>
  <2>1. i \in 1 .. 2 * N - 1 /\ i >= 2 /\ i - 2 \in 0 .. 2 * N - 3
    <3>1. i \in 1 .. 2 * N - 1 /\ i >= 2
      BY <1>2, LevelNodes
    <3> QED
      BY <3>1, Leaves
  <2>2. i # own
    BY <1>12 DEF OffPath, own, leaf
  <2>3. CASE i = s
    BY <1>1, <1>8, <1>10, <2>3
  <2>4. CASE i # s
    <3>1. i \div 2 # PathAt(leaf, d)
      BY <1>4, <1>5, <2>2, <2>4
    <3>2. depth > 1
      <4> SUFFICES ASSUME depth = 1 PROVE FALSE
        BY <1>2
      <4>1. i \in Level(0 + 1) /\ 0 \in 0 .. LogN - 1 /\ d = 0
        BY <1>2, Constants DEF d
      <4>2. i \div 2 \in Level(0)
        BY <4>1, Parents
      <4>3. i \div 2 = 1
        BY <4>2, Constants DEF Level
      <4> QED
        BY <1>2, <3>1, <4>1, <4>3, PathLevels
    <3>3. OffPath(i \div 2, depth - 1)
      BY <3>1 DEF OffPath, d, leaf
    <3>4. tree[i - 2] = <<rep, i>>
      BY <1>1, <3>2, <3>3 DEF Rebuilding, Held
    <3>5. i - 2 # s - 2
      BY <1>9, <2>1, <2>4
    <3> QED
      BY <1>1, <1>8, <2>1, <3>4, <3>5
  <2> QED
    BY <2>3, <2>4
<1>13. ASSUME NEW k \in 0 .. 2 * N - 3, NEW r \in Reps, NEW i \in 1 .. 2 * N - 1,
              OnPath(hidden[r], i)
       PROVE  tree'[k] # <<r, i>>
  <2>1. tree[k] # <<r, i>>
    BY <1>1, <1>13 DEF NothingHidden
  <2>2. <<rep, s>> # <<r, i>>
    BY <1>6, <1>13 DEF leaf
  <2> QED
    BY <1>1, <1>8, <1>10, <2>1, <2>2
<1> QED
  BY <1>11, <1>12, <1>13

LEMMA CopyAtDepthIInv ==
  ASSUME IInv, CopyAtDepth
  PROVE  IInv'
<1> USE DEF CopyAtDepth
<1>1. /\ TypeOK /\ Published /\ NothingHidden /\ Rebuilding
      /\ \A r \in Reps : Full(r)
      /\ rep \in Reps
  BY VerifyingFacts DEF IInv
<1>2. /\ tree' \in [0 .. 2 * N - 3 -> Seeds]
      /\ \A i \in Level(depth) : OffPath(i, depth) => tree'[i - 2] = <<rep, i>>
      /\ \A k \in 0 .. 2 * N - 3 : \A r \in Reps : \A i \in 1 .. 2 * N - 1 :
           OnPath(hidden[r], i) => tree'[k] # <<r, i>>
  BY CopyCompletes
<1>3. depth \in 1 .. LogN - 1 /\ depth \in 0 .. LogN - 1 /\ depth \in 0 .. LogN
  BY <1>1, Constants DEF Rebuilding
<1>4. Pow2[depth] \in Nat /\ Pow2[depth] >= 1 /\ 2 * Pow2[depth] <= N
  BY <1>3, Powers, Leaves
<1>5. TypeOK'
  <2>1. index' \in 0 .. 2 * N - 1
    BY <1>4, Leaves
  <2> QED
    BY <1>1, <1>2, <2>1 DEF TypeOK
<1>6. NothingHidden'
  BY <1>2 DEF NothingHidden
<1>7. Published' /\ \A r \in Reps : Full(r)'
  BY <1>1 DEF Published, RevealedBy, Full
<1>8. ExpandingLevel'
  <2>1. \A i \in Level(depth) : OffPath(i, depth)' => Held(i)'
    BY <1>2 DEF OffPath, Held
  <2>2. \A i \in Level(depth + 1) : ~ (i \div 2 < index')
    <3> SUFFICES ASSUME NEW i \in Level(depth + 1)
                 PROVE  ~ (i \div 2 < Pow2[depth])
      OBVIOUS
    <3>1. i \div 2 \in Level(depth)
      BY <1>3, Parents
    <3> QED
      BY <1>4, <3>1 DEF Level
  <2>3. index' \in Pow2[depth] .. 2 * Pow2[depth]
    BY <1>4
  <2> QED
    BY <1>3, <2>1, <2>2, <2>3 DEF ExpandingLevel
<1> QED
  BY <1>5, <1>6, <1>7, <1>8 DEF IInv

LEMMA ExpandSlotIInv ==
  ASSUME IInv, ExpandSlot
  PROVE  IInv'
<1> USE DEF ExpandSlot
<1>1. /\ TypeOK /\ Published /\ NothingHidden /\ ExpandingLevel
      /\ \A r \in Reps : Full(r)
      /\ rep \in Reps /\ hidden[rep] \in Parties
      /\ tree \in [0 .. 2 * N - 3 -> Seeds]
  BY VerifyingFacts DEF IInv
<1>2. depth \in 1 .. LogN - 1 /\ depth \in 0 .. LogN - 1 /\ depth \in 0 .. LogN
      /\ depth + 1 \in 0 .. LogN
  BY <1>1, Constants DEF ExpandingLevel
<1>3. Pow2[depth] \in Nat /\ Pow2[depth] >= 1 /\ 2 * Pow2[depth] <= N
  BY <1>2, Powers, Leaves
<1>4. index \in Level(depth)
  BY <1>1, <1>3 DEF ExpandingLevel, Level
<1>5. index \in 1 .. 2 * N - 1 /\ index >= 2
  BY <1>2, <1>4, LevelNodes
<1> DEFINE l == 2 * index
           left == Squeeze(rep, index, tree[index - 2], 0)
           right == Squeeze(rep, index, tree[index - 2], 1)
<1>6. /\ l \in Level(depth + 1) /\ l + 1 \in Level(depth + 1)
      /\ l \div 2 = index /\ (l + 1) \div 2 = index
  <2>1. 2 * index + 0 = l /\ 2 * index + 1 = l + 1
    BY <1>5
  <2> QED
    BY <1>2, <1>4, <2>1, Children
<1>7. l \in 2 .. 2 * N - 1 /\ l + 1 \in 2 .. 2 * N - 1
  <2> HIDE DEF l
  <2>1. depth + 1 >= 1
    BY <1>2
  <2>2. l \in 1 .. 2 * N - 1 /\ l >= 2 /\ l + 1 \in 1 .. 2 * N - 1 /\ l + 1 >= 2
    BY <1>2, <1>6, <2>1, LevelNodes
  <2> QED
    BY <2>2
<1>8. tree' = [tree EXCEPT ![l - 2] = left, ![l - 1] = right]
  OBVIOUS
<1>9. /\ left = IF Held(index) THEN <<rep, l>> ELSE Garbage
      /\ right = IF Held(index) THEN <<rep, l + 1>> ELSE Garbage
  <2>1. 2 * index + 0 = l /\ 2 * index + 1 = l + 1
    BY <1>5
  <2> QED
    BY <2>1 DEF Squeeze, Held
<1>10. l - 2 \in 0 .. 2 * N - 3 /\ l - 1 \in 0 .. 2 * N - 3 /\ l - 2 # l - 1
  BY <1>7, Leaves
<1>11. left \in Seeds /\ right \in Seeds
  <2>1. <<rep, l>> \in Seeds /\ <<rep, l + 1>> \in Seeds /\ Garbage \in Seeds
    <3>1. l \in 1 .. 2 * N - 1 /\ l + 1 \in 1 .. 2 * N - 1
      BY <1>7, Leaves
    <3> QED
      BY <1>1, <3>1 DEF Seeds
  <2> QED
    BY <1>9, <2>1
<1> HIDE DEF l, left, right, ExpandSlot
<1>12. /\ tree' \in [0 .. 2 * N - 3 -> Seeds]
       /\ \A k \in 0 .. 2 * N - 3 :
            tree'[k] = IF k = l - 2 THEN left ELSE IF k = l - 1 THEN right ELSE tree[k]
  BY <1>1, <1>8, <1>10, <1>11
<1>13. /\ pc' = "expandLevel" /\ pc = "expandLevel" /\ index' = index + 1
       /\ UNCHANGED <<rep, depth, hidden, nodes, path>>
       /\ index < 2 * Pow2[depth]
  BY DEF ExpandSlot
<1>14. TypeOK'
  <2>1. index' \in 0 .. 2 * N - 1
    BY <1>3, <1>5, <1>13, Leaves
  <2> QED
    BY <1>1, <1>12, <1>13, <2>1 DEF TypeOK
<1>15. NothingHidden'
  <2> SUFFICES ASSUME NEW k \in 0 .. 2 * N - 3, NEW r \in Reps, NEW i \in 1 .. 2 * N - 1,
                      OnPath(hidden[r], i)
               PROVE  tree'[k] # <<r, i>>
    BY <1>13 DEF NothingHidden
  <2>1. tree[k] # <<r, i>>
    BY <1>1 DEF NothingHidden
  <2>2. Garbage # <<r, i>>
    BY Constants DEF Garbage
  <2>3. ASSUME Held(index)
        PROVE  ~ OnPath(hidden[rep], index)
    <3>1. index - 2 \in 0 .. 2 * N - 3
      BY <1>5, Leaves
    <3> QED
      BY <1>1, <1>5, <2>3, <3>1 DEF NothingHidden, Held
  <2>4. ASSUME Held(index)
        PROVE  ~ OnPath(hidden[rep], l) /\ ~ OnPath(hidden[rep], l + 1)
    <3>1. 2 * index + 0 = l /\ 2 * index + 1 = l + 1
      BY <1>5 DEF l
    <3> QED
      BY <1>1, <1>2, <1>4, <2>3, <2>4, <3>1, ChildOnPath
  <2>5. left # <<r, i>> /\ right # <<r, i>>
    <3>1. CASE Held(index)
      <4>1. left = <<rep, l>> /\ right = <<rep, l + 1>>
        BY <1>9, <3>1
      <4> QED
        BY <2>4, <3>1, <4>1
    <3>2. CASE ~ Held(index)
      BY <1>9, <2>2, <3>2
    <3> QED
      BY <3>1, <3>2
  <2> QED
    BY <1>12, <2>1, <2>5
<1>16. Published' /\ \A r \in Reps : Full(r)'
  BY <1>1, <1>13 DEF Published, RevealedBy, Full
<1>17. ExpandingLevel'
  <2>1. \A i \in Level(depth) : OffPath(i, depth)' => Held(i)'
    <3> SUFFICES ASSUME NEW i \in Level(depth), OffPath(i, depth)
                 PROVE  tree'[i - 2] = <<rep, i>>
      BY <1>13 DEF OffPath, Held
    <3>1. i \in 1 .. 2 * N - 1 /\ i >= 2
      BY <1>2, LevelNodes
    <3>2. i - 2 # l - 2 /\ i - 2 # l - 1 /\ i - 2 \in 0 .. 2 * N - 3
      <4>1. i < 2 * Pow2[depth] /\ Pow2[depth + 1] = 2 * Pow2[depth]
        BY <1>2, <1>3, Constants DEF Level
      <4>2. l >= 2 * Pow2[depth]
        BY <1>3, <1>6, <4>1 DEF Level
      <4> QED
        BY <1>7, <3>1, <4>1, <4>2, <1>3, Leaves
    <3>3. tree[i - 2] = <<rep, i>>
      BY <1>1 DEF ExpandingLevel, Held
    <3> QED
      BY <1>12, <3>2, <3>3
  <2>2. \A i \in Level(depth + 1) :
          i \div 2 < index' /\ OffPath(i \div 2, depth)' => Held(i)'
    <3> SUFFICES ASSUME NEW i \in Level(depth + 1), i \div 2 < index + 1,
                        OffPath(i \div 2, depth)
                 PROVE  tree'[i - 2] = <<rep, i>>
      BY <1>13 DEF OffPath, Held
    <3>1. i \in 1 .. 2 * N - 1 /\ i >= 2 /\ i - 2 \in 0 .. 2 * N - 3
      <4>1. i \in 1 .. 2 * N - 1 /\ i >= 2
        BY <1>2, LevelNodes
      <4> QED
        BY <4>1, Leaves
    <3>2. i \div 2 \in Level(depth) /\ i = 2 * (i \div 2) + (i % 2) /\ i % 2 \in {0, 1}
      BY <1>2, Parents
    <3>3. CASE i \div 2 = index
      <4>1. Held(index)
        BY <1>1, <1>4, <3>3 DEF ExpandingLevel
      <4>2. left = <<rep, l>> /\ right = <<rep, l + 1>>
        BY <1>9, <4>1
      <4>3. i = l \/ i = l + 1
        BY <1>5, <3>2, <3>3 DEF l
      <4>4. (i = l => i - 2 = l - 2) /\ (i = l + 1 => i - 2 = l - 1)
        BY <1>7
      <4> QED
        BY <1>10, <1>12, <4>2, <4>3, <4>4
    <3>4. CASE i \div 2 # index
      <4>1. i \div 2 < index
        BY <1>3, <1>5, <3>2, <3>4 DEF Level
      <4>2. tree[i - 2] = <<rep, i>>
        BY <1>1, <4>1 DEF ExpandingLevel, Held
      <4>3. i # l /\ i # l + 1
        BY <1>6, <3>4
      <4>4. i - 2 # l - 2 /\ i - 2 # l - 1
        BY <1>7, <3>1, <4>3
      <4> QED
        BY <1>12, <3>1, <4>2, <4>4
    <3> QED
      BY <3>3, <3>4
  <2>3. index' \in Pow2[depth] .. 2 * Pow2[depth]
    BY <1>1, <1>3, <1>13 DEF ExpandingLevel
  <2> QED
    BY <1>2, <1>13, <2>1, <2>2, <2>3 DEF ExpandingLevel
<1> QED
  BY <1>13, <1>14, <1>15, <1>16, <1>17 DEF IInv

LEMMA NextLevelIInv ==
  ASSUME IInv, NextLevel
  PROVE  IInv'
<1> USE DEF NextLevel
<1>1. /\ TypeOK /\ Published /\ NothingHidden /\ ExpandingLevel
      /\ \A r \in Reps : Full(r)
      /\ rep \in Reps
  BY VerifyingFacts DEF IInv
<1>2. depth \in 1 .. LogN - 1 /\ depth \in 0 .. LogN - 1
      /\ depth' \in 1 .. LogN /\ depth' - 1 = depth
  BY <1>1, Constants DEF ExpandingLevel
<1>3. TypeOK'
  <2>1. index' \in 0 .. 2 * N - 1
    BY Leaves
  <2> QED
    BY <1>1, <1>2, <2>1 DEF TypeOK
<1>4. NothingHidden' /\ Published' /\ \A r \in Reps : Full(r)'
  BY <1>1 DEF NothingHidden, Published, RevealedBy, Full
<1>5. Rebuilding'
  <2>1. ASSUME NEW i \in Level(depth + 1), OffPath(i \div 2, depth)
        PROVE  Held(i)
    <3>1. i \div 2 \in Level(depth)
      BY <1>2, Parents
    <3>2. i \div 2 < index
      BY <3>1, <1>2, Powers, Constants DEF Level
    <3> QED
      BY <1>1, <2>1, <3>2 DEF ExpandingLevel
  <2> QED
    BY <1>2, <2>1 DEF Rebuilding, OffPath, Held
<1> QED
  BY <1>3, <1>4, <1>5 DEF IInv

LEMMA CopyLastIInv ==
  ASSUME IInv, CopyLast
  PROVE  IInv'
<1> USE DEF CopyLast
<1>1. /\ TypeOK /\ Published /\ NothingHidden /\ Rebuilding
      /\ \A r \in Reps : Full(r)
      /\ rep \in Reps
  BY VerifyingFacts DEF IInv
<1>2. /\ tree' \in [0 .. 2 * N - 3 -> Seeds]
      /\ \A i \in Level(depth) : OffPath(i, depth) => tree'[i - 2] = <<rep, i>>
      /\ \A k \in 0 .. 2 * N - 3 : \A r \in Reps : \A i \in 1 .. 2 * N - 1 :
           OnPath(hidden[r], i) => tree'[k] # <<r, i>>
  BY CopyCompletes
<1>3. TypeOK'
  BY <1>1, <1>2 DEF TypeOK
<1>4. NothingHidden' /\ Published' /\ \A r \in Reps : Full(r)'
  BY <1>1, <1>2 DEF NothingHidden, Published, RevealedBy, Full
<1>5. Rebuilt'
  BY <1>1, <1>2 DEF Rebuilding, Rebuilt, OffPath, Held
<1> QED
  BY <1>3, <1>4, <1>5 DEF IInv

LEMMA NextRebuildIInv ==
  ASSUME IInv, NextRebuild
  PROVE  IInv'
<1> USE DEF NextRebuild
<1>1. /\ TypeOK /\ Published /\ NothingHidden /\ Rebuilt
      /\ \A r \in Reps : Full(r)
      /\ rep \in Reps
  BY VerifyingFacts DEF IInv
<1>2. TypeOK'
  <2>1. rep' \in Reps /\ depth' \in 0 .. LogN
    BY <1>1, Constants
  <2> QED
    BY <1>1, <2>1 DEF TypeOK
<1>3. NothingHidden' /\ Published' /\ \A r \in Reps : Full(r)'
  BY <1>1 DEF NothingHidden, Published, RevealedBy, Full
<1>4. Rebuilding'
  BY <1>1, Constants DEF Rebuilt, Rebuilding
<1> QED
  BY <1>2, <1>3, <1>4 DEF IInv

LEMMA QuietIInv ==
  ASSUME IInv, Finish \/ UNCHANGED vars
  PROVE  IInv'
<1>1. CASE Finish
  <2>1. TypeOK /\ Published /\ NothingHidden /\ Rebuilt /\ \A r \in Reps : Full(r)
    BY <1>1, VerifyingFacts DEF IInv, Finish
  <2> QED
    BY <1>1, <2>1 DEF IInv, Finish, TypeOK, NothingHidden, Published, RevealedBy, Full,
       Rebuilt, OffPath, Held
<1>2. CASE UNCHANGED vars
  <2>1. UNCHANGED <<pc, rep, index, depth, hidden, nodes, path, tree>>
    BY <1>2 DEF vars
  <2>2. TypeOK'
    BY <2>1 DEF IInv, TypeOK
  <2> QED
    BY <2>1, <2>2 DEF IInv, NothingHidden, Published, RevealedBy, Full, Expanding,
       Revealing, Rebuilding, ExpandingLevel, Rebuilt, OffPath, Held
<1> QED
  BY <1>1, <1>2

-----------------------------------------------------------------------------
LEMMA StepIInv == IInv /\ [Next]_vars => IInv'
<1> SUFFICES ASSUME IInv, [Next]_vars PROVE IInv'
  OBVIOUS
<1>1. CASE Signing
  BY <1>1, ExpandRootIInv, ExpandNodeIInv, NextTreeIInv, ChallengeIInv, RevealSiblingIInv,
     NextProofIInv, PublishIInv DEF Signing
<1>2. CASE Verifying
  BY <1>2, CopyAtDepthIInv, ExpandSlotIInv, NextLevelIInv, CopyLastIInv, NextRebuildIInv,
     QuietIInv DEF Verifying
<1>3. CASE UNCHANGED vars
  BY <1>3, QuietIInv
<1> QED
  BY <1>1, <1>2, <1>3 DEF Next

(* The numbering of nodes, paths and slots holds in every reachable state. *)
THEOREM InductiveInvariant == Spec => []IInv
BY InitIInv, StepIInv, PTL DEF Spec

(* For any number of repetitions and any depth: no index leaves its array, *)
(* and every slot holds a seed or garbage (TypeOK of module SeedTree).     *)
THEOREM TypeCorrect == Spec => []TypeOK
<1>1. IInv => TypeOK
  BY DEF IInv
<1> QED
  BY <1>1, InductiveInvariant, PTL

(* For any number of repetitions and any depth: the verifier recovers the  *)
(* seed of every party but the hidden one (SeedsRecovered of SeedTree).    *)
THEOREM VerifierRecoversSeeds == Spec => []SeedsRecovered
<1>1. IInv => SeedsRecovered
  <2> SUFFICES ASSUME IInv, pc = "read", NEW p \in Parties \ {hidden[rep]}
               PROVE  VerifierSeed(p) = SignerSeed(rep, p)
    BY DEF SeedsRecovered
  <2>1. Rebuilt /\ Full(rep) /\ rep \in Reps /\ hidden[rep] \in Parties
    BY VerifyingFacts DEF IInv
  <2> DEFINE i == p + N
             k == p + N - 1
  <2>2. /\ p \in 0 .. N - 1 /\ i \in Level(LogN) /\ k \in 0 .. 2 * N - 2
        /\ k + 1 = i /\ N + p - 2 = i - 2
    <3>1. p \in 0 .. N - 1
      BY Constants
    <3>2. Level(LogN) = N .. 2 * N - 1
      BY DEF Level, N
    <3> QED
      BY <3>1, <3>2, Leaves
  <2>3. i # PathAt(hidden[rep], LogN)
    <3>1. PathAt(hidden[rep], LogN) = hidden[rep] + N
      BY <2>1, PathLevels
    <3>2. hidden[rep] \in 0 .. N - 1
      BY <2>1, Constants
    <3> QED
      BY <2>2, <3>1, <3>2, Leaves
  <2> HIDE DEF i, k
  <2>4. tree[i - 2] = <<rep, i>>
    BY <2>1, <2>2, <2>3 DEF Rebuilt, OffPath, Held
  <2>5. nodes[rep][k] = <<rep, k + 1>>
    BY <2>1, <2>2 DEF Full
  <2> QED
    BY <2>2, <2>4, <2>5 DEF VerifierSeed, SignerSeed, k
<1> QED
  BY <1>1, InductiveInvariant, PTL

(* For any number of repetitions and any depth: no seed on a hidden path   *)
(* is published or derived (HiddenStaysHidden of module SeedTree).         *)
THEOREM HiddenSeedsStayHidden == Spec => []HiddenStaysHidden
<1>1. IInv => HiddenStaysHidden
  <2> SUFFICES ASSUME IInv, pc # "expand", NEW r \in Reps, NEW i \in 1 .. 2 * N - 1,
                      Hides(r, i)
               PROVE  /\ \A d \in 0 .. LogN - 1 : path[r][d] # <<r, i>>
                      /\ \A k \in 0 .. 2 * N - 3 : tree[k] # <<r, i>>
    BY DEF HiddenStaysHidden
  <2>1. OnPath(hidden[r], i)
    BY DEF Hides, OnPath
  <2>2. Published /\ NothingHidden /\ hidden[r] \in Parties
    BY DEF IInv, TypeOK
  <2>3. ASSUME NEW d \in 0 .. LogN - 1
        PROVE  path[r][d] # <<r, i>>
    <3>1. path[r][d] = Garbage \/ path[r][d] = <<r, Sibling(Ancestor(hidden[r], d))>>
      BY <2>2 DEF Published
    <3>2. Garbage # <<r, i>>
      BY Constants DEF Garbage
    <3> DEFINE e == LogN - (d + 1)
    <3>3. e \in 0 .. LogN - 1 /\ LogN - (e + 1) = d
      BY Constants
    <3> HIDE DEF e
    <3>4. ~ OnPath(hidden[r], Sibling(PathAt(hidden[r], e + 1)))
      BY <2>2, <3>3, SiblingOffPath
    <3>5. i # Sibling(Ancestor(hidden[r], d))
      BY <2>1, <3>3, <3>4 DEF PathAt
    <3>6. <<r, Sibling(Ancestor(hidden[r], d))>> # <<r, i>>
      BY <3>5
    <3> QED
      BY <3>1, <3>2, <3>6, Zenon
  <2>4. \A k \in 0 .. 2 * N - 3 : tree[k] # <<r, i>>
    BY <2>1, <2>2 DEF NothingHidden
  <2> QED
    BY <2>3, <2>4
<1> QED
  BY <1>1, InductiveInvariant, PTL

-----------------------------------------------------------------------------
(* The field.                                                              *)

LEMMA Field ==
  /\ L \in Nat /\ L > 0 /\ Boxes = 1 .. L + 1 /\ Last = N - 1
  /\ Zero \in Elements /\ One \in Elements /\ One # Zero
  /\ \A x, y \in Elements : x \oplus y \in Elements /\ x \otimes y \in Elements
  /\ \A x \in Elements : x \oplus x = Zero /\ x \oplus Zero = x /\ x \otimes One = x
  /\ \A x, y \in Elements : x \oplus y = y \oplus x /\ x \otimes y = y \otimes x
<1>1. Plus \in [Elements -> [Elements -> Elements]] /\ Times \in [Elements -> [Elements -> Elements]]
  BY AimerAssumption, Zenon
<1>2. \A x, y \in Elements : x \oplus y \in Elements /\ x \otimes y \in Elements
  BY <1>1 DEF \oplus, \otimes
<1> QED
  BY <1>2, AimerAssumption DEF Boxes, Last

LEMMA Closed ==
  ASSUME NEW x \in Elements, NEW y \in Elements
  PROVE  x \oplus y \in Elements /\ x \otimes y \in Elements
BY Field

LEMMA PlusAssoc ==
  ASSUME NEW x \in Elements, NEW y \in Elements, NEW z \in Elements
  PROVE  (x \oplus y) \oplus z = x \oplus (y \oplus z)
BY AimerAssumption

LEMMA TimesAssoc ==
  ASSUME NEW x \in Elements, NEW y \in Elements, NEW z \in Elements
  PROVE  (x \otimes y) \otimes z = x \otimes (y \otimes z)
BY AimerAssumption

LEMMA Distributes ==
  ASSUME NEW x \in Elements, NEW y \in Elements, NEW z \in Elements
  PROVE  x \otimes (y \oplus z) = (x \otimes y) \oplus (x \otimes z)
BY AimerAssumption

LEMMA DistributesRight ==
  ASSUME NEW x \in Elements, NEW y \in Elements, NEW z \in Elements
  PROVE  (x \oplus y) \otimes z = (x \otimes z) \oplus (y \otimes z)
<1>1. (x \oplus y) \otimes z = z \otimes (x \oplus y)
  BY Field
<1>2. z \otimes (x \oplus y) = (z \otimes x) \oplus (z \otimes y)
  BY Distributes
<1> QED
  BY <1>1, <1>2, Field

LEMMA TimesZero == ASSUME NEW x \in Elements PROVE x \otimes Zero = Zero /\ Zero \otimes x = Zero
<1>1. x \otimes (Zero \oplus Zero) = (x \otimes Zero) \oplus (x \otimes Zero)
  BY Distributes, Field
<1> QED
  BY <1>1, Field

LEMMA Exchange ==
  ASSUME NEW a \in Elements, NEW b \in Elements, NEW c \in Elements, NEW d \in Elements
  PROVE  (a \oplus b) \oplus (c \oplus d) = (a \oplus c) \oplus (b \oplus d)
<1>1. (a \oplus b) \oplus (c \oplus d) = a \oplus (b \oplus (c \oplus d))
  BY PlusAssoc, Field
<1>2. b \oplus (c \oplus d) = (b \oplus c) \oplus d
  BY PlusAssoc
<1>3. (c \oplus b) \oplus d = c \oplus (b \oplus d) /\ b \oplus c = c \oplus b
  BY PlusAssoc, Field
<1>4. a \oplus (c \oplus (b \oplus d)) = (a \oplus c) \oplus (b \oplus d)
  BY PlusAssoc, Field
<1> QED
  BY <1>1, <1>2, <1>3, <1>4

LEMMA PlusTwice ==
  ASSUME NEW x \in Elements, NEW y \in Elements
  PROVE  x \oplus (x \oplus y) = y /\ (y \oplus x) \oplus x = y
<1>1. (x \oplus x) \oplus y = x \oplus (x \oplus y) /\ (y \oplus x) \oplus x = y \oplus (x \oplus x)
  BY PlusAssoc
<1>2. x \oplus x = Zero /\ Zero \oplus y = y /\ y \oplus Zero = y
  BY Field
<1> QED
  BY <1>1, <1>2

LEMMA PlusEqual ==
  ASSUME NEW x \in Elements, NEW y \in Elements
  PROVE  x \oplus y = Zero <=> x = y
<1>1. x \oplus (x \oplus y) = y
  BY PlusTwice
<1> QED
  BY <1>1, Field

-----------------------------------------------------------------------------
(* Sums.                                                                   *)

LEMMA IntervalInduction ==
  ASSUME NEW S, NEW m \in Int, NEW n \in Int, m - 1 <= n, m - 1 \in S,
         \A k \in m .. n : k - 1 \in S => k \in S
  PROVE  n \in S
<1> DEFINE U == {j \in Nat : m - 1 + j <= n => m - 1 + j \in S}
<1>1. 0 \in U
  <2>1. m - 1 + 0 = m - 1
    OBVIOUS
  <2> QED
    BY <2>1
<1>2. ASSUME NEW j \in Nat, j \in U
      PROVE  j + 1 \in U
  <2>1. CASE m - 1 + (j + 1) <= n
    <3>1. m + j \in m .. n /\ m + j - 1 = m - 1 + j /\ m - 1 + (j + 1) = m + j /\ m - 1 + j <= n
      BY <2>1
    <3>2. m - 1 + j \in S
      BY <1>2, <3>1
    <3> QED
      BY <3>1, <3>2
  <2> QED
    BY <2>1
<1> HIDE DEF U
<1>3. \A j \in Nat : j \in U
  BY <1>1, <1>2, SetInduction
<1>4. n - (m - 1) \in Nat /\ m - 1 + (n - (m - 1)) = n
  OBVIOUS
<1>5. n - (m - 1) \in U
  BY <1>3, <1>4
<1> QED
  BY <1>4, <1>5 DEF U

SumTable(f, m, n) ==
  CHOOSE s : s = [k \in m - 1 .. n |-> IF k = m - 1 THEN Zero ELSE s[k - 1] \oplus f[k]]

LEMMA SumTableExists ==
  ASSUME NEW f, NEW m \in Int, NEW n \in Int, m - 1 <= n
  PROVE  \E s : s = [k \in m - 1 .. n |-> IF k = m - 1 THEN Zero ELSE s[k - 1] \oplus f[k]]
<1> DEFINE S == {j \in Int : \E s :
                   s = [k \in m - 1 .. j |-> IF k = m - 1 THEN Zero ELSE s[k - 1] \oplus f[k]]}
<1>1. m - 1 \in S
  <2> DEFINE s == [k \in m - 1 .. m - 1 |-> Zero]
  <2>1. s = [k \in m - 1 .. m - 1 |-> IF k = m - 1 THEN Zero ELSE s[k - 1] \oplus f[k]]
    OBVIOUS
  <2>2. m - 1 \in Int
    OBVIOUS
  <2> HIDE DEF s
  <2> QED
    BY <2>1, <2>2
<1>2. ASSUME NEW j \in m .. n, j - 1 \in S
      PROVE  j \in S
  <2>1. PICK s : s = [k \in m - 1 .. j - 1 |->
                        IF k = m - 1 THEN Zero ELSE s[k - 1] \oplus f[k]]
    BY <1>2
  <2> DEFINE t == [k \in m - 1 .. j |-> IF k = m - 1 THEN Zero ELSE s[k - 1] \oplus f[k]]
  <2>2. ASSUME NEW k \in m .. j
        PROVE  t[k - 1] = s[k - 1]
    <3>1. k - 1 \in m - 1 .. j - 1 /\ k - 1 \in m - 1 .. j
      OBVIOUS
    <3>2. t[k - 1] = IF k - 1 = m - 1 THEN Zero ELSE s[k - 1 - 1] \oplus f[k - 1]
      BY <3>1
    <3> HIDE DEF t
    <3>3. s[k - 1] = IF k - 1 = m - 1 THEN Zero ELSE s[k - 1 - 1] \oplus f[k - 1]
      BY <2>1, <3>1
    <3> QED
      BY <3>2, <3>3
  <2>3. t = [k \in m - 1 .. j |-> IF k = m - 1 THEN Zero ELSE t[k - 1] \oplus f[k]]
    <3>1. ASSUME NEW k \in m - 1 .. j
          PROVE  t[k] = IF k = m - 1 THEN Zero ELSE t[k - 1] \oplus f[k]
      <4>1. CASE k = m - 1
        BY <4>1
      <4>2. CASE k # m - 1
        <5>1. k \in m .. j
          BY <4>2
        <5> QED
          BY <2>2, <4>2, <5>1
      <4> QED
        BY <4>1, <4>2
    <3>2. t = [k \in m - 1 .. j |-> t[k]]
      OBVIOUS
    <3> HIDE DEF t
    <3> QED
      BY <3>1, <3>2
  <2>4. j \in Int
    OBVIOUS
  <2> HIDE DEF t
  <2> QED
    BY <2>3, <2>4
<1> HIDE DEF S
<1>3. n \in S
  BY <1>1, <1>2, IntervalInduction
<1> QED
  BY <1>3 DEF S

LEMMA SumTableFacts ==
  ASSUME NEW f, NEW m \in Int, NEW n \in Int, m - 1 <= n
  PROVE  /\ Sum(f, m, n) = SumTable(f, m, n)[n]
         /\ SumTable(f, m, n)[m - 1] = Zero
         /\ \A k \in m .. n : SumTable(f, m, n)[k] = SumTable(f, m, n)[k - 1] \oplus f[k]
<1> DEFINE s == SumTable(f, m, n)
<1>1. Sum(f, m, n) = s[n]
  BY DEF Sum, SumTable
<1>2. s = [k \in m - 1 .. n |-> IF k = m - 1 THEN Zero ELSE s[k - 1] \oplus f[k]]
  BY SumTableExists DEF SumTable
<1> HIDE DEF s
<1>3. s[m - 1] = Zero
  <2>1. m - 1 \in m - 1 .. n
    OBVIOUS
  <2> QED
    BY <1>2, <2>1
<1>4. ASSUME NEW k \in m .. n
      PROVE  s[k] = s[k - 1] \oplus f[k]
  <2>1. k \in m - 1 .. n /\ k # m - 1
    OBVIOUS
  <2> QED
    BY <1>2, <2>1
<1> QED
  BY <1>1, <1>3, <1>4 DEF s

(* Two runs of the loop over equal terms agree as far as both go.          *)
LEMMA SameSums ==
  ASSUME NEW f, NEW g, NEW m \in Int, NEW n \in Int, NEW q \in Int, m - 1 <= n, n <= q,
         \A k \in m .. n : f[k] = g[k]
  PROVE  SumTable(g, m, q)[n] = Sum(f, m, n)
<1> DEFINE S == {j \in m - 1 .. n : SumTable(f, m, n)[j] = SumTable(g, m, q)[j]}
<1>1. m - 1 \in S
  <2>1. SumTable(f, m, n)[m - 1] = Zero /\ SumTable(g, m, q)[m - 1] = Zero
    BY SumTableFacts
  <2> QED
    BY <2>1
<1>2. ASSUME NEW j \in m .. n, j - 1 \in S
      PROVE  j \in S
  <2>1. SumTable(f, m, n)[j] = SumTable(f, m, n)[j - 1] \oplus f[j]
    BY SumTableFacts
  <2>2. j \in m .. q /\ m - 1 <= q
    OBVIOUS
  <2>3. SumTable(g, m, q)[j] = SumTable(g, m, q)[j - 1] \oplus g[j]
    BY <2>2, SumTableFacts
  <2> QED
    BY <1>2, <2>1, <2>3
<1> HIDE DEF S
<1>3. n \in S
  BY <1>1, <1>2, IntervalInduction
<1>4. Sum(f, m, n) = SumTable(f, m, n)[n]
  BY SumTableFacts
<1> QED
  BY <1>3, <1>4 DEF S

LEMMA SumEmpty == ASSUME NEW f, NEW m \in Int PROVE Sum(f, m, m - 1) = Zero
<1>1. m - 1 \in Int /\ m - 1 <= m - 1
  OBVIOUS
<1> QED
  BY <1>1, SumTableFacts

LEMMA SumStep ==
  ASSUME NEW f, NEW m \in Int, NEW n \in Int, m <= n
  PROVE  Sum(f, m, n) = Sum(f, m, n - 1) \oplus f[n]
<1>1. m - 1 <= n /\ n \in m .. n /\ n - 1 \in Int /\ m - 1 <= n - 1 /\ n - 1 <= n
  OBVIOUS
<1>2. Sum(f, m, n) = SumTable(f, m, n)[n - 1] \oplus f[n]
  BY <1>1, SumTableFacts
<1>3. SumTable(f, m, n)[n - 1] = Sum(f, m, n - 1)
  BY <1>1, SameSums
<1> QED
  BY <1>2, <1>3

LEMMA SumEqual ==
  ASSUME NEW f, NEW g, NEW m \in Int, NEW n \in Int, m - 1 <= n, \A k \in m .. n : f[k] = g[k]
  PROVE  Sum(f, m, n) = Sum(g, m, n)
<1>1. n <= n
  OBVIOUS
<1>3. SumTable(g, m, n)[n] = Sum(f, m, n)
  BY <1>1, SameSums
<1>2. SumTable(g, m, n)[n] = Sum(g, m, n)
  BY SumTableFacts
<1> QED
  BY <1>2, <1>3

LEMMA SumType ==
  ASSUME NEW f, NEW m \in Int, NEW n \in Int, m - 1 <= n, \A k \in m .. n : f[k] \in Elements
  PROVE  Sum(f, m, n) \in Elements
<1> DEFINE S == {j \in m - 1 .. n : Sum(f, m, j) \in Elements}
<1>1. m - 1 \in S
  BY SumEmpty, Field
<1>2. ASSUME NEW j \in m .. n, j - 1 \in S
      PROVE  j \in S
  <2>1. Sum(f, m, j) = Sum(f, m, j - 1) \oplus f[j]
    BY SumStep
  <2>2. Sum(f, m, j - 1) \in Elements /\ f[j] \in Elements /\ j \in m - 1 .. n
    BY <1>2
  <2>3. Sum(f, m, j) \in Elements
    BY <2>1, <2>2, Closed
  <2> QED
    BY <2>2, <2>3
<1> HIDE DEF S
<1>3. n \in S
  BY <1>1, <1>2, IntervalInduction
<1> QED
  BY <1>3 DEF S

LEMMA SumZero ==
  ASSUME NEW f, NEW m \in Int, NEW n \in Int, m - 1 <= n, \A k \in m .. n : f[k] = Zero
  PROVE  Sum(f, m, n) = Zero
<1> DEFINE S == {j \in m - 1 .. n : Sum(f, m, j) = Zero}
<1>1. m - 1 \in S
  <2>1. m - 1 \in m - 1 .. n
    OBVIOUS
  <2>2. Sum(f, m, m - 1) = Zero
    BY SumEmpty
  <2> QED
    BY <2>1, <2>2
<1>2. ASSUME NEW j \in m .. n, j - 1 \in S
      PROVE  j \in S
  <2>1. Sum(f, m, j) = Sum(f, m, j - 1) \oplus f[j]
    BY SumStep
  <2>2. Sum(f, m, j - 1) = Zero /\ f[j] = Zero /\ j \in m - 1 .. n
    BY <1>2
  <2>3. Sum(f, m, j) = Zero
    BY <2>1, <2>2, Field
  <2> QED
    BY <2>2, <2>3
<1> HIDE DEF S
<1>3. n \in S
  BY <1>1, <1>2, IntervalInduction
<1> QED
  BY <1>3 DEF S

LEMMA SumSingle ==
  ASSUME NEW f, NEW m \in Int, NEW n \in Int, NEW h \in m .. n, NEW x \in Elements,
         \A k \in m .. n : f[k] = IF k = h THEN x ELSE Zero
  PROVE  Sum(f, m, n) = x
<1>1. Sum(f, m, h - 1) = Zero
  <2>1. m - 1 <= h - 1 /\ h - 1 \in Int /\ \A k \in m .. h - 1 : f[k] = Zero
    OBVIOUS
  <2> QED
    BY <2>1, SumZero
<1> DEFINE S == {j \in h .. n : Sum(f, m, j) = x}
<1>2. h \in S
  <2>1. Sum(f, m, h) = Sum(f, m, h - 1) \oplus f[h] /\ f[h] = x
    BY SumStep
  <2>2. Sum(f, m, h) = x
    BY <1>1, <2>1, Field
  <2> QED
    BY <2>2
<1>3. ASSUME NEW j \in h + 1 .. n, j - 1 \in S
      PROVE  j \in S
  <2>1. Sum(f, m, j) = Sum(f, m, j - 1) \oplus f[j]
    BY SumStep
  <2>2. Sum(f, m, j - 1) = x /\ f[j] = Zero /\ j \in h .. n
    BY <1>3
  <2>3. Sum(f, m, j) = x
    BY <2>1, <2>2, Field
  <2> QED
    BY <2>2, <2>3
<1> HIDE DEF S
<1>4. h + 1 \in Int /\ h + 1 - 1 = h /\ h + 1 - 1 <= n
  OBVIOUS
<1>5. n \in S
  BY <1>2, <1>3, <1>4, IntervalInduction
<1> QED
  BY <1>5 DEF S

LEMMA SumPlus ==
  ASSUME NEW f, NEW g, NEW h, NEW m \in Int, NEW n \in Int, m - 1 <= n,
         \A k \in m .. n : f[k] \in Elements /\ g[k] \in Elements /\ h[k] = f[k] \oplus g[k]
  PROVE  Sum(h, m, n) = Sum(f, m, n) \oplus Sum(g, m, n)
<1> DEFINE S == {j \in m - 1 .. n : Sum(h, m, j) = Sum(f, m, j) \oplus Sum(g, m, j)}
<1>1. m - 1 \in S
  BY SumEmpty, Field
<1>2. ASSUME NEW j \in m .. n, j - 1 \in S
      PROVE  j \in S
  <2>1. /\ Sum(h, m, j) = Sum(h, m, j - 1) \oplus h[j]
        /\ Sum(f, m, j) = Sum(f, m, j - 1) \oplus f[j]
        /\ Sum(g, m, j) = Sum(g, m, j - 1) \oplus g[j]
    BY SumStep
  <2>2. /\ Sum(h, m, j - 1) = Sum(f, m, j - 1) \oplus Sum(g, m, j - 1)
        /\ h[j] = f[j] \oplus g[j] /\ f[j] \in Elements /\ g[j] \in Elements
        /\ j \in m - 1 .. n
    BY <1>2
  <2>3. m - 1 <= j - 1 /\ j - 1 \in Int /\ \A k \in m .. j - 1 : k \in m .. n
    OBVIOUS
  <2>4. Sum(f, m, j - 1) \in Elements /\ Sum(g, m, j - 1) \in Elements
    BY <2>3, SumType
  <2>5. Sum(h, m, j) = Sum(f, m, j) \oplus Sum(g, m, j)
    BY <2>1, <2>2, <2>4, Exchange
  <2> QED
    BY <2>2, <2>5
<1> HIDE DEF S
<1>3. n \in S
  BY <1>1, <1>2, IntervalInduction
<1> QED
  BY <1>3 DEF S

(* An additive map may be taken before or after adding up.                 *)
Additive(M) ==
  /\ \A x \in Elements : M[x] \in Elements
  /\ \A x, y \in Elements : M[x \oplus y] = M[x] \oplus M[y]

LEMMA SumMapped ==
  ASSUME NEW M, Additive(M), NEW f, NEW h, NEW m \in Int, NEW n \in Int, m - 1 <= n,
         \A k \in m .. n : f[k] \in Elements /\ h[k] = M[f[k]]
  PROVE  Sum(h, m, n) = M[Sum(f, m, n)]
<1> USE DEF Additive
<1> DEFINE S == {j \in m - 1 .. n : Sum(h, m, j) = M[Sum(f, m, j)]}
<1>1. m - 1 \in S
  <2>1. M[Zero \oplus Zero] = M[Zero] \oplus M[Zero] /\ M[Zero] \in Elements
    BY Field
  <2>2. M[Zero] = Zero
    BY <2>1, Field
  <2>3. m - 1 \in m - 1 .. n
    OBVIOUS
  <2> QED
    BY <2>2, <2>3, SumEmpty
<1>2. ASSUME NEW j \in m .. n, j - 1 \in S
      PROVE  j \in S
  <2>1. /\ Sum(h, m, j) = Sum(h, m, j - 1) \oplus h[j]
        /\ Sum(f, m, j) = Sum(f, m, j - 1) \oplus f[j]
    BY SumStep
  <2>2. /\ Sum(h, m, j - 1) = M[Sum(f, m, j - 1)]
        /\ h[j] = M[f[j]] /\ f[j] \in Elements
        /\ j \in m - 1 .. n
    BY <1>2
  <2>3. m - 1 <= j - 1 /\ j - 1 \in Int /\ \A k \in m .. j - 1 : k \in m .. n
    OBVIOUS
  <2>4. Sum(f, m, j - 1) \in Elements
    BY <2>3, SumType
  <2>5. Sum(h, m, j) = M[Sum(f, m, j)]
    BY <2>1, <2>2, <2>4
  <2> QED
    BY <2>2, <2>5
<1> HIDE DEF S
<1>3. n \in S
  BY <1>1, <1>2, IntervalInduction
<1> QED
  BY <1>3 DEF S

LEMMA SumScaled ==
  ASSUME NEW c \in Elements, NEW f, NEW h, NEW m \in Int, NEW n \in Int, m - 1 <= n,
         \A k \in m .. n : f[k] \in Elements /\ h[k] = f[k] \otimes c
  PROVE  Sum(h, m, n) = Sum(f, m, n) \otimes c
<1> DEFINE M == [x \in Elements |-> x \otimes c]
<1>1. \A x \in Elements : M[x] = x \otimes c
  OBVIOUS
<1> HIDE DEF M
<1>2. \A x \in Elements : M[x] \in Elements
  BY <1>1, Closed
<1>3. ASSUME NEW x \in Elements, NEW y \in Elements
      PROVE  M[x \oplus y] = M[x] \oplus M[y]
  <2>1. M[x \oplus y] = (x \oplus y) \otimes c
    BY <1>1, Closed
  <2> QED
    BY <1>1, <2>1, DistributesRight
<1>6. \A k \in m .. n : f[k] \in Elements /\ h[k] = M[f[k]]
  BY <1>1
<1>4. Sum(h, m, n) = M[Sum(f, m, n)]
  <2>1. \A x, y \in Elements : M[x \oplus y] = M[x] \oplus M[y]
    BY <1>3
  <2>3. Additive(M)
    BY <1>2, <2>1 DEF Additive
  <2> HIDE <1>1
  <2> QED
    BY <2>3, <1>6, SumMapped
<1>5. Sum(f, m, n) \in Elements
  BY SumType
<1> QED
  BY <1>1, <1>4, <1>5

(* Rows first or columns first.                                            *)
Table(F, G, R, C, m, n, p, q) ==
  /\ \A i \in m .. n : \A k \in p .. q : F[i][k] \in Elements /\ G[k][i] = F[i][k]
  /\ \A i \in m .. n : R[i] = Sum(F[i], p, q)
  /\ \A k \in p .. q : C[k] = Sum(G[k], m, n)

LEMMA SumSwapped ==
  ASSUME NEW F, NEW G, NEW R, NEW C,
         NEW m \in Int, NEW n \in Int, m - 1 <= n, NEW p \in Int, NEW q \in Int, p - 1 <= q,
         Table(F, G, R, C, m, n, p, q)
  PROVE  Sum(R, m, n) = Sum(C, p, q)
<1> USE DEF Table
<1> DEFINE B(j) == [k \in p .. q |-> Sum(G[k], m, j)]
<1> DEFINE S == {j \in m - 1 .. n : Sum(R, m, j) = Sum(B(j), p, q)}
<1>1. m - 1 \in S
  <2>1. \A k \in p .. q : B(m - 1)[k] = Zero
    BY SumEmpty
  <2>2. Sum(R, m, m - 1) = Zero
    BY SumEmpty
  <2>3. m - 1 \in m - 1 .. n
    OBVIOUS
  <2> HIDE DEF B
  <2>4. Sum(B(m - 1), p, q) = Zero
    BY <2>1, SumZero
  <2> QED
    BY <2>2, <2>3, <2>4
<1>2. ASSUME NEW j \in m .. n, j - 1 \in S
      PROVE  j \in S
  <2>1. Sum(R, m, j) = Sum(R, m, j - 1) \oplus R[j] /\ R[j] = Sum(F[j], p, q)
    BY SumStep
  <2>2. Sum(R, m, j - 1) = Sum(B(j - 1), p, q) /\ j \in m - 1 .. n
    BY <1>2
  <2>3. ASSUME NEW k \in p .. q
        PROVE  /\ B(j - 1)[k] \in Elements /\ F[j][k] \in Elements
               /\ B(j)[k] = B(j - 1)[k] \oplus F[j][k]
    <3>1. \A i \in m .. j - 1 : G[k][i] \in Elements
      <4> SUFFICES ASSUME NEW i \in m .. j - 1 PROVE G[k][i] \in Elements
        OBVIOUS
      <4>1. i \in m .. n
        OBVIOUS
      <4> QED
        BY <4>1
    <3>2. m - 1 <= j - 1 /\ j - 1 \in Int
      OBVIOUS
    <3>3. Sum(G[k], m, j - 1) \in Elements
      BY <3>1, <3>2, SumType
    <3>4. Sum(G[k], m, j) = Sum(G[k], m, j - 1) \oplus G[k][j]
      BY SumStep
    <3> QED
      BY <3>3, <3>4
  <2> HIDE DEF B
  <2>4. Sum(B(j), p, q) = Sum(B(j - 1), p, q) \oplus Sum(F[j], p, q)
    BY <2>3, SumPlus
  <2> QED
    BY <2>1, <2>2, <2>4
<1>3. n \in S
  <2> HIDE DEF S
  <2> QED
    BY <1>1, <1>2, IntervalInduction
<1>4. \A k \in p .. q : B(n)[k] = C[k]
  OBVIOUS
<1>5. Sum(R, m, n) = Sum(B(n), p, q)
  BY <1>3
<1> HIDE DEF B
<1>6. Sum(B(n), p, q) = Sum(C, p, q)
  BY <1>4, SumEqual
<1> QED
  BY <1>5, <1>6

-----------------------------------------------------------------------------
(* Powers: squaring is additive in characteristic 2.                       *)

SquareTable(e, x) ==
  CHOOSE s : s = [k \in 0 .. e |-> IF k = 0 THEN x ELSE s[k - 1] \otimes s[k - 1]]

LEMMA SquareTableExists ==
  ASSUME NEW x, NEW e \in Nat
  PROVE  \E s : s = [k \in 0 .. e |-> IF k = 0 THEN x ELSE s[k - 1] \otimes s[k - 1]]
<1> DEFINE S == {j \in Int : \E s :
                   s = [k \in 0 .. j |-> IF k = 0 THEN x ELSE s[k - 1] \otimes s[k - 1]]}
<1>1. 1 - 1 \in S
  <2> DEFINE s == [k \in 0 .. 0 |-> x]
  <2>1. s = [k \in 0 .. 0 |-> IF k = 0 THEN x ELSE s[k - 1] \otimes s[k - 1]]
    OBVIOUS
  <2>2. 1 - 1 = 0 /\ 0 \in Int
    OBVIOUS
  <2> HIDE DEF s
  <2>3. 0 \in S
    BY <2>1, <2>2
  <2> QED
    BY <2>2, <2>3
<1>2. ASSUME NEW j \in 1 .. e, j - 1 \in S
      PROVE  j \in S
  <2>1. PICK s : s = [k \in 0 .. j - 1 |-> IF k = 0 THEN x ELSE s[k - 1] \otimes s[k - 1]]
    BY <1>2
  <2> DEFINE t == [k \in 0 .. j |-> IF k = 0 THEN x ELSE s[k - 1] \otimes s[k - 1]]
  <2>2. ASSUME NEW k \in 1 .. j
        PROVE  t[k - 1] = s[k - 1]
    <3>1. k - 1 \in 0 .. j - 1 /\ k - 1 \in 0 .. j
      OBVIOUS
    <3>2. t[k - 1] = IF k - 1 = 0 THEN x ELSE s[k - 1 - 1] \otimes s[k - 1 - 1]
      BY <3>1
    <3> HIDE DEF t
    <3>3. s[k - 1] = IF k - 1 = 0 THEN x ELSE s[k - 1 - 1] \otimes s[k - 1 - 1]
      BY <2>1, <3>1
    <3> QED
      BY <3>2, <3>3
  <2>3. t = [k \in 0 .. j |-> IF k = 0 THEN x ELSE t[k - 1] \otimes t[k - 1]]
    <3>1. ASSUME NEW k \in 0 .. j
          PROVE  t[k] = IF k = 0 THEN x ELSE t[k - 1] \otimes t[k - 1]
      <4>1. CASE k = 0
        BY <4>1
      <4>2. CASE k # 0
        <5>1. k \in 1 .. j
          BY <4>2
        <5> QED
          BY <2>2, <4>2, <5>1
      <4> QED
        BY <4>1, <4>2
    <3>2. t = [k \in 0 .. j |-> t[k]]
      OBVIOUS
    <3> HIDE DEF t
    <3> QED
      BY <3>1, <3>2
  <2>4. j \in Int
    OBVIOUS
  <2> HIDE DEF t
  <2> QED
    BY <2>3, <2>4
<1> HIDE DEF S
<1>3. 1 \in Int /\ 1 - 1 <= e /\ e \in Int
  OBVIOUS
<1>4. e \in S
  BY <1>1, <1>2, <1>3, IntervalInduction
<1> QED
  BY <1>4 DEF S

LEMMA SquareTableFacts ==
  ASSUME NEW x, NEW e \in Nat
  PROVE  /\ Frobenius(e, x) = SquareTable(e, x)[e]
         /\ SquareTable(e, x)[0] = x
         /\ \A k \in 1 .. e : SquareTable(e, x)[k] =
                                SquareTable(e, x)[k - 1] \otimes SquareTable(e, x)[k - 1]
<1> DEFINE s == SquareTable(e, x)
<1>1. Frobenius(e, x) = s[e]
  BY DEF Frobenius, SquareTable
<1>2. s = [k \in 0 .. e |-> IF k = 0 THEN x ELSE s[k - 1] \otimes s[k - 1]]
  BY SquareTableExists DEF SquareTable
<1> HIDE DEF s
<1>3. s[0] = x
  <2>1. 0 \in 0 .. e
    OBVIOUS
  <2> QED
    BY <1>2, <2>1
<1>4. ASSUME NEW k \in 1 .. e
      PROVE  s[k] = s[k - 1] \otimes s[k - 1]
  <2>1. k \in 0 .. e /\ k # 0
    OBVIOUS
  <2> QED
    BY <1>2, <2>1
<1> QED
  BY <1>1, <1>3, <1>4 DEF s

LEMMA Squares ==
  ASSUME NEW x \in Elements, NEW y \in Elements
  PROVE  (x \oplus y) \otimes (x \oplus y) = (x \otimes x) \oplus (y \otimes y)
<1>1. (x \oplus y) \otimes (x \oplus y) = ((x \oplus y) \otimes x) \oplus ((x \oplus y) \otimes y)
  BY Closed, Distributes
<1>2. /\ (x \oplus y) \otimes x = (x \otimes x) \oplus (y \otimes x)
      /\ (x \oplus y) \otimes y = (x \otimes y) \oplus (y \otimes y)
  BY DistributesRight
<1>3. y \otimes x = x \otimes y /\ x \otimes x \in Elements /\ x \otimes y \in Elements
      /\ y \otimes y \in Elements
  BY Field
<1>4. ((x \otimes x) \oplus (x \otimes y)) \oplus ((x \otimes y) \oplus (y \otimes y))
        = (x \otimes x) \oplus ((x \otimes y) \oplus ((x \otimes y) \oplus (y \otimes y)))
  BY <1>3, PlusAssoc, Closed
<1>5. (x \otimes y) \oplus ((x \otimes y) \oplus (y \otimes y)) = y \otimes y
  BY <1>3, PlusTwice
<1> QED
  BY <1>1, <1>2, <1>3, <1>4, <1>5

LEMMA FrobeniusAdds ==
  ASSUME NEW e \in Nat, NEW x \in Elements, NEW y \in Elements
  PROVE  /\ Frobenius(e, x) \in Elements
         /\ Frobenius(e, x \oplus y) = Frobenius(e, x) \oplus Frobenius(e, y)
<1> DEFINE u == SquareTable(e, x)
           v == SquareTable(e, y)
           w == SquareTable(e, x \oplus y)
<1>1. /\ u[0] = x /\ \A k \in 1 .. e : u[k] = u[k - 1] \otimes u[k - 1]
      /\ v[0] = y /\ \A k \in 1 .. e : v[k] = v[k - 1] \otimes v[k - 1]
      /\ w[0] = x \oplus y /\ \A k \in 1 .. e : w[k] = w[k - 1] \otimes w[k - 1]
      /\ Frobenius(e, x) = u[e] /\ Frobenius(e, y) = v[e] /\ Frobenius(e, x \oplus y) = w[e]
  BY SquareTableFacts
<1> DEFINE S == {j \in 0 .. e : u[j] \in Elements /\ v[j] \in Elements /\ w[j] = u[j] \oplus v[j]}
<1> HIDE DEF u, v, w
<1>2. 1 - 1 \in S
  <2>1. 1 - 1 = 0 /\ 0 \in 0 .. e
    OBVIOUS
  <2> QED
    BY <1>1, <2>1
<1>3. ASSUME NEW j \in 1 .. e, j - 1 \in S
      PROVE  j \in S
  <2>1. u[j - 1] \in Elements /\ v[j - 1] \in Elements /\ w[j - 1] = u[j - 1] \oplus v[j - 1]
        /\ j \in 0 .. e
    BY <1>3
  <2>2. u[j] = u[j - 1] \otimes u[j - 1] /\ v[j] = v[j - 1] \otimes v[j - 1]
        /\ w[j] = w[j - 1] \otimes w[j - 1]
    BY <1>1
  <2>3. u[j] \in Elements /\ v[j] \in Elements
    BY <2>1, <2>2, Closed
  <2>4. w[j] = u[j] \oplus v[j]
    BY <2>1, <2>2, Squares
  <2> QED
    BY <2>1, <2>3, <2>4
<1> HIDE DEF S
<1>4. 1 \in Int /\ 1 - 1 <= e /\ e \in Int
  OBVIOUS
<1>5. e \in S
  BY <1>2, <1>3, <1>4, IntervalInduction
<1> QED
  BY <1>1, <1>5 DEF S

-----------------------------------------------------------------------------
(* AIM3: everything is an element.                                         *)

LEMMA Tables ==
  /\ \A i \in 1 .. 2 * L : \A x \in Elements : MatA[i][x] \in Elements
  /\ \A i \in 1 .. 2 * L : \A x, y \in Elements :
       MatA[i][x \oplus y] = MatA[i][x] \oplus MatA[i][y]
  /\ \A i \in Boxes : VecB[i] \in Elements /\ Exponents[i] \in Nat
<1>1. MatA \in [1 .. 2 * L -> [Elements -> Elements]]
  BY AimerAssumption, Zenon
<1>2. VecB \in [Boxes -> Elements] /\ Exponents \in [Boxes -> Nat \ {0}]
  BY AimerAssumption, Zenon
<1>3. \A i \in 1 .. 2 * L : \A x, y \in Elements :
        MatA[i][x \oplus y] = MatA[i][x] \oplus MatA[i][y]
  BY AimerAssumption, Zenon
<1> QED
  BY <1>1, <1>2, <1>3

LEMMA Indices ==
  /\ 1 \in Int /\ L \in Int /\ L + 1 \in Int /\ 1 - 1 <= L /\ 1 - 1 <= L + 1
  /\ \A i \in 1 .. L : i \in Boxes /\ i \in 1 .. 2 * L /\ L + i \in 1 .. 2 * L
  /\ \A i \in Boxes : ~(i <= L) => i = L + 1
  /\ \A i \in Boxes : i \in Int /\ (i <= L => i \in 1 .. L)
  /\ L + 1 \in Boxes /\ ~(L + 1 <= L)
  /\ 0 \in Int /\ Last \in Int /\ 0 - 1 <= Last /\ Parties = 0 .. Last /\ Last \in 0 .. Last
<1>1. L \in Nat /\ L > 0 /\ Boxes = 1 .. L + 1 /\ Last = N - 1
  BY Field
<1>2. N \in Nat /\ N > 0 /\ Parties = 0 .. N - 1
  BY Constants, Leaves DEF Parties
<1>3. \A i \in 1 .. L : i \in Boxes /\ i \in 1 .. 2 * L /\ L + i \in 1 .. 2 * L
  BY <1>1
<1>4. /\ \A i \in Boxes : ~(i <= L) => i = L + 1
      /\ \A i \in Boxes : i \in Int /\ (i <= L => i \in 1 .. L)
      /\ L + 1 \in Boxes /\ ~(L + 1 <= L)
      /\ 1 \in Int /\ L \in Int /\ L + 1 \in Int /\ 1 - 1 <= L /\ 1 - 1 <= L + 1
  BY <1>1
<1>5. 0 \in Int /\ Last \in Int /\ 0 - 1 <= Last /\ Parties = 0 .. Last /\ Last \in 0 .. Last
  BY <1>1, <1>2
<1> QED
  BY <1>3, <1>4, <1>5

LEMMA InvFacts ==
  ASSUME NEW x \in Elements
  PROVE  Inv(x) \in Elements /\ (x # Zero => x \otimes Inv(x) = One)
<1>1. CASE x = Zero
  BY <1>1, Field DEF Inv
<1>2. CASE x # Zero
  <2>1. \E y \in Elements : x \otimes y = One
    BY <1>2, AimerAssumption
  <2>2. Inv(x) = CHOOSE y \in Elements : x \otimes y = One
    BY <1>2 DEF Inv
  <2> QED
    BY <2>1, <2>2
<1> QED
  BY <1>1, <1>2

LEMMA SboxTypes ==
  ASSUME NEW pt \in Elements, NEW ct \in Elements
  PROVE  /\ \A i \in 1 .. L : SboxInput(i, pt) \in Elements
         /\ LastInput(pt) \in Elements
         /\ \A i \in Boxes : \A x \in Elements : Sbox(i, x) \in Elements
         /\ \A i \in Boxes : SboxOutputs(pt, ct)[i] \in Elements
<1>1. ASSUME NEW i \in 1 .. L
      PROVE  SboxInput(i, pt) \in Elements
  BY Tables, Indices, Closed DEF SboxInput
<1>2. ASSUME NEW i \in Boxes, NEW x \in Elements
      PROVE  Sbox(i, x) \in Elements
  <2>1. Frobenius(Exponents[i], x) \in Elements
    BY Tables, FrobeniusAdds
  <2>2. Frobenius(Exponents[i], x) \oplus One \in Elements
    BY <2>1, Closed, Field
  <2> QED
    BY <2>2, Closed, InvFacts DEF Sbox
<1>3. LastInput(pt) \in Elements
  <2> DEFINE f == [i \in 1 .. L |-> MatA[L + i][Sbox(i, SboxInput(i, pt))]]
  <2>1. \A i \in 1 .. L : f[i] \in Elements
    BY <1>1, <1>2, Tables, Indices
  <2> HIDE DEF f
  <2>2. Sum(f, 1, L) \in Elements
    BY <2>1, SumType, Indices
  <2> QED
    BY <2>2, Closed, Tables, Indices DEF LastInput, f
<1>4. ASSUME NEW i \in Boxes
      PROVE  SboxOutputs(pt, ct)[i] \in Elements
  <2>1. CASE i <= L
    <3>1. i \in 1 .. L
      BY <2>1, Indices
    <3> QED
      BY <1>1, <1>2, <2>1, <3>1 DEF SboxOutputs
  <2>2. CASE ~(i <= L)
    BY <2>2, Closed DEF SboxOutputs
  <2> QED
    BY <2>1, <2>2
<1> QED
  BY <1>1, <1>2, <1>3, <1>4

-----------------------------------------------------------------------------
(* One repetition: what its tapes are adjusted to, and what they add up to.*)

Collected(D, k) ==
  [pt |-> Sum([p \in Parties |-> D[p].pt], 0, k),
   y |-> [i \in 1 .. L |-> Sum([p \in Parties |-> D[p].y[i]], 0, k)],
   a |-> [i \in Boxes |-> Sum([p \in Parties |-> D[p].a[i]], 0, k)],
   c |-> Sum([p \in Parties |-> D[p].c], 0, k)]

Lacking(D, pt, ct) == Offsets(Collected(D, Last), pt, SboxOutputs(pt, ct))

Given(D, pt, ct) ==
  [p \in Parties |-> IF p = Last THEN Adjusted(D[p], Lacking(D, pt, ct)) ELSE D[p]]

LEMMA SumIfLast ==
  ASSUME NEW f, NEW h, NEW x \in Elements,
         \A p \in Parties : f[p] \in Elements /\ h[p] = f[p] \oplus IfLast(p, x)
  PROVE  Sum(h, 0, Last) = Sum(f, 0, Last) \oplus x
<1> DEFINE g == [p \in Parties |-> IfLast(p, x)]
<1>1. \A p \in 0 .. Last : g[p] = IF p = Last THEN x ELSE Zero
  BY Indices DEF IfLast
<1>2. \A p \in 0 .. Last : f[p] \in Elements /\ g[p] \in Elements /\ h[p] = f[p] \oplus g[p]
  <2>1. \A p \in 0 .. Last : p \in Parties
    BY Indices
  <2>2. Zero \in Elements
    BY Field
  <2>3. \A p \in Parties : g[p] = IfLast(p, x) /\ g[p] \in Elements
    BY <2>2 DEF IfLast
  <2> HIDE DEF g
  <2> QED
    BY <2>1, <2>3
<1> HIDE DEF g
<1>3. Sum(g, 0, Last) = x
  <2>1. 0 \in Int /\ Last \in Int /\ Last \in 0 .. Last
    BY Indices
  <2> QED
    BY <1>1, <2>1, SumSingle
<1>4. Sum(h, 0, Last) = Sum(f, 0, Last) \oplus Sum(g, 0, Last)
  <2>1. 0 \in Int /\ Last \in Int /\ 0 - 1 <= Last
    BY Indices
  <2> QED
    BY <1>2, <2>1, SumPlus
<1> QED
  BY <1>3, <1>4

(* A share to which the last party adds what the shares lack to x.         *)
LEMMA SumAdjusted ==
  ASSUME NEW f, NEW h, NEW x \in Elements,
         \A p \in Parties : f[p] \in Elements,
         \A p \in Parties : h[p] = f[p] \oplus IfLast(p, Sum(f, 0, Last) \oplus x)
  PROVE  Sum(h, 0, Last) = x
<1>1. Sum(f, 0, Last) \in Elements
  BY SumType, Indices
<1>2. Sum(f, 0, Last) \oplus x \in Elements
  BY <1>1, Closed
<1>3. Sum(h, 0, Last) = Sum(f, 0, Last) \oplus (Sum(f, 0, Last) \oplus x)
  BY <1>2, SumIfLast
<1> QED
  BY <1>1, <1>3, PlusTwice

LEMMA CollectedType ==
  ASSUME NEW D \in [Parties -> TapeType], NEW k \in Int, 0 - 1 <= k, k <= Last
  PROVE  Collected(D, k) \in TapeType
<1>1. \A p \in 0 .. k : p \in Parties
  BY Indices
<1>2. Sum([p \in Parties |-> D[p].pt], 0, k) \in Elements
  <2> DEFINE f == [p \in Parties |-> D[p].pt]
  <2>1. \A p \in 0 .. k : f[p] \in Elements
    BY <1>1 DEF TapeType
  <2> HIDE DEF f
  <2>2. Sum(f, 0, k) \in Elements
    BY <2>1, SumType
  <2> QED
    BY <2>2 DEF f
<1>3. Sum([p \in Parties |-> D[p].c], 0, k) \in Elements
  <2> DEFINE f == [p \in Parties |-> D[p].c]
  <2>1. \A p \in 0 .. k : f[p] \in Elements
    BY <1>1 DEF TapeType
  <2> HIDE DEF f
  <2>2. Sum(f, 0, k) \in Elements
    BY <2>1, SumType
  <2> QED
    BY <2>2 DEF f
<1>4. ASSUME NEW i \in 1 .. L
      PROVE  Sum([p \in Parties |-> D[p].y[i]], 0, k) \in Elements
  <2> DEFINE f == [p \in Parties |-> D[p].y[i]]
  <2>1. \A p \in 0 .. k : f[p] \in Elements
    BY <1>1 DEF TapeType
  <2> HIDE DEF f
  <2>2. Sum(f, 0, k) \in Elements
    BY <2>1, SumType
  <2> QED
    BY <2>2 DEF f
<1>5. ASSUME NEW i \in Boxes
      PROVE  Sum([p \in Parties |-> D[p].a[i]], 0, k) \in Elements
  <2> DEFINE f == [p \in Parties |-> D[p].a[i]]
  <2>1. \A p \in 0 .. k : f[p] \in Elements
    BY <1>1 DEF TapeType
  <2> HIDE DEF f
  <2>2. Sum(f, 0, k) \in Elements
    BY <2>1, SumType
  <2> QED
    BY <2>2 DEF f
<1> QED
  BY <1>2, <1>3, <1>4, <1>5 DEF Collected, TapeType

LEMMA LackingType ==
  ASSUME NEW D \in [Parties -> TapeType], NEW pt \in Elements, NEW ct \in Elements
  PROVE  Lacking(D, pt, ct) \in TapeType
<1> DEFINE C == Collected(D, Last)
           out == SboxOutputs(pt, ct)
           f == [i \in Boxes |-> C.a[i] \otimes out[i]]
<1>1. C \in TapeType
  BY CollectedType, Indices
<1>2. \A i \in Boxes : out[i] \in Elements
  BY SboxTypes
<1> HIDE DEF C, out
<1>3. \A i \in 1 .. L + 1 : f[i] \in Elements
  BY <1>1, <1>2, Field, Closed DEF TapeType
<1> HIDE DEF f
<1>4. Sum(f, 1, L + 1) \in Elements
  BY <1>3, SumType, Indices
<1>5. \A i \in 1 .. L : C.y[i] \oplus out[i] \in Elements
  BY <1>1, <1>2, Closed, Indices DEF TapeType
<1>6. C.pt \oplus pt \in Elements /\ C.c \oplus Sum(f, 1, L + 1) \in Elements
  BY <1>1, <1>4, Closed DEF TapeType
<1> QED
  BY <1>1, <1>5, <1>6 DEF Lacking, Offsets, TapeType, f, C, out

(* The parts of what a party is given.                                     *)
LEMMA GivenParts ==
  ASSUME NEW D \in [Parties -> TapeType], NEW pt \in Elements, NEW ct \in Elements,
         NEW p \in Parties
  PROVE  LET G == Given(D, pt, ct)[p]
             K == Lacking(D, pt, ct)
         IN  /\ G \in TapeType
             /\ G.pt = D[p].pt \oplus IfLast(p, K.pt)
             /\ \A i \in 1 .. L : G.y[i] = D[p].y[i] \oplus IfLast(p, K.y[i])
             /\ \A i \in Boxes : G.a[i] = D[p].a[i]
             /\ G.c = D[p].c \oplus IfLast(p, K.c)
<1> DEFINE G == Given(D, pt, ct)[p]
           K == Lacking(D, pt, ct)
<1>1. K \in TapeType
  BY LackingType
<1>2. D[p] \in TapeType
  OBVIOUS
<1>3. G = IF p = Last THEN Adjusted(D[p], K) ELSE D[p]
  BY DEF Given
<1> HIDE DEF K, G
<1>4. CASE p = Last
  <2>1. Adjusted(D[p], K) = [pt |-> D[p].pt \oplus K.pt,
                             y |-> [i \in 1 .. L |-> D[p].y[i] \oplus K.y[i]],
                             a |-> [i \in Boxes |-> D[p].a[i] \oplus Zero],
                             c |-> D[p].c \oplus K.c]
    BY <1>1 DEF Adjusted, AddTapes, TapeType
  <2>2. \A i \in Boxes : D[p].a[i] \in Elements /\ D[p].a[i] \oplus Zero = D[p].a[i]
    BY <1>2, Field DEF TapeType
  <2>3. \A i \in 1 .. L : D[p].y[i] \oplus K.y[i] \in Elements
    BY <1>1, <1>2, Closed DEF TapeType
  <2>4. D[p].pt \oplus K.pt \in Elements /\ D[p].c \oplus K.c \in Elements
    BY <1>1, <1>2, Closed DEF TapeType
  <2>5. G \in TapeType
    BY <1>3, <1>4, <2>1, <2>2, <2>3, <2>4 DEF TapeType
  <2>6. /\ G.pt = D[p].pt \oplus IfLast(p, K.pt)
        /\ \A i \in 1 .. L : G.y[i] = D[p].y[i] \oplus IfLast(p, K.y[i])
        /\ \A i \in Boxes : G.a[i] = D[p].a[i]
        /\ G.c = D[p].c \oplus IfLast(p, K.c)
    BY <1>3, <1>4, <2>1, <2>2 DEF IfLast
  <2> QED
    BY <2>5, <2>6 DEF G, K
<1>5. CASE p # Last
  <2>1. /\ D[p].pt \oplus Zero = D[p].pt /\ D[p].c \oplus Zero = D[p].c
        /\ \A i \in 1 .. L : D[p].y[i] \oplus Zero = D[p].y[i]
    BY <1>2, Field DEF TapeType
  <2> QED
    BY <1>2, <1>3, <1>5, <2>1 DEF IfLast, G, K
<1> QED
  BY <1>4, <1>5

LEMMA GivenTotals ==
  ASSUME NEW D \in [Parties -> TapeType], NEW pt \in Elements, NEW ct \in Elements
  PROVE  LET G == Given(D, pt, ct)
             out == SboxOutputs(pt, ct)
             A == Collected(D, Last).a
         IN  /\ Sum([p \in Parties |-> G[p].pt], 0, Last) = pt
             /\ \A i \in 1 .. L : Sum([p \in Parties |-> G[p].y[i]], 0, Last) = out[i]
             /\ \A i \in Boxes : Sum([p \in Parties |-> G[p].a[i]], 0, Last) = A[i]
             /\ Sum([p \in Parties |-> G[p].c], 0, Last)
                  = Sum([i \in Boxes |-> A[i] \otimes out[i]], 1, L + 1)
<1> DEFINE G == Given(D, pt, ct)
           K == Lacking(D, pt, ct)
           C == Collected(D, Last)
           out == SboxOutputs(pt, ct)
           products == [i \in Boxes |-> C.a[i] \otimes out[i]]
<1>1. \A p \in Parties :
        /\ G[p].pt = D[p].pt \oplus IfLast(p, K.pt)
        /\ \A i \in 1 .. L : G[p].y[i] = D[p].y[i] \oplus IfLast(p, K.y[i])
        /\ \A i \in Boxes : G[p].a[i] = D[p].a[i]
        /\ G[p].c = D[p].c \oplus IfLast(p, K.c)
  BY GivenParts
<1>2. C \in TapeType
  BY CollectedType, Indices
<1>3. \A i \in Boxes : out[i] \in Elements
  BY SboxTypes
<1>4. /\ K.pt = C.pt \oplus pt
      /\ \A i \in 1 .. L : K.y[i] = C.y[i] \oplus out[i]
      /\ K.c = C.c \oplus Sum(products, 1, L + 1)
  BY DEF Lacking, Offsets
<1>5. /\ C.pt = Sum([p \in Parties |-> D[p].pt], 0, Last)
      /\ \A i \in 1 .. L : C.y[i] = Sum([p \in Parties |-> D[p].y[i]], 0, Last)
      /\ \A i \in Boxes : C.a[i] = Sum([p \in Parties |-> D[p].a[i]], 0, Last)
      /\ C.c = Sum([p \in Parties |-> D[p].c], 0, Last)
  BY DEF Collected
<1> HIDE DEF G, K, C, out
<1>6. Sum(products, 1, L + 1) \in Elements
  <2>1. \A i \in 1 .. L + 1 : products[i] \in Elements
    BY <1>2, <1>3, Field, Closed DEF TapeType
  <2> HIDE DEF products
  <2> QED
    BY <2>1, SumType, Indices
<1> HIDE DEF products
<1>7. Sum([p \in Parties |-> G[p].pt], 0, Last) = pt
  <2> DEFINE f == [p \in Parties |-> D[p].pt]
             h == [p \in Parties |-> G[p].pt]
  <2>1. \A p \in Parties : f[p] \in Elements
    BY DEF TapeType
  <2>2. \A p \in Parties : h[p] = f[p] \oplus IfLast(p, Sum(f, 0, Last) \oplus pt)
    BY <1>1, <1>4, <1>5
  <2> HIDE DEF f, h
  <2>3. Sum(h, 0, Last) = pt
    BY <2>1, <2>2, SumAdjusted
  <2> QED
    BY <2>3 DEF h
<1>8. ASSUME NEW i \in 1 .. L
      PROVE  Sum([p \in Parties |-> G[p].y[i]], 0, Last) = out[i]
  <2> DEFINE f == [p \in Parties |-> D[p].y[i]]
             h == [p \in Parties |-> G[p].y[i]]
             o == out[i]
  <2>1. \A p \in Parties : f[p] \in Elements
    BY DEF TapeType
  <2>5. K.y[i] = Sum(f, 0, Last) \oplus o
    <3>1. K.y[i] = C.y[i] \oplus out[i]
      BY <1>4
    <3>2. C.y[i] = Sum(f, 0, Last)
      BY <1>5
    <3> QED
      BY <3>1, <3>2
  <2>6. \A p \in Parties : G[p].y[i] = D[p].y[i] \oplus IfLast(p, K.y[i])
    BY <1>1
  <2>2. \A p \in Parties : h[p] = f[p] \oplus IfLast(p, Sum(f, 0, Last) \oplus o)
    BY <2>5, <2>6
  <2>3. o \in Elements
    BY <1>3, Indices
  <2> HIDE DEF f, h, o
  <2>4. Sum(h, 0, Last) = o
    BY <2>1, <2>2, <2>3, SumAdjusted
  <2> QED
    BY <2>4 DEF h, o
<1>9. ASSUME NEW i \in Boxes
      PROVE  Sum([p \in Parties |-> G[p].a[i]], 0, Last) = C.a[i]
  <2> DEFINE f == [p \in Parties |-> D[p].a[i]]
             h == [p \in Parties |-> G[p].a[i]]
  <2>1. \A p \in 0 .. Last : f[p] = h[p]
    BY <1>1, Indices
  <2> HIDE DEF f, h
  <2>2. Sum(f, 0, Last) = Sum(h, 0, Last)
    BY <2>1, SumEqual, Indices
  <2> QED
    BY <1>5, <2>2 DEF f, h
<1>10. Sum([p \in Parties |-> G[p].c], 0, Last) = Sum(products, 1, L + 1)
  <2> DEFINE f == [p \in Parties |-> D[p].c]
             h == [p \in Parties |-> G[p].c]
             o == Sum(products, 1, L + 1)
  <2>1. \A p \in Parties : f[p] \in Elements
    BY DEF TapeType
  <2>2. \A p \in Parties : h[p] = f[p] \oplus IfLast(p, Sum(f, 0, Last) \oplus o)
    BY <1>1, <1>4, <1>5
  <2>3. o \in Elements
    BY <1>6
  <2> HIDE DEF f, h, o
  <2>4. Sum(h, 0, Last) = o
    BY <2>1, <2>2, <2>3, SumAdjusted
  <2> QED
    BY <2>4 DEF h, o
<1> QED
  BY <1>7, <1>8, <1>9, <1>10 DEF G, C, out, products

LEMMA GivenOutput ==
  ASSUME NEW D \in [Parties -> TapeType], NEW pt \in Elements, NEW ct \in Elements,
         NEW i \in 1 .. L
  PROVE  Sum([p \in Parties |-> Given(D, pt, ct)[p].y[i]], 0, Last) = SboxOutputs(pt, ct)[i]
<1> DEFINE G == Given(D, pt, ct)
<1>1. \A j \in 1 .. L : Sum([p \in Parties |-> G[p].y[j]], 0, Last) = SboxOutputs(pt, ct)[j]
  BY GivenTotals
<1> QED
  BY <1>1, Zenon

-----------------------------------------------------------------------------
(* What the shares of the simulated parties add up to.                     *)

BoxInput(pt, i) == IF i <= L THEN SboxInput(i, pt) ELSE LastInput(pt)

Powered(pt, i) == Frobenius(Exponents[i], BoxInput(pt, i)) \oplus One

LEMMA BoxInputType ==
  ASSUME NEW pt \in Elements, NEW i \in Boxes
  PROVE  BoxInput(pt, i) \in Elements /\ Powered(pt, i) \in Elements
<1>1. BoxInput(pt, i) \in Elements
  BY SboxTypes, Indices DEF BoxInput
<1>2. Frobenius(Exponents[i], BoxInput(pt, i)) \in Elements
  BY <1>1, Tables, FrobeniusAdds
<1> QED
  BY <1>1, <1>2, Closed, Field DEF Powered

LEMMA MappedTotal ==
  ASSUME NEW M, NEW f, NEW h, NEW x, Additive(M),
         \A p \in Parties : f[p] \in Elements /\ h[p] = M[f[p]],
         Sum(f, 0, Last) = x
  PROVE  Sum(h, 0, Last) = M[x] /\ \A p \in Parties : h[p] \in Elements
<1>1. \A k \in 0 .. Last : f[k] \in Elements /\ h[k] = M[f[k]]
  BY Indices
<1>3. Sum(h, 0, Last) = M[Sum(f, 0, Last)]
  BY <1>1, SumMapped, Indices
<1>4. \A p \in Parties : h[p] \in Elements
  BY DEF Additive
<1> QED
  BY <1>3, <1>4

LEMMA FirstInputs ==
  ASSUME NEW D \in [Parties -> TapeType], NEW pt \in Elements, NEW ct \in Elements,
         NEW i \in 1 .. L
  PROVE  LET G == Given(D, pt, ct)
         IN  /\ \A p \in Parties : XShares(G[p], p)[i] \in Elements
             /\ Sum([p \in Parties |-> XShares(G[p], p)[i]], 0, Last) = SboxInput(i, pt)
<1> DEFINE G == Given(D, pt, ct)
           f == [p \in Parties |-> G[p].pt]
           g == [p \in Parties |-> MatA[i][f[p]]]
           h == [p \in Parties |-> XShares(G[p], p)[i]]
<1>1. \A p \in Parties : f[p] \in Elements
  BY GivenParts DEF TapeType
<1>2. Sum(f, 0, Last) = pt
  BY GivenTotals
<1>3. VecB[i] \in Elements /\ i \in 1 .. 2 * L /\ i \in Boxes /\ i <= L
  BY Tables, Indices
<1>4. \A p \in Parties : h[p] = g[p] \oplus IfLast(p, VecB[i])
  BY <1>3 DEF XShares
<1>5. \A p \in Parties : IfLast(p, VecB[i]) \in Elements
  BY <1>3, Field DEF IfLast
<1> DEFINE M == MatA[i]
<1>6. Additive(M)
  BY <1>3, Tables DEF Additive
<1>7. \A p \in Parties : f[p] \in Elements /\ g[p] = M[f[p]]
  BY <1>1
<1> HIDE DEF f, g, h, M, G
<1>8. Sum(g, 0, Last) = M[pt] /\ \A p \in Parties : g[p] \in Elements
  BY <1>2, <1>6, <1>7, MappedTotal
<1>9. Sum(h, 0, Last) = M[pt] \oplus VecB[i]
  BY <1>3, <1>4, <1>8, SumIfLast
<1>10. \A p \in Parties : h[p] \in Elements
  BY <1>4, <1>5, <1>8, Closed
<1> QED
  BY <1>9, <1>10 DEF SboxInput, h, M, G

LEMMA LastInputs ==
  ASSUME NEW D \in [Parties -> TapeType], NEW pt \in Elements, NEW ct \in Elements
  PROVE  LET G == Given(D, pt, ct)
         IN  /\ \A p \in Parties : XShares(G[p], p)[L + 1] \in Elements
             /\ Sum([p \in Parties |-> XShares(G[p], p)[L + 1]], 0, Last) = LastInput(pt)
<1> DEFINE G == Given(D, pt, ct)
           out(ell) == Sbox(ell, SboxInput(ell, pt))
           F == [ell \in 1 .. L |-> [p \in Parties |-> MatA[L + ell][G[p].y[ell]]]]
           B == [p \in Parties |-> [ell \in 1 .. L |-> MatA[L + ell][G[p].y[ell]]]]
           R == [ell \in 1 .. L |-> MatA[L + ell][out(ell)]]
           C == [p \in Parties |-> Sum(B[p], 1, L)]
           h == [p \in Parties |-> XShares(G[p], p)[L + 1]]
<1>1. \A p \in Parties : G[p] \in TapeType
  BY GivenParts
<1>2. VecB[L + 1] \in Elements /\ L + 1 \in Boxes /\ ~(L + 1 <= L)
  BY Tables, Indices
<1>3. \A p \in Parties : h[p] = C[p] \oplus IfLast(p, VecB[L + 1])
  BY <1>2 DEF XShares
<1>4. ASSUME NEW ell \in 1 .. L
      PROVE  /\ \A p \in Parties : F[ell][p] \in Elements
             /\ R[ell] = Sum(F[ell], 0, Last)
  <2> DEFINE f == [p \in Parties |-> G[p].y[ell]]
             M == MatA[L + ell]
             g == F[ell]
             o == out(ell)
  <2>1. \A p \in Parties : f[p] \in Elements /\ g[p] = M[f[p]]
    BY <1>1 DEF TapeType
  <2>2. Sum(f, 0, Last) = SboxOutputs(pt, ct)[ell]
    BY GivenOutput
  <2>3. Sum(f, 0, Last) = o
    BY <2>2, Indices DEF SboxOutputs
  <2>4. L + ell \in 1 .. 2 * L
    BY Indices
  <2>5. Additive(M)
    BY <2>4, Tables DEF Additive
  <2>6. R[ell] = M[o]
    OBVIOUS
  <2> HIDE DEF f, g, M, F, R, o
  <2>7. Sum(g, 0, Last) = M[o] /\ \A p \in Parties : g[p] \in Elements
    BY <2>1, <2>3, <2>5, MappedTotal
  <2> QED
    BY <2>6, <2>7 DEF g
<1>5. \A ell \in 1 .. L : \A p \in Parties : B[p][ell] = F[ell][p]
  OBVIOUS
<1>6. \A p \in Parties : C[p] = Sum(B[p], 1, L)
  OBVIOUS
<1>7. LastInput(pt) = Sum(R, 1, L) \oplus VecB[L + 1]
  BY DEF LastInput
<1> HIDE DEF F, B, R, C, h, G
<1>8. Table(F, B, R, C, 1, L, 0, Last)
  BY <1>4, <1>5, <1>6, Indices DEF Table
<1>9. Sum(R, 1, L) = Sum(C, 0, Last)
  <2>1. 1 \in Int /\ L \in Int /\ 1 - 1 <= L /\ 0 \in Int /\ Last \in Int /\ 0 - 1 <= Last
    BY Indices
  <2> QED
    BY <1>8, <2>1, SumSwapped
<1>10. \A p \in Parties : C[p] \in Elements
  <2> SUFFICES ASSUME NEW p \in Parties PROVE C[p] \in Elements
    OBVIOUS
  <2> DEFINE b == B[p]
  <2>1. \A ell \in 1 .. L : b[ell] \in Elements
    BY <1>8, Indices DEF Table
  <2> HIDE DEF b
  <2>2. Sum(b, 1, L) \in Elements
    BY <2>1, SumType, Indices
  <2> QED
    BY <1>6, <2>2 DEF b
<1>11. Sum(h, 0, Last) = Sum(C, 0, Last) \oplus VecB[L + 1]
  BY <1>2, <1>3, <1>10, SumIfLast
<1>12. \A p \in Parties : h[p] \in Elements
  <2>1. \A p \in Parties : IfLast(p, VecB[L + 1]) \in Elements
    BY <1>2, Field DEF IfLast
  <2> QED
    BY <2>1, <1>3, <1>10, Closed
<1> QED
  BY <1>7, <1>9, <1>11, <1>12 DEF h, G

LEMMA XTotals ==
  ASSUME NEW D \in [Parties -> TapeType], NEW pt \in Elements, NEW ct \in Elements,
         NEW i \in Boxes
  PROVE  LET G == Given(D, pt, ct)
         IN  /\ \A p \in Parties : XShares(G[p], p)[i] \in Elements
             /\ Sum([p \in Parties |-> XShares(G[p], p)[i]], 0, Last) = BoxInput(pt, i)
<1>1. CASE i <= L
  <2>1. i \in 1 .. L
    BY <1>1, Indices
  <2> QED
    BY <1>1, <2>1, FirstInputs DEF BoxInput
<1>2. CASE ~(i <= L)
  <2>1. i = L + 1
    BY <1>2, Indices
  <2> QED
    BY <1>2, <2>1, LastInputs DEF BoxInput
<1> QED
  BY <1>1, <1>2

LEMMA BTotals ==
  ASSUME NEW D \in [Parties -> TapeType], NEW pt \in Elements, NEW ct \in Elements,
         NEW i \in Boxes
  PROVE  LET G == Given(D, pt, ct)
         IN  /\ \A p \in Parties : BShares(G[p], ct, p)[i] \in Elements
             /\ Sum([p \in Parties |-> BShares(G[p], ct, p)[i]], 0, Last)
                  = SboxOutputs(pt, ct)[i]
<1> DEFINE G == Given(D, pt, ct)
           h == [p \in Parties |-> BShares(G[p], ct, p)[i]]
<1>1. \A p \in Parties : G[p] \in TapeType
  BY GivenParts
<1>2. CASE i <= L
  <2>1. i \in 1 .. L
    BY <1>2, Indices
  <2>2. h = [p \in Parties |-> G[p].y[i]]
    BY <1>2 DEF BShares
  <2>3. \A p \in Parties : h[p] \in Elements
    BY <1>1, <2>1, <2>2 DEF TapeType
  <2>4. Sum([p \in Parties |-> G[p].y[i]], 0, Last) = SboxOutputs(pt, ct)[i]
    BY <2>1, GivenOutput
  <2> QED
    BY <2>2, <2>3, <2>4
<1>3. CASE ~(i <= L)
  <2> DEFINE f == [p \in Parties |-> G[p].pt]
  <2>1. \A p \in Parties : f[p] \in Elements /\ h[p] = f[p] \oplus IfLast(p, ct)
    BY <1>1, <1>3 DEF BShares, TapeType
  <2>2. Sum(f, 0, Last) = pt
    BY GivenTotals
  <2>3. SboxOutputs(pt, ct)[i] = pt \oplus ct
    BY <1>3 DEF SboxOutputs
  <2>4. \A p \in Parties : IfLast(p, ct) \in Elements
    BY Field DEF IfLast
  <2> HIDE DEF f, h, G
  <2>5. Sum(h, 0, Last) = pt \oplus ct
    BY <2>1, <2>2, SumIfLast
  <2>6. \A p \in Parties : h[p] \in Elements
    BY <2>1, <2>4, Closed
  <2> QED
    BY <2>3, <2>5, <2>6 DEF h, G
<1> QED
  BY <1>2, <1>3

LEMMA ZTotals ==
  ASSUME NEW D \in [Parties -> TapeType], NEW pt \in Elements, NEW ct \in Elements,
         NEW i \in Boxes
  PROVE  LET G == Given(D, pt, ct)
         IN  /\ \A p \in Parties : ZShares(XShares(G[p], p), p)[i] \in Elements
             /\ Sum([p \in Parties |-> ZShares(XShares(G[p], p), p)[i]], 0, Last)
                  = Powered(pt, i)
<1> DEFINE G == Given(D, pt, ct)
           f == [p \in Parties |-> XShares(G[p], p)[i]]
           M == [x \in Elements |-> Frobenius(Exponents[i], x)]
           g == [p \in Parties |-> M[f[p]]]
           h == [p \in Parties |-> ZShares(XShares(G[p], p), p)[i]]
           x == BoxInput(pt, i)
<1>1. Exponents[i] \in Nat
  BY Tables
<1>2. Additive(M)
  BY <1>1, FrobeniusAdds, Closed DEF Additive
<1>3. \A p \in Parties : f[p] \in Elements /\ g[p] = M[f[p]]
  BY XTotals
<1>4. Sum(f, 0, Last) = x
  BY XTotals
<1>5. \A p \in Parties : h[p] = g[p] \oplus IfLast(p, One)
  BY <1>3 DEF ZShares
<1>6. \A p \in Parties : IfLast(p, One) \in Elements
  BY Field DEF IfLast
<1>7. M[x] \oplus One = Powered(pt, i)
  BY BoxInputType DEF Powered
<1> HIDE DEF f, g, h, M, G, x
<1>8. Sum(g, 0, Last) = M[x] /\ \A p \in Parties : g[p] \in Elements
  BY <1>2, <1>3, <1>4, MappedTotal
<1>11. One \in Elements
  BY Field
<1>9. Sum(h, 0, Last) = M[x] \oplus One
  BY <1>5, <1>8, <1>11, SumIfLast
<1>10. \A p \in Parties : h[p] \in Elements
  BY <1>5, <1>6, <1>8, Closed
<1> QED
  BY <1>7, <1>9, <1>10 DEF h, G

-----------------------------------------------------------------------------
(* The v shares add up to what the witness lacks.                          *)

Weighted(S, w, t) ==
  \A i \in Boxes : /\ w[i] \in Elements
                   /\ \A p \in Parties : S[p][i] \in Elements
                   /\ t[i] = Sum([p \in Parties |-> S[p][i]], 0, Last)

LEMMA WeightedTotals ==
  ASSUME NEW S, NEW w, NEW t, Weighted(S, w, t)
  PROVE  LET rows == [p \in Parties |-> Sum([i \in Boxes |-> S[p][i] \otimes w[i]], 1, L + 1)]
         IN  /\ \A p \in Parties : rows[p] \in Elements
             /\ Sum(rows, 0, Last) = Sum([i \in Boxes |-> t[i] \otimes w[i]], 1, L + 1)
<1> DEFINE B == [p \in Parties |-> [i \in Boxes |-> S[p][i] \otimes w[i]]]
           F == [i \in Boxes |-> [p \in Parties |-> S[p][i] \otimes w[i]]]
           R == [i \in Boxes |-> t[i] \otimes w[i]]
           C == [p \in Parties |-> Sum([i \in Boxes |-> S[p][i] \otimes w[i]], 1, L + 1)]
<1> USE DEF Weighted
<1>1. ASSUME NEW i \in Boxes
      PROVE  R[i] = Sum(F[i], 0, Last)
  <2> DEFINE f == [p \in Parties |-> S[p][i]]
             h == F[i]
             c == w[i]
  <2>1. \A k \in 0 .. Last : f[k] \in Elements /\ h[k] = f[k] \otimes c
    BY Indices
  <2>2. t[i] = Sum(f, 0, Last) /\ c \in Elements
    OBVIOUS
  <2>3. R[i] = t[i] \otimes c
    OBVIOUS
  <2> HIDE DEF f, h, c, R, F
  <2>4. Sum(h, 0, Last) = Sum(f, 0, Last) \otimes c
    <3>1. 0 \in Int /\ Last \in Int /\ 0 - 1 <= Last
      BY Indices
    <3> QED
      BY <2>1, <2>2, <3>1, SumScaled
  <2> QED
    BY <2>2, <2>3, <2>4 DEF h
<1>2. \A i \in Boxes : \A p \in Parties : F[i][p] \in Elements /\ B[p][i] = F[i][p]
  BY Closed
<1>3. \A p \in Parties : C[p] = Sum(B[p], 1, L + 1)
  OBVIOUS
<1>6. R = [i \in Boxes |-> t[i] \otimes w[i]]
  OBVIOUS
<1> HIDE DEF F, B, R, C
<1>4. Table(F, B, R, C, 1, L + 1, 0, Last)
  <2>1. 1 .. L + 1 = Boxes /\ 0 .. Last = Parties
    BY Field, Indices
  <2> QED
    BY <1>1, <1>2, <1>3, <2>1 DEF Table
<1>5. 1 \in Int /\ L + 1 \in Int /\ 1 - 1 <= L + 1 /\ 0 \in Int /\ Last \in Int /\ 0 - 1 <= Last
  BY Indices
<1>7. Sum(R, 1, L + 1) = Sum(C, 0, Last)
  BY <1>4, <1>5, SumSwapped
<1>8. \A p \in Parties : C[p] \in Elements
  <2> SUFFICES ASSUME NEW p \in Parties PROVE C[p] \in Elements
    OBVIOUS
  <2> DEFINE b == B[p]
  <2>1. \A i \in 1 .. L + 1 : b[i] \in Elements
    BY <1>2, Field
  <2> HIDE DEF b
  <2>2. Sum(b, 1, L + 1) \in Elements
    BY <2>1, <1>5, SumType
  <2> QED
    BY <1>3, <2>2 DEF b
<1> QED
  BY <1>7, <1>8, <1>6 DEF C

(* What one repetition leaves with party p, and what it opens.             *)
Check(D, pt, ct) == [p \in Parties |-> Mpc(Given(D, pt, ct)[p], ct, p)]

Alphas(D, pt, ct, eps) ==
  [i \in Boxes |-> Sum([p \in Parties |-> AlphaShare(Check(D, pt, ct)[p], eps)[i]], 0, Last)]

Values(D, pt, ct, eps) ==
  [p \in Parties |-> VShare(Check(D, pt, ct)[p], eps)
                       \oplus Opening(Check(D, pt, ct)[p].b, Alphas(D, pt, ct, eps))]

GapOf(pt, ct, i) ==
  (BoxInput(pt, i) \otimes SboxOutputs(pt, ct)[i]) \oplus Powered(pt, i)

LEMMA CheckParts ==
  ASSUME NEW D \in [Parties -> TapeType], NEW pt \in Elements, NEW ct \in Elements,
         NEW p \in Parties
  PROVE  LET G == Given(D, pt, ct)
             M == Check(D, pt, ct)
         IN  /\ M[p].a = G[p].a /\ M[p].c = G[p].c
             /\ M[p].b = BShares(G[p], ct, p)
             /\ M[p].x = XShares(G[p], p)
             /\ M[p].z = ZShares(XShares(G[p], p), p)
BY DEF Check, Mpc

LEMMA AlphaTotals ==
  ASSUME NEW D \in [Parties -> TapeType], NEW pt \in Elements, NEW ct \in Elements,
         NEW eps \in [Boxes -> Elements], NEW i \in Boxes
  PROVE  /\ \A p \in Parties : AlphaShare(Check(D, pt, ct)[p], eps)[i] \in Elements
         /\ Alphas(D, pt, ct, eps)[i] \in Elements
         /\ Alphas(D, pt, ct, eps)[i]
              = Collected(D, Last).a[i] \oplus (BoxInput(pt, i) \otimes eps[i])
<1> DEFINE G == Given(D, pt, ct)
           f == [p \in Parties |-> G[p].a[i]]
           x == [p \in Parties |-> XShares(G[p], p)[i]]
           g == [p \in Parties |-> x[p] \otimes eps[i]]
           h == [p \in Parties |-> AlphaShare(Check(D, pt, ct)[p], eps)[i]]
           c == eps[i]
<1>14. \A p \in Parties : G[p] \in TapeType
  BY GivenParts
<1>1. \A p \in Parties : f[p] \in Elements
  BY <1>14 DEF TapeType
<1>2. \A p \in Parties : x[p] \in Elements /\ g[p] = x[p] \otimes c
  BY XTotals
<1>3. Sum(x, 0, Last) = BoxInput(pt, i)
  BY XTotals
<1>4. Sum(f, 0, Last) = Collected(D, Last).a[i]
  <2>1. \A j \in Boxes : Sum([p \in Parties |-> G[p].a[j]], 0, Last) = Collected(D, Last).a[j]
    BY GivenTotals
  <2> QED
    BY <2>1, Zenon
<1>5. \A p \in Parties : h[p] = f[p] \oplus g[p]
  BY CheckParts DEF AlphaShare
<1>6. Alphas(D, pt, ct, eps)[i] = Sum(h, 0, Last)
  BY DEF Alphas
<1>7. c \in Elements
  OBVIOUS
<1> HIDE DEF f, g, h, x, c, G
<1>8. 0 \in Int /\ Last \in Int /\ 0 - 1 <= Last /\ Parties = 0 .. Last
  BY Indices
<1>9. Sum(g, 0, Last) = Sum(x, 0, Last) \otimes c
  BY <1>2, <1>7, <1>8, SumScaled
<1>10. \A p \in Parties : g[p] \in Elements /\ h[p] \in Elements
  BY <1>1, <1>2, <1>5, <1>7, Closed
<1>11. \A k \in 0 .. Last : f[k] \in Elements /\ g[k] \in Elements /\ h[k] = f[k] \oplus g[k]
  BY <1>1, <1>5, <1>8, <1>10
<1>12. Sum(h, 0, Last) = Sum(f, 0, Last) \oplus Sum(g, 0, Last)
  BY <1>8, <1>11, SumPlus
<1>13. Sum(h, 0, Last) \in Elements
  BY <1>8, <1>10, SumType
<1> QED
  BY <1>3, <1>4, <1>6, <1>9, <1>10, <1>12, <1>13 DEF h, c

LEMMA BoxRelation ==
  ASSUME NEW a \in Elements, NEW o \in Elements, NEW q \in Elements, NEW e \in Elements,
         NEW x \in Elements
  PROVE  ((a \otimes o) \oplus (q \otimes e)) \oplus (o \otimes (a \oplus (x \otimes e)))
           = ((x \otimes o) \oplus q) \otimes e
<1> DEFINE ao == a \otimes o
           qe == q \otimes e
           xo == x \otimes o
           xe == x \otimes e
           xoe == xo \otimes e
<1>1. /\ ao \in Elements /\ qe \in Elements /\ xo \in Elements /\ xe \in Elements
      /\ xoe \in Elements
  BY Closed
<1>2. o \otimes (a \oplus xe) = (o \otimes a) \oplus (o \otimes xe)
  BY <1>1, Distributes
<1>3. o \otimes a = ao
  BY Field
<1>4. o \otimes xe = xoe
  <2>1. (o \otimes x) \otimes e = o \otimes xe
    BY TimesAssoc
  <2>2. o \otimes x = xo
    BY Field
  <2> QED
    BY <2>1, <2>2
<1>5. (ao \oplus qe) \oplus (ao \oplus xoe) = (ao \oplus ao) \oplus (qe \oplus xoe)
  BY <1>1, Exchange
<1>6. qe \oplus xoe \in Elements
  BY <1>1, Closed
<1>7. (ao \oplus ao) \oplus (qe \oplus xoe) = xoe \oplus qe
  <2> HIDE DEF ao, qe, xoe
  <2>1. ao \oplus ao = Zero /\ Zero \in Elements
    BY <1>1, Field
  <2>2. Zero \oplus (qe \oplus xoe) = (qe \oplus xoe) \oplus Zero
    BY <1>6, <2>1, Field
  <2>3. (qe \oplus xoe) \oplus Zero = qe \oplus xoe
    BY <1>6, Field
  <2>4. qe \oplus xoe = xoe \oplus qe
    BY <1>1, Field
  <2> QED
    BY <2>1, <2>2, <2>3, <2>4
<1>8. (xo \oplus q) \otimes e = xoe \oplus qe
  BY <1>1, DistributesRight
<1> QED
  BY <1>2, <1>3, <1>4, <1>5, <1>7, <1>8

LEMMA GapTotals ==
  ASSUME NEW D \in [Parties -> TapeType], NEW pt \in Elements, NEW ct \in Elements,
         NEW eps \in [Boxes -> Elements]
  PROVE  /\ \A p \in Parties : Values(D, pt, ct, eps)[p] \in Elements
         /\ Sum(Values(D, pt, ct, eps), 0, Last)
              = Sum([i \in Boxes |-> GapOf(pt, ct, i) \otimes eps[i]], 1, L + 1)
<1> DEFINE G == Given(D, pt, ct)
           M == Check(D, pt, ct)
           A == Collected(D, Last).a
           out == SboxOutputs(pt, ct)
           alpha == Alphas(D, pt, ct, eps)
           power == [i \in Boxes |-> Powered(pt, i)]
           Z == [p \in Parties |-> M[p].z]
           B == [p \in Parties |-> M[p].b]
           c == [p \in Parties |-> M[p].c]
           z == [p \in Parties |-> Sum([i \in Boxes |-> Z[p][i] \otimes eps[i]], 1, L + 1)]
           b == [p \in Parties |-> Sum([i \in Boxes |-> B[p][i] \otimes alpha[i]], 1, L + 1)]
           cz == [p \in Parties |-> c[p] \oplus z[p]]
           v == Values(D, pt, ct, eps)
           fc == [i \in Boxes |-> A[i] \otimes out[i]]
           fz == [i \in Boxes |-> power[i] \otimes eps[i]]
           fb == [i \in Boxes |-> out[i] \otimes alpha[i]]
           fcz == [i \in Boxes |-> fc[i] \oplus fz[i]]
           g == [i \in Boxes |-> GapOf(pt, ct, i) \otimes eps[i]]
<1>1. \A p \in Parties : v[p] = cz[p] \oplus b[p]
  BY DEF Values, VShare, Opening
<1>2. \A p \in Parties : c[p] \in Elements
  <2>1. \A p \in Parties : G[p] \in TapeType /\ M[p].c = G[p].c
    BY GivenParts, CheckParts
  <2> QED
    BY <2>1 DEF TapeType
<1>3. Sum(c, 0, Last) = Sum(fc, 1, L + 1)
  <2>1. c = [p \in Parties |-> G[p].c]
    BY CheckParts
  <2>2. Sum([p \in Parties |-> G[p].c], 0, Last) = Sum(fc, 1, L + 1)
    BY GivenTotals
  <2> QED
    BY <2>1, <2>2
<1>4. \A i \in Boxes : /\ eps[i] \in Elements /\ alpha[i] \in Elements /\ power[i] \in Elements
                       /\ out[i] \in Elements /\ A[i] \in Elements
                       /\ BoxInput(pt, i) \in Elements
                       /\ alpha[i] = A[i] \oplus (BoxInput(pt, i) \otimes eps[i])
  <2>1. Collected(D, Last) \in TapeType
    BY CollectedType, Indices
  <2>2. \A i \in Boxes : A[i] \in Elements
    BY <2>1 DEF TapeType
  <2>3. \A i \in Boxes : /\ alpha[i] \in Elements
                         /\ alpha[i] = A[i] \oplus (BoxInput(pt, i) \otimes eps[i])
    BY AlphaTotals
  <2>4. \A i \in Boxes : power[i] \in Elements /\ BoxInput(pt, i) \in Elements
    BY BoxInputType
  <2>5. \A i \in Boxes : out[i] \in Elements
    BY SboxTypes
  <2> HIDE DEF A, alpha, power, out
  <2> QED
    BY <2>2, <2>3, <2>4, <2>5
<1>5. \A i \in Boxes : /\ \A p \in Parties : Z[p][i] \in Elements
                       /\ power[i] = Sum([p \in Parties |-> Z[p][i]], 0, Last)
  <2> SUFFICES ASSUME NEW i \in Boxes
               PROVE  /\ \A p \in Parties : Z[p][i] \in Elements
                      /\ power[i] = Sum([p \in Parties |-> Z[p][i]], 0, Last)
    OBVIOUS
  <2>3. \A p \in Parties : ZShares(XShares(G[p], p), p)[i] \in Elements
    BY ZTotals
  <2>4. Sum([p \in Parties |-> ZShares(XShares(G[p], p), p)[i]], 0, Last) = Powered(pt, i)
    BY ZTotals
  <2>1. [p \in Parties |-> Z[p][i]] = [p \in Parties |-> ZShares(XShares(G[p], p), p)[i]]
    BY CheckParts
  <2>2. \A p \in Parties : Z[p][i] = ZShares(XShares(G[p], p), p)[i]
    BY CheckParts
  <2> QED
    BY <2>1, <2>2, <2>3, <2>4
<1>6. \A i \in Boxes : /\ \A p \in Parties : B[p][i] \in Elements
                       /\ out[i] = Sum([p \in Parties |-> B[p][i]], 0, Last)
  <2> SUFFICES ASSUME NEW i \in Boxes
               PROVE  /\ \A p \in Parties : B[p][i] \in Elements
                      /\ out[i] = Sum([p \in Parties |-> B[p][i]], 0, Last)
    OBVIOUS
  <2>3. \A p \in Parties : BShares(G[p], ct, p)[i] \in Elements
    BY BTotals
  <2>4. Sum([p \in Parties |-> BShares(G[p], ct, p)[i]], 0, Last) = SboxOutputs(pt, ct)[i]
    BY BTotals
  <2>1. [p \in Parties |-> B[p][i]] = [p \in Parties |-> BShares(G[p], ct, p)[i]]
    BY CheckParts
  <2>2. \A p \in Parties : B[p][i] = BShares(G[p], ct, p)[i]
    BY CheckParts
  <2> QED
    BY <2>1, <2>2, <2>3, <2>4
<1>7. \A i \in Boxes : GapOf(pt, ct, i) = (BoxInput(pt, i) \otimes out[i]) \oplus power[i]
  BY DEF GapOf
<1> HIDE DEF G, M, A, out, alpha, power, Z, B, c, v
<1>8. (\A p \in Parties : z[p] \in Elements) /\ Sum(z, 0, Last) = Sum(fz, 1, L + 1)
  <2>1. Weighted(Z, eps, power)
    BY <1>4, <1>5 DEF Weighted
  <2> QED
    BY <2>1, WeightedTotals
<1>9. (\A p \in Parties : b[p] \in Elements) /\ Sum(b, 0, Last) = Sum(fb, 1, L + 1)
  <2>1. Weighted(B, alpha, out)
    BY <1>4, <1>6 DEF Weighted
  <2> QED
    BY <2>1, WeightedTotals
<1> HIDE DEF z, b
<1>10. \A p \in Parties : cz[p] \in Elements /\ v[p] \in Elements
  <2>1. \A p \in Parties : cz[p] = c[p] \oplus z[p]
    OBVIOUS
  <2> HIDE DEF cz
  <2>2. \A p \in Parties : cz[p] \in Elements
    BY <1>2, <1>8, <2>1, Closed
  <2> QED
    BY <1>1, <1>9, <2>2, Closed
<1>11. \A i \in Boxes : /\ fc[i] \in Elements /\ fz[i] \in Elements /\ fb[i] \in Elements
                        /\ fcz[i] \in Elements
                        /\ g[i] = fcz[i] \oplus fb[i]
  <2> SUFFICES ASSUME NEW i \in Boxes
               PROVE  /\ fc[i] \in Elements /\ fz[i] \in Elements /\ fb[i] \in Elements
                      /\ fcz[i] \in Elements
                      /\ g[i] = fcz[i] \oplus fb[i]
    OBVIOUS
  <2> DEFINE a == A[i]
             o == out[i]
             q == power[i]
             e == eps[i]
             x == BoxInput(pt, i)
  <2>1. a \in Elements /\ o \in Elements /\ q \in Elements /\ e \in Elements /\ x \in Elements
    BY <1>4
  <2>2. /\ fc[i] = a \otimes o /\ fz[i] = q \otimes e /\ fb[i] = o \otimes alpha[i]
        /\ fcz[i] = fc[i] \oplus fz[i] /\ g[i] = GapOf(pt, ct, i) \otimes e
    OBVIOUS
  <2>3. alpha[i] = a \oplus (x \otimes e) /\ GapOf(pt, ct, i) = (x \otimes o) \oplus q
    BY <1>4, <1>7
  <2>4. alpha[i] \in Elements
    BY <1>4
  <2> HIDE DEF a, o, q, e, x, fc, fz, fb, fcz, g
  <2>5. fc[i] \in Elements /\ fz[i] \in Elements /\ fb[i] \in Elements
    BY <2>1, <2>2, <2>4, Closed
  <2>6. fcz[i] \in Elements
    BY <2>2, <2>5, Closed
  <2>7. ((a \otimes o) \oplus (q \otimes e)) \oplus (o \otimes (a \oplus (x \otimes e)))
          = ((x \otimes o) \oplus q) \otimes e
    BY <2>1, BoxRelation
  <2> QED
    BY <2>2, <2>3, <2>5, <2>6, <2>7
<1>12. \A i \in Boxes : fcz[i] = fc[i] \oplus fz[i]
  OBVIOUS
<1>13. \A p \in Parties : cz[p] = c[p] \oplus z[p]
  OBVIOUS
<1> HIDE DEF fc, fz, fb, fcz, g, cz
<1>14. /\ 1 \in Int /\ L + 1 \in Int /\ 1 - 1 <= L + 1 /\ 0 \in Int /\ Last \in Int /\ 0 - 1 <= Last
       /\ Parties = 0 .. Last /\ Boxes = 1 .. L + 1
  BY Indices, Field
<1>15. Sum(cz, 0, Last) = Sum(c, 0, Last) \oplus Sum(z, 0, Last)
  <2>1. \A k \in 0 .. Last : c[k] \in Elements /\ z[k] \in Elements /\ cz[k] = c[k] \oplus z[k]
    BY <1>2, <1>8, <1>13, <1>14
  <2>2. 0 \in Int /\ Last \in Int /\ 0 - 1 <= Last
    BY <1>14
  <2> QED
    BY <2>1, <2>2, SumPlus
<1>16. Sum(v, 0, Last) = Sum(cz, 0, Last) \oplus Sum(b, 0, Last)
  <2>1. \A k \in 0 .. Last : cz[k] \in Elements /\ b[k] \in Elements /\ v[k] = cz[k] \oplus b[k]
    BY <1>1, <1>9, <1>10, <1>14
  <2> QED
    BY <1>14, <2>1, SumPlus
<1>17. Sum(fcz, 1, L + 1) = Sum(fc, 1, L + 1) \oplus Sum(fz, 1, L + 1)
  <2>1. \A k \in 1 .. L + 1 : fc[k] \in Elements /\ fz[k] \in Elements /\ fcz[k] = fc[k] \oplus fz[k]
    BY <1>11, <1>12, <1>14
  <2> QED
    BY <1>14, <2>1, SumPlus
<1>18. Sum(g, 1, L + 1) = Sum(fcz, 1, L + 1) \oplus Sum(fb, 1, L + 1)
  <2>1. \A k \in 1 .. L + 1 : fcz[k] \in Elements /\ fb[k] \in Elements /\ g[k] = fcz[k] \oplus fb[k]
    BY <1>11, <1>14
  <2> QED
    BY <1>14, <2>1, SumPlus
<1> QED
  BY <1>3, <1>8, <1>9, <1>10, <1>15, <1>16, <1>17, <1>18 DEF v, g

-----------------------------------------------------------------------------
(* Sequences of anything, as functions.                                    *)

IsText(s, n) == n \in Nat /\ s = [j \in 1 .. n |-> s[j]]

LEMMA TextSeq ==
  ASSUME NEW s, NEW n, IsText(s, n), NEW S, \A j \in 1 .. n : s[j] \in S
  PROVE  s \in Seq(S) /\ Len(s) = n
<1>1. n \in Nat /\ s \in [1 .. n -> S] /\ DOMAIN s = 1 .. n
  BY DEF IsText
<1>2. s \in Seq(S)
  BY <1>1
<1>3. DOMAIN s = 1 .. Len(s) /\ Len(s) \in Nat
  BY <1>2, LenProperties
<1>4. Len(s) = n
  BY <1>1, <1>3
<1> QED
  BY <1>2, <1>4

Extended(g, s, n, e) ==
  IsText(g, n + 1) /\ (\A j \in 1 .. n : g[j] = s[j]) /\ g[n + 1] = e

Joined(g, s, n, t, m) ==
  /\ IsText(g, n + m)
  /\ \A j \in 1 .. n : g[j] = s[j]
  /\ \A j \in 1 .. m : g[n + j] = t[j]

LEMMA TextAppend ==
  ASSUME NEW s, NEW n, IsText(s, n), NEW e
  PROVE  Extended(Append(s, e), s, n, e)
<1> DEFINE S == {s[j] : j \in 1 .. n} \cup {e}
<1>1. s \in Seq(S) /\ Len(s) = n
  BY TextSeq
<1>2. e \in S
  OBVIOUS
<1> HIDE DEF S
<1>3. n \in Nat
  BY DEF IsText
<1>4. /\ Append(s, e) \in Seq(S) /\ Len(Append(s, e)) = n + 1
      /\ \A j \in 1 .. n : Append(s, e)[j] = s[j]
      /\ Append(s, e)[n + 1] = e
  BY <1>1, <1>2, <1>3, AppendProperties
<1>5. Append(s, e) \in [1 .. n + 1 -> S]
  BY <1>4, LenProperties
<1> QED
  BY <1>3, <1>4, <1>5 DEF IsText, Extended

LEMMA TextConcat ==
  ASSUME NEW s, NEW n, IsText(s, n), NEW t, NEW m, IsText(t, m)
  PROVE  Joined(s \o t, s, n, t, m)
<1> DEFINE S == {s[j] : j \in 1 .. n} \cup {t[j] : j \in 1 .. m}
<1>1. (\A j \in 1 .. n : s[j] \in S) /\ (\A j \in 1 .. m : t[j] \in S)
  OBVIOUS
<1> HIDE DEF S
<1>2. s \in Seq(S) /\ Len(s) = n
  BY <1>1, TextSeq
<1>6. t \in Seq(S) /\ Len(t) = m
  BY <1>1, TextSeq
<1>3. n \in Nat /\ m \in Nat
  BY DEF IsText
<1>4. /\ s \o t \in Seq(S) /\ Len(s \o t) = n + m
      /\ \A i \in 1 .. n + m : (s \o t)[i] = IF i <= n THEN s[i] ELSE t[i - n]
  BY <1>2, <1>6, ConcatProperties
<1>5. s \o t \in [1 .. n + m -> S]
  BY <1>4, LenProperties
<1>7. ASSUME NEW j \in 1 .. m
      PROVE  (s \o t)[n + j] = t[j]
  <2>1. n + j \in 1 .. n + m /\ ~(n + j <= n) /\ (n + j) - n = j
    BY <1>3
  <2> QED
    BY <1>4, <2>1
<1>8. \A j \in 1 .. n : (s \o t)[j] = s[j]
  BY <1>3, <1>4
<1> QED
  BY <1>3, <1>5, <1>7, <1>8 DEF IsText, Joined

LEMMA TextPair ==
  ASSUME NEW a, NEW b
  PROVE  IsText(<<a, b>>, 2) /\ <<a, b>>[1] = a /\ <<a, b>>[2] = b
BY DEF IsText

LEMMA TextSingle == ASSUME NEW a PROVE IsText(<<a>>, 1) /\ <<a>>[1] = a
BY DEF IsText

LEMMA TextEmpty == IsText(<<>>, 0)
BY DEF IsText

LEMMA SameText ==
  ASSUME NEW s, NEW t, NEW n, IsText(s, n), IsText(t, n), \A j \in 1 .. n : s[j] = t[j]
  PROVE  s = t
BY DEF IsText

LEMMA TextLength ==
  ASSUME NEW s, NEW n, NEW m, IsText(s, n), IsText(s, m)
  PROVE  n = m
<1>1. n \in Nat /\ m \in Nat /\ DOMAIN s = 1 .. n /\ DOMAIN s = 1 .. m
  BY DEF IsText
<1> QED
  BY <1>1

-----------------------------------------------------------------------------
(* What h_1 and h_2 have been given: per repetition a commitment of every  *)
(* party and the offsets; the alpha shares and the v shares.               *)

Pos(r, k) == 2 + r * (N + 1) + k

Content1(h, m, s, C, dl, n, k) ==
  /\ IsText(h, Pos(n, k))
  /\ h[1] = m /\ h[2] = s
  /\ \A r \in 0 .. n - 1 : \A p \in Parties : h[Pos(r, p + 1)] = C[r][p]
  /\ \A r \in 0 .. n - 1 : h[Pos(r, N + 1)] = dl[r]
  /\ \A p \in 0 .. k - 1 : h[Pos(n, p + 1)] = C[n][p]

LEMMA Positions ==
  ASSUME NEW n \in Nat, NEW k \in 0 .. N + 1
  PROVE  /\ Pos(n, k) \in Nat /\ 2 <= Pos(n, k)
         /\ \A j \in Nat : j <= k => Pos(n, j) \in 1 .. Pos(n, k)
         /\ \A r \in 0 .. n - 1 : \A j \in 0 .. N + 1 : Pos(r, j) \in 1 .. Pos(n, k)
         /\ Pos(n, N + 1) = Pos(n + 1, 0)
         /\ Pos(n, k + 1) = Pos(n, k) + 1 /\ Pos(n, k) = Pos(n, 0) + k
<1>1. N \in Nat
  BY Leaves
<1>2. ASSUME NEW r \in 0 .. n
      PROVE  r * (N + 1) \in Nat
  BY <1>1
<1>3. (n + 1) * (N + 1) = n * (N + 1) + (N + 1)
  BY <1>1
<1>4. ASSUME NEW r \in 0 .. n - 1
      PROVE  r * (N + 1) + (N + 1) <= n * (N + 1)
  <2>1. r + 1 <= n /\ r \in Nat
    OBVIOUS
  <2>2. (r + 1) * (N + 1) <= n * (N + 1)
    BY <1>1, <2>1
  <2>3. (r + 1) * (N + 1) = r * (N + 1) + (N + 1)
    BY <1>1, <2>1
  <2> QED
    BY <2>2, <2>3
<1>5. n * (N + 1) \in Nat
  BY <1>2
<1>6. /\ Pos(n, k) \in Nat /\ 2 <= Pos(n, k)
      /\ \A j \in Nat : j <= k => Pos(n, j) \in 1 .. Pos(n, k)
      /\ Pos(n, k + 1) = Pos(n, k) + 1 /\ Pos(n, k) = Pos(n, 0) + k
  BY <1>1, <1>5 DEF Pos
<1>7. Pos(n, N + 1) = Pos(n + 1, 0)
  <2>1. n + 1 \in Nat
    OBVIOUS
  <2> QED
    BY <1>1, <1>3, <1>5, <2>1 DEF Pos
<1>8. ASSUME NEW r \in 0 .. n - 1, NEW j \in 0 .. N + 1
      PROVE  Pos(r, j) \in 1 .. Pos(n, k)
  <2>1. r * (N + 1) \in Nat
    BY <1>2
  <2> QED
    BY <1>1, <1>4, <1>5, <2>1 DEF Pos
<1> QED
  BY <1>6, <1>7, <1>8

LEMMA Content1Start ==
  ASSUME NEW m, NEW s, NEW C, NEW dl
  PROVE  Content1(<<m, s>>, m, s, C, dl, 0, 0)
<1>1. Pos(0, 0) = 2
  BY Leaves DEF Pos
<1> QED
  BY <1>1, TextPair DEF Content1

LEMMA Content1Append ==
  ASSUME NEW h, NEW m, NEW s, NEW C, NEW dl, NEW n \in Nat, NEW k \in 0 .. Last,
         Content1(h, m, s, C, dl, n, k), NEW e, e = C[n][k]
  PROVE  Content1(Append(h, e), m, s, C, dl, n, k + 1)
<1>1. N \in Nat /\ Last = N - 1 /\ k \in Parties /\ k \in 0 .. N + 1 /\ Parties = 0 .. N - 1
  BY Leaves, Field, Indices
<1>2. /\ Pos(n, k) \in Nat /\ 2 <= Pos(n, k)
      /\ \A j \in Nat : j <= k => Pos(n, j) \in 1 .. Pos(n, k)
      /\ \A r \in 0 .. n - 1 : \A j \in 0 .. N + 1 : Pos(r, j) \in 1 .. Pos(n, k)
      /\ Pos(n, k + 1) = Pos(n, k) + 1
  BY <1>1, Positions
<1> DEFINE g == Append(h, e)
<1>3. IsText(h, Pos(n, k))
  BY DEF Content1
<1>4. /\ IsText(g, Pos(n, k + 1))
      /\ \A j \in 1 .. Pos(n, k) : g[j] = h[j]
      /\ g[Pos(n, k + 1)] = e
  <2> DEFINE q == Pos(n, k)
  <2>1. IsText(h, q)
    BY <1>3
  <2> HIDE DEF q
  <2>4. Extended(g, h, q, e)
    BY <2>1, TextAppend, Zenon
  <2> HIDE DEF g
  <2>2. IsText(g, q + 1) /\ (\A j \in 1 .. q : g[j] = h[j]) /\ g[q + 1] = e
    BY <2>4 DEF Extended
  <2> QED
    BY <1>2, <2>2 DEF q
<1> HIDE DEF g
<1>5. g[1] = m /\ g[2] = s
  BY <1>2, <1>4 DEF Content1
<1>6. ASSUME NEW r \in 0 .. n - 1
      PROVE  (\A p \in Parties : g[Pos(r, p + 1)] = C[r][p]) /\ g[Pos(r, N + 1)] = dl[r]
  <2>1. ASSUME NEW p \in Parties
        PROVE  g[Pos(r, p + 1)] = C[r][p]
    <3>1. p + 1 \in 0 .. N + 1
      BY <1>1
    <3>2. g[Pos(r, p + 1)] = h[Pos(r, p + 1)]
      BY <1>2, <1>4, <3>1
    <3> QED
      BY <3>2 DEF Content1
  <2>2. N + 1 \in 0 .. N + 1
    BY <1>1
  <2>3. g[Pos(r, N + 1)] = h[Pos(r, N + 1)]
    BY <1>2, <1>4, <2>2
  <2> QED
    BY <2>1, <2>3 DEF Content1
<1>7. ASSUME NEW p \in 0 .. (k + 1) - 1
      PROVE  g[Pos(n, p + 1)] = C[n][p]
  <2>1. CASE p = k
    BY <1>4, <2>1
  <2>2. CASE p # k
    <3>1. p \in 0 .. k - 1 /\ p + 1 \in Nat /\ p + 1 <= k
      BY <2>2
    <3>2. g[Pos(n, p + 1)] = h[Pos(n, p + 1)]
      BY <1>2, <1>4, <3>1
    <3> QED
      BY <3>1, <3>2 DEF Content1
  <2> QED
    BY <2>1, <2>2
<1> QED
  BY <1>4, <1>5, <1>6, <1>7 DEF Content1, g

LEMMA Content1Finish ==
  ASSUME NEW h, NEW m, NEW s, NEW C, NEW dl, NEW n \in Nat,
         Content1(h, m, s, C, dl, n, N), NEW e, e = dl[n]
  PROVE  Content1(Append(h, e), m, s, C, dl, n + 1, 0)
<1>1. N \in Nat /\ Parties = 0 .. N - 1 /\ N \in 0 .. N + 1
  BY Leaves, Indices, Field
<1>2. /\ Pos(n, N) \in Nat /\ 2 <= Pos(n, N)
      /\ \A j \in Nat : j <= N => Pos(n, j) \in 1 .. Pos(n, N)
      /\ \A r \in 0 .. n - 1 : \A j \in 0 .. N + 1 : Pos(r, j) \in 1 .. Pos(n, N)
      /\ Pos(n, N + 1) = Pos(n, N) + 1 /\ Pos(n, N + 1) = Pos(n + 1, 0)
  BY <1>1, Positions
<1> DEFINE g == Append(h, e)
<1>3. IsText(h, Pos(n, N))
  BY DEF Content1
<1>4. /\ IsText(g, Pos(n + 1, 0))
      /\ \A j \in 1 .. Pos(n, N) : g[j] = h[j]
      /\ g[Pos(n, N + 1)] = e
  <2> DEFINE q == Pos(n, N)
  <2>1. IsText(h, q)
    BY <1>3
  <2> HIDE DEF q
  <2>4. Extended(g, h, q, e)
    BY <2>1, TextAppend, Zenon
  <2> HIDE DEF g
  <2>2. IsText(g, q + 1) /\ (\A j \in 1 .. q : g[j] = h[j]) /\ g[q + 1] = e
    BY <2>4 DEF Extended
  <2>3. Pos(n + 1, 0) = q + 1 /\ Pos(n, N + 1) = q + 1
    BY <1>2 DEF q
  <2> QED
    BY <2>2, <2>3 DEF q
<1> HIDE DEF g
<1>5. g[1] = m /\ g[2] = s
  BY <1>2, <1>4 DEF Content1
<1>6. ASSUME NEW r \in 0 .. n - 1
      PROVE  (\A p \in Parties : g[Pos(r, p + 1)] = C[r][p]) /\ g[Pos(r, N + 1)] = dl[r]
  <2>1. ASSUME NEW p \in Parties
        PROVE  g[Pos(r, p + 1)] = C[r][p]
    <3>1. p + 1 \in 0 .. N + 1
      BY <1>1
    <3>2. g[Pos(r, p + 1)] = h[Pos(r, p + 1)]
      BY <1>2, <1>4, <3>1
    <3> QED
      BY <3>2 DEF Content1
  <2>2. N + 1 \in 0 .. N + 1
    BY <1>1
  <2>3. g[Pos(r, N + 1)] = h[Pos(r, N + 1)]
    BY <1>2, <1>4, <2>2
  <2> QED
    BY <2>1, <2>3 DEF Content1
<1>7. ASSUME NEW p \in Parties
      PROVE  g[Pos(n, p + 1)] = C[n][p]
  <2>1. p \in 0 .. N - 1 /\ p + 1 \in Nat /\ p + 1 <= N
    BY <1>1
  <2>2. g[Pos(n, p + 1)] = h[Pos(n, p + 1)]
    BY <1>2, <1>4, <2>1
  <2> QED
    BY <2>1, <2>2 DEF Content1
<1>8. \A r \in 0 .. (n + 1) - 1 : r \in 0 .. n - 1 \/ r = n
  OBVIOUS
<1>9. \A r \in 0 .. (n + 1) - 1 :
        (\A p \in Parties : g[Pos(r, p + 1)] = C[r][p]) /\ g[Pos(r, N + 1)] = dl[r]
  BY <1>4, <1>6, <1>7, <1>8
<1>10. \A p \in 0 .. 0 - 1 : g[Pos(n + 1, p + 1)] = C[n + 1][p]
  OBVIOUS
<1> QED
  BY <1>4, <1>5, <1>9, <1>10 DEF Content1, g

LEMMA Content1Row ==
  ASSUME NEW h, NEW m, NEW s, NEW C, NEW dl, NEW n \in Nat,
         Content1(h, m, s, C, dl, n, 0),
         NEW c, IsText(c, N), \A p \in Parties : c[p + 1] = C[n][p]
  PROVE  Content1(h \o c, m, s, C, dl, n, N)
<1>1. N \in Nat /\ Parties = 0 .. N - 1 /\ 0 \in 0 .. N + 1 /\ N \in 0 .. N + 1
  BY Leaves, Constants
<1>2. /\ Pos(n, 0) \in Nat /\ 2 <= Pos(n, 0)
      /\ \A r \in 0 .. n - 1 : \A j \in 0 .. N + 1 : Pos(r, j) \in 1 .. Pos(n, 0)
      /\ Pos(n, N) = Pos(n, 0) + N
  BY <1>1, Positions
<1> DEFINE g == h \o c
<1>3. IsText(h, Pos(n, 0))
  BY DEF Content1
<1>4. /\ IsText(g, Pos(n, N))
      /\ \A j \in 1 .. Pos(n, 0) : g[j] = h[j]
      /\ \A j \in 1 .. N : g[Pos(n, 0) + j] = c[j]
  <2> DEFINE q == Pos(n, 0)
  <2>1. IsText(h, q)
    BY <1>3
  <2> HIDE DEF q
  <2>3. Joined(g, h, q, c, N)
    BY <2>1, TextConcat, Zenon
  <2> HIDE DEF g
  <2>2. /\ IsText(g, q + N) /\ \A j \in 1 .. q : g[j] = h[j]
        /\ \A j \in 1 .. N : g[q + j] = c[j]
    BY <2>3 DEF Joined
  <2> QED
    BY <1>2, <2>2 DEF q
<1> HIDE DEF g
<1>5. g[1] = m /\ g[2] = s
  BY <1>2, <1>4 DEF Content1
<1>6. ASSUME NEW r \in 0 .. n - 1
      PROVE  (\A p \in Parties : g[Pos(r, p + 1)] = C[r][p]) /\ g[Pos(r, N + 1)] = dl[r]
  <2>1. ASSUME NEW p \in Parties
        PROVE  g[Pos(r, p + 1)] = C[r][p]
    <3>1. p + 1 \in 0 .. N + 1
      BY <1>1
    <3>2. g[Pos(r, p + 1)] = h[Pos(r, p + 1)]
      BY <1>2, <1>4, <3>1
    <3> QED
      BY <3>2 DEF Content1
  <2>2. N + 1 \in 0 .. N + 1
    BY <1>1
  <2>3. g[Pos(r, N + 1)] = h[Pos(r, N + 1)]
    BY <1>2, <1>4, <2>2
  <2> QED
    BY <2>1, <2>3 DEF Content1
<1>7. ASSUME NEW p \in 0 .. N - 1
      PROVE  g[Pos(n, p + 1)] = C[n][p]
  <2>1. p \in Parties /\ p + 1 \in 0 .. N + 1 /\ p + 1 \in 1 .. N
    BY <1>1
  <2>2. Pos(n, p + 1) = Pos(n, 0) + (p + 1)
    BY <2>1, Positions
  <2> QED
    BY <1>4, <2>1, <2>2
<1> QED
  BY <1>4, <1>5, <1>6, <1>7 DEF Content1, g

LEMMA Content1Same ==
  ASSUME NEW h, NEW g, NEW m, NEW s, NEW C, NEW dl, NEW n \in Nat,
         Content1(h, m, s, C, dl, n, 0), Content1(g, m, s, C, dl, n, 0)
  PROVE  h = g
<1> DEFINE S == {i \in 0 .. n : \A j \in 1 .. Pos(i, 0) : h[j] = g[j]}
<1>1. N \in Nat /\ Parties = 0 .. N - 1 /\ 0 \in 0 .. N + 1 /\ N + 1 \in 0 .. N + 1
  BY Leaves, Indices, Field
<1>2. 1 - 1 \in S
  <2>1. Pos(0, 0) = 2
    BY <1>1 DEF Pos
  <2>2. h[1] = g[1] /\ h[2] = g[2]
    BY DEF Content1
  <2> QED
    BY <2>1, <2>2
<1>3. ASSUME NEW i \in 1 .. n, i - 1 \in S
      PROVE  i \in S
  <2> DEFINE r == i - 1
  <2>1. r \in 0 .. n - 1 /\ r \in Nat /\ r + 1 = i
    OBVIOUS
  <2> HIDE DEF r
  <2>2. /\ Pos(r, 0) \in Nat
        /\ Pos(r, N + 1) = Pos(i, 0) /\ Pos(r, N + 1) = Pos(r, 0) + (N + 1)
    BY <1>1, <2>1, Positions
  <2>3. \A j \in 1 .. Pos(r, 0) : h[j] = g[j]
    BY <1>3 DEF r
  <2>4. ASSUME NEW j \in 1 .. Pos(i, 0)
        PROVE  h[j] = g[j]
    <3>1. CASE j <= Pos(r, 0)
      BY <2>2, <2>3, <3>1
    <3>2. CASE ~(j <= Pos(r, 0))
      <4> DEFINE p == (j - Pos(r, 0)) - 1
      <4>1. p \in 0 .. N /\ j = Pos(r, 0) + (p + 1) /\ p + 1 \in 0 .. N + 1
        BY <1>1, <2>2, <3>2
      <4> HIDE DEF p
      <4>2. j = Pos(r, p + 1)
        BY <2>1, <4>1, Positions
      <4>3. CASE p = N
        BY <2>1, <4>2, <4>3 DEF Content1
      <4>4. CASE p # N
        <5>1. p \in Parties
          BY <1>1, <4>1, <4>4
        <5> QED
          BY <2>1, <4>2, <5>1 DEF Content1
      <4> QED
        BY <4>3, <4>4
    <3> QED
      BY <3>1, <3>2
  <2> QED
    BY <2>4
<1> HIDE DEF S
<1>4. n \in S
  BY <1>2, <1>3, IntervalInduction
<1>5. IsText(h, Pos(n, 0)) /\ IsText(g, Pos(n, 0))
  BY DEF Content1
<1> QED
  BY <1>4, <1>5, SameText DEF S

Content2(h, m, s, A, V, n) ==
  /\ IsText(h, 2 + 2 * n)
  /\ h[1] = m /\ h[2] = s
  /\ \A r \in 0 .. n - 1 : h[2 * r + 3] = A[r] /\ h[2 * r + 4] = V[r]

(* The part of it that is given with the proofs.                           *)
Content2Hidden(h, m, s, ind, al, n) ==
  /\ IsText(h, 2 + 2 * n)
  /\ h[1] = m /\ h[2] = s
  /\ \A r \in 0 .. n - 1 : h[2 * r + 3][ind[r]] = al[r]

TwoMoreThan(g, h, n, a, v) ==
  /\ IsText(g, 2 + 2 * (n + 1))
  /\ \A j \in 1 .. 2 + 2 * n : g[j] = h[j]
  /\ g[2 * n + 3] = a /\ g[2 * n + 4] = v

LEMMA TwoMore ==
  ASSUME NEW h, NEW n \in Nat, IsText(h, 2 + 2 * n), NEW a, NEW v
  PROVE  TwoMoreThan(h \o <<a, v>>, h, n, a, v)
<1> DEFINE g == h \o <<a, v>>
           c == <<a, v>>
           q == 2 + 2 * n
<1>1. IsText(c, 2) /\ c[1] = a /\ c[2] = v
  BY TextPair
<1>2. IsText(h, q)
  OBVIOUS
<1>3. q + 1 = 2 * n + 3 /\ q + 2 = 2 * n + 4 /\ q + 2 = 2 + 2 * (n + 1) /\ q = 2 + 2 * n
  OBVIOUS
<1> HIDE DEF q, c
<1>4. Joined(h \o c, h, q, c, 2)
  BY <1>1, <1>2, TextConcat, Zenon
<1> DEFINE k == h \o c
<1> HIDE DEF k
<1>5. Joined(k, h, q, c, 2)
  BY <1>4 DEF k
<1>6. /\ IsText(k, q + 2) /\ (\A j \in 1 .. q : k[j] = h[j])
      /\ k[q + 1] = c[1] /\ k[q + 2] = c[2]
  BY <1>5 DEF Joined
<1>7. g = k
  BY DEF k, c
<1> HIDE DEF g
<1>8. TwoMoreThan(g, h, n, a, v)
  BY <1>1, <1>3, <1>6, <1>7 DEF TwoMoreThan, q
<1> QED
  BY <1>8 DEF g

LEMMA Content2Start == ASSUME NEW m, NEW s, NEW A, NEW V PROVE Content2(<<m, s>>, m, s, A, V, 0)
BY TextPair DEF Content2

LEMMA Content2HiddenStart ==
  ASSUME NEW m, NEW s, NEW A, NEW V PROVE Content2Hidden(<<m, s>>, m, s, A, V, 0)
BY TextPair DEF Content2Hidden

LEMMA Content2Step ==
  ASSUME NEW h, NEW m, NEW s, NEW A, NEW V, NEW n \in Nat, Content2(h, m, s, A, V, n),
         NEW a, NEW v, a = A[n], v = V[n]
  PROVE  Content2(h \o <<a, v>>, m, s, A, V, n + 1)
<1> DEFINE g == h \o <<a, v>>
<1>1. IsText(h, 2 + 2 * n)
  BY DEF Content2
<1>5. TwoMoreThan(g, h, n, a, v)
  BY <1>1, TwoMore, Zenon
<1> HIDE DEF g
<1>2. /\ IsText(g, 2 + 2 * (n + 1))
      /\ \A j \in 1 .. 2 + 2 * n : g[j] = h[j]
      /\ g[2 * n + 3] = a /\ g[2 * n + 4] = v
  BY <1>5 DEF TwoMoreThan
<1>3. ASSUME NEW r \in 0 .. (n + 1) - 1
      PROVE  g[2 * r + 3] = A[r] /\ g[2 * r + 4] = V[r]
  <2>1. CASE r = n
    BY <1>2, <2>1
  <2>2. CASE r # n
    <3>1. r \in 0 .. n - 1 /\ 2 * r + 3 \in 1 .. 2 + 2 * n /\ 2 * r + 4 \in 1 .. 2 + 2 * n
      BY <2>2
    <3> QED
      BY <1>2, <3>1 DEF Content2
  <2> QED
    BY <2>1, <2>2
<1>4. g[1] = m /\ g[2] = s
  BY <1>2 DEF Content2
<1> QED
  BY <1>2, <1>3, <1>4 DEF Content2, g

LEMMA Content2HiddenStep ==
  ASSUME NEW h, NEW m, NEW s, NEW ind, NEW al, NEW n \in Nat, Content2Hidden(h, m, s, ind, al, n),
         NEW a, NEW v, a[ind[n]] = al[n]
  PROVE  Content2Hidden(h \o <<a, v>>, m, s, ind, al, n + 1)
<1> DEFINE g == h \o <<a, v>>
<1>1. IsText(h, 2 + 2 * n)
  BY DEF Content2Hidden
<1>5. TwoMoreThan(g, h, n, a, v)
  BY <1>1, TwoMore, Zenon
<1> HIDE DEF g
<1>2. /\ IsText(g, 2 + 2 * (n + 1))
      /\ \A j \in 1 .. 2 + 2 * n : g[j] = h[j]
      /\ g[2 * n + 3] = a /\ g[2 * n + 4] = v
  BY <1>5 DEF TwoMoreThan
<1>3. ASSUME NEW r \in 0 .. (n + 1) - 1
      PROVE  g[2 * r + 3][ind[r]] = al[r]
  <2>1. CASE r = n
    BY <1>2, <2>1
  <2>2. CASE r # n
    <3>1. r \in 0 .. n - 1 /\ 2 * r + 3 \in 1 .. 2 + 2 * n
      BY <2>2
    <3> QED
      BY <1>2, <3>1 DEF Content2Hidden
  <2> QED
    BY <2>1, <2>2
<1>4. g[1] = m /\ g[2] = s
  BY <1>2 DEF Content2Hidden
<1> QED
  BY <1>2, <1>3, <1>4 DEF Content2Hidden, g

LEMMA Content2Same ==
  ASSUME NEW h, NEW g, NEW m, NEW s, NEW A, NEW V, NEW n \in Nat,
         Content2(h, m, s, A, V, n), Content2(g, m, s, A, V, n)
  PROVE  h = g
<1>1. ASSUME NEW j \in 1 .. 2 + 2 * n
      PROVE  h[j] = g[j]
  <2>1. CASE j \in {1, 2}
    BY <2>1 DEF Content2
  <2>2. CASE j > 2
    <3> DEFINE r == (j - 3) \div 2
    <3>1. r \in 0 .. n - 1 /\ (j = 2 * r + 3 \/ j = 2 * r + 4)
      BY <2>2
    <3> HIDE DEF r
    <3> QED
      BY <3>1 DEF Content2
  <2> QED
    BY <2>1, <2>2
<1>2. IsText(h, 2 + 2 * n) /\ IsText(g, 2 + 2 * n)
  BY DEF Content2
<1> DEFINE q == 2 + 2 * n
<1>3. IsText(h, q) /\ IsText(g, q) /\ \A j \in 1 .. q : h[j] = g[j]
  BY <1>1, <1>2
<1> HIDE DEF q
<1> QED
  BY <1>3, SameText

-----------------------------------------------------------------------------
(* What the hidden party's v share becomes, and what the gap is.           *)

Masked(v, w, h) == \A p \in Parties : v[p] \in Elements /\ (p # h => w[p] = v[p])

LEMMA HiddenTotal ==
  ASSUME NEW v, NEW w, NEW h \in Parties, Masked(v, w, h)
  PROVE  /\ HiddenShare(w, h) = Sum(v, 0, Last) \oplus v[h]
         /\ HiddenShare(w, h) = v[h] <=> Sum(v, 0, Last) = Zero
<1> USE DEF Masked
<1> DEFINE f == [p \in Parties |-> IF p = h THEN Zero ELSE w[p]]
           g == [p \in Parties |-> IF p = h THEN v[h] ELSE Zero]
           x == v[h]
           s == Sum(f, 0, Last)
           t == Sum(v, 0, Last)
<1>1. 0 \in Int /\ Last \in Int /\ 0 - 1 <= Last /\ Parties = 0 .. Last
  BY Indices
<1>2. \A p \in Parties : f[p] \in Elements /\ g[p] \in Elements /\ v[p] = f[p] \oplus g[p]
  <2> SUFFICES ASSUME NEW p \in Parties
               PROVE  f[p] \in Elements /\ g[p] \in Elements /\ v[p] = f[p] \oplus g[p]
    OBVIOUS
  <2>1. CASE p = h
    <3>1. Zero \oplus v[h] = v[h] \oplus Zero /\ v[h] \oplus Zero = v[h] /\ Zero \in Elements
      BY Field
    <3> QED
      BY <2>1, <3>1
  <2>2. CASE p # h
    <3>1. v[p] \oplus Zero = v[p] /\ Zero \in Elements
      BY Field
    <3> QED
      BY <2>2, <3>1
  <2> QED
    BY <2>1, <2>2
<1>3. \A k \in 0 .. Last : g[k] = IF k = h THEN x ELSE Zero
  BY <1>1
<1>4. x \in Elements
  OBVIOUS
<1>5. HiddenShare(w, h) = s
  BY DEF HiddenShare
<1> HIDE DEF f, g, x
<1>6. Sum(g, 0, Last) = x
  <2>1. h \in 0 .. Last
    BY <1>1
  <2> QED
    BY <1>1, <1>3, <1>4, <2>1, SumSingle
<1>7. t = s \oplus x
  <2>1. \A k \in 0 .. Last : f[k] \in Elements /\ g[k] \in Elements /\ v[k] = f[k] \oplus g[k]
    BY <1>1, <1>2
  <2>2. 0 \in Int /\ Last \in Int /\ 0 - 1 <= Last
    BY <1>1
  <2>3. Sum(v, 0, Last) = Sum(f, 0, Last) \oplus Sum(g, 0, Last)
    BY <2>1, <2>2, SumPlus
  <2> QED
    BY <1>6, <2>3
<1>8. s \in Elements
  <2>1. \A k \in 0 .. Last : f[k] \in Elements
    BY <1>1, <1>2
  <2> QED
    BY <1>1, <2>1, SumType
<1> HIDE DEF s, t
<1>9. s = t \oplus x
  BY <1>4, <1>7, <1>8, PlusTwice
<1>10. s = x <=> t = Zero
  BY <1>4, <1>7, <1>8, PlusEqual
<1> QED
  BY <1>5, <1>9, <1>10 DEF x, s, t

LEMMA GapVanishes ==
  ASSUME NEW pt \in Elements, NEW ct \in Elements, NoZeroInput(pt), ct = Ciphertext(pt),
         NEW i \in Boxes
  PROVE  GapOf(pt, ct, i) = Zero
<1> DEFINE x == BoxInput(pt, i)
           q == Powered(pt, i)
<1>1. x \in Elements /\ q \in Elements
  BY BoxInputType
<1>2. x # Zero
  BY Indices DEF NoZeroInput, BoxInput
<1>3. SboxOutputs(pt, ct)[i] = Sbox(i, x)
  <2>1. CASE i <= L
    BY <2>1 DEF SboxOutputs, BoxInput
  <2>2. CASE ~(i <= L)
    <3> DEFINE y == Sbox(L + 1, LastInput(pt))
    <3>1. i = L + 1 /\ SboxOutputs(pt, ct)[i] = pt \oplus ct /\ x = LastInput(pt)
      BY <2>2, Indices DEF SboxOutputs, BoxInput
    <3>2. y \in Elements
      BY SboxTypes, Indices
    <3>3. ct = pt \oplus y
      BY DEF Ciphertext
    <3> HIDE DEF y
    <3>4. pt \oplus ct = y
      BY <3>2, <3>3, PlusTwice
    <3> QED
      BY <3>1, <3>4 DEF y
  <2> QED
    BY <2>1, <2>2
<1>4. Sbox(i, x) = Inv(x) \otimes q
  BY DEF Sbox, Powered
<1> HIDE DEF x, q
<1>5. Inv(x) \in Elements /\ x \otimes Inv(x) = One
  BY <1>1, <1>2, InvFacts
<1>6. x \otimes (Inv(x) \otimes q) = q
  <2>1. (x \otimes Inv(x)) \otimes q = x \otimes (Inv(x) \otimes q)
    BY <1>1, <1>5, TimesAssoc
  <2>2. One \otimes q = q \otimes One /\ q \otimes One = q
    BY <1>1, Field
  <2> QED
    BY <1>5, <2>1, <2>2
<1>7. q \oplus q = Zero
  BY <1>1, Field
<1> QED
  BY <1>3, <1>4, <1>6, <1>7 DEF GapOf, x, q

-----------------------------------------------------------------------------
(* What the signer and the verifier have written, as functions of the key, *)
(* the tapes and the challenges.                                           *)

Keyed(k, d) ==
  /\ k.pt \in Elements /\ k.ct \in Elements
  /\ d \in [Reps -> [Parties -> TapeType]]

Committed == [r \in Reps |-> [p \in Parties |-> Commit(Honest, r, p, Seed(r, p))]]
Deltas(k, d) == [r \in Reps |-> Stored(Lacking(d[r], k.pt, k.ct))]
Checks(k, d) == [r \in Reps |-> Check(d[r], k.pt, k.ct)]
Shares(k, d, eps) ==
  [r \in Reps |-> [p \in Parties |-> AlphaShare(Checks(k, d)[r][p], eps[r])]]
Vs(k, d, eps) == [r \in Reps |-> Values(d[r], k.pt, k.ct, eps[r])]

ProofOf(k, d, eps, ind, r) ==
  [path |-> Path(r, ind[r]), commitment |-> Committed[r][ind[r]],
   delta |-> Deltas(k, d)[r], alpha |-> Shares(k, d, eps)[r][ind[r]]]

(* Shapes.                                                                 *)
IsProof(x) ==
  x = [path |-> x.path, commitment |-> x.commitment, delta |-> x.delta, alpha |-> x.alpha]

SignShape(g) ==
  /\ g = [salt |-> g.salt, h_1 |-> g.h_1, h_2 |-> g.h_2, proofs |-> g.proofs]
  /\ g.proofs = [r \in Reps |-> g.proofs[r]]
  /\ \A r \in Reps : IsProof(g.proofs[r])

SignerShape(s) ==
  s = [delta |-> s.delta, commits |-> s.commits, mult_chk |-> s.mult_chk,
       alpha_shares |-> s.alpha_shares, v_share |-> s.v_share, h_1 |-> s.h_1, h_2 |-> s.h_2]

VerifierShape(v) ==
  v = [alpha |-> v.alpha, alpha_shares |-> v.alpha_shares, b_shares |-> v.b_shares,
       v_shares |-> v.v_shares, h_1 |-> v.h_1, h_2 |-> v.h_2]

(* The commitments and the shares are there of the parties before m in     *)
(* repetition n, and of all in the repetitions before.                     *)
Filled(r, n, m) == IF r < n THEN N ELSE IF r = n THEN m ELSE 0

Rows(s, F, n, m) ==
  s = [r \in Reps |-> s[r]] /\
  \A r \in Reps : /\ IsText(s[r], Filled(r, n, m))
                  /\ \A j \in 1 .. Filled(r, n, m) : s[r][j] = F[r][j - 1]

Sharing(k, d, s, g, n, m) ==
  /\ SignerShape(s) /\ SignShape(g) /\ g.salt = Honest
  /\ s.delta = Collected(d[n], m - 1)
  /\ Rows(s.commits, Committed, n, m)
  /\ Rows(s.mult_chk, Checks(k, d), n, m)
  /\ Content1(s.h_1, Honest, Honest, Committed, Deltas(k, d), n, 0)
  /\ \A r \in 0 .. n - 1 : g.proofs[r].delta = Deltas(k, d)[r]

Shared(k, d, s, g) ==
  /\ SignerShape(s) /\ SignShape(g) /\ g.salt = Honest
  /\ Rows(s.commits, Committed, T, 0)
  /\ Rows(s.mult_chk, Checks(k, d), T, 0)
  /\ Content1(s.h_1, Honest, Honest, Committed, Deltas(k, d), T, 0)
  /\ \A r \in Reps : g.proofs[r].delta = Deltas(k, d)[r]

Simulated(k, d, eps, s, g, n) ==
  /\ Shared(k, d, s, g)
  /\ eps \in [Reps -> Challenges]
  /\ g.h_1 = s.h_1
  /\ Content2(s.h_2, g.h_1, Honest, Shares(k, d, eps), Vs(k, d, eps), n)
  /\ IsText(s.alpha_shares, n)
  /\ \A r \in 0 .. n - 1 : s.alpha_shares[r + 1] = Shares(k, d, eps)[r]

Opened(k, d, eps, ind, s, g, n) ==
  /\ Simulated(k, d, eps, s, g, T)
  /\ g.h_2 = s.h_2
  /\ ind \in [Reps -> Parties]
  /\ \A r \in 0 .. n - 1 : g.proofs[r] = ProofOf(k, d, eps, ind, r)

Signed(k, d, eps, ind, g) ==
  /\ SignShape(g) /\ g.salt = Honest
  /\ eps \in [Reps -> Challenges] /\ ind \in [Reps -> Parties]
  /\ Content1(g.h_1, Honest, Honest, Committed, Deltas(k, d), T, 0)
  /\ Content2(g.h_2, g.h_1, Honest, Shares(k, d, eps), Vs(k, d, eps), T)
  /\ \A r \in Reps : g.proofs[r] = ProofOf(k, d, eps, ind, r)

-----------------------------------------------------------------------------
(* Signer, phase 1.                                                        *)

LEMMA RepsFacts ==
  /\ T \in Nat /\ T > 0 /\ Reps = 0 .. T - 1 /\ 0 \in Reps
  /\ N \in Nat /\ N >= 2 /\ Parties = 0 .. N - 1 /\ Last = N - 1 /\ 0 \in Parties /\ Last \in Parties
  /\ \A n \in Reps : n \in Nat /\ n < T /\ n + 1 \in Nat /\ (n + 1 < T => n + 1 \in Reps)
                     /\ (~(n + 1 < T) => n + 1 = T)
<1>1. T \in Nat /\ T > 0 /\ Reps = 0 .. T - 1 /\ Parties = 0 .. N - 1 /\ N \in Nat /\ N >= 2
  BY Constants, Leaves
<1> QED
  BY <1>1 DEF Last

LEMMA CollectedNone ==
  ASSUME NEW D
  PROVE  Collected(D, 0 - 1) = NoTape
<1>1. \A f : Sum(f, 0, 0 - 1) = Zero
  <2>1. 0 \in Int
    OBVIOUS
  <2> QED
    BY <2>1, SumEmpty
<1> QED
  BY <1>1 DEF Collected, NoTape

LEMMA CollectedNext ==
  ASSUME NEW D \in [Parties -> TapeType], NEW k \in Parties
  PROVE  Collected(D, k) = AddTapes(Collected(D, k - 1), D[k])
<1>1. 0 \in Int /\ k \in Int /\ 0 <= k
  BY RepsFacts
<1>3. Sum([p \in Parties |-> D[p].pt], 0, k) = Sum([p \in Parties |-> D[p].pt], 0, k - 1) \oplus D[k].pt
  <2> DEFINE f == [p \in Parties |-> D[p].pt]
  <2>1. f[k] = D[k].pt
    OBVIOUS
  <2> HIDE DEF f
  <2>2. Sum(f, 0, k) = Sum(f, 0, k - 1) \oplus f[k]
    BY <1>1, SumStep
  <2> QED
    BY <2>1, <2>2 DEF f
<1>4. Sum([p \in Parties |-> D[p].c], 0, k) = Sum([p \in Parties |-> D[p].c], 0, k - 1) \oplus D[k].c
  <2> DEFINE f == [p \in Parties |-> D[p].c]
  <2>1. f[k] = D[k].c
    OBVIOUS
  <2> HIDE DEF f
  <2>2. Sum(f, 0, k) = Sum(f, 0, k - 1) \oplus f[k]
    BY <1>1, SumStep
  <2> QED
    BY <2>1, <2>2 DEF f
<1>5. ASSUME NEW i \in 1 .. L
      PROVE  Sum([p \in Parties |-> D[p].y[i]], 0, k)
               = Sum([p \in Parties |-> D[p].y[i]], 0, k - 1) \oplus D[k].y[i]
  <2> DEFINE f == [p \in Parties |-> D[p].y[i]]
  <2>1. f[k] = D[k].y[i]
    OBVIOUS
  <2> HIDE DEF f
  <2>2. Sum(f, 0, k) = Sum(f, 0, k - 1) \oplus f[k]
    BY <1>1, SumStep
  <2> QED
    BY <2>1, <2>2 DEF f
<1>6. ASSUME NEW i \in Boxes
      PROVE  Sum([p \in Parties |-> D[p].a[i]], 0, k)
               = Sum([p \in Parties |-> D[p].a[i]], 0, k - 1) \oplus D[k].a[i]
  <2> DEFINE f == [p \in Parties |-> D[p].a[i]]
  <2>1. f[k] = D[k].a[i]
    OBVIOUS
  <2> HIDE DEF f
  <2>2. Sum(f, 0, k) = Sum(f, 0, k - 1) \oplus f[k]
    BY <1>1, SumStep
  <2> QED
    BY <2>1, <2>2 DEF f
<1> QED
  BY <1>3, <1>4, <1>5, <1>6 DEF Collected, AddTapes

LEMMA RowsAppend ==
  ASSUME NEW s, NEW F, NEW n \in Reps, NEW m \in Parties, Rows(s, F, n, m), NEW e, e = F[n][m],
         NEW t, t = [s EXCEPT ![n] = Append(s[n], e)]
  PROVE  Rows(t, F, n, m + 1)
<1>1. /\ s = [r \in Reps |-> s[r]]
      /\ \A r \in Reps : /\ IsText(s[r], Filled(r, n, m))
                         /\ \A j \in 1 .. Filled(r, n, m) : s[r][j] = F[r][j - 1]
  BY DEF Rows
<1>2. m \in Nat /\ n \in Nat /\ \A r \in Reps : r \in Nat
  BY RepsFacts
<1>3. t = [r \in Reps |-> t[r]] /\ t[n] = Append(s[n], e) /\ \A r \in Reps : r # n => t[r] = s[r]
  BY <1>1
<1>4. Filled(n, n, m) = m /\ Filled(n, n, m + 1) = m + 1
  BY <1>2 DEF Filled
<1>5. /\ IsText(t[n], m + 1)
      /\ \A j \in 1 .. m + 1 : t[n][j] = F[n][j - 1]
  <2> DEFINE c == s[n]
             g == Append(c, e)
  <2>1. IsText(c, m) /\ \A j \in 1 .. m : c[j] = F[n][j - 1]
    BY <1>1, <1>4
  <2> HIDE DEF c
  <2>2. Extended(g, c, m, e)
    BY <2>1, TextAppend, Zenon
  <2>3. t[n] = g
    BY <1>3 DEF c
  <2> HIDE DEF g
  <2>4. ASSUME NEW j \in 1 .. m + 1
        PROVE  g[j] = F[n][j - 1]
    <3>1. CASE j = m + 1
      <4>1. j - 1 = m
        BY <1>2, <3>1
      <4> QED
        BY <2>2, <3>1, <4>1 DEF Extended
    <3>2. CASE j # m + 1
      <4>1. j \in 1 .. m
        BY <1>2, <3>2
      <4> QED
        BY <2>1, <2>2, <4>1 DEF Extended
    <3> QED
      BY <3>1, <3>2
  <2> QED
    BY <2>2, <2>3, <2>4 DEF Extended
<1>6. ASSUME NEW r \in Reps, r # n
      PROVE  /\ IsText(t[r], Filled(r, n, m + 1))
             /\ \A j \in 1 .. Filled(r, n, m + 1) : t[r][j] = F[r][j - 1]
  <2>1. t[r] = s[r] /\ Filled(r, n, m + 1) = Filled(r, n, m)
    BY <1>3, <1>6 DEF Filled
  <2> QED
    BY <1>1, <2>1
<1>7. \A r \in Reps : /\ IsText(t[r], Filled(r, n, m + 1))
                      /\ \A j \in 1 .. Filled(r, n, m + 1) : t[r][j] = F[r][j - 1]
  BY <1>4, <1>5, <1>6
<1> QED
  BY <1>3, <1>7 DEF Rows

LEMMA RowsComplete ==
  ASSUME NEW s, NEW F, NEW n \in Reps, Rows(s, F, n, N)
  PROVE  Rows(s, F, n + 1, 0)
<1>1. \A r \in Reps : Filled(r, n, N) = Filled(r, n + 1, 0)
  BY RepsFacts DEF Filled
<1> QED
  BY <1>1 DEF Rows

LEMMA RowsNone ==
  ASSUME NEW F
  PROVE  Rows([r \in Reps |-> <<>>], F, 0, 0)
<1>1. \A r \in Reps : Filled(r, 0, 0) = 0
  BY RepsFacts DEF Filled
<1>2. IsText(<<>>, 0)
  BY TextEmpty
<1> QED
  BY <1>1, <1>2 DEF Rows

LEMMA TextConcatOne ==
  ASSUME NEW s, NEW n, IsText(s, n), NEW e
  PROVE  s \o <<e>> = Append(s, e)
<1> DEFINE S == {s[j] : j \in 1 .. n} \cup {e}
<1>1. \A j \in 1 .. n : s[j] \in S
  OBVIOUS
<1>2. e \in S
  OBVIOUS
<1> HIDE DEF S
<1>3. s \in Seq(S)
  BY <1>1, TextSeq
<1> QED
  BY <1>2, <1>3, AppendIsConcat

LEMMA DeltaType ==
  ASSUME NEW k, NEW d, Keyed(k, d), NEW n \in Reps
  PROVE  Lacking(d[n], k.pt, k.ct) \in TapeType /\ d[n] \in [Parties -> TapeType]
<1>1. d[n] \in [Parties -> TapeType] /\ k.pt \in Elements /\ k.ct \in Elements
  BY DEF Keyed
<1> QED
  BY <1>1, LackingType

LEMMA ShareNext ==
  ASSUME NEW k, NEW d, Keyed(k, d), NEW s, NEW g, NEW n \in Reps, NEW m \in Parties, m # Last,
         Sharing(k, d, s, g, n, m), NEW t,
         t = [s EXCEPT !.delta = AddTapes(s.delta, d[n][m]),
                       !.commits[n] = Append(s.commits[n], Commit(Honest, n, m, Seed(n, m))),
                       !.mult_chk[n] = Append(s.mult_chk[n], Mpc(d[n][m], k.ct, m))]
  PROVE  Sharing(k, d, t, g, n, m + 1)
<1>1. SignerShape(t)
  BY DEF Sharing, SignerShape
<1>2. /\ t.delta = AddTapes(s.delta, d[n][m])
      /\ t.commits = [s.commits EXCEPT ![n] = Append(s.commits[n], Commit(Honest, n, m, Seed(n, m)))]
      /\ t.mult_chk = [s.mult_chk EXCEPT ![n] = Append(s.mult_chk[n], Mpc(d[n][m], k.ct, m))]
      /\ t.h_1 = s.h_1
  BY DEF Sharing, SignerShape
<1>3. t.delta = Collected(d[n], (m + 1) - 1)
  <2>1. d[n] \in [Parties -> TapeType] /\ (m + 1) - 1 = m
    BY DeltaType, RepsFacts
  <2>2. s.delta = Collected(d[n], m - 1)
    BY DEF Sharing
  <2> QED
    BY <1>2, <2>1, <2>2, CollectedNext
<1>4. Rows(t.commits, Committed, n, m + 1)
  <2>1. Commit(Honest, n, m, Seed(n, m)) = Committed[n][m]
    BY DEF Committed
  <2>2. Rows(s.commits, Committed, n, m)
    BY DEF Sharing
  <2> QED
    BY <1>2, <2>1, <2>2, RowsAppend
<1>5. Rows(t.mult_chk, Checks(k, d), n, m + 1)
  <2>1. Mpc(d[n][m], k.ct, m) = Checks(k, d)[n][m]
    BY DEF Checks, Check, Given
  <2>2. Rows(s.mult_chk, Checks(k, d), n, m)
    BY DEF Sharing
  <2> QED
    BY <1>2, <2>1, <2>2, RowsAppend
<1> QED
  BY <1>1, <1>2, <1>3, <1>4, <1>5 DEF Sharing

LEMMA ShareLast ==
  ASSUME NEW k, NEW d, Keyed(k, d), NEW s, NEW g, NEW n \in Reps,
         Sharing(k, d, s, g, n, Last), NEW t, NEW f,
         NEW offsets, offsets = Offsets(AddTapes(s.delta, d[n][Last]), k.pt, SboxOutputs(k.pt, k.ct)),
         NEW c, c = Append(s.commits[n], Commit(Honest, n, Last, Seed(n, Last))),
         t = [s EXCEPT !.delta = NoTape,
                !.commits[n] = c,
                !.mult_chk[n] = Append(s.mult_chk[n], Mpc(Adjusted(d[n][Last], offsets), k.ct, Last)),
                !.h_1 = s.h_1 \o c \o <<Stored(offsets)>>],
         f = [g EXCEPT !.proofs[n].delta = Stored(offsets)]
  PROVE  Sharing(k, d, t, f, n + 1, 0)
<1>0. Last \in Parties /\ n \in Nat /\ Last + 1 = N
  BY RepsFacts
<1>1. SignerShape(t)
  BY DEF Sharing, SignerShape
<1>2. /\ t.delta = NoTape
      /\ t.commits = [s.commits EXCEPT ![n] = c]
      /\ t.mult_chk = [s.mult_chk EXCEPT ![n] =
                         Append(s.mult_chk[n], Mpc(Adjusted(d[n][Last], offsets), k.ct, Last))]
      /\ t.h_1 = (s.h_1 \o c) \o <<Stored(offsets)>>
  BY DEF Sharing, SignerShape
<1>3. t.delta = Collected(d[n + 1], 0 - 1)
  BY <1>2, CollectedNone
<1>4. offsets = Lacking(d[n], k.pt, k.ct)
  <2>1. d[n] \in [Parties -> TapeType]
    BY DeltaType
  <2>2. s.delta = Collected(d[n], Last - 1)
    BY DEF Sharing
  <2>3. AddTapes(s.delta, d[n][Last]) = Collected(d[n], Last)
    BY <1>0, <2>1, <2>2, CollectedNext
  <2> QED
    BY <2>3 DEF Lacking
<1>5. Rows(t.commits, Committed, n, N)
  <2> DEFINE e == Commit(Honest, n, Last, Seed(n, Last))
             m == Last
             R == s.commits
             u == t.commits
             F == Committed
  <2>1. e = F[n][m]
    BY <1>0 DEF Committed
  <2>2. Rows(R, F, n, m)
    BY DEF Sharing
  <2>4. m \in Parties /\ m + 1 = N
    BY <1>0
  <2>5. u = [R EXCEPT ![n] = Append(R[n], e)]
    BY <1>2
  <2> HIDE DEF e, m, R, u, F
  <2>3. Rows(u, F, n, m + 1)
    BY <2>1, <2>2, <2>4, <2>5, RowsAppend
  <2> QED
    BY <2>3, <2>4 DEF u, F
<1>6. Rows(t.mult_chk, Checks(k, d), n, N)
  <2> DEFINE e == Mpc(Adjusted(d[n][Last], offsets), k.ct, Last)
             m == Last
             R == s.mult_chk
             u == t.mult_chk
             F == Checks(k, d)
  <2>1. e = F[n][m]
    BY <1>0, <1>4 DEF Checks, Check, Given
  <2>2. Rows(R, F, n, m)
    BY DEF Sharing
  <2>4. m \in Parties /\ m + 1 = N
    BY <1>0
  <2>5. u = [R EXCEPT ![n] = Append(R[n], e)]
    BY <1>2
  <2> HIDE DEF e, m, R, u, F
  <2>3. Rows(u, F, n, m + 1)
    BY <2>1, <2>2, <2>4, <2>5, RowsAppend
  <2> QED
    BY <2>3, <2>4 DEF u, F
<1>7. Rows(t.commits, Committed, n + 1, 0) /\ Rows(t.mult_chk, Checks(k, d), n + 1, 0)
  BY <1>5, <1>6, RowsComplete
<1>8. IsText(c, N) /\ \A p \in Parties : c[p + 1] = Committed[n][p]
  <2>1. t.commits[n] = c
    BY <1>2 DEF Sharing, Rows
  <2>2. Filled(n, n, N) = N
    BY <1>0 DEF Filled
  <2>3. IsText(c, N) /\ \A j \in 1 .. N : c[j] = Committed[n][j - 1]
    BY <1>5, <2>1, <2>2 DEF Rows
  <2>4. \A p \in Parties : p + 1 \in 1 .. N /\ (p + 1) - 1 = p
    BY RepsFacts
  <2> QED
    BY <2>3, <2>4
<1>9. Content1(t.h_1, Honest, Honest, Committed, Deltas(k, d), n + 1, 0)
  <2> DEFINE h == s.h_1 \o c
             e == Stored(offsets)
             dl == Deltas(k, d)
  <2>1. Content1(s.h_1, Honest, Honest, Committed, dl, n, 0)
    BY DEF Sharing
  <2>2. e = dl[n]
    BY <1>4 DEF Deltas
  <2> HIDE DEF e, dl
  <2>3. Content1(h, Honest, Honest, Committed, dl, n, N)
    BY <1>0, <1>8, <2>1, Content1Row
  <2>4. t.h_1 = h \o <<e>>
    BY <1>2 DEF e
  <2> HIDE DEF h
  <2>5. IsText(h, Pos(n, N))
    BY <2>3 DEF Content1
  <2>6. t.h_1 = Append(h, e)
    BY <2>4, <2>5, TextConcatOne
  <2>7. Content1(Append(h, e), Honest, Honest, Committed, dl, n + 1, 0)
    BY <1>0, <2>2, <2>3, Content1Finish
  <2> QED
    BY <2>6, <2>7 DEF dl
<1>10. /\ SignShape(f) /\ f.salt = Honest /\ f.proofs[n].delta = Stored(offsets)
       /\ \A r \in Reps : r # n => f.proofs[r] = g.proofs[r]
  <2> DEFINE P == g.proofs
             Q == f.proofs
             x == Stored(offsets)
  <2>1. /\ g = [salt |-> g.salt, h_1 |-> g.h_1, h_2 |-> g.h_2, proofs |-> P]
        /\ P = [r \in Reps |-> P[r]]
        /\ g.salt = Honest
        /\ \A r \in Reps : IsProof(P[r])
    BY DEF Sharing, SignShape
  <2>2. f = [g EXCEPT !.proofs = [P EXCEPT ![n] = [P[n] EXCEPT !.delta = x]]]
    BY <2>1
  <2>3. /\ f = [salt |-> g.salt, h_1 |-> g.h_1, h_2 |-> g.h_2, proofs |-> Q]
        /\ Q = [P EXCEPT ![n] = [P[n] EXCEPT !.delta = x]]
    BY <2>1, <2>2
  <2> HIDE DEF P, Q, x
  <2>4. Q = [r \in Reps |-> Q[r]] /\ \A r \in Reps : r # n => Q[r] = P[r]
    BY <2>1, <2>3
  <2>5. Q[n] = [P[n] EXCEPT !.delta = x]
    BY <2>1, <2>3
  <2>6. IsProof(Q[n]) /\ Q[n].delta = x
    BY <2>1, <2>5 DEF IsProof
  <2>7. \A r \in Reps : IsProof(Q[r])
    BY <2>1, <2>4, <2>6
  <2>10. f.salt = g.salt /\ f.h_1 = g.h_1 /\ f.h_2 = g.h_2
    BY <2>1, <2>2
  <2>8. f.proofs = Q /\ f.salt = g.salt /\ f.h_1 = g.h_1 /\ f.h_2 = g.h_2
    BY <2>10 DEF Q
  <2>9. SignShape(f)
    BY <2>3, <2>4, <2>7, <2>8 DEF SignShape
  <2> QED
    BY <2>1, <2>4, <2>6, <2>8, <2>9 DEF P, Q, x
<1>11. \A r \in 0 .. (n + 1) - 1 : f.proofs[r].delta = Deltas(k, d)[r]
  <2> SUFFICES ASSUME NEW r \in 0 .. (n + 1) - 1
               PROVE  f.proofs[r].delta = Deltas(k, d)[r]
    OBVIOUS
  <2>1. CASE r = n
    BY <1>4, <1>10, <2>1 DEF Deltas
  <2>2. CASE r # n
    <3>1. r \in 0 .. n - 1 /\ r \in Reps
      BY <1>0, <2>2, RepsFacts
    <3> QED
      BY <1>10, <2>2, <3>1 DEF Sharing
  <2> QED
    BY <2>1, <2>2
<1> QED
  BY <1>1, <1>3, <1>7, <1>9, <1>10, <1>11 DEF Sharing

LEMMA ShareDone ==
  ASSUME NEW k, NEW d, NEW s, NEW g, Sharing(k, d, s, g, T, 0)
  PROVE  Shared(k, d, s, g)
<1>1. Reps = 0 .. T - 1
  BY RepsFacts
<1> QED
  BY <1>1 DEF Sharing, Shared

-----------------------------------------------------------------------------
(* Signer, phases 2 to 5.                                                  *)

LEMMA CompleteRow ==
  ASSUME NEW s, NEW F, Rows(s, F, T, 0), NEW n \in Reps, NEW p \in Parties
  PROVE  s[n][p + 1] = F[n][p]
<1>1. n < T /\ p + 1 \in 1 .. N /\ (p + 1) - 1 = p
  BY RepsFacts
<1>2. Filled(n, T, 0) = N
  BY <1>1 DEF Filled
<1>3. \A j \in 1 .. N : s[n][j] = F[n][j - 1]
  BY <1>2 DEF Rows
<1> QED
  BY <1>1, <1>3

SimulatedBy(eps, s, n, shares, alpha, v, t) ==
  /\ shares = [p \in Parties |-> AlphaShare(s.mult_chk[n][p + 1], eps[n])]
  /\ alpha = [i \in Boxes |-> Sum([p \in Parties |-> shares[p][i]], 0, Last)]
  /\ v = [p \in Parties |-> VShare(s.mult_chk[n][p + 1], eps[n])
                               \oplus Opening(s.mult_chk[n][p + 1].b, alpha)]
  /\ t = [s EXCEPT !.alpha_shares = Append(s.alpha_shares, shares),
                   !.v_share = Append(s.v_share, v),
                   !.h_2 = s.h_2 \o <<shares, v>>]

LEMMA SimulateStep ==
  ASSUME NEW k, NEW d, Keyed(k, d), NEW eps, NEW s, NEW g, NEW n \in Reps,
         Simulated(k, d, eps, s, g, n),
         NEW shares, NEW alpha, NEW v, NEW t, SimulatedBy(eps, s, n, shares, alpha, v, t)
  PROVE  Simulated(k, d, eps, t, g, n + 1)
<1>1. /\ SignerShape(t) /\ t.commits = s.commits /\ t.mult_chk = s.mult_chk /\ t.h_1 = s.h_1
      /\ t.alpha_shares = Append(s.alpha_shares, shares)
      /\ t.h_2 = s.h_2 \o <<shares, v>>
  BY DEF Simulated, Shared, SignerShape, SimulatedBy
<1>2. Shared(k, d, t, g)
  BY <1>1 DEF Simulated, Shared
<1> DEFINE M == Check(d[n], k.pt, k.ct)
<1>3. \A p \in Parties : s.mult_chk[n][p + 1] = M[p]
  <2>1. Rows(s.mult_chk, Checks(k, d), T, 0)
    BY DEF Simulated, Shared
  <2>2. \A p \in Parties : s.mult_chk[n][p + 1] = Checks(k, d)[n][p]
    BY <2>1, CompleteRow
  <2> QED
    BY <2>2 DEF Checks
<1> HIDE DEF M
<1>4. shares = [p \in Parties |-> AlphaShare(M[p], eps[n])]
  BY <1>3 DEF SimulatedBy
<1>5. shares = Shares(k, d, eps)[n]
  BY <1>4 DEF Shares, Checks, M
<1>6. alpha = Alphas(d[n], k.pt, k.ct, eps[n])
  <2>1. ASSUME NEW i \in Boxes
        PROVE  [p \in Parties |-> shares[p][i]] = [p \in Parties |-> AlphaShare(M[p], eps[n])[i]]
    BY <1>4
  <2> QED
    BY <2>1 DEF Alphas, M, SimulatedBy
<1>7. v = Vs(k, d, eps)[n]
  <2> HIDE DEF Vs
  <2>1. v = [p \in Parties |-> VShare(M[p], eps[n]) \oplus Opening(M[p].b, alpha)]
    BY <1>3 DEF SimulatedBy
  <2>2. v = Values(d[n], k.pt, k.ct, eps[n])
    BY <1>6, <2>1 DEF Values, M
  <2> QED
    BY <2>2 DEF Vs
<1>8. n \in Nat
  BY RepsFacts
<1>9. Content2(t.h_2, g.h_1, Honest, Shares(k, d, eps), Vs(k, d, eps), n + 1)
  <2> DEFINE A == Shares(k, d, eps)
             V == Vs(k, d, eps)
             h == s.h_2
             q == g.h_1
  <2>1. Content2(h, q, Honest, A, V, n)
    BY DEF Simulated
  <2>2. shares = A[n] /\ v = V[n]
    BY <1>5, <1>7
  <2> HIDE DEF A, V, h, q
  <2>3. Content2(h \o <<shares, v>>, q, Honest, A, V, n + 1)
    BY <1>8, <2>1, <2>2, Content2Step
  <2> QED
    BY <1>1, <2>3 DEF A, V, h, q
<1>10. /\ IsText(t.alpha_shares, n + 1)
       /\ \A r \in 0 .. (n + 1) - 1 : t.alpha_shares[r + 1] = Shares(k, d, eps)[r]
  <2> DEFINE A == Shares(k, d, eps)
             c == s.alpha_shares
             u == Append(c, shares)
  <2>1. IsText(c, n) /\ \A r \in 0 .. n - 1 : c[r + 1] = A[r]
    BY DEF Simulated
  <2>2. shares = A[n]
    BY <1>5
  <2> HIDE DEF A, c
  <2>3. Extended(u, c, n, shares)
    BY <2>1, TextAppend, Zenon
  <2> HIDE DEF u
  <2>4. ASSUME NEW r \in 0 .. (n + 1) - 1
        PROVE  u[r + 1] = A[r]
    <3>1. CASE r = n
      BY <2>2, <2>3, <3>1 DEF Extended
    <3>2. CASE r # n
      <4>1. r \in 0 .. n - 1 /\ r + 1 \in 1 .. n
        BY <1>8, <3>2
      <4> QED
        BY <2>1, <2>3, <4>1 DEF Extended
    <3> QED
      BY <3>1, <3>2
  <2>5. t.alpha_shares = u
    BY <1>1 DEF u, c
  <2> QED
    BY <2>3, <2>4, <2>5 DEF Extended, A
<1>11. eps \in [Reps -> Challenges] /\ g.h_1 = t.h_1
  BY <1>1 DEF Simulated
<1> QED
  BY <1>2, <1>9, <1>10, <1>11 DEF Simulated

LEMMA OpenStep ==
  ASSUME NEW k, NEW d, NEW eps, NEW ind, NEW s, NEW g, NEW n \in Reps,
         Opened(k, d, eps, ind, s, g, n), NEW f, NEW x,
         x = [path |-> Path(n, ind[n]), commitment |-> s.commits[n][ind[n] + 1],
              delta |-> g.proofs[n].delta, alpha |-> s.alpha_shares[n + 1][ind[n]]],
         f = [g EXCEPT !.proofs[n] = x]
  PROVE  Opened(k, d, eps, ind, s, f, n + 1)
<1>1. /\ Shared(k, d, s, g) /\ ind \in [Reps -> Parties]
      /\ \A r \in 0 .. T - 1 : s.alpha_shares[r + 1] = Shares(k, d, eps)[r]
      /\ \A r \in 0 .. n - 1 : g.proofs[r] = ProofOf(k, d, eps, ind, r)
  BY DEF Opened, Simulated
<1>2. x = ProofOf(k, d, eps, ind, n)
  <2>1. Rows(s.commits, Committed, T, 0) /\ g.proofs[n].delta = Deltas(k, d)[n]
    BY <1>1 DEF Shared
  <2>2. ind[n] \in Parties /\ n \in 0 .. T - 1
    BY <1>1, RepsFacts
  <2>3. s.commits[n][ind[n] + 1] = Committed[n][ind[n]]
    BY <2>1, <2>2, CompleteRow
  <2> QED
    BY <1>1, <2>1, <2>2, <2>3 DEF ProofOf
<1> DEFINE P == g.proofs
           Q == f.proofs
<1>3. /\ g = [salt |-> g.salt, h_1 |-> g.h_1, h_2 |-> g.h_2, proofs |-> P]
      /\ P = [r \in Reps |-> P[r]]
      /\ g.salt = Honest
      /\ \A r \in Reps : IsProof(P[r])
      /\ \A r \in Reps : P[r].delta = Deltas(k, d)[r]
  BY <1>1 DEF Shared, SignShape
<1>4. f = [g EXCEPT !.proofs = [P EXCEPT ![n] = x]]
  BY <1>3
<1>5. /\ f = [salt |-> g.salt, h_1 |-> g.h_1, h_2 |-> g.h_2, proofs |-> Q]
      /\ Q = [P EXCEPT ![n] = x]
  BY <1>3, <1>4
<1>6. f.salt = g.salt /\ f.h_1 = g.h_1 /\ f.h_2 = g.h_2
  BY <1>3, <1>4
<1>7. f.proofs = Q
  OBVIOUS
<1>8. IsProof(x) /\ x.delta = P[n].delta
  BY DEF IsProof
<1> HIDE DEF P, Q
<1>9. Q = [r \in Reps |-> Q[r]] /\ Q[n] = x /\ \A r \in Reps : r # n => Q[r] = P[r]
  BY <1>3, <1>5
<1>10. \A r \in Reps : IsProof(Q[r]) /\ Q[r].delta = Deltas(k, d)[r]
  BY <1>3, <1>8, <1>9
<1>11. SignShape(f)
  BY <1>5, <1>6, <1>7, <1>9, <1>10 DEF SignShape
<1>12. Shared(k, d, s, f)
  BY <1>1, <1>3, <1>6, <1>7, <1>10, <1>11 DEF Shared
<1>13. Simulated(k, d, eps, s, f, T)
  BY <1>6, <1>12 DEF Opened, Simulated
<1>14. ASSUME NEW r \in 0 .. (n + 1) - 1
       PROVE  f.proofs[r] = ProofOf(k, d, eps, ind, r)
  <2>1. CASE r = n
    BY <1>2, <1>7, <1>9, <2>1
  <2>2. CASE r # n
    <3>1. r \in 0 .. n - 1 /\ r \in Reps
      BY <2>2, RepsFacts
    <3> QED
      BY <1>1, <1>7, <1>9, <2>2, <3>1 DEF P
  <2> QED
    BY <2>1, <2>2
<1> QED
  BY <1>6, <1>13, <1>14 DEF Opened

LEMMA OpenDone ==
  ASSUME NEW k, NEW d, NEW eps, NEW ind, NEW s, NEW g, Opened(k, d, eps, ind, s, g, T)
  PROVE  Signed(k, d, eps, ind, g)
<1>1. Reps = 0 .. T - 1
  BY RepsFacts
<1> QED
  BY <1>1 DEF Opened, Simulated, Shared, Signed

-----------------------------------------------------------------------------
(* What arrives at the verifier.                                           *)

RC(rc, ind) ==
  [r \in Reps |-> [p \in Parties |->
     IF p = ind[r] THEN rc.proofs[r].commitment
     ELSE Commit(rc.salt, r, p, Reconstructed(rc.proofs[r].path, rc.salt, r, p, ind[r]))]]
RD(rc) == [r \in Reps |-> rc.proofs[r].delta]
RA(rc) == [r \in Reps |-> rc.proofs[r].alpha]

Differs(p, q) ==
  \/ p.path # q.path
  \/ p.commitment # q.commitment
  \/ p.delta # q.delta
  \/ p.alpha # q.alpha

Spoiled(k, d, eps, ind, g, rc, m) ==
  \/ rc.h_1 = Altered
  \/ rc.h_2 = Altered
  \/ /\ Signed(k, d, eps, ind, g)
     /\ rc.h_1 = g.h_1 /\ rc.h_2 = g.h_2
     /\ \/ rc.salt = Altered
        \/ m = Altered
        \/ rc.salt = Honest /\ \E r \in Reps : Differs(rc.proofs[r], g.proofs[r])

Arrived(k, d, eps, ind, g, rc, m) ==
  /\ eps \in [Reps -> Challenges] /\ ind \in [Reps -> Parties]
  /\ \/ rc = g /\ m = Honest /\ Signed(k, d, eps, ind, g)
     \/ ~(rc = g /\ m = Honest) /\ Spoiled(k, d, eps, ind, g, rc, m)

AlteredOf(g) ==
  {[g EXCEPT !.salt = Altered], [g EXCEPT !.h_1 = Altered], [g EXCEPT !.h_2 = Altered]}
    \cup UNION {{[g EXCEPT !.proofs[r] = p] : p \in AlteredProofs(g.proofs[r])} : r \in Reps}

LEMMA FlipDiffers ==
  ASSUME NEW x \in Elements
  PROVE  Flip(x) # x
<1>1. Zero \in Elements /\ One \in Elements /\ One # Zero
  BY Field
<1>2. SUFFICES ASSUME x \oplus One = x
               PROVE  FALSE
  BY DEF Flip
<1>3. x \oplus (x \oplus One) = One
  BY <1>1, PlusTwice
<1>4. x \oplus x = Zero
  BY Field
<1> QED
  BY <1>1, <1>2, <1>3, <1>4

LEMMA ProofTypes ==
  ASSUME NEW k, NEW d, Keyed(k, d), NEW eps \in [Reps -> Challenges], NEW ind \in [Reps -> Parties],
         NEW r \in Reps
  PROVE  LET q == ProofOf(k, d, eps, ind, r)
         IN  /\ IsProof(q)
             /\ q.path = <<r, ind[r]>>
             /\ q.commitment = <<Honest, r, ind[r], <<r, ind[r]>>>>
             /\ q.delta \in TapeType
             /\ q.alpha \in [Boxes -> Elements]
<1> DEFINE q == ProofOf(k, d, eps, ind, r)
<1>1. ind[r] \in Parties
  OBVIOUS
<1>2. IsProof(q) /\ q.path = <<r, ind[r]>> /\ q.delta = Deltas(k, d)[r]
      /\ q.alpha = Shares(k, d, eps)[r][ind[r]] /\ q.commitment = Committed[r][ind[r]]
  BY DEF ProofOf, IsProof, Path
<1>3. q.commitment = <<Honest, r, ind[r], <<r, ind[r]>>>>
  BY <1>1, <1>2 DEF Committed, Commit, Seed
<1>4. q.delta \in TapeType
  <2> DEFINE K == Lacking(d[r], k.pt, k.ct)
  <2>1. K \in TapeType /\ q.delta = Stored(K)
    BY <1>2, DeltaType DEF Deltas
  <2> HIDE DEF K
  <2>2. Zero \in Elements
    BY Field
  <2> QED
    BY <2>1, <2>2 DEF Stored, TapeType
<1>5. q.alpha \in [Boxes -> Elements]
  <2> DEFINE M == Check(d[r], k.pt, k.ct)
             p == ind[r]
  <2>1. q.alpha = AlphaShare(M[p], eps[r])
    BY <1>1, <1>2 DEF Shares, Checks
  <2>2. d[r] \in [Parties -> TapeType] /\ k.pt \in Elements /\ k.ct \in Elements
    BY DEF Keyed
  <2>3. eps[r] \in [Boxes -> Elements]
    <3>1. Challenges \subseteq [Boxes -> Elements]
      BY AimerAssumption, Zenon
    <3> QED
      BY <3>1
  <2>4. \A i \in Boxes : AlphaShare(M[p], eps[r])[i] \in Elements
    BY <1>1, <2>2, <2>3, AlphaTotals
  <2>5. AlphaShare(M[p], eps[r]) = [i \in Boxes |-> AlphaShare(M[p], eps[r])[i]]
    BY DEF AlphaShare
  <2> QED
    BY <2>1, <2>4, <2>5
<1> QED
  BY <1>2, <1>3, <1>4, <1>5

LEMMA AlteredDiffers ==
  ASSUME NEW k, NEW d, Keyed(k, d), NEW eps \in [Reps -> Challenges], NEW ind \in [Reps -> Parties],
         NEW r \in Reps, NEW q, q = ProofOf(k, d, eps, ind, r), NEW p \in AlteredProofs(q)
  PROVE  Differs(p, q)
<1>1. /\ IsProof(q)
      /\ q.path = <<r, ind[r]>>
      /\ q.commitment = <<Honest, r, ind[r], <<r, ind[r]>>>>
      /\ q.delta \in TapeType
      /\ q.alpha \in [Boxes -> Elements]
  BY ProofTypes
<1>2. \/ p = [q EXCEPT !.path = Altered]
      \/ p = [q EXCEPT !.commitment = Altered]
      \/ p = [q EXCEPT !.delta.pt = Flip(q.delta.pt)]
      \/ p = [q EXCEPT !.delta.c = Flip(q.delta.c)]
      \/ \E i \in 1 .. L : p = [q EXCEPT !.delta.y[i] = Flip(q.delta.y[i])]
      \/ \E i \in Boxes : p = [q EXCEPT !.alpha[i] = Flip(q.alpha[i])]
  BY DEF AlteredProofs
<1>3. CASE p = [q EXCEPT !.path = Altered]
  <2>1. p.path = Altered
    BY <1>1, <1>3 DEF IsProof
  <2>2. Altered # <<r, ind[r]>>
    BY DEF Altered
  <2> QED
    BY <1>1, <2>1, <2>2 DEF Differs
<1>4. CASE p = [q EXCEPT !.commitment = Altered]
  <2>1. p.commitment = Altered
    BY <1>1, <1>4 DEF IsProof
  <2>2. Altered # <<Honest, r, ind[r], <<r, ind[r]>>>>
    BY DEF Altered
  <2> QED
    BY <1>1, <2>1, <2>2 DEF Differs
<1>5. CASE p = [q EXCEPT !.delta.pt = Flip(q.delta.pt)]
  <2> DEFINE e == q.delta
             x == Flip(e.pt)
  <2>1. e \in TapeType /\ e.pt \in Elements
    BY <1>1 DEF TapeType
  <2>2. x # e.pt
    BY <2>1, FlipDiffers
  <2>3. p.delta = [e EXCEPT !.pt = x]
    BY <1>1, <1>5 DEF IsProof
  <2> HIDE DEF x
  <2>4. p.delta.pt = x
    BY <2>1, <2>3 DEF TapeType
  <2> QED
    BY <2>2, <2>4 DEF Differs
<1>6. CASE p = [q EXCEPT !.delta.c = Flip(q.delta.c)]
  <2> DEFINE e == q.delta
             x == Flip(e.c)
  <2>1. e \in TapeType /\ e.c \in Elements
    BY <1>1 DEF TapeType
  <2>2. x # e.c
    BY <2>1, FlipDiffers
  <2>3. p.delta = [e EXCEPT !.c = x]
    BY <1>1, <1>6 DEF IsProof
  <2> HIDE DEF x
  <2>4. p.delta.c = x
    BY <2>1, <2>3 DEF TapeType
  <2> QED
    BY <2>2, <2>4 DEF Differs
<1>7. ASSUME NEW i \in 1 .. L, p = [q EXCEPT !.delta.y[i] = Flip(q.delta.y[i])]
      PROVE  Differs(p, q)
  <2> DEFINE e == q.delta
             y == e.y
             x == Flip(y[i])
  <2>1. e \in TapeType /\ y \in [1 .. L -> Elements] /\ y[i] \in Elements
    BY <1>1 DEF TapeType
  <2>2. x # y[i]
    BY <2>1, FlipDiffers
  <2>3. p.delta = [e EXCEPT !.y = [y EXCEPT ![i] = x]]
    BY <1>1, <1>7 DEF IsProof
  <2> HIDE DEF x
  <2>4. p.delta.y[i] = x
    BY <2>1, <2>3 DEF TapeType
  <2> QED
    BY <2>2, <2>4 DEF Differs
<1>8. ASSUME NEW i \in Boxes, p = [q EXCEPT !.alpha[i] = Flip(q.alpha[i])]
      PROVE  Differs(p, q)
  <2> DEFINE y == q.alpha
             x == Flip(y[i])
  <2>1. y \in [Boxes -> Elements] /\ y[i] \in Elements
    BY <1>1
  <2>2. x # y[i]
    BY <2>1, FlipDiffers
  <2>3. p.alpha = [y EXCEPT ![i] = x]
    BY <1>1, <1>8 DEF IsProof
  <2> HIDE DEF x
  <2>4. p.alpha[i] = x
    BY <2>1, <2>3
  <2> QED
    BY <2>2, <2>4 DEF Differs
<1> QED
  BY <1>2, <1>3, <1>4, <1>5, <1>6, <1>7, <1>8

LEMMA HashesLong ==
  ASSUME NEW k, NEW d, NEW eps, NEW ind, NEW g, Signed(k, d, eps, ind, g)
  PROVE  g.h_1 # Altered /\ g.h_2 # Altered
<1>1. IsText(Altered, 1)
  BY DEF Altered, IsText
<1>2. IsText(g.h_1, Pos(T, 0)) /\ IsText(g.h_2, 2 + 2 * T)
  BY DEF Signed, Content1, Content2
<1>3. Pos(T, 0) >= 2 /\ 2 + 2 * T >= 2 /\ Pos(T, 0) \in Nat /\ 2 + 2 * T \in Nat
  BY Positions, RepsFacts
<1>4. Pos(T, 0) # 1 /\ 2 + 2 * T # 1
  BY <1>3
<1> QED
  BY <1>1, <1>2, <1>4, TextLength

LEMMA ReceiveStep ==
  ASSUME NEW k, NEW d, Keyed(k, d), NEW eps, NEW ind, NEW g, Signed(k, d, eps, ind, g),
         NEW rc, NEW m,
         (rc = g /\ m \in {Honest, Altered}) \/ (rc \in AlteredOf(g) /\ m = Honest),
         NEW e2, IF rc.h_1 = g.h_1 THEN e2 = eps ELSE e2 \in [Reps -> Challenges],
         NEW i2, IF rc.h_2 = g.h_2 THEN i2 = ind ELSE i2 \in [Reps -> Parties]
  PROVE  Arrived(k, d, e2, i2, g, rc, m)
<1>1. e2 \in [Reps -> Challenges] /\ i2 \in [Reps -> Parties]
  BY DEF Signed
<1>2. Honest # Altered
  BY DEF Honest, Altered
<1>3. g.h_1 # Altered /\ g.h_2 # Altered
  BY HashesLong
<1>4. CASE rc = g /\ m \in {Honest, Altered}
  BY <1>1, <1>2, <1>4 DEF Arrived, Spoiled
<1>5. CASE rc \in AlteredOf(g) /\ m = Honest
  <2> DEFINE P == g.proofs
  <2>0. /\ g = [salt |-> g.salt, h_1 |-> g.h_1, h_2 |-> g.h_2, proofs |-> P]
        /\ P = [r \in Reps |-> P[r]] /\ g.salt = Honest
    BY DEF Signed, SignShape
  <2>1. \/ rc = [g EXCEPT !.salt = Altered]
        \/ rc = [g EXCEPT !.h_1 = Altered]
        \/ rc = [g EXCEPT !.h_2 = Altered]
        \/ \E r \in Reps : \E p \in AlteredProofs(g.proofs[r]) : rc = [g EXCEPT !.proofs[r] = p]
    BY <1>5 DEF AlteredOf
  <2>2. CASE rc = [g EXCEPT !.salt = Altered]
    <3>1. rc.salt = Altered /\ rc.h_1 = g.h_1 /\ rc.h_2 = g.h_2
      BY <2>0, <2>2
    <3>2. rc # g /\ e2 = eps /\ i2 = ind
      BY <1>2, <2>0, <3>1
    <3> QED
      BY <1>1, <3>1, <3>2 DEF Arrived, Spoiled
  <2>3. CASE rc = [g EXCEPT !.h_1 = Altered]
    <3>1. rc.h_1 = Altered
      BY <2>0, <2>3
    <3>2. rc # g
      BY <1>3, <3>1
    <3> QED
      BY <1>1, <3>1, <3>2 DEF Arrived, Spoiled
  <2>4. CASE rc = [g EXCEPT !.h_2 = Altered]
    <3>1. rc.h_2 = Altered
      BY <2>0, <2>4
    <3>2. rc # g
      BY <1>3, <3>1
    <3> QED
      BY <1>1, <3>1, <3>2 DEF Arrived, Spoiled
  <2>5. ASSUME NEW r \in Reps, NEW p \in AlteredProofs(g.proofs[r]), rc = [g EXCEPT !.proofs[r] = p]
        PROVE  Arrived(k, d, e2, i2, g, rc, m)
    <3>1. rc = [g EXCEPT !.proofs = [P EXCEPT ![r] = p]]
      BY <2>0, <2>5
    <3>2. /\ rc.salt = Honest /\ rc.h_1 = g.h_1 /\ rc.h_2 = g.h_2
          /\ rc.proofs = [P EXCEPT ![r] = p]
      BY <2>0, <3>1
    <3>3. rc.proofs[r] = p
      BY <2>0, <3>2
    <3>4. e2 = eps /\ i2 = ind
      BY <3>2
    <3>5. Differs(p, g.proofs[r])
      <4>1. g.proofs[r] = ProofOf(k, d, eps, ind, r)
        BY DEF Signed
      <4> QED
        BY <1>1, <3>4, <4>1, AlteredDiffers
    <3>6. rc # g
      BY <3>3, <3>5 DEF Differs
    <3> QED
      BY <1>1, <3>2, <3>3, <3>4, <3>5, <3>6 DEF Arrived, Spoiled
  <2> QED
    BY <2>1, <2>2, <2>3, <2>4, <2>5
<1> QED
  BY <1>4, <1>5

-----------------------------------------------------------------------------
(* Verifier.                                                               *)

Following(rc, ind, m, v, n, q) ==
  /\ VerifierShape(v)
  /\ v.alpha_shares = [p \in Parties |-> v.alpha_shares[p]]
  /\ v.b_shares = [p \in Parties |-> v.b_shares[p]]
  /\ v.v_shares = [p \in Parties |-> v.v_shares[p]]
  /\ Content1(v.h_1, m, rc.salt, RC(rc, ind), RD(rc), n, q)
  /\ Content2Hidden(v.h_2, rc.h_1, rc.salt, ind, RA(rc), n)
  /\ n \in Reps /\ ind[n] < q => v.alpha_shares[ind[n]] = rc.proofs[n].alpha

Recomputed(k, d, eps, ind) ==
  [r \in Reps |-> [p \in Parties |->
     IF p = ind[r] THEN Sum(Vs(k, d, eps)[r], 0, Last) \oplus Vs(k, d, eps)[r][p]
     ELSE Vs(k, d, eps)[r][p]]]

PartAlpha(k, d, eps, n, q) ==
  [i \in Boxes |-> Sum([p \in Parties |-> Shares(k, d, eps)[n][p][i]], 0, q - 1)]

Agreeing(k, d, eps, ind, g, v, n, q) ==
  /\ Content2(v.h_2, g.h_1, Honest, Shares(k, d, eps), Recomputed(k, d, eps, ind), n)
  /\ v.alpha = PartAlpha(k, d, eps, n, q)
  /\ \A p \in 0 .. q - 1 : v.alpha_shares[p] = Shares(k, d, eps)[n][p]
  /\ \A p \in 0 .. q - 1 : p # ind[n] =>
       /\ v.v_shares[p] = VShare(Checks(k, d)[n][p], eps[n])
       /\ v.b_shares[p] = Checks(k, d)[n][p].b

LEMMA PartAlphaNone ==
  ASSUME NEW k, NEW d, NEW eps, NEW n
  PROVE  PartAlpha(k, d, eps, n, 0) = [i \in Boxes |-> Zero]
<1>1. \A f : Sum(f, 0, 0 - 1) = Zero
  <2>1. 0 \in Int
    OBVIOUS
  <2> QED
    BY <2>1, SumEmpty
<1> QED
  BY <1>1 DEF PartAlpha

LEMMA PartAlphaNext ==
  ASSUME NEW k, NEW d, NEW eps, NEW n, NEW q \in Parties
  PROVE  PartAlpha(k, d, eps, n, q + 1)
           = AddTo(PartAlpha(k, d, eps, n, q), Shares(k, d, eps)[n][q])
<1> DEFINE A == Shares(k, d, eps)[n]
<1>1. 0 \in Int /\ q \in Int /\ 0 <= q /\ (q + 1) - 1 = q
  BY RepsFacts
<1>2. ASSUME NEW i \in Boxes
      PROVE  Sum([p \in Parties |-> A[p][i]], 0, (q + 1) - 1)
               = Sum([p \in Parties |-> A[p][i]], 0, q - 1) \oplus A[q][i]
  <2> DEFINE f == [p \in Parties |-> A[p][i]]
  <2>1. f[q] = A[q][i]
    OBVIOUS
  <2> HIDE DEF f, A
  <2>2. Sum(f, 0, q) = Sum(f, 0, q - 1) \oplus f[q]
    BY <1>1, SumStep
  <2> QED
    BY <1>1, <2>1, <2>2 DEF f
<1> HIDE DEF A
<1> QED
  BY <1>2 DEF PartAlpha, AddTo, A

LEMMA FollowStart ==
  ASSUME NEW rc, NEW ind, NEW m, NEW junk, NEW v,
         v = [alpha |-> [i \in Boxes |-> Zero],
              alpha_shares |-> [p \in Parties |-> [i \in Boxes |-> junk]],
              b_shares |-> [p \in Parties |-> [i \in Boxes |-> junk]],
              v_shares |-> [p \in Parties |-> junk],
              h_1 |-> <<m, rc.salt>>, h_2 |-> <<rc.h_1, rc.salt>>],
         ind \in [Reps -> Parties]
  PROVE  Following(rc, ind, m, v, 0, 0)
<1>1. /\ VerifierShape(v)
      /\ v.alpha_shares = [p \in Parties |-> v.alpha_shares[p]]
      /\ v.b_shares = [p \in Parties |-> v.b_shares[p]]
      /\ v.v_shares = [p \in Parties |-> v.v_shares[p]]
      /\ v.h_1 = <<m, rc.salt>> /\ v.h_2 = <<rc.h_1, rc.salt>>
  BY DEF VerifierShape
<1>2. ~(ind[0] < 0)
  BY RepsFacts
<1> QED
  BY <1>1, <1>2, Content1Start, Content2HiddenStart DEF Following

LEMMA AgreeStart ==
  ASSUME NEW k, NEW d, NEW eps, NEW ind, NEW g, NEW v,
         v.alpha = [i \in Boxes |-> Zero], v.h_2 = <<g.h_1, Honest>>
  PROVE  Agreeing(k, d, eps, ind, g, v, 0, 0)
<1>1. \A p \in 0 .. 0 - 1 : FALSE
  OBVIOUS
<1> QED
  BY <1>1, PartAlphaNone, Content2Start DEF Agreeing

(* One party's turn.                                                       *)
LEMMA FollowParty ==
  ASSUME NEW rc, NEW ind \in [Reps -> Parties], NEW m, NEW v, NEW n \in Reps, NEW q \in Parties,
         Following(rc, ind, m, v, n, q), NEW t,
         VerifierShape(t),
         t.h_1 = Append(v.h_1, RC(rc, ind)[n][q]), t.h_2 = v.h_2,
         NEW a, t.alpha_shares = [v.alpha_shares EXCEPT ![q] = a],
         q = ind[n] => a = rc.proofs[n].alpha,
         t.b_shares = [p \in Parties |-> t.b_shares[p]],
         t.v_shares = [p \in Parties |-> t.v_shares[p]]
  PROVE  Following(rc, ind, m, t, n, q + 1)
<1>1. n \in Nat /\ q \in 0 .. Last /\ ind[n] \in Parties /\ \A p \in Parties : p \in Nat
  BY RepsFacts
<1>2. Content1(t.h_1, m, rc.salt, RC(rc, ind), RD(rc), n, q + 1)
  <2> DEFINE h == v.h_1
             C == RC(rc, ind)
             D == RD(rc)
             s == rc.salt
             e == C[n][q]
  <2>1. Content1(h, m, s, C, D, n, q)
    BY DEF Following
  <2>2. e = C[n][q] /\ t.h_1 = Append(h, e)
    OBVIOUS
  <2> HIDE DEF h, C, D, s, e
  <2>3. Content1(Append(h, e), m, s, C, D, n, q + 1)
    BY <1>1, <2>1, <2>2, Content1Append
  <2> QED
    BY <2>2, <2>3 DEF C, D, s
<1>3. /\ t.alpha_shares = [p \in Parties |-> t.alpha_shares[p]]
      /\ t.alpha_shares[q] = a
      /\ \A p \in Parties : p # q => t.alpha_shares[p] = v.alpha_shares[p]
  BY DEF Following
<1>4. ind[n] < q + 1 => t.alpha_shares[ind[n]] = rc.proofs[n].alpha
  <2>1. CASE q = ind[n]
    BY <1>3, <2>1
  <2>2. CASE q # ind[n]
    <3> DEFINE h == ind[n]
    <3>2. h \in Nat /\ q \in Nat /\ q # h
      BY <1>1, <2>2
    <3> HIDE DEF h
    <3>3. h < q + 1 => h < q
      BY <3>2
    <3>1. ind[n] < q + 1 => ind[n] < q
      BY <3>3 DEF h
    <3> QED
      BY <1>1, <1>3, <2>2, <3>1 DEF Following
  <2> QED
    BY <2>1, <2>2
<1> QED
  BY <1>2, <1>3, <1>4 DEF Following

LEMMA AgreeParty ==
  ASSUME NEW k, NEW d, NEW eps, NEW ind, NEW g, NEW v, NEW n \in Reps, NEW q \in Parties,
         Agreeing(k, d, eps, ind, g, v, n, q), NEW t,
         v.alpha_shares = [p \in Parties |-> v.alpha_shares[p]],
         t.h_2 = v.h_2,
         t.alpha_shares = [v.alpha_shares EXCEPT ![q] = Shares(k, d, eps)[n][q]],
         t.alpha = AddTo(v.alpha, Shares(k, d, eps)[n][q]),
         \A p \in Parties : p # q => t.v_shares[p] = v.v_shares[p] /\ t.b_shares[p] = v.b_shares[p],
         q # ind[n] => /\ t.v_shares[q] = VShare(Checks(k, d)[n][q], eps[n])
                       /\ t.b_shares[q] = Checks(k, d)[n][q].b
  PROVE  Agreeing(k, d, eps, ind, g, t, n, q + 1)
<1>1. q \in Nat /\ \A p \in 0 .. (q + 1) - 1 : p \in Parties /\ (p # q => p \in 0 .. q - 1)
  BY RepsFacts
<1>2. Content2(t.h_2, g.h_1, Honest, Shares(k, d, eps), Recomputed(k, d, eps, ind), n)
  BY DEF Agreeing
<1>3. t.alpha = PartAlpha(k, d, eps, n, q + 1)
  BY PartAlphaNext DEF Agreeing
<1>4. /\ t.alpha_shares[q] = Shares(k, d, eps)[n][q]
      /\ \A p \in Parties : p # q => t.alpha_shares[p] = v.alpha_shares[p]
  OBVIOUS
<1>5. \A p \in 0 .. (q + 1) - 1 : t.alpha_shares[p] = Shares(k, d, eps)[n][p]
  BY <1>1, <1>4 DEF Agreeing
<1>6. ASSUME NEW p \in 0 .. (q + 1) - 1, p # ind[n]
      PROVE  /\ t.v_shares[p] = VShare(Checks(k, d)[n][p], eps[n])
             /\ t.b_shares[p] = Checks(k, d)[n][p].b
  BY <1>1, <1>6 DEF Agreeing
<1> QED
  BY <1>2, <1>3, <1>5, <1>6 DEF Agreeing

LEMMA FollowFinish ==
  ASSUME NEW rc, NEW ind \in [Reps -> Parties], NEW m, NEW v, NEW n \in Reps,
         Following(rc, ind, m, v, n, N), NEW t, VerifierShape(t),
         t.h_1 = Append(v.h_1, RD(rc)[n]),
         NEW w, t.h_2 = v.h_2 \o <<v.alpha_shares, w>>,
         t.alpha_shares = v.alpha_shares, t.b_shares = v.b_shares,
         t.v_shares = [p \in Parties |-> t.v_shares[p]]
  PROVE  Following(rc, ind, m, t, n + 1, 0)
<1>1. n \in Nat /\ ind[n] \in Parties /\ \A p \in Parties : p \in Nat /\ p < N /\ ~(p < 0)
  BY RepsFacts
<1>2. Content1(t.h_1, m, rc.salt, RC(rc, ind), RD(rc), n + 1, 0)
  <2> DEFINE h == v.h_1
             C == RC(rc, ind)
             D == RD(rc)
             s == rc.salt
             e == D[n]
  <2>1. Content1(h, m, s, C, D, n, N)
    BY DEF Following
  <2>2. e = D[n] /\ t.h_1 = Append(h, e)
    OBVIOUS
  <2> HIDE DEF h, C, D, s, e
  <2>3. Content1(Append(h, e), m, s, C, D, n + 1, 0)
    BY <1>1, <2>1, <2>2, Content1Finish
  <2> QED
    BY <2>2, <2>3 DEF C, D, s
<1>3. Content2Hidden(t.h_2, rc.h_1, rc.salt, ind, RA(rc), n + 1)
  <2> DEFINE h == v.h_2
             A == RA(rc)
             s == rc.salt
             q == rc.h_1
             a == v.alpha_shares
  <2>1. Content2Hidden(h, q, s, ind, A, n)
    BY DEF Following
  <2>2. a[ind[n]] = A[n]
    BY <1>1 DEF Following, RA
  <2>3. t.h_2 = h \o <<a, w>>
    OBVIOUS
  <2> HIDE DEF h, A, s, q, a
  <2>4. Content2Hidden(h \o <<a, w>>, q, s, ind, A, n + 1)
    BY <1>1, <2>1, <2>2, Content2HiddenStep
  <2> QED
    BY <2>3, <2>4 DEF A, s, q
<1>4. n + 1 \in Reps => ~(ind[n + 1] < 0)
  BY <1>1
<1> QED
  BY <1>2, <1>3, <1>4 DEF Following

FinishedBy(ind, v, n, opened, w, t) ==
  /\ opened = [p \in Parties |->
                 IF p = ind[n] THEN v.v_shares[p]
                 ELSE v.v_shares[p] \oplus Opening(v.b_shares[p], v.alpha)]
  /\ w = [p \in Parties |-> IF p = ind[n] THEN HiddenShare(opened, ind[n]) ELSE opened[p]]
  /\ t.alpha = [i \in Boxes |-> Zero]
  /\ t.h_2 = v.h_2 \o <<v.alpha_shares, w>>

LEMMA AgreeFinish ==
  ASSUME NEW k, NEW d, Keyed(k, d), NEW eps \in [Reps -> Challenges],
         NEW ind \in [Reps -> Parties], NEW g, NEW v, NEW n \in Reps,
         Agreeing(k, d, eps, ind, g, v, n, N),
         v.alpha_shares = [p \in Parties |-> v.alpha_shares[p]],
         NEW opened, NEW w, NEW t, FinishedBy(ind, v, n, opened, w, t)
  PROVE  Agreeing(k, d, eps, ind, g, t, n + 1, 0)
<1>1. n \in Nat /\ ind[n] \in Parties /\ \A p \in Parties : p \in 0 .. N - 1
  BY RepsFacts
<1> DEFINE M == Check(d[n], k.pt, k.ct)
           A == Shares(k, d, eps)
           V == Values(d[n], k.pt, k.ct, eps[n])
           h == ind[n]
<1>2. Checks(k, d)[n] = M /\ Vs(k, d, eps)[n] = V
  BY DEF Checks, Vs
<1>3. v.alpha_shares = A[n]
  <2>1. \A p \in Parties : v.alpha_shares[p] = A[n][p]
    BY <1>1 DEF Agreeing
  <2>2. A[n] = [p \in Parties |-> A[n][p]]
    BY DEF Shares
  <2> QED
    BY <2>1, <2>2
<1>4. v.alpha = Alphas(d[n], k.pt, k.ct, eps[n])
  <2>1. ASSUME NEW i \in Boxes
        PROVE  [p \in Parties |-> A[n][p][i]] = [p \in Parties |-> AlphaShare(M[p], eps[n])[i]]
    BY <1>2 DEF Shares
  <2>2. v.alpha = PartAlpha(k, d, eps, n, N)
    BY DEF Agreeing
  <2>3. N - 1 = Last
    BY RepsFacts
  <2> QED
    BY <2>1, <2>2, <2>3 DEF PartAlpha, Alphas
<1>5. \A p \in Parties : p # h => opened[p] = V[p]
  <2> SUFFICES ASSUME NEW p \in Parties, p # h
               PROVE  opened[p] = V[p]
    OBVIOUS
  <2>1. v.v_shares[p] = VShare(M[p], eps[n]) /\ v.b_shares[p] = M[p].b
    BY <1>1, <1>2 DEF Agreeing
  <2>2. opened[p] = v.v_shares[p] \oplus Opening(v.b_shares[p], v.alpha)
    BY DEF FinishedBy
  <2> HIDE DEF M
  <2>3. V[p] = VShare(M[p], eps[n]) \oplus Opening(M[p].b, Alphas(d[n], k.pt, k.ct, eps[n]))
    BY DEF Values, M
  <2> QED
    BY <1>4, <2>1, <2>2, <2>3
<1>6. \A p \in Parties : V[p] \in Elements
  <2>1. d[n] \in [Parties -> TapeType] /\ k.pt \in Elements /\ k.ct \in Elements
    BY DEF Keyed
  <2>2. eps[n] \in [Boxes -> Elements]
    <3>1. Challenges \subseteq [Boxes -> Elements]
      BY AimerAssumption, Zenon
    <3> QED
      BY <3>1
  <2> QED
    BY <2>1, <2>2, GapTotals
<1>7. HiddenShare(opened, h) = Sum(V, 0, Last) \oplus V[h]
  <2> HIDE DEF V, h
  <2>1. h \in Parties
    BY <1>1 DEF h
  <2>2. Masked(V, opened, h)
    BY <1>5, <1>6 DEF Masked
  <2> QED
    BY <2>1, <2>2, HiddenTotal
<1>8. w = Recomputed(k, d, eps, ind)[n]
  <2> HIDE DEF V, M
  <2>1. Recomputed(k, d, eps, ind)[n] =
          [p \in Parties |-> IF p = ind[n] THEN Sum(V, 0, Last) \oplus V[p] ELSE V[p]]
    BY <1>2 DEF Recomputed
  <2>2. w = [p \in Parties |-> IF p = h THEN HiddenShare(opened, h) ELSE opened[p]]
    BY DEF FinishedBy
  <2> QED
    BY <1>5, <1>7, <2>1, <2>2
<1>9. Content2(t.h_2, g.h_1, Honest, A, Recomputed(k, d, eps, ind), n + 1)
  <2> DEFINE R == Recomputed(k, d, eps, ind)
             x == v.h_2
             q == g.h_1
             a == v.alpha_shares
  <2>1. Content2(x, q, Honest, A, R, n)
    BY DEF Agreeing
  <2>2. a = A[n] /\ w = R[n] /\ t.h_2 = x \o <<a, w>>
    BY <1>3, <1>8 DEF FinishedBy
  <2> HIDE DEF R, x, q, a, A
  <2>3. Content2(x \o <<a, w>>, q, Honest, A, R, n + 1)
    BY <1>1, <2>1, <2>2, Content2Step
  <2> QED
    BY <2>2, <2>3 DEF R, q
<1>10. t.alpha = PartAlpha(k, d, eps, n + 1, 0)
  BY PartAlphaNone DEF FinishedBy
<1>11. \A p \in 0 .. 0 - 1 : FALSE
  OBVIOUS
<1> QED
  BY <1>9, <1>10, <1>11 DEF Agreeing

-----------------------------------------------------------------------------
(* The comparison at the end.                                              *)

LEMMA HonestRows ==
  ASSUME NEW k, NEW d, NEW eps, NEW ind, NEW g, Signed(k, d, eps, ind, g)
  PROVE  RC(g, ind) = Committed /\ RD(g) = Deltas(k, d)
<1>1. \A r \in Reps : g.proofs[r] = ProofOf(k, d, eps, ind, r)
  BY DEF Signed
<1>2. RD(g) = Deltas(k, d)
  <2> DEFINE D == Deltas(k, d)
  <2>1. D = [r \in Reps |-> D[r]]
    BY DEF Deltas
  <2>2. \A r \in Reps : g.proofs[r].delta = D[r]
    <3> SUFFICES ASSUME NEW r \in Reps
                 PROVE  g.proofs[r].delta = D[r]
      OBVIOUS
    <3>1. g.proofs[r] = ProofOf(k, d, eps, ind, r)
      BY <1>1
    <3> QED
      BY <3>1 DEF ProofOf
  <2> HIDE DEF D
  <2>3. RD(g) = D
    BY <2>1, <2>2 DEF RD
  <2> QED
    BY <2>3 DEF D
<1>3. ASSUME NEW r \in Reps, NEW p \in Parties
      PROVE  RC(g, ind)[r][p] = Committed[r][p]
  <2>0. g.proofs[r] = ProofOf(k, d, eps, ind, r)
    BY <1>1
  <2>1. g.proofs[r].path = Path(r, ind[r]) /\ g.proofs[r].commitment = Committed[r][ind[r]]
    BY <2>0 DEF ProofOf
  <2>2. Reconstructed(g.proofs[r].path, g.salt, r, p, ind[r]) = Seed(r, p)
    BY <2>1 DEF Reconstructed, Signed
  <2>3. Committed[r][p] = Commit(Honest, r, p, Seed(r, p))
    BY DEF Committed
  <2>4. g.salt = Honest
    BY DEF Signed
  <2> QED
    BY <2>1, <2>2, <2>3, <2>4 DEF RC
<1>4. RC(g, ind) = [r \in Reps |-> [p \in Parties |-> RC(g, ind)[r][p]]]
  BY DEF RC
<1>5. Committed = [r \in Reps |-> [p \in Parties |-> Committed[r][p]]]
  BY DEF Committed
<1>6. RC(g, ind) = Committed
  BY <1>3, <1>4, <1>5
<1> QED
  BY <1>2, <1>6

LEMMA SpoiledRejected ==
  ASSUME NEW k, NEW d, NEW eps, NEW ind \in [Reps -> Parties], NEW g, NEW rc, NEW m, NEW v,
         Spoiled(k, d, eps, ind, g, rc, m), Following(rc, ind, m, v, T, 0)
  PROVE  ~(v.h_1 = rc.h_1 /\ v.h_2 = rc.h_2)
<1>1. Content1(v.h_1, m, rc.salt, RC(rc, ind), RD(rc), T, 0)
      /\ Content2Hidden(v.h_2, rc.h_1, rc.salt, ind, RA(rc), T)
  BY DEF Following
<1>2. IsText(v.h_1, Pos(T, 0)) /\ IsText(v.h_2, 2 + 2 * T) /\ v.h_1[1] = m /\ v.h_1[2] = rc.salt
  BY <1>1 DEF Content1, Content2Hidden
<1>3. v.h_1 # Altered /\ v.h_2 # Altered
  <2>1. IsText(Altered, 1)
    BY DEF Altered, IsText
  <2>2. Pos(T, 0) >= 2 /\ 2 + 2 * T >= 2 /\ Pos(T, 0) \in Nat /\ 2 + 2 * T \in Nat
    BY Positions, RepsFacts
  <2>3. Pos(T, 0) # 1 /\ 2 + 2 * T # 1
    BY <2>2
  <2> QED
    BY <1>2, <2>1, <2>3, TextLength
<1>4. CASE rc.h_1 = Altered \/ rc.h_2 = Altered
  BY <1>3, <1>4
<1>5. CASE /\ Signed(k, d, eps, ind, g)
           /\ rc.h_1 = g.h_1 /\ rc.h_2 = g.h_2
           /\ \/ rc.salt = Altered
              \/ m = Altered
              \/ rc.salt = Honest /\ \E r \in Reps : Differs(rc.proofs[r], g.proofs[r])
  <2>1. /\ Content1(g.h_1, Honest, Honest, Committed, Deltas(k, d), T, 0)
        /\ Content2(g.h_2, g.h_1, Honest, Shares(k, d, eps), Vs(k, d, eps), T)
        /\ g.h_1[1] = Honest /\ g.h_1[2] = Honest
    BY <1>5 DEF Signed, Content1
  <2>2. Honest # Altered
    BY DEF Honest, Altered
  <2>3. CASE rc.salt = Altered \/ m = Altered
    BY <1>2, <1>5, <2>1, <2>2, <2>3
  <2>4. ASSUME rc.salt = Honest, NEW r \in Reps, Differs(rc.proofs[r], g.proofs[r]),
               v.h_1 = g.h_1, v.h_2 = g.h_2
        PROVE  FALSE
    <3> DEFINE p == rc.proofs[r]
               q == g.proofs[r]
               h == ind[r]
    <3>1. q = ProofOf(k, d, eps, ind, r)
      BY <1>5 DEF Signed
    <3>2. /\ q.path = Path(r, h) /\ q.commitment = Committed[r][h]
          /\ q.delta = Deltas(k, d)[r] /\ q.alpha = Shares(k, d, eps)[r][h]
      BY <3>1 DEF ProofOf
    <3>3. r \in 0 .. T - 1 /\ h \in Parties
      BY RepsFacts
    <3>4. \A j \in Parties : RC(rc, ind)[r][j] = Committed[r][j]
      <4>1. \A j \in Parties : v.h_1[Pos(r, j + 1)] = RC(rc, ind)[r][j]
        BY <1>1, <3>3 DEF Content1
      <4>2. \A j \in Parties : g.h_1[Pos(r, j + 1)] = Committed[r][j]
        BY <2>1, <3>3 DEF Content1
      <4> QED
        BY <2>4, <4>1, <4>2
    <3>5. q.path = p.path
      <4>1. PICK j \in Parties : j # h
        <5>1. 0 \in Parties /\ 1 \in Parties /\ 0 # 1
          BY RepsFacts
        <5> QED
          BY <5>1
      <4>2. RC(rc, ind)[r][j] = Commit(Honest, r, j, Reconstructed(p.path, Honest, r, j, h))
        BY <2>4, <4>1 DEF RC
      <4>3. Committed[r][j] = Commit(Honest, r, j, Seed(r, j))
        BY DEF Committed
      <4>4. Reconstructed(p.path, Honest, r, j, h) = Seed(r, j)
        BY <3>4, <4>2, <4>3 DEF Commit
      <4>5. Seed(r, j) # NotASeed
        BY DEF Seed, NotASeed
      <4> QED
        BY <3>2, <4>4, <4>5 DEF Reconstructed
    <3>6. q.commitment = p.commitment
      <4>1. RC(rc, ind)[r][h] = p.commitment
        BY <3>3 DEF RC
      <4> QED
        BY <3>2, <3>3, <3>4, <4>1
    <3>7. q.delta = p.delta
      <4>1. v.h_1[Pos(r, N + 1)] = RD(rc)[r]
        BY <1>1, <3>3 DEF Content1
      <4>2. g.h_1[Pos(r, N + 1)] = Deltas(k, d)[r]
        BY <2>1, <3>3 DEF Content1
      <4>3. RD(rc)[r] = p.delta
        BY DEF RD
      <4> QED
        BY <2>4, <3>2, <4>1, <4>2, <4>3
    <3>8. q.alpha = p.alpha
      <4>1. v.h_2[2 * r + 3][h] = RA(rc)[r]
        BY <1>1, <3>3 DEF Content2Hidden
      <4>2. g.h_2[2 * r + 3] = Shares(k, d, eps)[r]
        BY <2>1, <3>3 DEF Content2
      <4>3. RA(rc)[r] = p.alpha
        BY DEF RA
      <4> QED
        BY <2>4, <3>2, <4>1, <4>2, <4>3
    <3> QED
      BY <2>4, <3>5, <3>6, <3>7, <3>8 DEF Differs
  <2> QED
    BY <1>5, <2>3, <2>4
<1> QED
  BY <1>4, <1>5 DEF Spoiled

LEMMA HonestVerdict ==
  ASSUME NEW k, NEW d, Keyed(k, d), NEW eps \in [Reps -> Challenges],
         NEW ind \in [Reps -> Parties], NEW g, NEW v,
         Signed(k, d, eps, ind, g), Following(g, ind, Honest, v, T, 0),
         Agreeing(k, d, eps, ind, g, v, T, 0)
  PROVE  (v.h_1 = g.h_1 /\ v.h_2 = g.h_2)
           <=> \A r \in Reps : Sum(Vs(k, d, eps)[r], 0, Last) = Zero
<1> DEFINE A == Shares(k, d, eps)
           V == Vs(k, d, eps)
           R == Recomputed(k, d, eps, ind)
           C == Committed
           D == Deltas(k, d)
<1>0. T \in Nat
  BY RepsFacts
<1>1. v.h_1 = g.h_1
  <2>1. Content1(g.h_1, Honest, Honest, C, D, T, 0)
    BY DEF Signed
  <2>2. g.salt = Honest /\ RC(g, ind) = C /\ RD(g) = D
    BY HonestRows DEF Signed
  <2>3. Content1(v.h_1, Honest, Honest, C, D, T, 0)
    BY <2>2 DEF Following
  <2> HIDE DEF C, D
  <2> QED
    BY <1>0, <2>1, <2>3, Content1Same
<1>2. Content2(g.h_2, g.h_1, Honest, A, V, T)
  BY DEF Signed
<1>3. Content2(v.h_2, g.h_1, Honest, A, R, T)
  BY DEF Agreeing
<1>4. ASSUME NEW r \in Reps
      PROVE  R[r] = V[r] <=> Sum(V[r], 0, Last) = Zero
  <2> DEFINE W == V[r]
             s == Sum(W, 0, Last)
             h == ind[r]
             x == W[h]
  <2>1. R[r] = [p \in Parties |-> IF p = h THEN s \oplus W[p] ELSE W[p]]
    BY DEF Recomputed
  <2>2. W = Values(d[r], k.pt, k.ct, eps[r])
    BY DEF Vs
  <2>3. d[r] \in [Parties -> TapeType] /\ k.pt \in Elements /\ k.ct \in Elements
    BY DEF Keyed
  <2>4. eps[r] \in [Boxes -> Elements]
    <3>1. Challenges \subseteq [Boxes -> Elements]
      BY AimerAssumption, Zenon
    <3> QED
      BY <3>1
  <2>5. \A p \in Parties : W[p] \in Elements
    BY <2>2, <2>3, <2>4, GapTotals
  <2>6. W = [p \in Parties |-> W[p]]
    BY <2>2 DEF Values
  <2>7. h \in Parties
    OBVIOUS
  <2> HIDE DEF W, R, h
  <2>8. s \in Elements
    <3>1. 0 \in Int /\ Last \in Int /\ 0 - 1 <= Last /\ \A p \in 0 .. Last : p \in Parties
      BY Indices
    <3>2. \A p \in 0 .. Last : W[p] \in Elements
      BY <2>5, <3>1
    <3> QED
      BY <3>1, <3>2, SumType
  <2> HIDE DEF s
  <2>9. R[r] = W <=> s \oplus x = x
    <3>1. ASSUME s \oplus x = x
          PROVE  R[r] = W
      BY <2>1, <2>6, <3>1
    <3>2. ASSUME R[r] = W
          PROVE  s \oplus x = x
      <4>1. R[r][h] = s \oplus W[h]
        BY <2>1, <2>7
      <4> QED
        BY <3>2, <4>1
    <3> QED
      BY <3>1, <3>2
  <2>10. x \in Elements
    BY <2>5, <2>7
  <2>11. s \oplus x = x <=> s = Zero
    <3> HIDE DEF x
    <3>1. ASSUME s = Zero
          PROVE  s \oplus x = x
      <4>1. Zero \oplus x = x \oplus Zero /\ x \oplus Zero = x
        BY <2>10, Field
      <4> QED
        BY <3>1, <4>1
    <3>2. ASSUME s \oplus x = x
          PROVE  s = Zero
      <4>1. (s \oplus x) \oplus x = s
        BY <2>8, <2>10, PlusTwice
      <4>2. x \oplus x = Zero
        BY <2>10, Field
      <4> QED
        BY <3>2, <4>1, <4>2
    <3> QED
      BY <3>1, <3>2
  <2> QED
    BY <2>9, <2>11 DEF W, s
<1>5. v.h_2 = g.h_2 <=> \A r \in Reps : R[r] = V[r]
  <2>1. ASSUME v.h_2 = g.h_2, NEW r \in Reps
        PROVE  R[r] = V[r]
    <3>1. r \in 0 .. T - 1
      BY RepsFacts
    <3>2. v.h_2[2 * r + 4] = R[r] /\ g.h_2[2 * r + 4] = V[r]
      BY <1>2, <1>3, <3>1 DEF Content2
    <3> QED
      BY <2>1, <3>2
  <2>2. ASSUME \A r \in Reps : R[r] = V[r]
        PROVE  v.h_2 = g.h_2
    <3>1. R = [r \in Reps |-> R[r]] /\ V = [r \in Reps |-> V[r]]
      BY DEF Recomputed, Vs
    <3> HIDE DEF A, R, V
    <3>2. R = V
      BY <2>2, <3>1
    <3> QED
      BY <1>0, <1>2, <1>3, <3>2, Content2Same
  <2> QED
    BY <2>1, <2>2
<1> QED
  BY <1>1, <1>4, <1>5

-----------------------------------------------------------------------------
(* The inductive invariant, a part for every stage of a signature's way.   *)

WhileSharing ==
  /\ phase = "phase1" =>
       /\ repetition \in Reps /\ party \in Parties
       /\ signer.alpha_shares = <<>>
       /\ Sharing(key, draw, signer, sign, repetition, party)
  /\ phase = "challenge1" => signer.alpha_shares = <<>> /\ Shared(key, draw, signer, sign)

WhileSimulating ==
  /\ phase = "phase3" =>
       repetition \in Reps /\ Simulated(key, draw, epsilons, signer, sign, repetition)
  /\ phase = "challenge2" => Simulated(key, draw, epsilons, signer, sign, T)

WhileOpening ==
  /\ phase = "phase5" =>
       repetition \in Reps /\ Opened(key, draw, epsilons, indices, signer, sign, repetition)
  /\ phase = "sent" => Signed(key, draw, epsilons, indices, sign)

Verifies == phase \in {"verify", "opened", "compare"}

WhileVerifying ==
  /\ phase = "verify" => repetition \in Reps /\ party \in Parties
  /\ phase = "opened" => repetition \in Reps /\ party = N
  /\ phase = "compare" => repetition = T /\ party = 0
  /\ Verifies =>
       /\ Arrived(key, draw, epsilons, indices, sign, received, mu)
       /\ Following(received, indices, mu, verifier, repetition, party)
       /\ Unaltered => Agreeing(key, draw, epsilons, indices, sign, verifier, repetition, party)

Decided ==
  phase \in {"accepted", "rejected"} =>
    /\ epsilons \in [Reps -> Challenges]
    /\ phase = "accepted" => Unaltered
    /\ Unaltered =>
         (phase = "accepted" <=> \A r \in Reps : Sum(Vs(key, draw, epsilons)[r], 0, Last) = Zero)

SignatureInv ==
  /\ Keyed(key, draw)
  /\ WhileSharing
  /\ WhileSimulating
  /\ WhileOpening
  /\ WhileVerifying
  /\ Decided

LEMMA SharingStarts ==
  ASSUME InitSignature
  PROVE  Sharing(key, draw, signer, sign, 0, 0)
<1>1. /\ SignerShape(signer)
      /\ signer.delta = NoTape
      /\ signer.commits = [r \in Reps |-> <<>>]
      /\ signer.mult_chk = [r \in Reps |-> <<>>]
      /\ signer.h_1 = <<Honest, Honest>>
  BY DEF InitSignature, SignerShape
<1>2. SignShape(sign) /\ sign.salt = Honest
  <2>1. sign = [salt |-> Honest, h_1 |-> <<>>, h_2 |-> <<>>, proofs |-> [r \in Reps |-> EmptyProof]]
    BY DEF InitSignature
  <2>2. IsProof(EmptyProof)
    BY DEF IsProof, EmptyProof
  <2> QED
    BY <2>1, <2>2 DEF SignShape
<1>3. signer.delta = Collected(draw[0], 0 - 1)
  BY <1>1, CollectedNone
<1>4. Rows(signer.commits, Committed, 0, 0) /\ Rows(signer.mult_chk, Checks(key, draw), 0, 0)
  BY <1>1, RowsNone
<1>5. Content1(signer.h_1, Honest, Honest, Committed, Deltas(key, draw), 0, 0)
  BY <1>1, Content1Start
<1>6. \A r \in 0 .. 0 - 1 : FALSE
  OBVIOUS
<1> QED
  BY <1>1, <1>2, <1>3, <1>4, <1>5, <1>6 DEF Sharing

LEMMA InvStarts == InitSignature => SignatureInv
<1> SUFFICES ASSUME InitSignature PROVE SignatureInv
  OBVIOUS
<1>1. Keyed(key, draw)
  <2>1. PICK pt \in Pts, ct \in Elements : key = [pt |-> pt, ct |-> ct]
    BY DEF InitSignature
  <2>2. Pts \subseteq Elements
    BY AimerAssumption, Zenon
  <2>3. Draws \subseteq [Reps -> [Parties -> TapeType]]
    BY AimerAssumption, Zenon
  <2>4. draw \in Draws
    BY DEF InitSignature
  <2> QED
    BY <2>1, <2>2, <2>3, <2>4 DEF Keyed
<1>2. phase = "phase1" /\ repetition = 0 /\ party = 0 /\ signer.alpha_shares = <<>>
  BY DEF InitSignature
<1>3. 0 \in Reps /\ 0 \in Parties
  BY RepsFacts
<1>4. WhileSharing
  BY <1>2, <1>3, SharingStarts DEF WhileSharing
<1> QED
  BY <1>1, <1>2, <1>4
  DEF SignatureInv, WhileSimulating, WhileOpening, WhileVerifying, Verifies, Decided

LEMMA ShareKeepsInv == ASSUME SignatureInv, Share PROVE SignatureInv'
<1> DEFINE n == repetition
           m == party
           s == signer
           g == sign
           k == key
           d == draw
<1>1. /\ phase = "phase1" /\ n \in Reps /\ m \in Parties /\ s.alpha_shares = <<>>
      /\ Sharing(k, d, s, g, n, m) /\ Keyed(k, d)
  BY DEF SignatureInv, WhileSharing, Share
<1>2. key' = k /\ draw' = d
  BY DEF Share
<1>3. sign.salt = Honest
  BY <1>1 DEF Sharing
<1>4. Tape(draw, sign.salt, n, m, Seed(n, m)) = d[n][m]
  BY <1>3 DEF Tape
<1>5. m \in 0 .. Last /\ Last \in Nat
  BY <1>1, RepsFacts
<1>6. CASE m < Last
  <2>1. /\ signer' = [s EXCEPT !.delta = AddTapes(s.delta, d[n][m]),
                        !.commits[n] = Append(s.commits[n], Commit(Honest, n, m, Seed(n, m))),
                        !.mult_chk[n] = Append(s.mult_chk[n], Mpc(d[n][m], k.ct, m))]
        /\ party' = m + 1 /\ phase' = "phase1" /\ repetition' = n /\ sign' = g
    <3>1. m # Last
      BY <1>5, <1>6
    <3>2. phase' = phase
      BY <3>1 DEF Share
    <3> QED
      BY <1>1, <1>3, <1>4, <3>1, <3>2 DEF Share
  <2>2. m # Last /\ m + 1 \in Parties
    BY <1>5, <1>6, RepsFacts
  <2>3. Sharing(k, d, signer', g, n, m + 1)
    BY <1>1, <2>1, <2>2, ShareNext
  <2>4. (signer').alpha_shares = <<>>
    <3>1. SignerShape(s)
      BY <1>1 DEF Sharing
    <3> QED
      BY <1>1, <2>1, <3>1 DEF SignerShape
  <2>5. WhileSharing'
    BY <1>1, <1>2, <2>1, <2>2, <2>3, <2>4 DEF WhileSharing
  <2> QED
    BY <1>1, <1>2, <2>1, <2>5
    DEF SignatureInv, WhileSimulating, WhileOpening, WhileVerifying, Verifies, Decided
<1>7. CASE m = Last
  <2> DEFINE x == Offsets(AddTapes(s.delta, d[n][Last]), k.pt, SboxOutputs(k.pt, k.ct))
             c == Append(s.commits[n], Commit(Honest, n, Last, Seed(n, Last)))
  <2>1. /\ signer' = [s EXCEPT !.delta = NoTape,
                        !.commits[n] = c,
                        !.mult_chk[n] = Append(s.mult_chk[n], Mpc(Adjusted(d[n][Last], x), k.ct, Last)),
                        !.h_1 = s.h_1 \o c \o <<Stored(x)>>]
        /\ sign' = [g EXCEPT !.proofs[n].delta = Stored(x)]
        /\ repetition' = n + 1 /\ party' = 0
        /\ phase' = IF n + 1 < T THEN "phase1" ELSE "challenge1"
    BY <1>3, <1>4, <1>5, <1>7 DEF Share, Cleared, Hashed, StartRep
  <2>2. Sharing(k, d, s, g, n, Last)
    BY <1>1, <1>7
  <2> HIDE DEF x, c
  <2>3. x = Offsets(AddTapes(s.delta, d[n][Last]), k.pt, SboxOutputs(k.pt, k.ct))
        /\ c = Append(s.commits[n], Commit(Honest, n, Last, Seed(n, Last)))
    BY DEF x, c
  <2>4. Sharing(k, d, signer', sign', n + 1, 0)
    BY <1>1, <2>1, <2>2, <2>3, ShareLast
  <2>5. (signer').alpha_shares = <<>>
    <3>1. SignerShape(s)
      BY <1>1 DEF Sharing
    <3> QED
      BY <1>1, <2>1, <3>1 DEF SignerShape
  <2>6. 0 \in Parties /\ (n + 1 < T => n + 1 \in Reps) /\ (~(n + 1 < T) => n + 1 = T)
    BY <1>1, RepsFacts
  <2>7. ~(n + 1 < T) => Shared(k, d, signer', sign')
    BY <2>4, <2>6, ShareDone
  <2>8. WhileSharing'
    BY <1>2, <2>1, <2>4, <2>5, <2>6, <2>7 DEF WhileSharing
  <2>9. phase' \in {"phase1", "challenge1"}
    BY <2>1
  <2> QED
    BY <1>1, <1>2, <2>8, <2>9
    DEF SignatureInv, WhileSimulating, WhileOpening, WhileVerifying, Verifies, Decided
<1> QED
  BY <1>5, <1>6, <1>7

LEMMA Challenge1KeepsInv == ASSUME SignatureInv, Challenge1 PROVE SignatureInv'
<1> DEFINE s == signer
           g == sign
           A == Shares(key, draw, epsilons')
           V == Vs(key, draw, epsilons')
<1>1. phase = "challenge1" /\ s.alpha_shares = <<>> /\ Shared(key, draw, s, g) /\ Keyed(key, draw)
  BY DEF SignatureInv, WhileSharing, Challenge1
<1>2. /\ sign' = [g EXCEPT !.h_1 = s.h_1]
      /\ epsilons' \in [Reps -> Challenges]
      /\ signer' = [s EXCEPT !.h_2 = <<s.h_1, g.salt>>]
      /\ repetition' = 0 /\ phase' = "phase3" /\ key' = key /\ draw' = draw
  BY DEF Challenge1, StartRep
<1>3. SignerShape(s) /\ SignShape(g) /\ g.salt = Honest
  BY <1>1 DEF Shared
<1>4. /\ SignerShape(signer') /\ (signer').commits = s.commits /\ (signer').mult_chk = s.mult_chk
      /\ (signer').h_1 = s.h_1 /\ (signer').alpha_shares = <<>>
      /\ (signer').h_2 = <<s.h_1, Honest>>
  BY <1>1, <1>2, <1>3 DEF SignerShape
<1>5. /\ SignShape(sign') /\ (sign').salt = Honest /\ (sign').proofs = g.proofs
      /\ (sign').h_1 = s.h_1
  BY <1>2, <1>3 DEF SignShape
<1>6. Shared(key, draw, signer', sign')
  BY <1>1, <1>4, <1>5 DEF Shared
<1>7. Content2((signer').h_2, (sign').h_1, Honest, A, V, 0)
  <2> HIDE DEF A, V
  <2> QED
    BY <1>4, <1>5, Content2Start
<1>8. IsText((signer').alpha_shares, 0) /\ \A r \in 0 .. 0 - 1 : FALSE
  BY <1>4, TextEmpty
<1>9. Simulated(key, draw, epsilons', signer', sign', 0)
  BY <1>2, <1>4, <1>5, <1>6, <1>7, <1>8 DEF Simulated
<1>10. WhileSimulating'
  BY <1>2, <1>9, RepsFacts DEF WhileSimulating
<1> QED
  BY <1>1, <1>2, <1>10
  DEF SignatureInv, WhileSharing, WhileOpening, WhileVerifying, Verifies, Decided

LEMMA SimulateKeepsInv == ASSUME SignatureInv, Simulate PROVE SignatureInv'
<1> DEFINE n == repetition
           s == signer
           M(p) == s.mult_chk[n][p + 1]
           shares == [p \in Parties |-> AlphaShare(M(p), epsilons[n])]
           alpha == [i \in Boxes |-> Sum([p \in Parties |-> shares[p][i]], 0, Last)]
           v == [p \in Parties |-> VShare(M(p), epsilons[n]) \oplus Opening(M(p).b, alpha)]
<1>1. phase = "phase3" /\ n \in Reps /\ Simulated(key, draw, epsilons, s, sign, n) /\ Keyed(key, draw)
  BY DEF SignatureInv, WhileSimulating, Simulate
<1>2. /\ signer' = [s EXCEPT !.alpha_shares = Append(s.alpha_shares, shares),
                             !.v_share = Append(s.v_share, v),
                             !.h_2 = s.h_2 \o <<shares, v>>]
      /\ repetition' = n + 1
      /\ phase' = IF n + 1 < T THEN "phase3" ELSE "challenge2"
      /\ key' = key /\ draw' = draw /\ sign' = sign /\ epsilons' = epsilons
  BY DEF Simulate, StartRep
<1>3. /\ shares = [p \in Parties |-> AlphaShare(s.mult_chk[n][p + 1], epsilons[n])]
      /\ alpha = [i \in Boxes |-> Sum([p \in Parties |-> shares[p][i]], 0, Last)]
      /\ v = [p \in Parties |-> VShare(s.mult_chk[n][p + 1], epsilons[n])
                                   \oplus Opening(s.mult_chk[n][p + 1].b, alpha)]
  OBVIOUS
<1> HIDE DEF shares, alpha, v
<1>4. Simulated(key, draw, epsilons, signer', sign, n + 1)
  <2>1. Keyed(key, draw) /\ n \in Reps /\ Simulated(key, draw, epsilons, s, sign, n)
    BY <1>1
  <2>2. SimulatedBy(epsilons, s, n, shares, alpha, v, signer')
    BY <1>2, <1>3 DEF SimulatedBy
  <2> HIDE DEF n, s
  <2> QED
    BY <2>1, <2>2, SimulateStep, Zenon
<1>5. (n + 1 < T => n + 1 \in Reps) /\ (~(n + 1 < T) => n + 1 = T)
  BY <1>1, RepsFacts
<1>6. WhileSimulating'
  BY <1>2, <1>4, <1>5 DEF WhileSimulating
<1>7. phase' \in {"phase3", "challenge2"}
  BY <1>2
<1> QED
  BY <1>1, <1>2, <1>6, <1>7
  DEF SignatureInv, WhileSharing, WhileOpening, WhileVerifying, Verifies, Decided

LEMMA Challenge2KeepsInv == ASSUME SignatureInv, Challenge2 PROVE SignatureInv'
<1> DEFINE s == signer
           g == sign
<1>1. phase = "challenge2" /\ Simulated(key, draw, epsilons, s, g, T) /\ Keyed(key, draw)
  BY DEF SignatureInv, WhileSimulating, Challenge2
<1>2. /\ sign' = [g EXCEPT !.h_2 = s.h_2]
      /\ indices' \in [Reps -> Parties]
      /\ repetition' = 0 /\ phase' = "phase5"
      /\ key' = key /\ draw' = draw /\ signer' = s /\ epsilons' = epsilons
  BY DEF Challenge2, StartRep
<1>3. SignShape(g) /\ g.salt = Honest
  BY <1>1 DEF Simulated, Shared
<1>4. /\ SignShape(sign') /\ (sign').salt = Honest /\ (sign').proofs = g.proofs
      /\ (sign').h_1 = g.h_1 /\ (sign').h_2 = s.h_2
  BY <1>2, <1>3 DEF SignShape
<1>5. Shared(key, draw, s, sign')
  BY <1>1, <1>4 DEF Simulated, Shared
<1>6. Simulated(key, draw, epsilons, s, sign', T)
  BY <1>1, <1>4, <1>5 DEF Simulated
<1>7. \A r \in 0 .. 0 - 1 : FALSE
  OBVIOUS
<1>8. Opened(key, draw, epsilons, indices', s, sign', 0)
  BY <1>2, <1>4, <1>6, <1>7 DEF Opened
<1>9. WhileOpening'
  BY <1>2, <1>8, RepsFacts DEF WhileOpening
<1> QED
  BY <1>1, <1>2, <1>9
  DEF SignatureInv, WhileSharing, WhileSimulating, WhileVerifying, Verifies, Decided

LEMMA OpenKeepsInv == ASSUME SignatureInv, Open PROVE SignatureInv'
<1> DEFINE n == repetition
           s == signer
           g == sign
           h == indices[n]
           x == [path |-> Path(n, h), commitment |-> s.commits[n][h + 1],
                 delta |-> g.proofs[n].delta, alpha |-> s.alpha_shares[n + 1][h]]
<1>1. phase = "phase5" /\ n \in Reps /\ Opened(key, draw, epsilons, indices, s, g, n)
      /\ Keyed(key, draw)
  BY DEF SignatureInv, WhileOpening, Open
<1>2. /\ sign' = [g EXCEPT !.proofs[n] = x]
      /\ repetition' = n + 1
      /\ phase' = IF n + 1 < T THEN "phase5" ELSE "sent"
      /\ key' = key /\ draw' = draw /\ signer' = s /\ epsilons' = epsilons /\ indices' = indices
  BY DEF Open, StartRep, Hidden
<1>3. x = [path |-> Path(n, indices[n]), commitment |-> s.commits[n][indices[n] + 1],
           delta |-> g.proofs[n].delta, alpha |-> s.alpha_shares[n + 1][indices[n]]]
  OBVIOUS
<1> HIDE DEF x
<1>4. Opened(key, draw, epsilons, indices, s, sign', n + 1)
  BY <1>1, <1>2, <1>3, OpenStep
<1>5. (n + 1 < T => n + 1 \in Reps) /\ (~(n + 1 < T) => n + 1 = T)
  BY <1>1, RepsFacts
<1>6. ~(n + 1 < T) => Signed(key, draw, epsilons, indices, sign')
  BY <1>4, <1>5, OpenDone
<1>7. WhileOpening'
  BY <1>2, <1>4, <1>5, <1>6 DEF WhileOpening
<1>8. phase' \in {"phase5", "sent"}
  BY <1>2
<1> QED
  BY <1>1, <1>2, <1>7, <1>8
  DEF SignatureInv, WhileSharing, WhileSimulating, WhileVerifying, Verifies, Decided

LEMMA ReceiveKeepsInv == ASSUME SignatureInv, Receive PROVE SignatureInv'
<1> DEFINE g == sign
           rc == received'
           m == mu'
           e == epsilons'
           i == indices'
           v == verifier'
<1>1. phase = "sent" /\ Keyed(key, draw) /\ Signed(key, draw, epsilons, indices, g)
  BY DEF SignatureInv, WhileOpening, Receive
<1>2. /\ (rc = g /\ m \in {Honest, Altered}) \/ (rc \in AlteredOf(g) /\ m = Honest)
      /\ IF rc.h_1 = g.h_1 THEN e = epsilons ELSE e \in [Reps -> Challenges]
      /\ IF rc.h_2 = g.h_2 THEN i = indices ELSE i \in [Reps -> Parties]
      /\ repetition' = 0 /\ party' = 0 /\ phase' = "verify"
      /\ key' = key /\ draw' = draw /\ sign' = g
  BY DEF Receive, StartRep, AlteredSignatures, AlteredOf
<1>3. PICK junk \in Junk :
        v = [alpha |-> [b \in Boxes |-> Zero],
             alpha_shares |-> [p \in Parties |-> [b \in Boxes |-> junk]],
             b_shares |-> [p \in Parties |-> [b \in Boxes |-> junk]],
             v_shares |-> [p \in Parties |-> junk],
             h_1 |-> <<m, rc.salt>>, h_2 |-> <<rc.h_1, rc.salt>>]
  BY DEF Receive
<1> HIDE DEF rc, m, e, i, v
<1>4. Arrived(key, draw, e, i, g, rc, m)
  BY <1>1, <1>2, ReceiveStep
<1>5. Following(rc, i, m, v, 0, 0)
  <2>1. i \in [Reps -> Parties]
    BY <1>4 DEF Arrived
  <2> QED
    BY <1>3, <2>1, FollowStart
<1>6. rc = g /\ m = Honest => Agreeing(key, draw, e, i, g, v, 0, 0)
  <2> SUFFICES ASSUME rc = g
               PROVE  Agreeing(key, draw, e, i, g, v, 0, 0)
    OBVIOUS
  <2>1. g.salt = Honest
    BY <1>1 DEF Signed
  <2>2. v.alpha = [b \in Boxes |-> Zero] /\ v.h_2 = <<g.h_1, Honest>>
    BY <1>3, <2>1
  <2> QED
    BY <2>2, AgreeStart
<1>7. WhileVerifying'
  BY <1>2, <1>4, <1>5, <1>6, RepsFacts DEF WhileVerifying, Verifies, Unaltered, rc, m, e, i, v
<1> QED
  BY <1>1, <1>2, <1>7
  DEF SignatureInv, WhileSharing, WhileSimulating, WhileOpening, Verifies, Decided

(* The two actions of a party keep what the next operator says.            *)
Turned ==
  /\ Following(received, indices, mu, verifier', repetition, party + 1)
  /\ Unaltered => Agreeing(key, draw, epsilons, indices, sign, verifier', repetition, party + 1)

LEMMA TurnKeepsInv == ASSUME SignatureInv, phase = "verify", NextParty, Turned PROVE SignatureInv'
<1>1. /\ repetition \in Reps /\ party \in Parties /\ Keyed(key, draw)
      /\ Arrived(key, draw, epsilons, indices, sign, received, mu)
  BY DEF SignatureInv, WhileVerifying, Verifies
<1>2. /\ party' = party + 1
      /\ phase' = IF party = Last THEN "opened" ELSE "verify"
      /\ key' = key /\ draw' = draw /\ repetition' = repetition /\ sign' = sign
      /\ epsilons' = epsilons /\ indices' = indices /\ received' = received /\ mu' = mu
  BY DEF NextParty
<1>3. IF party = Last THEN party + 1 = N ELSE party + 1 \in Parties
  BY <1>1, RepsFacts
<1>4. Unaltered' = Unaltered
  BY <1>2 DEF Unaltered
<1>5. phase' \in {"opened", "verify"}
  BY <1>2
<1>6. WhileVerifying'
  BY <1>1, <1>2, <1>3, <1>4, <1>5 DEF WhileVerifying, Verifies, Turned
<1> QED
  BY <1>1, <1>2, <1>5, <1>6
  DEF SignatureInv, WhileSharing, WhileSimulating, WhileOpening, Verifies, Decided

LEMMA UnalteredFacts ==
  ASSUME SignatureInv, Unaltered, Verifies
  PROVE  /\ received = sign /\ mu = Honest /\ sign.salt = Honest
         /\ Signed(key, draw, epsilons, indices, sign)
         /\ Keyed(key, draw)
         /\ epsilons \in [Reps -> Challenges] /\ indices \in [Reps -> Parties]
         /\ \A r \in Reps : sign.proofs[r] = ProofOf(key, draw, epsilons, indices, r)
<1>1. Arrived(key, draw, epsilons, indices, sign, received, mu) /\ Keyed(key, draw)
  BY DEF SignatureInv, WhileVerifying
<1>2. Signed(key, draw, epsilons, indices, sign)
  BY <1>1 DEF Arrived, Unaltered
<1> QED
  BY <1>1, <1>2 DEF Signed, Unaltered

LEMMA SkipHiddenKeepsInv == ASSUME SignatureInv, SkipHidden PROVE SignatureInv'
<1> DEFINE n == repetition
           q == party
           v == verifier
           t == verifier'
           x == received.proofs[n]
<1>1. /\ phase = "verify" /\ n \in Reps /\ q \in Parties /\ Verifies
      /\ Following(received, indices, mu, v, n, q)
      /\ Arrived(key, draw, epsilons, indices, sign, received, mu)
      /\ Unaltered => Agreeing(key, draw, epsilons, indices, sign, v, n, q)
  BY DEF SignatureInv, WhileVerifying, Verifies, SkipHidden
<1>2. q = indices[n] /\ indices \in [Reps -> Parties]
  BY <1>1 DEF SkipHidden, Hidden, Arrived
<1>3. t = [v EXCEPT !.h_1 = Append(v.h_1, x.commitment), !.alpha_shares[q] = x.alpha,
                    !.alpha = AddTo(v.alpha, x.alpha)]
  <2>1. VerifierShape(v)
    BY <1>1 DEF Following
  <2> QED
    BY <2>1 DEF SkipHidden, Proof, VerifierShape
<1>4. /\ VerifierShape(t) /\ t.h_1 = Append(v.h_1, x.commitment) /\ t.h_2 = v.h_2
      /\ t.alpha_shares = [v.alpha_shares EXCEPT ![q] = x.alpha]
      /\ t.alpha = AddTo(v.alpha, x.alpha)
      /\ t.b_shares = v.b_shares /\ t.v_shares = v.v_shares
  <2>1. VerifierShape(v)
    BY <1>1 DEF Following
  <2> HIDE DEF x, t, v
  <2> QED
    BY <1>3, <2>1 DEF VerifierShape
<1> HIDE DEF t
<1>5. Following(received, indices, mu, t, n, q + 1)
  <2>1. x.commitment = RC(received, indices)[n][q]
    BY <1>1, <1>2 DEF RC
  <2>2. v.b_shares = [p \in Parties |-> v.b_shares[p]] /\ v.v_shares = [p \in Parties |-> v.v_shares[p]]
    BY <1>1 DEF Following
  <2>3. t.b_shares = [p \in Parties |-> t.b_shares[p]] /\ t.v_shares = [p \in Parties |-> t.v_shares[p]]
    BY <1>4, <2>2
  <2>4. q = indices[n] => x.alpha = received.proofs[n].alpha
    OBVIOUS
  <2>5. t.h_1 = Append(v.h_1, RC(received, indices)[n][q])
    BY <1>4, <2>1
  <2> HIDE DEF x
  <2> QED
    BY <1>1, <1>2, <1>4, <2>3, <2>4, <2>5, FollowParty
<1>6. Unaltered => Agreeing(key, draw, epsilons, indices, sign, t, n, q + 1)
  <2> SUFFICES ASSUME Unaltered
               PROVE  Agreeing(key, draw, epsilons, indices, sign, t, n, q + 1)
    OBVIOUS
  <2>1. x = ProofOf(key, draw, epsilons, indices, n)
    BY <1>1, UnalteredFacts
  <2>2. x.alpha = Shares(key, draw, epsilons)[n][q]
    BY <1>2, <2>1 DEF ProofOf
  <2>3. v.alpha_shares = [p \in Parties |-> v.alpha_shares[p]]
    BY <1>1 DEF Following
  <2> HIDE DEF x
  <2> QED
    BY <1>1, <1>2, <1>4, <2>2, <2>3, AgreeParty
<1>7. Turned
  BY <1>5, <1>6 DEF Turned, t
<1> QED
  BY <1>1, <1>7, TurnKeepsInv DEF SkipHidden

LEMMA AdjustedByStored ==
  ASSUME NEW t, NEW x \in TapeType
  PROVE  Adjusted(t, Stored(x)) = Adjusted(t, x)
<1>1. [Stored(x) EXCEPT !.a = [i \in Boxes |-> Zero]] = [x EXCEPT !.a = [i \in Boxes |-> Zero]]
  BY DEF Stored, TapeType
<1> QED
  BY <1>1 DEF Adjusted

LEMMA ResimulateKeepsInv == ASSUME SignatureInv, Resimulate PROVE SignatureInv'
<1> DEFINE n == repetition
           q == party
           v == verifier
           t == verifier'
           x == received.proofs[n]
           seed == Reconstructed(x.path, received.salt, n, q, indices[n])
           tape == Tape(draw, received.salt, n, q, seed)
           chk == Mpc(IF q = Last THEN Adjusted(tape, x.delta) ELSE tape, key.ct, q)
           shares == AlphaShare(chk, epsilons[n])
           vs == VShare(chk, epsilons[n])
           com == Commit(received.salt, n, q, seed)
<1>1. /\ phase = "verify" /\ n \in Reps /\ q \in Parties /\ Verifies
      /\ Following(received, indices, mu, v, n, q)
      /\ Arrived(key, draw, epsilons, indices, sign, received, mu)
      /\ Unaltered => Agreeing(key, draw, epsilons, indices, sign, v, n, q)
  BY DEF SignatureInv, WhileVerifying, Verifies, Resimulate
<1>2. q # indices[n] /\ indices \in [Reps -> Parties]
  BY <1>1 DEF Resimulate, Hidden, Arrived
<1>3. t = [v EXCEPT !.h_1 = Append(v.h_1, com), !.v_shares[q] = vs, !.alpha_shares[q] = shares,
                    !.alpha = AddTo(v.alpha, shares), !.b_shares[q] = chk.b]
  <2>1. VerifierShape(v)
    BY <1>1 DEF Following
  <2> QED
    BY <2>1 DEF Resimulate, Proof, Hidden, VerifierShape
<1>4. com = RC(received, indices)[n][q]
  BY <1>1, <1>2 DEF RC
<1>5. Unaltered => chk = Checks(key, draw)[n][q]
  <2> SUFFICES ASSUME Unaltered
               PROVE  chk = Checks(key, draw)[n][q]
    OBVIOUS
  <2> DEFINE K == Lacking(draw[n], key.pt, key.ct)
  <2>1. /\ x = ProofOf(key, draw, epsilons, indices, n) /\ received.salt = Honest
        /\ Keyed(key, draw)
    BY <1>1, UnalteredFacts
  <2>2. x.path = Path(n, indices[n]) /\ x.delta = Deltas(key, draw)[n]
    BY <2>1 DEF ProofOf
  <2>3. seed = Seed(n, q) /\ tape = draw[n][q]
    BY <2>1, <2>2 DEF Reconstructed, Tape
  <2>4. K \in TapeType /\ x.delta = Stored(K)
    BY <1>1, <2>1, <2>2, DeltaType DEF Deltas
  <2> HIDE DEF K
  <2>5. Adjusted(tape, x.delta) = Adjusted(tape, K)
    BY <2>4, AdjustedByStored
  <2> HIDE DEF tape
  <2>6. Given(draw[n], key.pt, key.ct)[q] = IF q = Last THEN Adjusted(tape, x.delta) ELSE tape
    BY <1>1, <2>3, <2>5 DEF Given, K
  <2> QED
    BY <1>1, <2>6 DEF Checks, Check
<1> HIDE DEF chk, com
<1>6. Unaltered => /\ shares = Shares(key, draw, epsilons)[n][q]
                   /\ vs = VShare(Checks(key, draw)[n][q], epsilons[n])
                   /\ chk.b = Checks(key, draw)[n][q].b
  BY <1>1, <1>5 DEF Shares
<1> HIDE DEF shares, vs
<1>7. /\ VerifierShape(t) /\ t.h_1 = Append(v.h_1, com) /\ t.h_2 = v.h_2
      /\ t.alpha_shares = [v.alpha_shares EXCEPT ![q] = shares]
      /\ t.alpha = AddTo(v.alpha, shares)
      /\ t.b_shares = [v.b_shares EXCEPT ![q] = chk.b]
      /\ t.v_shares = [v.v_shares EXCEPT ![q] = vs]
  <2>1. VerifierShape(v)
    BY <1>1 DEF Following
  <2> HIDE DEF t, v
  <2> QED
    BY <1>3, <2>1 DEF VerifierShape
<1> HIDE DEF t
<1>8. v.alpha_shares = [p \in Parties |-> v.alpha_shares[p]]
      /\ v.b_shares = [p \in Parties |-> v.b_shares[p]]
      /\ v.v_shares = [p \in Parties |-> v.v_shares[p]]
  BY <1>1 DEF Following
<1>9. Following(received, indices, mu, t, n, q + 1)
  <2>1. t.b_shares = [p \in Parties |-> t.b_shares[p]] /\ t.v_shares = [p \in Parties |-> t.v_shares[p]]
    BY <1>7, <1>8
  <2>2. q = indices[n] => shares = received.proofs[n].alpha
    BY <1>2
  <2>3. t.h_1 = Append(v.h_1, RC(received, indices)[n][q])
    BY <1>4, <1>7
  <2>4. n \in Reps /\ q \in Parties /\ Following(received, indices, mu, v, n, q)
        /\ indices \in [Reps -> Parties]
    BY <1>1, <1>2
  <2>5. VerifierShape(t) /\ t.h_2 = v.h_2 /\ t.alpha_shares = [v.alpha_shares EXCEPT ![q] = shares]
    BY <1>7
  <2> HIDE DEF v, n, q, x, seed, tape
  <2> QED
    BY <2>1, <2>2, <2>3, <2>4, <2>5, FollowParty
<1>10. Unaltered => Agreeing(key, draw, epsilons, indices, sign, t, n, q + 1)
  <2> SUFFICES ASSUME Unaltered
               PROVE  Agreeing(key, draw, epsilons, indices, sign, t, n, q + 1)
    OBVIOUS
  <2>1. /\ t.v_shares[q] = VShare(Checks(key, draw)[n][q], epsilons[n])
        /\ t.b_shares[q] = Checks(key, draw)[n][q].b
    BY <1>1, <1>6, <1>7, <1>8
  <2>2. \A p \in Parties : p # q => t.v_shares[p] = v.v_shares[p] /\ t.b_shares[p] = v.b_shares[p]
    BY <1>7, <1>8
  <2>3. /\ t.alpha_shares = [v.alpha_shares EXCEPT ![q] = Shares(key, draw, epsilons)[n][q]]
        /\ t.alpha = AddTo(v.alpha, Shares(key, draw, epsilons)[n][q])
    BY <1>6, <1>7
  <2>4. t.h_2 = v.h_2
    BY <1>7
  <2> QED
    BY <1>1, <1>8, <2>1, <2>2, <2>3, <2>4, AgreeParty
<1>11. Turned
  BY <1>9, <1>10 DEF Turned, t
<1> QED
  BY <1>1, <1>11, TurnKeepsInv DEF Resimulate

LEMMA FinishRepKeepsInv == ASSUME SignatureInv, FinishRep PROVE SignatureInv'
<1> DEFINE n == repetition
           v == verifier
           t == verifier'
           x == received.proofs[n]
           h == indices[n]
           opened == [p \in Parties |->
                        IF p = h THEN v.v_shares[p]
                        ELSE v.v_shares[p] \oplus Opening(v.b_shares[p], v.alpha)]
           w == [p \in Parties |-> IF p = h THEN HiddenShare(opened, h) ELSE opened[p]]
<1>1. /\ phase = "opened" /\ n \in Reps /\ party = N /\ Verifies /\ Keyed(key, draw)
      /\ Following(received, indices, mu, v, n, N)
      /\ Arrived(key, draw, epsilons, indices, sign, received, mu)
      /\ Unaltered => Agreeing(key, draw, epsilons, indices, sign, v, n, N)
  BY DEF SignatureInv, WhileVerifying, Verifies, FinishRep
<1>2. indices \in [Reps -> Parties] /\ epsilons \in [Reps -> Challenges]
  BY <1>1 DEF Arrived
<1>3. t = [v EXCEPT !.v_shares = w, !.alpha = [i \in Boxes |-> Zero],
                    !.h_2 = v.h_2 \o <<v.alpha_shares, w>>,
                    !.h_1 = Append(v.h_1, x.delta)]
  <2>1. VerifierShape(v)
    BY <1>1 DEF Following
  <2> QED
    BY <2>1 DEF FinishRep, Proof, Hidden, Hashed, VerifierShape
<1>4. /\ repetition' = n + 1 /\ party' = 0
      /\ phase' = IF n + 1 < T THEN "verify" ELSE "compare"
      /\ key' = key /\ draw' = draw /\ sign' = sign /\ epsilons' = epsilons /\ indices' = indices
      /\ received' = received /\ mu' = mu
  BY DEF FinishRep, StartRep
<1>5. w = [p \in Parties |-> w[p]]
  OBVIOUS
<1>6. opened = [p \in Parties |->
                  IF p = indices[n] THEN v.v_shares[p]
                  ELSE v.v_shares[p] \oplus Opening(v.b_shares[p], v.alpha)]
  OBVIOUS
<1> HIDE DEF opened
<1>7. w = [p \in Parties |-> IF p = indices[n] THEN HiddenShare(opened, indices[n]) ELSE opened[p]]
  OBVIOUS
<1> HIDE DEF w
<1>8. /\ VerifierShape(t) /\ t.h_1 = Append(v.h_1, x.delta)
      /\ t.h_2 = v.h_2 \o <<v.alpha_shares, w>>
      /\ t.v_shares = w /\ t.alpha = [i \in Boxes |-> Zero]
      /\ t.alpha_shares = v.alpha_shares /\ t.b_shares = v.b_shares
  <2>1. VerifierShape(v)
    BY <1>1 DEF Following
  <2> HIDE DEF t, v, x
  <2> QED
    BY <1>3, <2>1 DEF VerifierShape
<1> HIDE DEF t
<1>9. Following(received, indices, mu, t, n + 1, 0)
  <2>1. x.delta = RD(received)[n]
    BY <1>1 DEF RD
  <2>2. t.h_1 = Append(v.h_1, RD(received)[n])
    BY <1>8, <2>1
  <2>3. t.v_shares = [p \in Parties |-> t.v_shares[p]]
    BY <1>5, <1>8
  <2>4. /\ n \in Reps /\ Following(received, indices, mu, v, n, N)
        /\ VerifierShape(t) /\ t.alpha_shares = v.alpha_shares /\ t.b_shares = v.b_shares
    BY <1>1, <1>8
  <2>5. t.h_2 = v.h_2 \o <<v.alpha_shares, w>>
    BY <1>8
  <2> HIDE DEF v, n, x, h
  <2> QED
    BY <1>2, <2>2, <2>3, <2>4, <2>5, FollowFinish
<1>10. Unaltered => Agreeing(key, draw, epsilons, indices, sign, t, n + 1, 0)
  <2> SUFFICES ASSUME Unaltered
               PROVE  Agreeing(key, draw, epsilons, indices, sign, t, n + 1, 0)
    OBVIOUS
  <2>1. Agreeing(key, draw, epsilons, indices, sign, v, n, N) /\ Keyed(key, draw) /\ n \in Reps
    BY <1>1
  <2>2. v.alpha_shares = [p \in Parties |-> v.alpha_shares[p]]
    BY <1>1 DEF Following
  <2>3. t.alpha = [i \in Boxes |-> Zero] /\ t.h_2 = v.h_2 \o <<v.alpha_shares, w>>
    BY <1>8
  <2>4. FinishedBy(indices, v, n, opened, w, t)
    BY <1>6, <1>7, <2>3 DEF FinishedBy
  <2> HIDE DEF v, n, x, h
  <2> QED
    BY <1>2, <2>1, <2>2, <2>4, AgreeFinish, Zenon
<1>11. /\ n + 1 < T => n + 1 \in Reps
       /\ ~(n + 1 < T) => n + 1 = T
       /\ 0 \in Parties
  BY <1>1, RepsFacts
<1>12. Unaltered' = Unaltered
  BY <1>4 DEF Unaltered
<1>13. phase' \in {"verify", "compare"}
  BY <1>4
<1>14. WhileVerifying'
  BY <1>1, <1>4, <1>9, <1>10, <1>11, <1>12, <1>13 DEF WhileVerifying, Verifies, t
<1> QED
  BY <1>1, <1>4, <1>13, <1>14
  DEF SignatureInv, WhileSharing, WhileSimulating, WhileOpening, Verifies, Decided

LEMMA CompareKeepsInv == ASSUME SignatureInv, Compare PROVE SignatureInv'
<1>1. /\ phase = "compare" /\ Verifies /\ Keyed(key, draw)
      /\ Following(received, indices, mu, verifier, T, 0)
      /\ Arrived(key, draw, epsilons, indices, sign, received, mu)
      /\ Unaltered => Agreeing(key, draw, epsilons, indices, sign, verifier, T, 0)
  BY DEF SignatureInv, WhileVerifying, Verifies, Compare
<1>2. indices \in [Reps -> Parties] /\ epsilons \in [Reps -> Challenges]
  BY <1>1 DEF Arrived
<1>3. /\ phase' = IF Matches THEN "accepted" ELSE "rejected"
      /\ key' = key /\ draw' = draw /\ sign' = sign /\ epsilons' = epsilons
      /\ received' = received /\ mu' = mu
  BY DEF Compare
<1>4. Unaltered' = Unaltered
  BY <1>3 DEF Unaltered
<1>5. ~Unaltered => ~Matches
  <2> SUFFICES ASSUME ~Unaltered
               PROVE  ~Matches
    OBVIOUS
  <2>1. Spoiled(key, draw, epsilons, indices, sign, received, mu)
    BY <1>1 DEF Arrived, Unaltered
  <2> QED
    BY <1>1, <1>2, <2>1, SpoiledRejected DEF Matches
<1>6. Unaltered => (Matches <=> \A r \in Reps : Sum(Vs(key, draw, epsilons)[r], 0, Last) = Zero)
  <2> SUFFICES ASSUME Unaltered
               PROVE  Matches <=> \A r \in Reps : Sum(Vs(key, draw, epsilons)[r], 0, Last) = Zero
    OBVIOUS
  <2>1. received = sign /\ mu = Honest /\ Signed(key, draw, epsilons, indices, sign)
    BY <1>1, UnalteredFacts
  <2>2. Following(sign, indices, Honest, verifier, T, 0)
    BY <1>1, <2>1
  <2> QED
    BY <1>1, <1>2, <2>1, <2>2, HonestVerdict DEF Matches
<1>7. Decided'
  BY <1>2, <1>3, <1>4, <1>5, <1>6 DEF Decided
<1>8. phase' \in {"accepted", "rejected"}
  BY <1>3
<1> QED
  BY <1>1, <1>3, <1>7, <1>8
  DEF SignatureInv, WhileSharing, WhileSimulating, WhileOpening, WhileVerifying, Verifies

LEMMA StutterKeepsInv == ASSUME SignatureInv, UNCHANGED signatureVars PROVE SignatureInv'
<1>1. /\ phase' = phase /\ key' = key /\ draw' = draw /\ repetition' = repetition
      /\ party' = party /\ signer' = signer /\ sign' = sign /\ epsilons' = epsilons
      /\ indices' = indices /\ received' = received /\ mu' = mu /\ verifier' = verifier
  BY DEF signatureVars
<1> QED
  BY <1>1
  DEF SignatureInv, WhileSharing, WhileSimulating, WhileOpening, WhileVerifying, Verifies, Decided,
      Unaltered

(* At every step of signing, sending and verifying, what signer and        *)
(* verifier have computed and hashed so far is the named function of the   *)
(* key, the tapes and the challenges.                                      *)
THEOREM SignatureInductive == SpecSignature => []SignatureInv
<1>1. SignatureInv /\ [NextSignature]_signatureVars => SignatureInv'
  <2> SUFFICES ASSUME SignatureInv, [NextSignature]_signatureVars
               PROVE  SignatureInv'
    OBVIOUS
  <2>1. CASE Share
    BY <2>1, ShareKeepsInv
  <2>2. CASE Challenge1
    BY <2>2, Challenge1KeepsInv
  <2>3. CASE Simulate
    BY <2>3, SimulateKeepsInv
  <2>4. CASE Challenge2
    BY <2>4, Challenge2KeepsInv
  <2>5. CASE Open
    BY <2>5, OpenKeepsInv
  <2>6. CASE Receive
    BY <2>6, ReceiveKeepsInv
  <2>7. CASE SkipHidden
    BY <2>7, SkipHiddenKeepsInv
  <2>8. CASE Resimulate
    BY <2>8, ResimulateKeepsInv
  <2>9. CASE FinishRep
    BY <2>9, FinishRepKeepsInv
  <2>10. CASE Compare
    BY <2>10, CompareKeepsInv
  <2>11. CASE UNCHANGED signatureVars
    BY <2>11, StutterKeepsInv
  <2> QED
    BY <2>1, <2>2, <2>3, <2>4, <2>5, <2>6, <2>7, <2>8, <2>9, <2>10, <2>11 DEF NextSignature
<1> QED
  BY <1>1, InvStarts, PTL DEF SpecSignature

LEMMA GapIs ==
  ASSUME Keyed(key, draw), NEW i \in Boxes
  PROVE  Gap(i) = GapOf(key.pt, key.ct, i)
<1> DEFINE x == BoxInput(key.pt, i)
           o == SboxOutputs(key.pt, key.ct)[i]
           y == x \otimes o
           z == Frobenius(Exponents[i], x)
<1>1. Gap(i) = (y \oplus z) \oplus One
  BY DEF Gap, BoxInput
<1>2. GapOf(key.pt, key.ct, i) = y \oplus (z \oplus One)
  BY DEF GapOf, Powered
<1>3. key.pt \in Elements /\ key.ct \in Elements
  BY DEF Keyed
<1>4. x \in Elements /\ o \in Elements
  BY <1>3, BoxInputType, SboxTypes
<1>5. y \in Elements /\ One \in Elements
  BY <1>4, Closed, Field
<1>6. z \in Elements
  <2>1. Exponents[i] \in Nat
    BY AimerAssumption
  <2> QED
    BY <1>4, <2>1, FrobeniusAdds
<1> HIDE DEF y, z
<1> QED
  BY <1>1, <1>2, <1>5, <1>6, PlusAssoc

LEMMA VerdictByGap ==
  ASSUME Keyed(key, draw), epsilons \in [Reps -> Challenges], NEW r \in Reps
  PROVE  Sum(Vs(key, draw, epsilons)[r], 0, Last)
           = Sum([i \in Boxes |-> Gap(i) \otimes epsilons[r][i]], 1, L + 1)
<1>1. draw[r] \in [Parties -> TapeType] /\ key.pt \in Elements /\ key.ct \in Elements
  BY DEF Keyed
<1>2. epsilons[r] \in [Boxes -> Elements]
  <2>1. Challenges \subseteq [Boxes -> Elements]
    BY AimerAssumption, Zenon
  <2> QED
    BY <2>1
<1> DEFINE G == [i \in Boxes |-> GapOf(key.pt, key.ct, i) \otimes epsilons[r][i]]
           H == [i \in Boxes |-> Gap(i) \otimes epsilons[r][i]]
           V == Values(draw[r], key.pt, key.ct, epsilons[r])
<1>3. Sum(V, 0, Last) = Sum(G, 1, L + 1)
  BY <1>1, <1>2, GapTotals
<1>4. Vs(key, draw, epsilons)[r] = V
  BY DEF Vs
<1>5. ASSUME NEW i \in Boxes
      PROVE  Gap(i) \otimes epsilons[r][i] = GapOf(key.pt, key.ct, i) \otimes epsilons[r][i]
  <2>1. Gap(i) = GapOf(key.pt, key.ct, i)
    BY GapIs
  <2> QED
    BY <2>1
<1>6. G = H
  BY <1>5
<1> HIDE DEF G, V, H
<1> QED
  BY <1>3, <1>4, <1>6 DEF H

(* What a key that key generation hands out signs is not rejected,         *)
(* whatever the tapes, the challenges and the hidden parties               *)
(* (sign.c:246, aim3_nozeroinpsb).                                         *)
THEOREM HonestSignaturesAccepted == SpecSignature => []HonestAccepted
<1>1. SignatureInv => HonestAccepted
  <2> SUFFICES ASSUME SignatureInv, Unaltered, NoZeroInput(key.pt), key.ct = Ciphertext(key.pt),
                      phase = "rejected"
               PROVE  FALSE
    BY DEF HonestAccepted
  <2>1. Keyed(key, draw) /\ epsilons \in [Reps -> Challenges]
    BY DEF SignatureInv, Decided
  <2>2. key.pt \in Elements /\ key.ct \in Elements
    BY <2>1 DEF Keyed
  <2>3. ASSUME NEW r \in Reps
        PROVE  Sum(Vs(key, draw, epsilons)[r], 0, Last) = Zero
    <3> DEFINE H == [i \in Boxes |-> Gap(i) \otimes epsilons[r][i]]
    <3>1. epsilons[r] \in [Boxes -> Elements]
      <4>1. Challenges \subseteq [Boxes -> Elements]
        BY AimerAssumption, Zenon
      <4> QED
        BY <2>1, <4>1
    <3>2. ASSUME NEW i \in Boxes
          PROVE  H[i] = Zero
      <4>1. Gap(i) = Zero
        BY <2>1, <2>2, GapIs, GapVanishes
      <4>2. epsilons[r][i] \in Elements
        BY <3>1
      <4>3. H[i] = Gap(i) \otimes epsilons[r][i]
        OBVIOUS
      <4> QED
        BY <4>1, <4>2, <4>3, TimesZero
    <3>3. Sum(Vs(key, draw, epsilons)[r], 0, Last) = Sum(H, 1, L + 1)
      BY <2>1, VerdictByGap
    <3> HIDE DEF H
    <3>4. \A i \in 1 .. L + 1 : H[i] = Zero
      BY <3>2 DEF Boxes
    <3>5. 1 \in Int /\ L + 1 \in Int /\ 1 - 1 <= L + 1
      BY Field
    <3> QED
      BY <3>3, <3>4, <3>5, SumZero
  <2> QED
    BY <2>3 DEF SignatureInv, Decided
<1> QED
  BY <1>1, SignatureInductive, PTL

(* A signature one part of which is not what the signer sent, or that      *)
(* comes with another message, is not accepted, whichever part it is and   *)
(* whichever parties are hidden (sign.c:592-637).                          *)
THEOREM PartsBound == SpecSignature => []EveryPartBound
<1>1. SignatureInv => EveryPartBound
  BY DEF SignatureInv, Decided, EveryPartBound
<1> QED
  BY <1>1, SignatureInductive, PTL

(* A signature made with any key at all is accepted exactly if the         *)
(* challenges of every repetition cancel what its S-boxes lack to the      *)
(* relation the parties check.                                             *)
THEOREM WitnessesOnly == SpecSignature => []OnlyWitnessesPass
<1>1. SignatureInv => OnlyWitnessesPass
  <2> SUFFICES ASSUME SignatureInv, Unaltered, phase \in {"accepted", "rejected"}
               PROVE  phase = "accepted" <=>
                        \A r \in Reps :
                          Sum([i \in Boxes |-> Gap(i) \otimes epsilons[r][i]], 1, L + 1) = Zero
    BY DEF OnlyWitnessesPass
  <2>1. /\ Keyed(key, draw) /\ epsilons \in [Reps -> Challenges]
        /\ phase = "accepted" <=> \A r \in Reps : Sum(Vs(key, draw, epsilons)[r], 0, Last) = Zero
    BY DEF SignatureInv, Decided
  <2>2. \A r \in Reps : Sum(Vs(key, draw, epsilons)[r], 0, Last)
                          = Sum([i \in Boxes |-> Gap(i) \otimes epsilons[r][i]], 1, L + 1)
    BY <2>1, VerdictByGap
  <2> QED
    BY <2>1, <2>2
<1> QED
  BY <1>1, SignatureInductive, PTL
=============================================================================
