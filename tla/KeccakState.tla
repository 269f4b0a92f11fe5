---------------------------- MODULE KeccakState ----------------------------
(***************************************************************************)
(* The data of the four copies of fips202.c, the permutation left abstract.*)
(* A Keccak state is the sequence of blocks XORed into it so far, one      *)
(* before each permutation.  A block maps every byte position of the rate  *)
(* to the set of symbols XORed there; byte m of the message is the symbol  *)
(* m.  Two output bytes are equal only if they are the same byte of the    *)
(* same state.                                                             *)
(***************************************************************************)
EXTENDS Integers, Sequences

CONSTANT Rate    \* r, the rate in bytes

ASSUME RateAssumption == Rate \in Nat \ {0}

Domain == -1     \* the domain-separation byte p
Last == -2       \* the final bit, 128 in the last byte of the rate
Positions == 0 .. Rate - 1
Zero == [i \in Positions |-> {}]

(* KeccakF1600_StatePermute, after which nothing has been XORed in yet:    *)
(* `block` is Zero again.                                                  *)
Permute(permuted, block) == Append(permuted, block)

(* load64 of a whole block of the message, the j-th (from 1).              *)
MessageBlock(j) == [i \in Positions |-> {(j - 1) * Rate + i}]

Xor(set, symbol) == IF symbol \in set THEN set \ {symbol} ELSE set \cup {symbol}
XorByte(b, at, symbol) == [b EXCEPT ![at] = Xor(@, symbol)]

(* `count` message bytes, the first being byte `first`, XORed in from `at`.*)
XorMessage(b, at, count, first) ==
  [i \in Positions |->
     IF at <= i /\ i < at + count THEN Xor(b[i], first + (i - at)) ELSE b[i]]

(* The domain byte at `at` and the final bit.                              *)
XorPadding(b, at) == XorByte(XorByte(b, at, Domain), Rate - 1, Last)

OutputByte(blocks, at) == [permuted |-> blocks, at |-> at]

(* `count` bytes of a state from position `at` on.                         *)
Read(blocks, at, count) == [k \in 1 .. count |-> OutputByte(blocks, at + k - 1)]

Least(a, b) == IF a < b THEN a ELSE b

-----------------------------------------------------------------------------
(* The sponge by definition, for a message of n bytes.                     *)

(* Block j of the padded message; the blocks after the padding are zero.   *)
PaddedBlock(n, j) ==
  [i \in Positions |->
     LET m == (j - 1) * Rate + i
     IN  (IF m < n THEN {m} ELSE IF m = n THEN {Domain} ELSE {})
           \cup (IF j = n \div Rate + 1 /\ i = Rate - 1 THEN {Last} ELSE {})]

Blocks(n, count) == [j \in 1 .. count |-> PaddedBlock(n, j)]

(* Byte k (from 0) of the output, and the first `length` of them.          *)
StreamByte(n, k) == OutputByte(Blocks(n, n \div Rate + 1 + k \div Rate), k % Rate)
Stream(n, length) == [k \in 1 .. length |-> StreamByte(n, k - 1)]
=============================================================================
