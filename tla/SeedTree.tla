------------------------------ MODULE SeedTree ------------------------------
(***************************************************************************)
(* AIMer's seed trees (vendor/AIMer/tree.c) as sign.c uses them.  Signing  *)
(* expands one binary tree of seeds per repetition (expand_tree), learns   *)
(* from a hash which leaf of each repetition stays hidden, and publishes   *)
(* the siblings of that leaf's path (reveal_all_but).  Verifying rebuilds  *)
(* each tree from those siblings (reconstruct_tree) in ONE malloc'd array  *)
(* it reuses for every repetition, and reads every leaf but the hidden.    *)
(*                                                                         *)
(* Node i of a tree (heap numbering, root 1, leaves N .. 2N-1) is element  *)
(* i-1 of the signer's array and element i-2 of the verifier's, which has  *)
(* no root.  A seed is the pair <<repetition, node>> it stands for.  The   *)
(* hash takes the repetition and the node as inputs, so it yields the      *)
(* children of node i only from the seed of node i; from anything else it  *)
(* yields Garbage, as does memory nobody has written.                      *)
(***************************************************************************)
EXTENDS AimerParameters

Garbage == <<-1, 0>>
Seeds == (Reps \X (1 .. 2 * N - 1)) \cup {Garbage}

VARIABLES
  pc,      \* "expand", "reveal", "rebuild", "expandLevel", "read", "done"
  rep,     \* repetition in progress
  index,   \* node_index / index: the heap node of the running loop
  depth,   \* depth of the running loop
  hidden,  \* the indices both sides squeeze from h_2, one per repetition
  nodes,   \* the signer's seed trees
  path,    \* proofs[rep].reveal_path, as published
  tree     \* the verifier's array

vars == <<pc, rep, index, depth, hidden, nodes, path, tree>>

-----------------------------------------------------------------------------
Sibling(i) == IF i % 2 = 0 THEN i + 1 ELSE i - 1            \* i ^ 1
Ancestor(leaf, up) == (leaf + N) \div Pow2[up]              \* (leaf + N) >> up

(* Child `side` (0 or 1) that the hash squeezes from `seed` at node i.     *)
Squeeze(r, i, seed, side) == IF seed = <<r, i>> THEN <<r, 2 * i + side>> ELSE Garbage

Init ==
  /\ pc = "expand"
  /\ rep = 0
  /\ index = 0
  /\ depth = 0
  /\ hidden = [r \in Reps |-> 0]
  /\ nodes = [r \in Reps |-> [k \in 0 .. 2 * N - 2 |-> Garbage]]
  /\ path = [r \in Reps |-> [d \in 0 .. LogN - 1 |-> Garbage]]
  /\ tree = [k \in 0 .. 2 * N - 3 |-> Garbage]

-----------------------------------------------------------------------------
(* Signing: expand_tree for each repetition.                               *)

(* memcpy(nodes[0], seed, ...)                                             *)
ExpandRoot ==
  /\ pc = "expand"
  /\ index = 0
  /\ nodes' = [nodes EXCEPT ![rep][0] = <<rep, 1>>]
  /\ index' = 1
  /\ UNCHANGED <<pc, rep, depth, hidden, path, tree>>

(* Faulty variant of the next operator: node_index <= AIMER_N.             *)
InnerOneTooMany(i) == i <= N

(* node_index < AIMER_N: the node has children.                            *)
Inner(i) == i < N

ExpandNode ==
  /\ pc = "expand"
  /\ index # 0
  /\ Inner(index)
  /\ nodes' = [nodes EXCEPT
       ![rep][2 * index - 1] = Squeeze(rep, index, nodes[rep][index - 1], 0),
       ![rep][2 * index]     = Squeeze(rep, index, nodes[rep][index - 1], 1)]
  /\ index' = index + 1
  /\ UNCHANGED <<pc, rep, depth, hidden, path, tree>>

NextTree ==
  /\ pc = "expand"
  /\ index # 0
  /\ ~Inner(index)
  /\ rep < T - 1
  /\ rep' = rep + 1
  /\ index' = 0
  /\ UNCHANGED <<pc, depth, hidden, nodes, path, tree>>

(* The trees are committed to; phases 1 to 3 end in h_2, which fixes the   *)
(* hidden leaves.  reveal_all_but starts at the first repetition's.        *)
Challenge ==
  /\ pc = "expand"
  /\ index # 0
  /\ ~Inner(index)
  /\ rep = T - 1
  /\ hidden' \in [Reps -> Parties]
  /\ pc' = "reveal"
  /\ rep' = 0
  /\ depth' = 0
  /\ index' = hidden'[0] + N
  /\ UNCHANGED <<nodes, path, tree>>

-----------------------------------------------------------------------------
(* Signing: reveal_all_but for each repetition.                            *)

(* Faulty variant of the next operator: index ^ 1 is forgotten.            *)
RevealedItself(i) == i

Revealed(i) == Sibling(i)

RevealSibling ==
  /\ pc = "reveal"
  /\ depth < LogN
  /\ path' = [path EXCEPT ![rep][depth] = nodes[rep][Revealed(index) - 1]]
  /\ index' = index \div 2
  /\ depth' = depth + 1
  /\ UNCHANGED <<pc, rep, hidden, nodes, tree>>

NextProof ==
  /\ pc = "reveal"
  /\ depth = LogN
  /\ rep < T - 1
  /\ rep' = rep + 1
  /\ depth' = 0
  /\ index' = hidden[rep + 1] + N
  /\ UNCHANGED <<pc, hidden, nodes, path, tree>>

(* The signature is complete; the verifier squeezes the same indices.      *)
Publish ==
  /\ pc = "reveal"
  /\ depth = LogN
  /\ rep = T - 1
  /\ pc' = "rebuild"
  /\ rep' = 0
  /\ depth' = 1
  /\ index' = 0
  /\ UNCHANGED <<hidden, nodes, path, tree>>

-----------------------------------------------------------------------------
(* Verifying: reconstruct_tree for each repetition.                        *)

(* Faulty variant of the next operator: the path is read from its top.     *)
PathEntryFromTop(d) == d - 1

(* reveal_path[AIMER_LOGN - depth]                                         *)
PathEntry(d) == LogN - d

(* nodes[path - 2] = reveal_path[AIMER_LOGN - depth]                       *)
CopySibling ==
  tree' = [tree EXCEPT ![Sibling(Ancestor(hidden[rep], LogN - depth)) - 2]
                         = path[rep][PathEntry(depth)]]

CopyAtDepth ==
  /\ pc = "rebuild"
  /\ depth < LogN
  /\ CopySibling
  /\ pc' = "expandLevel"
  /\ index' = Pow2[depth]
  /\ UNCHANGED <<rep, depth, hidden, nodes, path>>

(* Every node of the level is expanded, the hidden one included: what its  *)
(* slot holds is uninitialised or left from the repetition before.         *)
ExpandSlot ==
  /\ pc = "expandLevel"
  /\ index < 2 * Pow2[depth]
  /\ tree' = [tree EXCEPT
       ![2 * index - 2] = Squeeze(rep, index, tree[index - 2], 0),
       ![2 * index - 1] = Squeeze(rep, index, tree[index - 2], 1)]
  /\ index' = index + 1
  /\ UNCHANGED <<pc, rep, depth, hidden, nodes, path>>

NextLevel ==
  /\ pc = "expandLevel"
  /\ index = 2 * Pow2[depth]
  /\ pc' = "rebuild"
  /\ depth' = depth + 1
  /\ index' = 0
  /\ UNCHANGED <<rep, hidden, nodes, path, tree>>

(* After the loop, the sibling of the hidden leaf itself.                  *)
CopyLast ==
  /\ pc = "rebuild"
  /\ depth = LogN
  /\ CopySibling
  /\ pc' = "read"
  /\ UNCHANGED <<rep, index, depth, hidden, nodes, path>>

(* The parties' loop reads nodes[AIMER_N + party - 2], then the next       *)
(* repetition starts over in the same array.                               *)
NextRebuild ==
  /\ pc = "read"
  /\ rep < T - 1
  /\ rep' = rep + 1
  /\ pc' = "rebuild"
  /\ depth' = 1
  /\ UNCHANGED <<index, hidden, nodes, path, tree>>

Finish ==
  /\ pc = "read"
  /\ rep = T - 1
  /\ pc' = "done"
  /\ UNCHANGED <<rep, index, depth, hidden, nodes, path, tree>>

Signing == ExpandRoot \/ ExpandNode \/ NextTree \/ Challenge
           \/ RevealSibling \/ NextProof \/ Publish
Verifying == CopyAtDepth \/ ExpandSlot \/ NextLevel \/ CopyLast
             \/ NextRebuild \/ Finish
Next == Signing \/ Verifying
Spec == Init /\ [][Next]_vars

-----------------------------------------------------------------------------
(* Properties.                                                             *)

TypeOK ==
  /\ pc \in {"expand", "reveal", "rebuild", "expandLevel", "read", "done"}
  /\ rep \in Reps
  /\ index \in 0 .. 2 * N - 1
  /\ pc = "expand" => index <= N
  /\ depth \in 0 .. LogN
  /\ hidden \in [Reps -> Parties]
  /\ nodes \in [Reps -> [0 .. 2 * N - 2 -> Seeds]]
  /\ path \in [Reps -> [0 .. LogN - 1 -> Seeds]]
  /\ tree \in [0 .. 2 * N - 3 -> Seeds]

Hides(r, i) == \E up \in 0 .. LogN : i = Ancestor(hidden[r], up)

(* The seed of party p as sign.c's phase 1 reads it, nodes[rep][p+N-1],    *)
(* and as its verification does, nodes[N+p-2].                             *)
SignerSeed(r, p) == nodes[r][p + N - 1]
VerifierSeed(p) == tree[N + p - 2]

(* When the verifier commits to the parties of a repetition it holds the   *)
(* signer's seed of every party but the hidden one, whatever the array     *)
(* held before (tree.c:49-81, sign.c:585-610).                             *)
SeedsRecovered ==
  pc = "read" =>
    \A p \in Parties \ {hidden[rep]} : VerifierSeed(p) = SignerSeed(rep, p)

(* Neither the published path nor anything the verifier derives from it    *)
(* is the hidden party's seed or one it could be derived from: the hash of *)
(* a stale slot never lands on it, in any repetition (tree.c:34-47, 62-76).*)
HiddenStaysHidden ==
  pc # "expand" =>
    \A r \in Reps : \A i \in 1 .. 2 * N - 1 :
      Hides(r, i) => /\ \A d \in 0 .. LogN - 1 : path[r][d] # <<r, i>>
                     /\ \A k \in 0 .. 2 * N - 3 : tree[k] # <<r, i>>
=============================================================================
