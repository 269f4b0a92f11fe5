------------------------------ MODULE AimerHeap ------------------------------
(***************************************************************************)
(* The heap blocks of AIMer's core (vendor/AIMer/sign.c and aim3.c), seen  *)
(* through the pointers of the functions that own them: crypto_sign_       *)
(* signature_internal, run_phase_1, crypto_sign_verify_internal and        *)
(* aim3_nozeroinpsb.  Any malloc may fail.                                 *)
(***************************************************************************)
SignPointers == {"nodes", "commits", "mult_chk", "alpha_shares", "v_share"}
ViewPointers == {"nodes", "b_shares", "alpha_shares", "v_shares"}
VerifyPointers == {"lin"} \cup ViewPointers
Pointers == SignPointers \cup VerifyPointers

VARIABLE block   \* what each pointer holds: nothing yet, NULL, a block, or a
                 \* block lost, misused or freed when it was not there
BlockStates == {"unset", "null", "live", "broken"}

AllUnset == [p \in Pointers |-> "unset"]
Unset(ps) == \A p \in ps : block[p] = "unset"
SomeNull(ps) == \E p \in ps : block[p] = "null"
NonNull(ps) == \A p \in ps : block[p] \notin {"unset", "null"}

(* malloc for each of the pointers, whatever became of the others.         *)
Allocates(ps) ==
  \E failed \in SUBSET ps :
    block' = [p \in Pointers |-> IF p \notin ps THEN block[p]
                                 ELSE IF p \in failed THEN "null" ELSE "live"]

(* The blocks of the pointers are read or written.                         *)
Used(ps) ==
  [p \in Pointers |-> IF p \in ps /\ block[p] # "live" THEN "broken" ELSE block[p]]

(* A function with blocks b frees the pointers `freed` and returns: its    *)
(* locals are gone.  free(NULL) does nothing; free() of a pointer that was *)
(* never set is undefined, and a live block that is not freed is lost.     *)
Sound(p, b, freed) ==
  \/ b[p] = "null"
  \/ b[p] = "live" /\ p \in freed
  \/ b[p] = "unset" /\ p \notin freed
AfterReturn(b, locals, freed) ==
  [p \in Pointers |->
     IF p \notin locals THEN IF p \in freed THEN "broken" ELSE b[p]
     ELSE IF Sound(p, b, freed) THEN "unset" ELSE "broken"]

(* Faulty variant of the next operator: verification's early return        *)
(* forgets a block.                                                        *)
FreedButOne(exit) ==
  CASE exit \in {"sign: no memory", "sign: phase 1 failed", "signed"} -> SignPointers
    [] exit = "verify: no memory" -> VerifyPointers \ {"b_shares"}
    [] exit = "verified" -> VerifyPointers
    [] exit \in {"committed", "zero input", "key made"} -> {"lin"}
    [] OTHER -> {}

(* The free() calls in front of each return.  The OTHER returns are those  *)
(* at a linear layer that could not be allocated.                          *)
Freed(exit) ==
  CASE exit \in {"sign: no memory", "sign: phase 1 failed", "signed"} -> SignPointers
    [] exit \in {"verify: no memory", "verified"} -> VerifyPointers
    [] exit \in {"committed", "zero input", "key made"} -> {"lin"}
    [] OTHER -> {}
=============================================================================
