---------------------------- MODULE KpqcCall_proof ----------------------------
(***************************************************************************)
(* Proofs about KpqcCall for every DrawBytes and MaxSignals: type          *)
(* correctness, the safety invariants of the MCKpqcCall run, and that the  *)
(* layers implement KpqcApi.  They rest on one inductive invariant, IInv.  *)
(***************************************************************************)
EXTENDS KpqcCall, TLAPS

(* What the loop of kpqc_fill_random keeps true between two answers of the *)
(* kernel: pointer and remaining length add up to the destination, and     *)
(* everything below the pointer has been written.                          *)
RngInv ==
  /\ RngTypeOK
  /\ rng \in {"reading", "filled"} =>
       output + length = DrawBytes /\ written = 0 .. output - 1
  /\ rng = "filled" => length = 0
  /\ rng = "failed" => kernel = "refused"

Zeroed == \A i \in {1, 2} : out[i] \in {"none", "zero"}

(* The answer that exception e in flight becomes for request r.            *)
Caught(r, e) == Thrown(IF r.via = "php" THEN Translate(e.type) ELSE e.type,
                       e.code, e.arg)

(* Past a layer's checks the request is well sized.                        *)
AcceptedInv ==
  /\ pc = "php" => req.via = "php"
  /\ pc = "facade" /\ req.via = "php" => FacadeAccepts
  /\ pc \in {"native", "drawing", "phase1", "committed", "returned"} => FacadeAccepts
  /\ ~FacadeAccepts => out = Nothing

DrawInv ==
  /\ pc \in {"php", "facade"} => got = 0
  /\ pc = "drawing" => got < Draws
  /\ pc = "native" => got <= Draws
  /\ rng = "reading" => pc = "drawing"

(* No block is lost, misused or freed in vain.                             *)
Intact == \A p \in Pointers : block[p] \in {"unset", "null", "live"}

(* Who holds blocks: one attempt of AIMer's key generation, its signer     *)
(* (whose phase 1 adds a block of its own) and its verifier, in the layer  *)
(* of the core that owns them.                                             *)
HoldInv ==
  /\ pc \notin {"native", "phase1", "committed"} => block = AllUnset
  /\ pc = "native" /\ (got < Draws \/ req.family # "AIMer") => block = AllUnset
  /\ pc = "native" /\ req.op = "generateKeyPair" => Unset(Pointers \ {"lin"})
  /\ pc = "native" /\ req.op = "sign" =>
       /\ Unset(Pointers \ SignPointers)
       /\ Unset(SignPointers) \/ \A p \in SignPointers : block[p] # "unset"
  /\ pc = "native" /\ req.op = "verify" =>
       /\ Unset(Pointers \ VerifyPointers)
       /\ \/ Unset(ViewPointers)
          \/ NonNull({"lin"}) /\ \A p \in ViewPointers : block[p] # "unset"
  /\ pc \in {"phase1", "committed"} =>
       /\ req.op = "sign" /\ req.family = "AIMer" /\ got = Draws
       /\ NonNull(SignPointers)
       /\ Unset(Pointers \ (SignPointers \cup {"lin"}))
  /\ pc = "committed" => Unset({"lin"}) /\ status \in {-2, 0}

HeapInv == Intact /\ HoldInv

(* The output buffers, layer by layer.                                     *)
OutInv ==
  /\ pc \in {"php", "facade"} => out = Nothing
  /\ pc = "drawing" => out = Filled(req.op, "zero")
  /\ pc = "native" => \/ out = Filled(req.op, "zero")
                      \/ /\ req.op = "sign" /\ req.family = "HAETAE" /\ got = Draws
                         /\ out = <<"partial", "none">>
  /\ pc = "phase1" => out = Filled(req.op, "zero")
  /\ pc = "committed" => out = IF status = 0 THEN <<"partial", "none">>
                               ELSE Filled(req.op, "zero")
  /\ pc = "throw" \/ (pc = "idle" /\ reply.kind = "throw") => Zeroed

(* What the core hands back and what is in flight are permitted outcomes.  *)
OutcomeInv ==
  /\ pc = "returned" =>
       \/ NativeFailed /\ Zeroed /\ status \in Api!Codes(req)
       \/ ~NativeFailed /\ Result \in Api!Successes(req)
  /\ pc = "throw" => Caught(req, exn) \in Api!Permitted(req)

IInv == TypeOK /\ RngInv /\ AcceptedInv /\ DrawInv /\ HeapInv /\ OutInv /\ OutcomeInv

-----------------------------------------------------------------------------
USE GetrandomAssumption

LEMMA InitIInv == Init => IInv
<1> SUFFICES ASSUME Init PROVE IInv
  OBVIOUS
<1> USE DEF Init, RngInit, NoReply, NoExn, Nothing
<1>1. RngInv
  BY DEF RngInv, RngTypeOK, Destination
<1>2. TypeOK
  BY <1>1 DEF RngInv, TypeOK, Contents, AllUnset, BlockStates
<1>3. AcceptedInv /\ DrawInv
  BY DEF AcceptedInv, DrawInv
<1>7. HeapInv
  BY DEF HeapInv, Intact, HoldInv, AllUnset
<1>4. OutInv
  BY DEF OutInv
<1>5. OutcomeInv
  BY DEF OutcomeInv
<1>6. QED
  BY <1>1, <1>2, <1>3, <1>4, <1>5, <1>7 DEF IInv

(* The loop of kpqc_fill_random.                                           *)
LEMMA RngStep == RngInv /\ RngNext => RngInv' /\ length' \in Nat
<1> SUFFICES ASSUME RngInv, RngNext PROVE RngInv' /\ length' \in Nat
  OBVIOUS
<1> USE DEF RngInv, RngTypeOK, Destination
<1>1. CASE FillRead
  BY <1>1 DEF FillRead, Advance
<1>2. CASE FillInterrupted
  BY <1>2 DEF FillInterrupted
<1>3. CASE FillRefused
  BY <1>3 DEF FillRefused
<1>4. CASE FillDone
  BY <1>4 DEF FillDone
<1>5. QED
  BY <1>1, <1>2, <1>3, <1>4 DEF RngNext

(* A step that leaves the blocks alone, outside the layers that own some.  *)
LEMMA HeapFrame ==
  ASSUME HeapInv, block' = block, block = AllUnset,
         pc' \notin {"phase1", "committed"}
  PROVE  HeapInv'
<1>1. \A p \in Pointers : block'[p] = "unset"
  BY DEF AllUnset
<1>2. Unset(SignPointers)' /\ Unset(ViewPointers)'
  BY <1>1 DEF Unset, Pointers, VerifyPointers
<1>3. \A ps \in SUBSET Pointers : Unset(Pointers \ ps)'
  BY <1>1 DEF Unset
<1>4. SignPointers \in SUBSET Pointers /\ VerifyPointers \in SUBSET Pointers
      /\ {"lin"} \in SUBSET Pointers
  BY DEF Pointers, VerifyPointers
<1>5. Intact'
  BY <1>1 DEF Intact
<1>6. QED
  BY <1>2, <1>3, <1>4, <1>5 DEF HeapInv, HoldInv

LEMMA InvokeIInv == IInv /\ Invoke => IInv'
<1> SUFFICES ASSUME IInv, Invoke PROVE IInv'
  OBVIOUS
<1> USE DEF IInv, Invoke, NoReply, NoExn, Nothing
<1>1. RngInv'
  BY DEF RngInv, RngTypeOK, rngVars
<1>2. TypeOK'
  BY <1>1 DEF RngInv, TypeOK, Contents
<1>3. AcceptedInv' /\ DrawInv'
  BY DEF AcceptedInv, DrawInv, rngVars
<1>7. HeapInv'
  <2>1. pc' \notin {"phase1", "committed"} /\ block' = block /\ block = AllUnset
    BY DEF HeapInv, HoldInv
  <2>2. QED
    BY <2>1, HeapFrame
<1>4. OutInv'
  BY DEF OutInv
<1>5. OutcomeInv'
  BY DEF OutcomeInv
<1>6. QED
  BY <1>1, <1>2, <1>3, <1>4, <1>5, <1>7 DEF IInv

(* A step outside the loop that leaves the loop's variables alone, or that *)
(* enters the loop, keeps what is known of it.                             *)
LEMMA RngFrame == RngInv /\ (UNCHANGED rngVars \/ FillStart) => RngInv'
<1> USE DEF RngInv, RngTypeOK, Destination
<1>1. RngInv /\ UNCHANGED rngVars => RngInv'
  BY DEF rngVars
<1>2. RngInv /\ FillStart => RngInv'
  <2>1. 0 .. 0 - 1 = {}
    OBVIOUS
  <2>2. QED
    BY <2>1 DEF FillStart
<1>3. QED
  BY <1>1, <1>2

(* Any request but that of a missized signature may fail for want of       *)
(* memory.                                                                 *)
LEMMA BadAllocPermitted ==
  ASSUME NEW r \in Requests, Args(r.op) \cap r.bad # {} \/ "signature" \notin r.bad
  PROVE  Caught(r, Exception("std::bad_alloc", 0, "none")) \in Api!Permitted(r)
<1> DEFINE c == Caught(r, Exception("std::bad_alloc", 0, "none"))
<1>1. c = Api!Thrown(Api!Class(r.via, "memory"), 0, "none")
  <2>1. r.via \in {"php", "cpp"}
    BY DEF Requests
  <2>2. QED
    BY <2>1 DEF Caught, Exception, Thrown, Translate, Is, Api!Thrown, Api!Class,
                Nothing, Api!Nothing
<1>2. c \in Api!Failures(r) /\ c \in Api!Refusals(r)
  BY <1>1 DEF Api!Failures, Api!Refusals, Api!NoMemory
<1>3. Api!Args(r.op) = Args(r.op)
  BY DEF Args, Api!Args
<1>4. QED
  BY <1>2, <1>3 DEF Api!Permitted

(* An argument of the wrong size is refused by name, with the class of the *)
(* caller's API.                                                           *)
LEMMA RefusalPermitted ==
  ASSUME NEW r \in Requests, NEW a \in Args(r.op) \cap r.bad
  PROVE  Caught(r, Exception(IF r.via = "php" THEN "PhpInvalidArgument"
                             ELSE "std::invalid_argument", 0, a)) \in Api!Permitted(r)
<1> DEFINE c == Caught(r, Exception(IF r.via = "php" THEN "PhpInvalidArgument"
                                    ELSE "std::invalid_argument", 0, a))
<1>1. c = Api!Thrown(Api!Class(r.via, "argument"), 0, a)
  <2>1. r.via \in {"php", "cpp"}
    BY DEF Requests
  <2>2. QED
    BY <2>1 DEF Caught, Exception, Thrown, Translate, Is, Api!Thrown, Api!Class,
                Nothing, Api!Nothing
<1>2. a \in Api!Args(r.op) \cap r.bad
  BY DEF Args, Api!Args
<1>3. QED
  BY <1>1, <1>2 DEF Api!Permitted, Api!Refusals

(* The status of a failed core may surface as kpqc::Error or Exception.    *)
LEMMA NativePermitted ==
  ASSUME NEW r \in Requests, Args(r.op) \cap r.bad = {}, "signature" \notin r.bad,
         NEW code \in Api!Codes(r)
  PROVE  Caught(r, Exception("kpqc::Error", code, "none")) \in Api!Permitted(r)
<1> DEFINE c == Caught(r, Exception("kpqc::Error", code, "none"))
<1>1. c = Api!Thrown(Api!Class(r.via, "native"), code, "none")
  <2>1. r.via \in {"php", "cpp"}
    BY DEF Requests
  <2>2. QED
    BY <2>1 DEF Caught, Exception, Thrown, Translate, Is, Api!Thrown, Api!Class,
                Nothing, Api!Nothing
<1>2. c \in Api!Failures(r)
  BY <1>1 DEF Api!Failures
<1>3. Api!Args(r.op) \cap r.bad = {}
  BY DEF Args, Api!Args
<1>4. QED
  BY <1>2, <1>3 DEF Api!Permitted

(* FacadeAccepts in terms of the request.                                  *)
LEMMA AcceptedRequest ==
  req \in Requests =>
    (FacadeAccepts <=> Args(req.op) \cap req.bad = {} /\ "signature" \notin req.bad)
BY DEF FacadeAccepts, SizesAccepted, WrongSignatureSize, Requests, Sized, Args,
       Operations, Signature

-----------------------------------------------------------------------------
(* What malloc, a use of blocks and a function's return do to the pointers.*)

Typed == block \in [Pointers -> BlockStates]

LEMMA AllocatesEffect ==
  ASSUME NEW ps \in SUBSET Pointers, Typed, Intact, Allocates(ps)
  PROVE  /\ Typed' /\ Intact'
         /\ \A p \in ps : block'[p] \in {"null", "live"}
         /\ \A p \in Pointers \ ps : block'[p] = block[p]
BY DEF Typed, Intact, Allocates, BlockStates

LEMMA UsedEffect ==
  ASSUME NEW ps \in SUBSET Pointers, Typed, Intact, NonNull(ps)
  PROVE  Used(ps) = block
BY DEF Typed, Intact, Used, NonNull

AllSound(locals, freed) == \A p \in locals : Sound(p, block, freed)

ClearsOnly(locals, b) ==
  /\ b \in [Pointers -> BlockStates]
  /\ \A p \in locals : b[p] = "unset"
  /\ \A p \in Pointers \ locals : b[p] = block[p]

(* A function that frees the blocks it has, and no other, leaves none.     *)
LEMMA ReturnEffect ==
  ASSUME NEW locals, NEW freed, locals \subseteq Pointers, freed \subseteq locals,
         Typed, Intact, AllSound(locals, freed)
  PROVE  ClearsOnly(locals, AfterReturn(block, locals, freed))
BY DEF ClearsOnly, Typed, Intact, AfterReturn, AllSound, BlockStates

(* With its pointers gone, an operation of the core holds no block.        *)
LEMMA HoldsNothing ==
  ASSUME NEW locals, NEW freed, locals \subseteq Pointers, freed \subseteq locals,
         Typed, Intact, AllSound(locals, freed), Unset(Pointers \ locals),
         block' = AfterReturn(block, locals, freed), pc' \notin {"phase1", "committed"}
  PROVE  Typed' /\ HeapInv'
<1>1. ClearsOnly(locals, block')
  BY ReturnEffect
<1>2. \A p \in Pointers : block'[p] = "unset"
  BY <1>1 DEF ClearsOnly, Unset
<1>3. Typed' /\ Intact' /\ block' = AllUnset
  BY <1>1, <1>2 DEF ClearsOnly, Typed, Intact, AllUnset
<1>4. Unset(SignPointers)' /\ Unset(ViewPointers)'
  BY <1>2 DEF Unset, Pointers, VerifyPointers
<1>5. \A ps \in SUBSET Pointers : Unset(Pointers \ ps)'
  BY <1>2 DEF Unset
<1>6. SignPointers \in SUBSET Pointers /\ VerifyPointers \in SUBSET Pointers
      /\ {"lin"} \in SUBSET Pointers
  BY DEF Pointers, VerifyPointers
<1>7. QED
  BY <1>3, <1>4, <1>5, <1>6 DEF HeapInv, HoldInv

LEMMA KeyGenerationHeap == IInv /\ KeyGeneration => Typed' /\ HeapInv'
<1> SUFFICES ASSUME IInv, KeyGeneration PROVE Typed' /\ HeapInv'
  OBVIOUS
<1> USE DEF Ready, Return
<1>1. Typed /\ Intact /\ HoldInv /\ HeapInv /\ req.op = "generateKeyPair" /\ pc = "native"
  BY DEF IInv, HeapInv, TypeOK, Typed, KeyGeneration, KeyPairMade, AimerKeyAllocates,
     AimerKeyRejected, AimerKeyNoMemory, AttemptFails
<1>2. Unset(Pointers \ {"lin"}) /\ {"lin"} \in SUBSET Pointers
  BY <1>1 DEF HoldInv, Pointers, VerifyPointers
<1>3. pc' # "native" => pc' = "returned"
  BY <1>1 DEF KeyGeneration, KeyPairMade, AimerKeyAllocates,
     AimerKeyRejected, AimerKeyNoMemory, AttemptFails
<1>4. CASE AimerKeyAllocates
  <2>1. Typed' /\ Intact' /\ \A p \in Pointers \ {"lin"} : block'[p] = block[p]
    BY <1>1, <1>2, <1>4, AllocatesEffect DEF AimerKeyAllocates
  <2>2. Unset(Pointers \ {"lin"})'
    BY <1>2, <2>1 DEF Unset
  <2>3. pc' = pc /\ req' = req /\ got' = 2 /\ Draws' = 2 /\ req.family = "AIMer"
    BY <1>1, <1>4 DEF AimerKeyAllocates, Draws
  <2>4. QED
    BY <1>1, <2>1, <2>2, <2>3 DEF HeapInv, HoldInv
<1>5. CASE KeyPairMade /\ req.family # "AIMer"
  BY <1>1, <1>3, <1>5, HeapFrame DEF KeyPairMade, HoldInv, Typed
<1>6. ASSUME NEW exit,
             block' = AfterReturn(block, {"lin"}, Freed(exit)),
             Freed(exit) \in SUBSET {"lin"}, Sound("lin", block, Freed(exit))
      PROVE  Typed' /\ HeapInv'
  <2> DEFINE freed == Freed(exit)
  <2>1. Typed /\ Intact /\ {"lin"} \subseteq Pointers /\ freed \subseteq {"lin"}
        /\ AllSound({"lin"}, freed) /\ block' = AfterReturn(block, {"lin"}, freed)
    BY <1>1, <1>2, <1>6 DEF AllSound
  <2> HIDE DEF freed
  <2>2. QED
    BY <1>1, <1>2, <1>3, <2>1, HoldsNothing
<1>7. CASE KeyPairMade /\ req.family = "AIMer"
  <2>1. NonNull({"lin"}) /\ block' = AfterReturn(block, {"lin"}, Freed("key made"))
    BY <1>1, <1>2, <1>7, UsedEffect DEF KeyPairMade
  <2>2. Sound("lin", block, Freed("key made")) /\ Freed("key made") = {"lin"}
    BY <1>1, <1>2, <2>1 DEF Sound, Freed, NonNull, Intact
  <2>3. QED
    BY <2>1, <2>2, <1>6
<1>8. CASE AimerKeyRejected \/ AimerKeyNoMemory
  <2>1. PICK ret \in {-1, -2} : AttemptFails(ret)
    BY <1>8 DEF AimerKeyRejected, AimerKeyNoMemory, DrawnAgain
  <2>2. CASE ret = -2
    <3>1. Sound("lin", block, Freed("no linear layer")) /\ Freed("no linear layer") = {}
      BY <2>1, <2>2 DEF AttemptFails, Sound, Freed, SomeNull
    <3>2. block' = AfterReturn(block, {"lin"}, Freed("no linear layer"))
      BY <2>1, <2>2 DEF AttemptFails
    <3>3. QED
      BY <3>1, <3>2, <1>6
  <2>3. CASE ret = -1
    <3>1. Sound("lin", block, Freed("zero input")) /\ Freed("zero input") = {"lin"}
      BY <1>1, <1>2, <2>1, <2>3 DEF AttemptFails, Sound, Freed, NonNull, Intact
    <3>2. ret # -2
      BY <2>3
    <3>3. block' = AfterReturn(block, {"lin"}, Freed("zero input"))
      BY <2>1, <3>2 DEF AttemptFails
    <3>4. QED
      BY <3>1, <3>3, <1>6
  <2>4. QED
    BY <2>1, <2>2, <2>3
<1>9. QED
  BY <1>4, <1>5, <1>7, <1>8 DEF KeyGeneration

LEMMA SigningHeap == IInv /\ Signing => Typed' /\ HeapInv'
<1> SUFFICES ASSUME IInv, Signing PROVE Typed' /\ HeapInv'
  OBVIOUS
<1> USE DEF Ready, Return, Goto
<1>1. Typed /\ Intact /\ HoldInv /\ HeapInv
  BY DEF IInv, HeapInv, TypeOK, Typed
<1>2. SignPointers \subseteq Pointers /\ {"lin"} \subseteq Pointers /\ "lin" \notin SignPointers
  BY DEF Pointers, SignPointers, VerifyPointers
<1>3. pc \in {"phase1", "committed"} =>
        /\ req.op = "sign" /\ req.family = "AIMer" /\ got = Draws
        /\ NonNull(SignPointers) /\ Unset(Pointers \ (SignPointers \cup {"lin"}))
  BY <1>1 DEF HoldInv
<1>4. pc = "native" /\ req.op = "sign" => Unset(Pointers \ SignPointers)
  BY <1>1 DEF HoldInv
<1>5. pc = "committed" => Unset(Pointers \ SignPointers)
  BY <1>1, <1>3 DEF HoldInv, Unset
<1>6. ASSUME \A p \in SignPointers : block[p] \in {"null", "live"},
             block' = AfterReturn(block, SignPointers, SignPointers),
             Unset(Pointers \ SignPointers), pc' = "returned"
      PROVE  Typed' /\ HeapInv'
  <2>1. AllSound(SignPointers, SignPointers)
    BY <1>6 DEF AllSound, Sound
  <2>2. QED
    BY <1>1, <1>2, <1>6, <2>1, HoldsNothing
<1>7. \A exit \in {"sign: no memory", "sign: phase 1 failed", "signed"} :
        Freed(exit) = SignPointers
  BY DEF Freed
<1>8. CASE AimerSignAllocates
  <2>1. /\ Typed' /\ Intact'
        /\ \A p \in SignPointers : block'[p] \in {"null", "live"}
        /\ \A p \in Pointers \ SignPointers : block'[p] = block[p]
    BY <1>1, <1>2, <1>8, AllocatesEffect DEF AimerSignAllocates
  <2>2. pc' = "native" /\ req' = req /\ req.op = "sign" /\ got' = 1 /\ Draws' = 1
        /\ req.family = "AIMer" /\ pc = "native"
    BY <1>8 DEF AimerSignAllocates, Draws
  <2>3. Unset(Pointers \ SignPointers)'
    BY <1>4, <2>1, <2>2 DEF Unset
  <2>4. \A p \in SignPointers : block'[p] # "unset"
    BY <2>1
  <2>5. QED
    BY <2>1, <2>2, <2>3, <2>4 DEF HeapInv, HoldInv
<1>9. CASE AimerSignNoMemory
  <2>1. \A p \in SignPointers : block[p] \in {"null", "live"}
    BY <1>1, <1>2, <1>9 DEF AimerSignNoMemory, HoldInv, SomeNull, Unset, Intact
  <2>2. QED
    BY <1>4, <1>6, <1>7, <1>9, <2>1 DEF AimerSignNoMemory
<1>10. CASE AimerPhase1Called
  <2>1. NonNull(SignPointers)
    BY <1>10 DEF AimerPhase1Called
  <2>2. block' = block
    <3>1. {"mult_chk", "alpha_shares", "v_share"} \in SUBSET Pointers
      BY DEF Pointers, SignPointers
    <3>2. NonNull({"mult_chk", "alpha_shares", "v_share"})
      BY <2>1 DEF NonNull, SignPointers
    <3>3. block' = Used({"mult_chk", "alpha_shares", "v_share"})
      BY <1>10 DEF AimerPhase1Called
    <3>4. QED
      BY <1>1, <3>1, <3>2, <3>3, UsedEffect
  <2>3. pc' = "phase1" /\ pc = "native" /\ req' = req /\ got' = got /\ req.op = "sign"
        /\ req.family = "AIMer" /\ got = Draws /\ Draws' = Draws
    BY <1>10 DEF AimerPhase1Called, Draws
  <2>4. Typed' /\ Intact' /\ NonNull(SignPointers)'
        /\ Unset(Pointers \ (SignPointers \cup {"lin"}))'
    BY <1>1, <1>4, <2>1, <2>2, <2>3 DEF Typed, Intact, NonNull, Unset
  <2>5. QED
    BY <2>3, <2>4 DEF HeapInv, HoldInv
<1>11. CASE AimerPhase1Allocates
  <2>1. /\ Typed' /\ Intact'
        /\ \A p \in Pointers \ {"lin"} : block'[p] = block[p]
    BY <1>1, <1>2, <1>11, AllocatesEffect DEF AimerPhase1Allocates
  <2>2. pc' = "phase1" /\ pc = "phase1" /\ req' = req /\ got' = got /\ Draws' = Draws
    BY <1>11 DEF AimerPhase1Allocates, Draws
  <2>3. NonNull(SignPointers)' /\ Unset(Pointers \ (SignPointers \cup {"lin"}))'
    BY <1>2, <1>3, <2>1, <2>2 DEF NonNull, Unset
  <2>4. QED
    BY <1>3, <2>1, <2>2, <2>3 DEF HeapInv, HoldInv
<1>12. ASSUME NEW freed, freed \subseteq {"lin"}, AllSound({"lin"}, freed),
              block' = AfterReturn(block, {"lin"}, freed),
              pc = "phase1", pc' = "committed", status' \in {-2, 0},
              UNCHANGED <<req, got>>
       PROVE  Typed' /\ HeapInv'
  <2>1. ClearsOnly({"lin"}, block')
    BY <1>1, <1>2, <1>12, ReturnEffect
  <2>2. Typed' /\ Intact' /\ Unset({"lin"})' /\ NonNull(SignPointers)'
        /\ Unset(Pointers \ (SignPointers \cup {"lin"}))'
    BY <1>1, <1>2, <1>3, <1>12, <2>1 DEF ClearsOnly, Typed, Intact, NonNull, Unset
  <2>3. Draws' = Draws
    BY <1>12 DEF Draws
  <2>4. QED
    BY <1>3, <1>12, <2>2, <2>3 DEF HeapInv, HoldInv
<1>13. CASE AimerPhase1NoMemory
  <2>1. AllSound({"lin"}, {}) /\ Freed("no linear layer") = {}
    BY <1>13 DEF AimerPhase1NoMemory, AllSound, Sound, SomeNull, Freed
  <2>2. QED
    BY <1>12, <1>13, <2>1 DEF AimerPhase1NoMemory
<1>14. CASE AimerCommits
  <2>1. NonNull({"lin", "nodes", "commits", "mult_chk"})
        /\ {"lin", "nodes", "commits", "mult_chk"} \in SUBSET Pointers
    BY <1>3, <1>14 DEF AimerCommits, NonNull, SignPointers, Pointers, VerifyPointers
  <2>2. Used({"lin", "nodes", "commits", "mult_chk"}) = block
    BY <1>1, <2>1, UsedEffect
  <2>3. Freed("committed") = {"lin"}
    BY DEF Freed
  <2>4. AllSound({"lin"}, {"lin"})
    BY <1>1, <1>2, <1>14 DEF AimerCommits, AllSound, Sound, NonNull, Intact
  <2>5. QED
    BY <1>12, <1>14, <2>2, <2>3, <2>4 DEF AimerCommits
<1>15. CASE AimerPhase1Failed
  <2>1. \A p \in SignPointers : block[p] \in {"null", "live"}
    BY <1>1, <1>2, <1>3, <1>15 DEF AimerPhase1Failed, NonNull, Intact
  <2>2. QED
    BY <1>5, <1>6, <1>7, <1>15, <2>1 DEF AimerPhase1Failed
<1>16. CASE AimerSigns
  <2>1. \A p \in SignPointers : block[p] \in {"null", "live"}
    BY <1>1, <1>2, <1>3, <1>16 DEF AimerSigns, NonNull, Intact
  <2>2. Used(SignPointers) = block
    BY <1>1, <1>2, <1>3, <1>16, UsedEffect DEF AimerSigns
  <2>3. QED
    BY <1>5, <1>6, <1>7, <1>16, <2>1, <2>2 DEF AimerSigns
<1>17. CASE HaetaeCandidateTooBig \/ HaetaeSigns
  <2>1. block' = block /\ pc = "native" /\ req.family # "AIMer"
        /\ pc' \notin {"phase1", "committed"}
    BY <1>17 DEF HaetaeCandidateTooBig, HaetaeSigns
  <2>2. block = AllUnset
    BY <1>1, <2>1 DEF HoldInv
  <2>3. Typed'
    BY <1>1, <2>1 DEF Typed
  <2>4. QED
    BY <1>1, <2>1, <2>2, <2>3, HeapFrame
<1>18. QED
  BY <1>8, <1>9, <1>10, <1>11, <1>13, <1>14, <1>15, <1>16, <1>17 DEF Signing

LEMMA VerificationHeap == IInv /\ Verification => Typed' /\ HeapInv'
<1> SUFFICES ASSUME IInv, Verification PROVE Typed' /\ HeapInv'
  OBVIOUS
<1> USE DEF Ready, Return
<1>1. Typed /\ Intact /\ HoldInv /\ HeapInv
  BY DEF IInv, HeapInv, TypeOK, Typed
<1>2. /\ VerifyPointers \subseteq Pointers /\ ViewPointers \subseteq Pointers
      /\ {"lin"} \subseteq Pointers /\ "lin" \notin ViewPointers
      /\ \A p : p \in VerifyPointers <=> p = "lin" \/ p \in ViewPointers
  BY DEF Pointers, VerifyPointers, ViewPointers
<1>3. pc = "native" /\ req.op = "verify"
  BY DEF Verification, HaetaeVerifies, AimerVerifyAllocatesLinear, AimerVerifyNoLinear,
     AimerVerifyAllocatesViews, AimerVerifyNoMemory, AimerVerifies
<1>4. /\ Unset(Pointers \ VerifyPointers)
      /\ \/ Unset(ViewPointers)
         \/ NonNull({"lin"}) /\ \A p \in ViewPointers : block[p] # "unset"
  BY <1>1, <1>3 DEF HoldInv
<1>5. ASSUME NEW freed, freed \subseteq VerifyPointers, AllSound(VerifyPointers, freed),
             block' = AfterReturn(block, VerifyPointers, freed), pc' = "returned"
      PROVE  Typed' /\ HeapInv'
  BY <1>1, <1>2, <1>4, <1>5, HoldsNothing
<1>6. CASE HaetaeVerifies
  <2>1. block' = block /\ req.family # "AIMer" /\ pc' \notin {"phase1", "committed"}
    BY <1>6 DEF HaetaeVerifies
  <2>2. block = AllUnset
    BY <1>1, <1>3, <2>1 DEF HoldInv
  <2>3. Typed'
    BY <1>1, <2>1 DEF Typed
  <2>4. QED
    BY <1>1, <2>1, <2>2, <2>3, HeapFrame
<1>7. ASSUME pc' = pc, UNCHANGED <<req, got>>, req.family = "AIMer", got = Draws,
             Typed', Intact', Unset(Pointers \ VerifyPointers)',
             \/ Unset(ViewPointers)'
             \/ NonNull({"lin"})' /\ \A p \in ViewPointers : block'[p] # "unset"
      PROVE  Typed' /\ HeapInv'
  <2>1. got' = 0 /\ Draws' = 0
    BY <1>3, <1>7 DEF Draws
  <2>2. QED
    BY <1>3, <1>7, <2>1 DEF HeapInv, HoldInv
<1>8. CASE AimerVerifyAllocatesLinear
  <2>1. /\ Typed' /\ Intact'
        /\ \A p \in Pointers \ {"lin"} : block'[p] = block[p]
    BY <1>1, <1>2, <1>8, AllocatesEffect DEF AimerVerifyAllocatesLinear
  <2>2. Unset(ViewPointers)
    BY <1>4, <1>8 DEF AimerVerifyAllocatesLinear, NonNull, Unset
  <2>3. Unset(Pointers \ VerifyPointers)' /\ Unset(ViewPointers)'
    BY <1>2, <1>4, <2>1, <2>2 DEF Unset
  <2>4. QED
    BY <1>7, <1>8, <2>1, <2>3 DEF AimerVerifyAllocatesLinear
<1>9. CASE AimerVerifyNoLinear
  <2>1. Freed("no linear layer") = {} /\ block["lin"] = "null"
    BY <1>9 DEF Freed, AimerVerifyNoLinear, SomeNull
  <2>2. Unset(ViewPointers)
    BY <1>4, <2>1 DEF NonNull
  <2>3. AllSound(VerifyPointers, {})
    BY <1>2, <2>1, <2>2 DEF AllSound, Sound, Unset
  <2>4. QED
    BY <1>5, <1>9, <2>1, <2>3 DEF AimerVerifyNoLinear
<1>10. CASE AimerVerifyAllocatesViews
  <2>1. /\ Typed' /\ Intact'
        /\ \A p \in ViewPointers : block'[p] \in {"null", "live"}
        /\ \A p \in Pointers \ ViewPointers : block'[p] = block[p]
    BY <1>1, <1>2, <1>10, AllocatesEffect DEF AimerVerifyAllocatesViews
  <2>2. NonNull({"lin"})
    BY <1>10 DEF AimerVerifyAllocatesViews
  <2>3. NonNull({"lin"})' /\ Unset(Pointers \ VerifyPointers)'
    BY <1>2, <1>4, <2>1, <2>2 DEF NonNull, Unset
  <2>4. \A p \in ViewPointers : block'[p] # "unset"
    BY <2>1
  <2>5. req.family = "AIMer"
    BY <1>1, <1>2, <1>3, <2>2 DEF HoldInv, AllUnset, NonNull
  <2>6. pc' = pc /\ UNCHANGED <<req, got>> /\ got = Draws
    BY <1>10 DEF AimerVerifyAllocatesViews
  <2>7. QED
    BY <1>7, <2>1, <2>3, <2>4, <2>5, <2>6
<1>11. ASSUME \A p \in ViewPointers : block[p] # "unset",
              block' = AfterReturn(block, VerifyPointers, VerifyPointers), pc' = "returned"
       PROVE  Typed' /\ HeapInv'
  <2>1. ~Unset(ViewPointers)
    <3>1. "nodes" \in ViewPointers
      BY DEF ViewPointers
    <3>2. QED
      BY <1>11, <3>1 DEF Unset
  <2>2. \A p \in VerifyPointers : block[p] \in {"null", "live"}
    BY <1>1, <1>2, <1>4, <1>11, <2>1 DEF NonNull, Intact
  <2>3. AllSound(VerifyPointers, VerifyPointers)
    BY <2>2 DEF AllSound, Sound
  <2>4. QED
    BY <1>5, <1>11, <2>3
<1>12. CASE AimerVerifyNoMemory
  <2>1. \A p \in ViewPointers : block[p] # "unset"
    BY <1>4, <1>12 DEF AimerVerifyNoMemory, SomeNull, Unset
  <2>2. Freed("verify: no memory") = VerifyPointers
    BY DEF Freed
  <2>3. QED
    BY <1>11, <1>12, <2>1, <2>2 DEF AimerVerifyNoMemory
<1>13. CASE AimerVerifies
  <2>1. NonNull(ViewPointers) /\ \A p \in ViewPointers : block[p] # "unset"
    BY <1>13 DEF AimerVerifies, NonNull
  <2>2. NonNull(VerifyPointers)
    <3>1. "nodes" \in ViewPointers
      BY DEF ViewPointers
    <3>2. NonNull({"lin"})
      BY <1>4, <2>1, <3>1 DEF Unset
    <3>3. QED
      BY <1>2, <2>1, <3>2 DEF NonNull
  <2>3. Used(VerifyPointers) = block
    BY <1>1, <1>2, <2>2, UsedEffect
  <2>4. Freed("verified") = VerifyPointers
    BY DEF Freed
  <2>5. QED
    BY <1>11, <1>13, <2>1, <2>3, <2>4 DEF AimerVerifies
<1>14. QED
  BY <1>6, <1>8, <1>9, <1>10, <1>12, <1>13 DEF Verification

-----------------------------------------------------------------------------
(* One lemma per group of actions.                                         *)

LEMMA ValidationIInv == IInv /\ Validation => IInv'
<1> SUFFICES ASSUME IInv, Validation PROVE IInv'
  OBVIOUS
<1> USE DEF Throw, Answer, Goto, Nothing
<1>1. RngInv'
  BY RngFrame DEF IInv, Validation, PhpRefuses, PhpAnswersFalse, PhpCopies, PhpCopyFails,
     FacadeRefuses, FacadeAnswersFalse, FacadeAllocates, FacadeAllocationFails
<1>2. req \in Requests /\ req' = req
  BY DEF IInv, TypeOK, Validation, PhpRefuses, PhpAnswersFalse, PhpCopies, PhpCopyFails,
     FacadeRefuses, FacadeAnswersFalse, FacadeAllocates, FacadeAllocationFails
<1>3. TypeOK'
  BY <1>1 DEF IInv, TypeOK, RngInv, Contents, Exception, Filled,
     Validation, PhpRefuses, PhpAnswersFalse, PhpCopies, PhpCopyFails,
     FacadeRefuses, FacadeAnswersFalse, FacadeAllocates, FacadeAllocationFails
<1>4. AcceptedInv'
  BY DEF IInv, AcceptedInv, FacadeAccepts, SizesAccepted, WrongSignatureSize,
     Validation, PhpRefuses, PhpAnswersFalse, PhpCopies, PhpCopyFails,
     FacadeRefuses, FacadeAnswersFalse, FacadeAllocates, FacadeAllocationFails
<1>5. DrawInv'
  BY DEF IInv, DrawInv, rngVars, Draws, TypeOK,
     Validation, PhpRefuses, PhpAnswersFalse, PhpCopies, PhpCopyFails,
     FacadeRefuses, FacadeAnswersFalse, FacadeAllocates, FacadeAllocationFails
<1>9. HeapInv'
  <2>1. pc \in {"php", "facade"} /\ pc' \notin {"phase1", "committed"} /\ block' = block
    BY DEF Validation, PhpRefuses, PhpAnswersFalse, PhpCopies, PhpCopyFails,
       FacadeRefuses, FacadeAnswersFalse, FacadeAllocates, FacadeAllocationFails
  <2>2. QED
    BY <2>1, HeapFrame DEF IInv, HeapInv, HoldInv
<1>6. OutInv'
  BY DEF IInv, OutInv, Zeroed, Value, Filled,
     Validation, PhpRefuses, PhpAnswersFalse, PhpCopies, PhpCopyFails,
     FacadeRefuses, FacadeAnswersFalse, FacadeAllocates, FacadeAllocationFails
<1>7. OutcomeInv'
  <2>1. CASE PhpRefuses
    BY <1>2, <2>1, RefusalPermitted, BadAllocPermitted
    DEF PhpRefuses, SizesAccepted, FirstBad, IInv, AcceptedInv, OutcomeInv
  <2>2. CASE FacadeRefuses
    BY <1>2, <2>2, RefusalPermitted, BadAllocPermitted
    DEF FacadeRefuses, FirstBad, IInv, AcceptedInv, OutcomeInv, FacadeAccepts, SizesAccepted
  <2>3. CASE PhpCopyFails
    BY <1>2, <2>3, BadAllocPermitted, AcceptedRequest
    DEF PhpCopyFails, OutcomeInv, FacadeAccepts
  <2>4. CASE FacadeAllocationFails
    BY <1>2, <2>4, BadAllocPermitted, AcceptedRequest
    DEF FacadeAllocationFails, OutcomeInv
  <2>5. CASE PhpAnswersFalse \/ PhpCopies \/ FacadeAnswersFalse \/ FacadeAllocates
    BY <2>5 DEF PhpAnswersFalse, PhpCopies, FacadeAnswersFalse, FacadeAllocates, OutcomeInv
  <2>6. QED
    BY <2>1, <2>2, <2>3, <2>4, <2>5 DEF Validation
<1>8. QED
  BY <1>1, <1>3, <1>4, <1>5, <1>6, <1>7, <1>9 DEF IInv

LEMMA DrawingIInv == IInv /\ Drawing => IInv'
<1> SUFFICES ASSUME IInv, Drawing PROVE IInv'
  OBVIOUS
<1> USE DEF Goto, Return, Drawing, NativeDraws, Randombytes, DrawFails, DrawAccepted,
            NtruSampleRejected
<1>1. RngInv'
  <2>1. UNCHANGED rngVars \/ FillStart \/ RngNext
    OBVIOUS
  <2>2. QED
    BY <2>1, RngFrame, RngStep DEF IInv
<1>2. req \in Requests /\ req' = req /\ got \in Nat
  BY DEF IInv, TypeOK, callVars
<1>3. TypeOK'
  BY <1>1, <1>2 DEF IInv, TypeOK, RngInv, callVars, DrawInv, Draws
<1>4. AcceptedInv'
  BY DEF IInv, AcceptedInv, FacadeAccepts, SizesAccepted, WrongSignatureSize, callVars
<1>5. DrawInv'
  BY <1>2 DEF IInv, DrawInv, rngVars, callVars, Draws, TypeOK, RngNext, FillRead,
     FillInterrupted, FillRefused, FillDone
<1>9. HeapInv'
  <2>1. block' = block /\ pc' \notin {"phase1", "committed"}
    BY DEF callVars
  <2>2. pc = "drawing" \/ (pc = "native" /\ got < Draws)
    BY DEF IInv, DrawInv, RngNext, FillRead, FillInterrupted, FillRefused, FillDone
  <2>3. QED
    BY <2>1, <2>2, HeapFrame DEF IInv, HeapInv, HoldInv
<1>6. OutInv'
  BY <1>2 DEF IInv, OutInv, Zeroed, Filled, callVars, DrawInv, Draws
<1>7. OutcomeInv'
  <2>1. CASE DrawFails
    BY <1>2, <2>1
    DEF IInv, OutInv, OutcomeInv, DrawInv, Draws, NativeFailed, Zeroed, Filled, Api!Codes
  <2>2. CASE NativeDraws \/ Randombytes \/ DrawAccepted \/ NtruSampleRejected
    BY <2>2 DEF IInv, OutcomeInv, callVars
  <2>3. QED
    BY <2>1, <2>2
<1>8. QED
  BY <1>1, <1>3, <1>4, <1>5, <1>6, <1>7, <1>9 DEF IInv

LEMMA KeyGenerationIInv == IInv /\ KeyGeneration => IInv'
<1> SUFFICES ASSUME IInv, KeyGeneration PROVE IInv'
  OBVIOUS
<1>1. Typed' /\ HeapInv'
  BY KeyGenerationHeap
<1>2. /\ pc = "native" /\ req.op = "generateKeyPair" /\ got = Draws
      /\ UNCHANGED <<req, exn, siglen, reply, rngVars>>
      /\ \/ /\ pc' = pc /\ out' = out /\ status' = status
            /\ got' \in {got, 0} /\ coins' \in {coins, "spent"}
         \/ /\ pc' = "returned" /\ out' = <<"output", "output">> /\ status' = 0
            /\ UNCHANGED <<got, coins>>
         \/ /\ pc' = "returned" /\ out' = out /\ status' = -2 /\ req.family = "AIMer"
            /\ UNCHANGED <<got, coins>>
  <2> USE DEF Ready, Return
  <2>1. CASE KeyPairMade
    BY <2>1 DEF KeyPairMade
  <2>2. CASE AimerKeyAllocates
    BY <2>2 DEF AimerKeyAllocates
  <2>3. CASE AimerKeyRejected
    BY <2>3 DEF AimerKeyRejected, AttemptFails, DrawnAgain
  <2>4. CASE AimerKeyNoMemory
    <3>1. {-1, -2} \ DrawnAgain = {-2}
      BY DEF DrawnAgain
    <3>2. AttemptFails(-2) /\ Return(-2)
      BY <2>4, <3>1 DEF AimerKeyNoMemory
    <3>3. QED
      BY <2>4, <3>2 DEF AimerKeyNoMemory, AttemptFails
  <2>5. QED
    BY <2>1, <2>2, <2>3, <2>4 DEF KeyGeneration
<1>3. RngInv'
  BY <1>2, RngFrame DEF IInv
<1>4. req \in Requests /\ req' = req
  BY <1>2 DEF IInv, TypeOK
<1>5. TypeOK'
  BY <1>1, <1>2, <1>3 DEF IInv, TypeOK, Typed, RngInv, Contents
<1>6. AcceptedInv'
  BY <1>2 DEF IInv, AcceptedInv, FacadeAccepts, SizesAccepted, WrongSignatureSize
<1>7. DrawInv'
  <2>1. Draws' = Draws /\ Draws \in Nat
    BY <1>2 DEF Draws
  <2>2. QED
    BY <1>2, <2>1 DEF IInv, DrawInv, rngVars
<1>8. OutInv'
  BY <1>2 DEF IInv, OutInv, Zeroed, Filled, Outputs
<1>9. OutcomeInv'
  <2>1. CASE pc' = "returned" /\ status' = 0
    BY <1>2, <1>4, <2>1 DEF OutcomeInv, NativeFailed, Result, Value, Api!Value,
       Api!Successes, Api!InvalidKey, Nothing, Api!Nothing
  <2>2. CASE pc' = "returned" /\ status' = -2
    BY <1>2, <1>4, <2>2
    DEF IInv, OutInv, OutcomeInv, NativeFailed, Zeroed, Filled, Api!Codes
  <2>3. CASE pc' = pc
    BY <1>2, <2>3 DEF OutcomeInv
  <2>4. QED
    BY <1>2, <2>1, <2>2, <2>3
<1>10. QED
  BY <1>1, <1>3, <1>5, <1>6, <1>7, <1>8, <1>9 DEF IInv

LEMMA SigningIInv == IInv /\ Signing => IInv'
<1> SUFFICES ASSUME IInv, Signing PROVE IInv'
  OBVIOUS
<1>1. Typed' /\ HeapInv'
  BY SigningHeap
<1>2. /\ req.op = "sign" /\ got = Draws
      /\ UNCHANGED <<req, exn, got, coins, reply, rngVars>>
      /\ \/ /\ pc = "native" /\ pc' \in {"native", "phase1"} /\ req.family = "AIMer"
            /\ UNCHANGED <<out, status, siglen>>
         \/ /\ pc = "phase1" /\ pc' = pc /\ UNCHANGED <<out, status, siglen>>
         \/ /\ pc = "phase1" /\ pc' = "committed" /\ status' = -2 /\ UNCHANGED <<out, siglen>>
         \/ /\ pc = "phase1" /\ pc' = "committed" /\ status' = 0
            /\ out' = <<"partial", "none">> /\ UNCHANGED siglen
         \/ /\ pc = "native" /\ pc' = pc /\ req.family = "HAETAE"
            /\ out' = <<"partial", "none">> /\ UNCHANGED <<status, siglen>>
         \/ /\ pc = "native" /\ pc' = "returned" /\ status' = -2 /\ req.family = "AIMer"
            /\ UNCHANGED <<out, siglen>>
         \/ /\ pc = "committed" /\ pc' = "returned" /\ status' = -2 /\ req.family = "AIMer"
            /\ status = -2 /\ UNCHANGED <<out, siglen>>
         \/ /\ pc \in {"native", "committed"} /\ pc' = "returned" /\ status' = 0
            /\ siglen' = "stored"
            /\ out' = <<"output", "none">>
  <2> USE DEF Ready, Return, Goto
  <2>1. pc \in {"phase1", "committed"} =>
          req.op = "sign" /\ req.family = "AIMer" /\ got = Draws
    BY DEF IInv, HeapInv, HoldInv
  <2>2. pc = "committed" => status \in {-2, 0}
    BY DEF IInv, HeapInv, HoldInv
  <2>3. SomeNull(SignPointers) /\ pc = "native" => req.family = "AIMer"
    BY DEF IInv, HeapInv, HoldInv, AllUnset, SomeNull, Pointers
  <2>4. CASE AimerSignAllocates
    BY <2>4 DEF AimerSignAllocates
  <2>5. CASE AimerSignNoMemory
    BY <2>3, <2>5 DEF AimerSignNoMemory
  <2>6. CASE AimerPhase1Called
    BY <2>6 DEF AimerPhase1Called
  <2>7. CASE AimerPhase1Allocates
    BY <2>1, <2>7 DEF AimerPhase1Allocates
  <2>8. CASE AimerPhase1NoMemory
    BY <2>1, <2>8 DEF AimerPhase1NoMemory
  <2>9. CASE AimerCommits
    BY <2>1, <2>9 DEF AimerCommits
  <2>10. CASE AimerPhase1Failed
    BY <2>1, <2>2, <2>10 DEF AimerPhase1Failed
  <2>11. CASE AimerSigns
    BY <2>1, <2>11 DEF AimerSigns
  <2>12. CASE HaetaeCandidateTooBig
    BY <2>12 DEF HaetaeCandidateTooBig
  <2>13. CASE HaetaeSigns
    BY <2>13 DEF HaetaeSigns
  <2>14. QED
    BY <2>4, <2>5, <2>6, <2>7, <2>8, <2>9, <2>10, <2>11, <2>12, <2>13 DEF Signing
<1>3. RngInv'
  BY <1>2, RngFrame DEF IInv
<1>4. req \in Requests /\ req' = req
  BY <1>2 DEF IInv, TypeOK
<1>5. TypeOK'
  BY <1>1, <1>2, <1>3 DEF IInv, TypeOK, Typed, RngInv, Contents
<1>6. AcceptedInv'
  BY <1>2 DEF IInv, AcceptedInv, FacadeAccepts, SizesAccepted, WrongSignatureSize
<1>7. DrawInv'
  <2>1. Draws' = Draws /\ Draws \in Nat
    BY <1>2 DEF Draws
  <2>2. QED
    BY <1>2, <2>1 DEF IInv, DrawInv, rngVars
<1>8. OutInv'
  <2>1. Draws' = Draws /\ Filled(req.op, "zero")' = Filled(req.op, "zero")
    BY <1>2 DEF Draws, Filled, Outputs
  <2>2. Filled(req.op, "zero") = <<"zero", "none">>
    BY <1>2 DEF Filled, Outputs
  <2>3. pc = "native" /\ req.family = "AIMer" => out = Filled(req.op, "zero")
    BY DEF IInv, OutInv
  <2>4. QED
    BY <1>2, <2>1, <2>2, <2>3 DEF IInv, OutInv
<1>9. OutcomeInv'
  <2>1. CASE pc' = "returned" /\ status' = 0
    BY <1>2, <1>4, <2>1 DEF OutcomeInv, NativeFailed, Result, Value, Api!Value,
       Api!Successes, Api!InvalidKey, Nothing, Api!Nothing
  <2>2. CASE pc' = "returned" /\ status' = -2
    <3>1. out' = <<"zero", "none">>
      BY <1>2, <2>2 DEF IInv, OutInv, Filled, Outputs
    <3>2. req.family = "AIMer" /\ req' = req
      BY <1>2, <2>2
    <3>3. QED
      BY <1>2, <2>2, <3>1, <3>2 DEF OutcomeInv, NativeFailed, Zeroed, Api!Codes
  <2>3. CASE pc' # "returned"
    BY <1>2, <2>3 DEF OutcomeInv
  <2>4. QED
    BY <1>2, <2>1, <2>2, <2>3
<1>10. QED
  BY <1>1, <1>3, <1>5, <1>6, <1>7, <1>8, <1>9 DEF IInv

LEMMA VerificationIInv == IInv /\ Verification => IInv'
<1> SUFFICES ASSUME IInv, Verification PROVE IInv'
  OBVIOUS
<1>1. Typed' /\ HeapInv'
  BY VerificationHeap
<1>2. /\ pc = "native" /\ req.op = "verify" /\ got = Draws
      /\ UNCHANGED <<req, exn, out, siglen, got, coins, reply, rngVars>>
      /\ \/ pc' = pc /\ UNCHANGED status
         \/ pc' = "returned" /\ status' = Verdict
         \/ pc' = "returned" /\ status' = -2 /\ req.family = "AIMer"
  <2> USE DEF Ready, Return
  <2>1. \A ps \in SUBSET Pointers : SomeNull(ps) /\ pc = "native" => req.family = "AIMer"
    BY DEF IInv, HeapInv, HoldInv, AllUnset, SomeNull
  <2>2. {"lin"} \in SUBSET Pointers /\ ViewPointers \in SUBSET Pointers
    BY DEF Pointers, VerifyPointers
  <2>3. CASE HaetaeVerifies
    BY <2>3 DEF HaetaeVerifies
  <2>4. CASE AimerVerifyAllocatesLinear
    BY <2>4 DEF AimerVerifyAllocatesLinear
  <2>5. CASE AimerVerifyNoLinear
    BY <2>1, <2>2, <2>5 DEF AimerVerifyNoLinear
  <2>6. CASE AimerVerifyAllocatesViews
    BY <2>6 DEF AimerVerifyAllocatesViews
  <2>7. CASE AimerVerifyNoMemory
    BY <2>1, <2>2, <2>7 DEF AimerVerifyNoMemory
  <2>8. CASE AimerVerifies
    BY <2>8 DEF AimerVerifies
  <2>9. QED
    BY <2>3, <2>4, <2>5, <2>6, <2>7, <2>8 DEF Verification
<1>3. RngInv'
  BY <1>2, RngFrame DEF IInv
<1>4. req \in Requests /\ req' = req
  BY <1>2 DEF IInv, TypeOK
<1>5. TypeOK'
  <2>1. Verdict \in -2 .. 1
    BY DEF Verdict
  <2>2. QED
    BY <1>1, <1>2, <1>3, <2>1 DEF IInv, TypeOK, Typed, RngInv
<1>6. AcceptedInv'
  BY <1>2 DEF IInv, AcceptedInv, FacadeAccepts, SizesAccepted, WrongSignatureSize
<1>7. DrawInv'
  <2>1. Draws' = Draws /\ Draws \in Nat
    BY <1>2 DEF Draws
  <2>2. QED
    BY <1>2, <2>1 DEF IInv, DrawInv, rngVars
<1>8. OutInv'
  BY <1>2 DEF IInv, OutInv, Zeroed, Filled, Outputs, Draws
<1>9. OutcomeInv'
  <2>1. out = Nothing /\ out' = Nothing
    BY <1>2 DEF IInv, OutInv, Filled, Outputs, Nothing
  <2>2. QED
    BY <1>2, <1>4, <2>1 DEF OutcomeInv, NativeFailed, Zeroed, Verdict,
       Result, Value, Api!Value, Api!Successes, Api!InvalidKey, Api!Codes, Nothing, Api!Nothing
<1>10. QED
  BY <1>1, <1>3, <1>5, <1>6, <1>7, <1>8, <1>9 DEF IInv

LEMMA EncapsulationIInv == IInv /\ Encapsulation => IInv'
<1> SUFFICES ASSUME IInv, Encapsulation PROVE IInv'
  OBVIOUS
<1> USE DEF Return, Ready, Encapsulation, NtruEncapsulateRejects, Encapsulates,
            NtruDecapsulates, SmaugDecapsulates, MaskedSecret
<1>1. RngInv'
  BY RngFrame DEF IInv
<1>2. req \in Requests /\ req' = req
  BY DEF IInv, TypeOK
<1>3. TypeOK'
  BY <1>1 DEF IInv, TypeOK, RngInv, Contents
<1>4. AcceptedInv'
  BY DEF IInv, AcceptedInv, FacadeAccepts, SizesAccepted, WrongSignatureSize
<1>5. DrawInv'
  BY DEF IInv, DrawInv, rngVars, Draws
<1>9. HeapInv'
  <2>1. block' = block /\ pc = "native" /\ pc' = "returned"
    OBVIOUS
  <2>2. req.family # "AIMer"
    BY <1>2 DEF Requests, Operations, Signature, Families
  <2>3. QED
    BY <2>1, <2>2, HeapFrame DEF IInv, HeapInv, HoldInv
<1>6. OutInv'
  BY DEF IInv, OutInv
<1>7. OutcomeInv'
  BY <1>2 DEF OutcomeInv, NativeFailed, Zeroed, Result, Value, Api!Value,
     Api!Successes, Api!InvalidKey, Api!Codes, Nothing, Api!Nothing
<1>8. QED
  BY <1>1, <1>3, <1>4, <1>5, <1>6, <1>7, <1>9 DEF IInv

LEMMA ReturningIInv == IInv /\ Returning => IInv'
<1> SUFFICES ASSUME IInv, Returning PROVE IInv'
  OBVIOUS
<1> USE DEF Throw, Answer, Returning, FacadeFails, FacadeAnswers, CallerCatches
<1>1. RngInv'
  BY RngFrame DEF IInv
<1>2. req \in Requests /\ req' = req
  BY DEF IInv, TypeOK
<1>3. TypeOK'
  BY <1>1 DEF IInv, TypeOK, RngInv, Contents, Exception, Cleared, ClearedBuffer, ErrorCode
<1>4. AcceptedInv'
  BY DEF IInv, AcceptedInv, FacadeAccepts, SizesAccepted, WrongSignatureSize
<1>5. DrawInv'
  BY DEF IInv, DrawInv, rngVars, TypeOK
<1>9. HeapInv'
  <2>1. pc \in {"returned", "throw"} /\ pc' \in {"throw", "idle"} /\ block' = block
    OBVIOUS
  <2>2. QED
    BY <2>1, HeapFrame DEF IInv, HeapInv, HoldInv
<1>6. OutInv'
  <2>1. CASE FacadeFails
    BY <1>2, <2>1 DEF IInv, OutInv, Cleared, ClearedBuffer, Zeroed
  <2>2. CASE FacadeAnswers
    BY <1>2, <2>2 DEF IInv, OutInv, Result, Value
  <2>3. CASE CallerCatches
    BY <1>2, <2>3 DEF IInv, OutInv, Zeroed
  <2>4. QED
    BY <2>1, <2>2, <2>3
<1>7. OutcomeInv'
  <2>1. CASE FacadeFails
    <3>1. status \in Api!Codes(req) /\ ErrorCode = status
      BY <1>2, <2>1 DEF IInv, OutcomeInv, Api!Codes, ErrorCode
    <3>2. Args(req.op) \cap req.bad = {} /\ "signature" \notin req.bad
      BY <1>2, <2>1, AcceptedRequest DEF IInv, AcceptedInv
    <3>3. pc' = "throw"
      BY <2>1
    <3>4. \/ exn' = Exception("kpqc::Error", status, "none")
          \/ exn' = Exception("std::bad_alloc", 0, "none")
      BY <2>1, <3>1
    <3>5. QED
      BY <1>2, <3>1, <3>2, <3>3, <3>4, NativePermitted, BadAllocPermitted DEF OutcomeInv
  <2>2. CASE FacadeAnswers \/ CallerCatches
    BY <2>2 DEF OutcomeInv
  <2>3. QED
    BY <2>1, <2>2
<1>8. QED
  BY <1>1, <1>3, <1>4, <1>5, <1>6, <1>7, <1>9 DEF IInv

LEMMA StutterIInv == IInv /\ UNCHANGED vars => IInv'
<1> SUFFICES ASSUME IInv, UNCHANGED vars PROVE IInv'
  OBVIOUS
<1> USE DEF vars, callVars
<1>1. RngInv'
  BY RngFrame DEF IInv
<1>2. TypeOK'
  BY <1>1 DEF IInv, TypeOK, RngInv
<1>3. AcceptedInv'
  BY DEF IInv, AcceptedInv, FacadeAccepts, SizesAccepted, WrongSignatureSize
<1>4. DrawInv'
  BY DEF IInv, DrawInv, Draws, rngVars
<1>9. HeapInv'
  BY DEF IInv, HeapInv, Intact, HoldInv, Unset, NonNull, Draws
<1>5. OutInv'
  BY DEF IInv, OutInv, Zeroed, Draws
<1>6. OutcomeInv'
  BY DEF IInv, OutcomeInv, NativeFailed, Zeroed, Result
<1>7. QED
  BY <1>1, <1>2, <1>3, <1>4, <1>5, <1>6, <1>9 DEF IInv

(* IInv is inductive.                                                      *)
LEMMA StepIInv == IInv /\ [Next]_vars => IInv'
  BY InvokeIInv, ValidationIInv, DrawingIInv, KeyGenerationIInv, SigningIInv,
     VerificationIInv, EncapsulationIInv, ReturningIInv, StutterIInv
  DEF Next, Work

(* IInv holds in every state of every behaviour.                           *)
THEOREM InductiveInvariant == Spec => []IInv
<1>1. Init => IInv
  BY InitIInv
<1>2. IInv /\ [Next]_vars => IInv'
  BY StepIInv
<1>3. QED
  BY <1>1, <1>2, PTL DEF Spec

(* Every variable keeps its type (buffers, statuses, control).             *)
THEOREM TypeCorrect == Spec => []TypeOK
<1>1. IInv => TypeOK
  BY DEF IInv
<1>2. QED
  BY <1>1, InductiveInvariant, PTL

(* However the kernel cuts or interrupts its answers, a draw of any size   *)
(* that succeeds has filled its destination (randombytes.c:36-46).         *)
THEOREM DrawsAreComplete == Spec => []EntropyComplete
<1>1. IInv => EntropyComplete
  BY DEF IInv, RngInv, RngTypeOK, EntropyComplete, Destination
<1>2. QED
  BY <1>1, InductiveInvariant, PTL

(* No layer that reports a failure leaves a result in the output storage.  *)
THEOREM FailuresLeaveNoOutput == Spec => []FailureLeavesNoOutput
<1>1. IInv => FailureLeavesNoOutput
  BY DEF IInv, OutInv, OutcomeInv, Zeroed, FailureLeavesNoOutput, CallFailed
<1>2. QED
  BY <1>1, InductiveInvariant, PTL

(* Whichever of their allocations fail, AIMer's cores use only the blocks  *)
(* they have, free each of them once and return with none.                 *)
THEOREM BlocksAreFreedOnce == Spec => []BlocksFreedOnce
<1>1. IInv => BlocksFreedOnce
  BY DEF IInv, HeapInv, Intact, HoldInv, BlocksFreedOnce
<1>2. QED
  BY <1>1, InductiveInvariant, PTL

(* A badly sized request neither draws entropy nor allocates outputs.      *)
THEOREM RefusalsCostNothing == Spec => []RefusedBeforeWork
<1>1. IInv => RefusedBeforeWork
  BY DEF IInv, AcceptedInv, DrawInv, FacadeAccepts, RefusedBeforeWork
<1>2. QED
  BY <1>1, InductiveInvariant, PTL

-----------------------------------------------------------------------------
(* The layers implement KpqcApi: a call that ends answers as the API       *)
(* permits, and every other step is invisible to the caller.               *)

LEMMA RefinesInit == Init => Api!Init
  BY DEF Init, Api!Init, Requests, Api!Requests, NoReply, Api!NoReply, Nothing, Api!Nothing,
     Families, Api!Families, Operations, Api!Operations, Sized, Api!Sized, Args, Api!Args,
     Signature, Api!Signature

LEMMA SameRequests == Requests = Api!Requests
  BY DEF Requests, Api!Requests, Families, Api!Families, Operations, Api!Operations,
     Sized, Api!Sized, Args, Api!Args, Signature, Api!Signature

LEMMA RefinesInvoke == Invoke => Api!Invoke
  BY SameRequests DEF Invoke, Api!Invoke, NoReply, Api!NoReply, Nothing, Api!Nothing

(* The signature of a well-formed verify request has the wrong size.       *)
LEMMA RefinesFalse ==
  IInv /\ (PhpAnswersFalse \/ FacadeAnswersFalse) => Api!Respond
<1> SUFFICES ASSUME IInv, PhpAnswersFalse \/ FacadeAnswersFalse PROVE Api!Respond
  OBVIOUS
<1>1. Api!Args(req.op) \cap req.bad = {} /\ "signature" \in req.bad
  BY DEF PhpAnswersFalse, FacadeAnswersFalse, SizesAccepted, WrongSignatureSize, Args, Api!Args
<1>2. reply' = Api!Value("false", Api!Nothing) /\ req' = req
  BY DEF PhpAnswersFalse, FacadeAnswersFalse, Answer, Value, Api!Value, Nothing, Api!Nothing
<1>3. pc # "idle" /\ pc' = "idle"
  BY DEF PhpAnswersFalse, FacadeAnswersFalse, Answer
<1>4. QED
  BY <1>1, <1>2, <1>3 DEF Api!Respond, Api!Permitted

LEMMA RefinesAnswer == IInv /\ FacadeAnswers => Api!Respond
<1> SUFFICES ASSUME IInv, FacadeAnswers PROVE Api!Respond
  OBVIOUS
<1>1. req \in Requests /\ req' = req /\ pc # "idle" /\ pc' = "idle"
  BY DEF IInv, TypeOK, FacadeAnswers, Answer
<1>2. reply' \in Api!Successes(req)
  BY DEF IInv, OutcomeInv, FacadeAnswers, Answer
<1>3. Args(req.op) \cap req.bad = {} /\ "signature" \notin req.bad
  BY <1>1, AcceptedRequest DEF IInv, AcceptedInv, FacadeAnswers
<1>4. Api!Args(req.op) \cap req.bad = {}
  BY <1>3 DEF Args, Api!Args
<1>5. QED
  BY <1>1, <1>2, <1>3, <1>4 DEF Api!Respond, Api!Permitted

LEMMA RefinesCatch == IInv /\ CallerCatches => Api!Respond
  BY DEF IInv, OutcomeInv, CallerCatches, Answer, Caught, Api!Respond

(* Every other step of the layers leaves the caller's view as it is.       *)
LEMMA RefinesStutter ==
  /\ IInv
  /\ [Next]_vars
  /\ ~(Invoke \/ PhpAnswersFalse \/ FacadeAnswersFalse \/ FacadeAnswers \/ CallerCatches)
  => UNCHANGED Api!apiVars
<1> SUFFICES ASSUME IInv, [Next]_vars,
      ~(Invoke \/ PhpAnswersFalse \/ FacadeAnswersFalse \/ FacadeAnswers \/ CallerCatches)
    PROVE UNCHANGED Api!apiVars
  OBVIOUS
<1> USE DEF Api!apiVars, Goto, Throw, Return, Ready
<1>1. CASE Validation
  BY <1>1 DEF Validation, PhpRefuses, PhpCopies, PhpCopyFails, FacadeRefuses,
     FacadeAllocates, FacadeAllocationFails
<1>2. CASE Drawing
  BY <1>2 DEF Drawing, NativeDraws, Randombytes, DrawFails, DrawAccepted,
     NtruSampleRejected, callVars
<1>3. CASE KeyGeneration
  BY <1>3 DEF KeyGeneration, KeyPairMade, AimerKeyAllocates, AimerKeyRejected,
     AimerKeyNoMemory, AttemptFails
<1>4. CASE Signing
  BY <1>4 DEF Signing, AimerSignAllocates, AimerSignNoMemory, AimerPhase1Called,
     AimerPhase1Allocates, AimerPhase1NoMemory, AimerCommits, AimerPhase1Failed,
     AimerSigns, HaetaeCandidateTooBig, HaetaeSigns
<1>5. CASE Verification
  BY <1>5 DEF Verification, HaetaeVerifies, AimerVerifyAllocatesLinear,
     AimerVerifyNoLinear, AimerVerifyAllocatesViews, AimerVerifyNoMemory, AimerVerifies
<1>6. CASE Encapsulation
  BY <1>6 DEF Encapsulation, NtruEncapsulateRejects, Encapsulates, NtruDecapsulates,
     SmaugDecapsulates
<1>7. CASE FacadeFails
  BY <1>7 DEF FacadeFails
<1>8. CASE UNCHANGED vars
  BY <1>8 DEF vars, callVars
<1>9. QED
  BY <1>1, <1>2, <1>3, <1>4, <1>5, <1>6, <1>7, <1>8 DEF Next, Work, Returning

(* The layers keep the promise of KpqcApi.                                 *)
THEOREM LayersImplementApi == Spec => ImplementsApi
<1>1. Init => Api!Init
  BY RefinesInit
<1>2. IInv /\ [Next]_vars => [Api!Next]_(Api!apiVars)
  BY RefinesInvoke, RefinesFalse, RefinesAnswer, RefinesCatch, RefinesStutter DEF Api!Next
<1>3. QED
  BY <1>1, <1>2, InductiveInvariant, PTL DEF Spec, ImplementsApi, Api!Spec
=============================================================================
