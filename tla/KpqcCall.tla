------------------------------ MODULE KpqcCall ------------------------------
(***************************************************************************)
(* One caller's synchronous calls through every layer of KpqC:             *)
(*                                                                         *)
(*   PHP method (ext/kpqc.cpp)  ->  C++ facade (native/kpqc/src/kpqc.cpp)  *)
(*     ->  C shim (native/kem.c, signature.c)  ->  scheme core (vendor)    *)
(*       ->  randombytes (native/randombytes.c, module Getrandom)          *)
(*                                                                         *)
(* A C++ caller enters at the facade.  Control is kept: each validation,   *)
(* copy, allocation, draw, rejection loop and error path is a step.  The   *)
(* cryptography inside a core is abstracted to its verdict.                *)
(***************************************************************************)
EXTENDS Getrandom, AimerHeap, KpqcTypes

VARIABLES
  pc,      \* the layer in control
  req,     \* the request being served
  exn,     \* C++ exception in flight: [type, code, arg]
  out,     \* contents of the facade's two output Bytes
  status,  \* int returned by the native core
  siglen,  \* "stored" once the core has stored the expected signature length
  got,     \* draws the core has accepted in this attempt
  coins,   \* "spent" once the coins last drawn have been rejected
  reply    \* what the caller sees

callVars == <<pc, req, exn, out, status, siglen, got, coins, block, reply>>
vars == <<callVars, rngVars>>

-----------------------------------------------------------------------------
(* Vocabulary of the layers.                                               *)

Contents == {"none", "zero", "partial", "output", "replacement"}
NoExn == [type |-> "none", code |-> 0, arg |-> "none"]
Exception(type, code, arg) == [type |-> type, code |-> code, arg |-> arg]

(* Arguments are tested in this order: a bad one hides those after it.     *)
TestedBefore == { <<"secretKey", "context">>, <<"publicKey", "context">>,
                  <<"ciphertext", "secretKey">> }
FirstBad(a) ==
  /\ a \in Args(req.op) \cap req.bad
  /\ \A b \in Args(req.op) \cap req.bad : <<b, a>> \notin TestedBefore
SizesAccepted == Args(req.op) \cap req.bad = {}

WrongSignatureSize == req.op = "verify" /\ "signature" \in req.bad

(* Output Bytes the facade allocates before it calls the core.             *)
Outputs(op) ==
  CASE op \in {"generateKeyPair", "encapsulate"} -> {1, 2}
    [] op = "verify" -> {}
    [] OTHER -> {1}
Filled(op, c) == <<IF 1 \in Outputs(op) THEN c ELSE "none",
                   IF 2 \in Outputs(op) THEN c ELSE "none">>

(* clear(): every byte of an allocated buffer becomes 0.                   *)
ClearedBuffer(c) == IF c = "none" THEN "none" ELSE "zero"
Cleared(bufs) == <<ClearedBuffer(bufs[1]), ClearedBuffer(bufs[2])>>

Is(type, class) ==
  \/ type = class
  \/ type = "PhpInvalidArgument" /\ class = "std::invalid_argument"

(* The catch clauses of translate_exception, first match wins.             *)
Translate(type) ==
  IF Is(type, "std::bad_alloc") THEN "Error"
  ELSE IF Is(type, "PhpInvalidArgument") THEN "InvalidArgumentException"
  ELSE IF Is(type, "std::invalid_argument") THEN "ValueError"
  ELSE "Exception"

-----------------------------------------------------------------------------
(* Moves of control.                                                       *)

Goto(from, to) == pc = from /\ pc' = to

Throw(type, code, arg) ==
  /\ exn' = Exception(type, code, arg)
  /\ pc' = "throw"

Answer(p) ==
  /\ reply' = p
  /\ pc' = "idle"

(* The core returns to the facade.                                         *)
Return(code) ==
  /\ status' = code
  /\ pc' = "returned"

Init ==
  /\ RngInit
  /\ pc = "idle"
  /\ req \in Requests
  /\ exn = NoExn
  /\ out = Nothing
  /\ status = 0
  /\ siglen = "unset"
  /\ got = 0
  /\ coins = "fresh"
  /\ block = AllUnset
  /\ reply = NoReply

(* The caller makes a request; a call's locals start afresh.               *)
Invoke ==
  /\ pc = "idle"
  /\ \E r \in Requests :
       /\ req' = r
       /\ pc' = IF r.via = "php" THEN "php" ELSE "facade"
  /\ exn' = NoExn
  /\ out' = Nothing
  /\ status' = 0
  /\ siglen' = "unset"
  /\ got' = 0
  /\ coins' = "fresh"
  /\ reply' = NoReply
  /\ UNCHANGED <<block, rngVars>>

-----------------------------------------------------------------------------
(* The PHP method: sizes, context, signature length, then the copies of    *)
(* the PHP strings into Bytes.  A refusal builds a message, which may fail *)
(* to allocate.                                                            *)

PhpRefuses ==
  /\ pc = "php"
  /\ ~SizesAccepted
  /\ \/ \E a \in Args(req.op) : FirstBad(a) /\ Throw("PhpInvalidArgument", 0, a)
     \/ Throw("std::bad_alloc", 0, "none")
  /\ UNCHANGED <<req, out, status, siglen, got, coins, block, reply, rngVars>>

PhpAnswersFalse ==
  /\ pc = "php"
  /\ SizesAccepted
  /\ WrongSignatureSize
  /\ Answer(Value("false", Nothing))
  /\ UNCHANGED <<req, exn, out, status, siglen, got, coins, block, rngVars>>

PhpCopies ==
  /\ SizesAccepted
  /\ ~WrongSignatureSize
  /\ Goto("php", "facade")
  /\ UNCHANGED <<req, exn, out, status, siglen, got, coins, block, reply, rngVars>>

PhpCopyFails ==
  /\ pc = "php"
  /\ SizesAccepted
  /\ ~WrongSignatureSize
  /\ req.op # "generateKeyPair"
  /\ Throw("std::bad_alloc", 0, "none")
  /\ UNCHANGED <<req, out, status, siglen, got, coins, block, reply, rngVars>>

-----------------------------------------------------------------------------
(* The facade: the same checks for C++ callers, then zero-filled outputs.  *)

FacadeRefuses ==
  /\ pc = "facade"
  /\ ~SizesAccepted
  /\ \/ \E a \in Args(req.op) : FirstBad(a) /\ Throw("std::invalid_argument", 0, a)
     \/ Throw("std::bad_alloc", 0, "none")
  /\ UNCHANGED <<req, out, status, siglen, got, coins, block, reply, rngVars>>

FacadeAnswersFalse ==
  /\ pc = "facade"
  /\ SizesAccepted
  /\ WrongSignatureSize
  /\ Answer(Value("false", Nothing))
  /\ UNCHANGED <<req, exn, out, status, siglen, got, coins, block, rngVars>>

(* Faulty variant of the next operator: the facade trusts its caller.      *)
FacadeAcceptsAnything == TRUE

FacadeAccepts == SizesAccepted /\ ~WrongSignatureSize

FacadeAllocates ==
  /\ FacadeAccepts
  /\ out' = Filled(req.op, "zero")
  /\ Goto("facade", "native")
  /\ UNCHANGED <<req, exn, status, siglen, got, coins, block, reply, rngVars>>

(* std::bad_alloc for the first output, or for the second after the first. *)
FacadeAllocationFails ==
  /\ pc = "facade"
  /\ FacadeAccepts
  /\ \E i \in Outputs(req.op) :
       out' = IF i = 1 THEN Nothing ELSE <<"zero", "none">>
  /\ Throw("std::bad_alloc", 0, "none")
  /\ UNCHANGED <<req, status, siglen, got, coins, block, reply, rngVars>>

-----------------------------------------------------------------------------
(* The cores.  Draws come first in every operation that is randomised.     *)

Draws ==
  CASE req.op = "generateKeyPair" -> IF req.family = "HAETAE" THEN 1 ELSE 2
    [] req.op \in {"sign", "encapsulate"} -> 1
    [] OTHER -> 0

NativeDraws ==
  /\ got < Draws
  /\ Goto("native", "drawing")
  /\ FillStart
  /\ coins' = "fresh"
  /\ UNCHANGED <<req, exn, out, status, siglen, got, block, reply>>

Randombytes ==
  /\ pc = "drawing"
  /\ RngNext
  /\ UNCHANGED callVars

(* if (randombytes(...) != 0) return -1                                    *)
DrawFails ==
  /\ pc = "drawing"
  /\ rng = "failed"
  /\ Return(-1)
  /\ UNCHANGED <<req, exn, out, siglen, got, coins, block, reply, rngVars>>

DrawAccepted ==
  /\ rng = "filled"
  /\ coins = "fresh"
  /\ got' = got + 1
  /\ Goto("drawing", "native")
  /\ UNCHANGED <<req, exn, out, status, siglen, coins, block, reply, rngVars>>

(* do { draw; r = genf_derand(coins) } while (r): NTRU+ draws again until  *)
(* f, and then g, is invertible; the verdict is a function of the coins.   *)
NtruSampleRejected ==
  /\ req.family = "NTRU+"
  /\ req.op = "generateKeyPair"
  /\ rng = "filled"
  /\ Goto("drawing", "native")
  /\ coins' = "spent"
  /\ UNCHANGED <<req, exn, out, status, siglen, got, block, reply, rngVars>>

Ready(op) == pc = "native" /\ req.op = op /\ got = Draws

(* AIMer's attempt has first allocated its linear layer; it frees it here. *)
KeyPairMade ==
  /\ Ready("generateKeyPair")
  /\ coins = "fresh"
  /\ \/ req.family # "AIMer" /\ UNCHANGED block
     \/ /\ req.family = "AIMer"
        /\ NonNull({"lin"})
        /\ block' = AfterReturn(Used({"lin"}), {"lin"}, Freed("key made"))
  /\ out' = <<"output", "output">>
  /\ Return(0)
  /\ UNCHANGED <<req, exn, siglen, got, coins, reply, rngVars>>

AimerKeyAllocates ==
  /\ Ready("generateKeyPair")
  /\ req.family = "AIMer"
  /\ Unset({"lin"})
  /\ Allocates({"lin"})
  /\ UNCHANGED <<pc, req, exn, out, status, siglen, got, coins, reply, rngVars>>

(* aim3_nozeroinpsb fails: -2 without its linear layer, -1 when pt and iv  *)
(* meet a zero S-box input.                                                *)
AttemptFails(ret) ==
  /\ Ready("generateKeyPair")
  /\ req.family = "AIMer"
  /\ IF ret = -2 THEN SomeNull({"lin"}) ELSE NonNull({"lin"})
  /\ block' = AfterReturn(block, {"lin"},
                          Freed(IF ret = -2 THEN "no linear layer" ELSE "zero input"))

(* Faulty variant of the next operator: every failure is drawn away.       *)
DrawnAgainAlways == {-1, -2}

(* if (ret != -1) return ret: the statuses after which the loop goes on.   *)
DrawnAgain == {-1}

AimerKeyRejected ==
  /\ \E ret \in DrawnAgain : AttemptFails(ret)
  /\ got' = 0
  /\ coins' = "spent"
  /\ UNCHANGED <<pc, req, exn, out, status, siglen, reply, rngVars>>

AimerKeyNoMemory ==
  /\ \E ret \in {-1, -2} \ DrawnAgain : AttemptFails(ret) /\ Return(ret)
  /\ UNCHANGED <<req, exn, out, siglen, got, coins, reply, rngVars>>

-----------------------------------------------------------------------------
(* Signing.                                                                *)

(* Five mallocs in a row, tested together.                                 *)
AimerSignAllocates ==
  /\ Ready("sign")
  /\ req.family = "AIMer"
  /\ Unset(SignPointers)
  /\ Allocates(SignPointers)
  /\ UNCHANGED <<pc, req, exn, out, status, siglen, got, coins, reply, rngVars>>

AimerSignNoMemory ==
  /\ Ready("sign")
  /\ SomeNull(SignPointers)
  /\ block' = AfterReturn(block, SignPointers, Freed("sign: no memory"))
  /\ Return(-2)
  /\ UNCHANGED <<req, exn, out, siglen, got, coins, reply, rngVars>>

(* The checks' arrays are zeroed and run_phase_1 is called.                *)
AimerPhase1Called ==
  /\ Ready("sign")
  /\ req.family = "AIMer"
  /\ NonNull(SignPointers)
  /\ block' = Used({"mult_chk", "alpha_shares", "v_share"})
  /\ pc' = "phase1"
  /\ UNCHANGED <<req, exn, out, status, siglen, got, coins, reply, rngVars>>

AimerPhase1Allocates ==
  /\ pc = "phase1"
  /\ Unset({"lin"})
  /\ Allocates({"lin"})
  /\ UNCHANGED <<pc, req, exn, out, status, siglen, got, coins, reply, rngVars>>

AimerPhase1NoMemory ==
  /\ SomeNull({"lin"})
  /\ block' = AfterReturn(block, {"lin"}, Freed("no linear layer"))
  /\ status' = -2
  /\ Goto("phase1", "committed")
  /\ UNCHANGED <<req, exn, out, siglen, got, coins, reply, rngVars>>

(* Salt, offsets and h_1 are written straight into the caller's buffer.    *)
AimerCommits ==
  /\ NonNull({"lin"})
  /\ block' = AfterReturn(Used({"lin", "nodes", "commits", "mult_chk"}), {"lin"},
                          Freed("committed"))
  /\ out' = <<"partial", "none">>
  /\ status' = 0
  /\ Goto("phase1", "committed")
  /\ UNCHANGED <<req, exn, siglen, got, coins, reply, rngVars>>

(* run_phase_1 could not allocate its linear layer: its status is relayed. *)
AimerPhase1Failed ==
  /\ pc = "committed"
  /\ status # 0
  /\ block' = AfterReturn(block, SignPointers, Freed("sign: phase 1 failed"))
  /\ Return(status)
  /\ UNCHANGED <<req, exn, out, siglen, got, coins, reply, rngVars>>

AimerSigns ==
  /\ pc = "committed"
  /\ status = 0
  /\ block' = AfterReturn(Used(SignPointers), SignPointers, Freed("signed"))
  /\ out' = <<"output", "none">>
  /\ siglen' = "stored"
  /\ Return(0)
  /\ UNCHANGED <<req, exn, got, coins, reply, rngVars>>

(* A candidate is packed into the caller's buffer before pack_sig finds it *)
(* too big; HAETAE then starts over.                                       *)
HaetaeCandidateTooBig ==
  /\ Ready("sign")
  /\ req.family = "HAETAE"
  /\ out' = <<"partial", "none">>
  /\ UNCHANGED <<pc, req, exn, status, siglen, got, coins, block, reply, rngVars>>

HaetaeSigns ==
  /\ Ready("sign")
  /\ req.family = "HAETAE"
  /\ out' = <<"output", "none">>
  /\ siglen' = "stored"
  /\ Return(0)
  /\ UNCHANGED <<req, exn, got, coins, block, reply, rngVars>>

-----------------------------------------------------------------------------
(* Verification: 0 valid, -1 invalid, -2 no memory (AIMer only).           *)

Verdict == IF req.genuine THEN 0 ELSE -1

HaetaeVerifies ==
  /\ Ready("verify")
  /\ req.family = "HAETAE"
  /\ Return(Verdict)
  /\ UNCHANGED <<req, exn, out, siglen, got, coins, block, reply, rngVars>>

AimerVerifyAllocatesLinear ==
  /\ Ready("verify")
  /\ req.family = "AIMer"
  /\ Unset({"lin"})
  /\ Allocates({"lin"})
  /\ UNCHANGED <<pc, req, exn, out, status, siglen, got, coins, reply, rngVars>>

AimerVerifyNoLinear ==
  /\ Ready("verify")
  /\ SomeNull({"lin"})
  /\ block' = AfterReturn(block, VerifyPointers, Freed("no linear layer"))
  /\ Return(-2)
  /\ UNCHANGED <<req, exn, out, siglen, got, coins, reply, rngVars>>

(* Four mallocs in a row, tested together.                                 *)
AimerVerifyAllocatesViews ==
  /\ Ready("verify")
  /\ NonNull({"lin"})
  /\ Unset(ViewPointers)
  /\ Allocates(ViewPointers)
  /\ UNCHANGED <<pc, req, exn, out, status, siglen, got, coins, reply, rngVars>>

AimerVerifyNoMemory ==
  /\ Ready("verify")
  /\ SomeNull(ViewPointers)
  /\ block' = AfterReturn(block, VerifyPointers, Freed("verify: no memory"))
  /\ Return(-2)
  /\ UNCHANGED <<req, exn, out, siglen, got, coins, reply, rngVars>>

AimerVerifies ==
  /\ Ready("verify")
  /\ NonNull(ViewPointers)
  /\ block' = AfterReturn(Used(VerifyPointers), VerifyPointers, Freed("verified"))
  /\ Return(Verdict)
  /\ UNCHANGED <<req, exn, out, siglen, got, coins, reply, rngVars>>

-----------------------------------------------------------------------------
(* Key encapsulation.                                                      *)

(* NTRU+ answers a non-canonical public key with zeros and 1.              *)
NtruEncapsulateRejects ==
  /\ Ready("encapsulate")
  /\ req.family = "NTRU+"
  /\ ~req.genuine
  /\ out' = <<"zero", "zero">>
  /\ Return(1)
  /\ UNCHANGED <<req, exn, siglen, got, coins, block, reply, rngVars>>

Encapsulates ==
  /\ Ready("encapsulate")
  /\ req.family = "NTRU+" => req.genuine
  /\ out' = <<"output", "output">>
  /\ Return(0)
  /\ UNCHANGED <<req, exn, siglen, got, coins, block, reply, rngVars>>

(* Faulty variant of the next operator: the secret is stored unmasked.     *)
UnmaskedSecret == "output"

(* ss[i] = buf3[i] & ~(-fail)                                              *)
MaskedSecret == IF req.genuine THEN "output" ELSE "zero"

(* Explicit rejection: zeros and 1.                                        *)
NtruDecapsulates ==
  /\ Ready("decapsulate")
  /\ req.family = "NTRU+"
  /\ out' = <<MaskedSecret, "none">>
  /\ Return(IF req.genuine THEN 0 ELSE 1)
  /\ UNCHANGED <<req, exn, siglen, got, coins, block, reply, rngVars>>

(* Implicit rejection: a replacement secret and 0.                         *)
SmaugDecapsulates ==
  /\ Ready("decapsulate")
  /\ req.family = "SMAUG-T"
  /\ out' = <<IF req.genuine THEN "output" ELSE "replacement", "none">>
  /\ Return(0)
  /\ UNCHANGED <<req, exn, siglen, got, coins, block, reply, rngVars>>

-----------------------------------------------------------------------------
(* Back in the facade.                                                     *)

(* Faulty variant of the next operator: any nonzero status is "invalid".   *)
NativeFailedVerifyNeverThrows ==
  CASE req.op = "verify" -> FALSE
    [] req.op = "sign" -> status # 0 \/ siglen = "unset"
    [] OTHER -> status # 0

NativeFailed ==
  CASE req.op = "verify" -> status = -2
    [] req.op = "sign" -> status # 0 \/ siglen = "unset"
    [] OTHER -> status # 0

ErrorCode == IF status # 0 THEN status ELSE -1

(* Outputs are cleared before the Error, whose message allocates, is made. *)
FacadeFails ==
  /\ pc = "returned"
  /\ NativeFailed
  /\ out' = Cleared(out)
  /\ \/ Throw("kpqc::Error", ErrorCode, "none")
     \/ Throw("std::bad_alloc", 0, "none")
  /\ UNCHANGED <<req, status, siglen, got, coins, block, reply, rngVars>>

Result ==
  CASE req.op = "generateKeyPair" -> Value("KeyPair", out)
    [] req.op = "verify" -> Value(IF status = 0 THEN "true" ELSE "false", Nothing)
    [] req.op = "encapsulate" -> Value("EncapsulatedSecret", out)
    [] OTHER -> Value("string", out)

FacadeAnswers ==
  /\ pc = "returned"
  /\ ~NativeFailed
  /\ Answer(Result)
  /\ UNCHANGED <<req, exn, out, status, siglen, got, coins, block, rngVars>>

(* The exception reaches the caller, through translate_exception for PHP.  *)
CallerCatches ==
  /\ pc = "throw"
  /\ Answer(Thrown(IF req.via = "php" THEN Translate(exn.type) ELSE exn.type,
                   exn.code, exn.arg))
  /\ UNCHANGED <<req, exn, out, status, siglen, got, coins, block, rngVars>>

-----------------------------------------------------------------------------
Validation == PhpRefuses \/ PhpAnswersFalse \/ PhpCopies \/ PhpCopyFails
              \/ FacadeRefuses \/ FacadeAnswersFalse
              \/ FacadeAllocates \/ FacadeAllocationFails
Drawing == NativeDraws \/ Randombytes \/ DrawFails \/ DrawAccepted
           \/ NtruSampleRejected
KeyGeneration == KeyPairMade \/ AimerKeyAllocates \/ AimerKeyRejected
                 \/ AimerKeyNoMemory
Signing == AimerSignAllocates \/ AimerSignNoMemory \/ AimerPhase1Called
           \/ AimerPhase1Allocates \/ AimerPhase1NoMemory \/ AimerCommits
           \/ AimerPhase1Failed \/ AimerSigns \/ HaetaeCandidateTooBig \/ HaetaeSigns
Verification == HaetaeVerifies \/ AimerVerifyAllocatesLinear \/ AimerVerifyNoLinear
                \/ AimerVerifyAllocatesViews \/ AimerVerifyNoMemory \/ AimerVerifies
Encapsulation == NtruEncapsulateRejects \/ Encapsulates \/ NtruDecapsulates
                 \/ SmaugDecapsulates
Returning == FacadeFails \/ FacadeAnswers \/ CallerCatches

Work == Validation \/ Drawing \/ KeyGeneration \/ Signing \/ Verification
        \/ Encapsulation \/ Returning
Next == Invoke \/ Work

Spec == Init /\ [][Next]_vars

(* A running call keeps running; a rejection loop accepts eventually (each *)
(* attempt succeeds with a fixed positive probability).                    *)
Fairness ==
  /\ WF_vars(Work)
  /\ SF_vars(DrawAccepted)
  /\ SF_vars(KeyPairMade)
  /\ WF_vars(HaetaeSigns)
FairSpec == Spec /\ Fairness

-----------------------------------------------------------------------------
(* Properties.                                                             *)

TypeOK ==
  /\ RngTypeOK
  /\ pc \in {"idle", "php", "facade", "native", "drawing", "phase1",
            "committed", "returned", "throw"}
  /\ req \in Requests
  /\ exn.type \in {"none", "PhpInvalidArgument", "std::invalid_argument",
                   "std::bad_alloc", "kpqc::Error"}
  /\ exn.code \in -2 .. 1
  /\ out[1] \in Contents /\ out[2] \in Contents
  /\ status \in -2 .. 1
  /\ siglen \in {"unset", "stored"}
  /\ got \in 0 .. 2
  /\ coins \in {"fresh", "spent"}
  /\ block \in [Pointers -> BlockStates]

CallFailed ==
  \/ pc = "returned" /\ NativeFailed
  \/ pc = "throw"
  \/ pc = "idle" /\ reply.kind = "throw"

(* When a core reports failure it has left no result behind: not even the  *)
(* secret NTRU+ has computed before it compares.  And nothing is left when *)
(* the output storage is released, whichever layer failed (NTRU+ kem.c     *)
(* 330-336; kpqc.cpp 88-93, 109-112, 173-177, 189-192).                    *)
FailureLeavesNoOutput ==
  CallFailed => \A i \in {1, 2} : out[i] \in {"none", "zero"}

(* Whichever allocations fail, AIMer's core uses a block only while it has *)
(* it, frees it once, and returns with none: no path out of a core, early  *)
(* return or not, loses a block (sign.c:320-345, 393-397, 514-517, 566-574,*)
(* 652-656; aim3.c:78-83, 99-103, 124-128, 142).                           *)
BlocksFreedOnce ==
  /\ \A p \in Pointers : block[p] # "broken"
  /\ pc \in {"idle", "returned", "throw"} => block = AllUnset

(* A request with an argument of the wrong size costs nothing: no entropy  *)
(* is drawn and no output buffer exists, through either API.               *)
RefusedBeforeWork ==
  (~SizesAccepted \/ WrongSignatureSize) => rng # "reading" /\ out = Nothing

(* The layers together keep what KpqcApi promises: one answer per request, *)
(* of a kind the request permits, with the exception class, code and       *)
(* buffer contents of its cause; in particular `false` is never the answer *)
(* to an operational failure, nor a ValueError the answer to a PHP caller. *)
Api == INSTANCE KpqcApi WITH phase <- IF pc = "idle" THEN "idle" ELSE "busy", request <- req
ImplementsApi == Api!Spec

(* Every call is answered.                                                 *)
CallReturns == pc # "idle" ~> pc = "idle"

=============================================================================
