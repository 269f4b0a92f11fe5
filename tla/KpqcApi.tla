------------------------------- MODULE KpqcApi -------------------------------
(***************************************************************************)
(* What one synchronous call of the KpqC API promises its caller, without  *)
(* the layers that keep the promise: a request is accepted, then answered  *)
(* once, with an answer this request permits.  KpqcCall implements it.     *)
(***************************************************************************)
EXTENDS KpqcTypes

(* The class a caller catches for each cause of failure.                   *)
Class(via, cause) ==
  CASE cause = "argument" ->
         IF via = "php" THEN "InvalidArgumentException" ELSE "std::invalid_argument"
    [] cause = "memory" -> IF via = "php" THEN "Error" ELSE "std::bad_alloc"
    [] cause = "native" -> IF via = "php" THEN "Exception" ELSE "kpqc::Error"

NoMemory(r) == Thrown(Class(r.via, "memory"), 0, "none")

Refusals(r) ==
  {NoMemory(r)} \cup
  { Thrown(Class(r.via, "argument"), 0, a) : a \in Args(r.op) \cap r.bad }

InvalidKey(r) ==        \* what NTRU+ rejects explicitly
  r.family = "NTRU+" /\ r.op \in {"encapsulate", "decapsulate"} /\ ~r.genuine

Successes(r) ==
  IF InvalidKey(r) THEN {} ELSE
  CASE r.op = "generateKeyPair" -> {Value("KeyPair", <<"output", "output">>)}
    [] r.op = "sign" -> {Value("string", <<"output", "none">>)}
    [] r.op = "verify" -> {Value(IF r.genuine THEN "true" ELSE "false", Nothing)}
    [] r.op = "encapsulate" -> {Value("EncapsulatedSecret", <<"output", "output">>)}
    [] OTHER -> {Value("string",
                  <<IF r.genuine THEN "output" ELSE "replacement", "none">>)}

(* Status codes that can surface: -1 no entropy, -2 no memory in AIMer,    *)
(* 1 an explicit NTRU+ rejection.                                          *)
Codes(r) ==
  (IF r.op \in {"generateKeyPair", "sign", "encapsulate"} THEN {-1} ELSE {})
  \cup (IF r.family = "AIMer" THEN {-2} ELSE {})
  \cup (IF InvalidKey(r) THEN {1} ELSE {})

Failures(r) ==
  {NoMemory(r)} \cup
  { Thrown(Class(r.via, "native"), c, "none") : c \in Codes(r) }

Permitted(r) ==
  IF Args(r.op) \cap r.bad # {} THEN Refusals(r)
  ELSE IF "signature" \in r.bad THEN {Value("false", Nothing)}
  ELSE Successes(r) \cup Failures(r)

VARIABLES phase, request, reply
apiVars == <<phase, request, reply>>

Init == phase = "idle" /\ request \in Requests /\ reply = NoReply

Invoke ==
  /\ phase = "idle"
  /\ phase' = "busy"
  /\ request' \in Requests
  /\ reply' = NoReply

Respond ==
  /\ phase = "busy"
  /\ phase' = "idle"
  /\ reply' \in Permitted(request)
  /\ UNCHANGED request

Next == Invoke \/ Respond
Spec == Init /\ [][Next]_apiVars
=============================================================================
