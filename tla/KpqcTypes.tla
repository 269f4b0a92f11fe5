----------------------------- MODULE KpqcTypes -----------------------------
(***************************************************************************)
(* The values that cross the KpqC API: the schemes and their operations,   *)
(* the requests a caller can make and the answers it can get.  Shared by   *)
(* KpqcApi (what a call promises) and KpqcCall (what the layers do).       *)
(***************************************************************************)
EXTENDS Integers

Families == {"AIMer", "HAETAE", "NTRU+", "SMAUG-T"}
Signature == {"AIMer", "HAETAE"}
Operations(family) ==
  IF family \in Signature THEN {"generateKeyPair", "sign", "verify"}
                          ELSE {"generateKeyPair", "encapsulate", "decapsulate"}

(* The arguments whose size a call insists on.  A signature of the wrong   *)
(* size is not refused: it is an invalid signature.                        *)
Args(op) ==
  CASE op = "sign" -> {"secretKey", "context"}
    [] op = "verify" -> {"publicKey", "context"}
    [] op = "encapsulate" -> {"publicKey"}
    [] op = "decapsulate" -> {"ciphertext", "secretKey"}
    [] OTHER -> {}

Sized(op) == IF op = "verify" THEN Args(op) \cup {"signature"} ELSE Args(op)

(* A request: through which API, for which scheme, which operation; `bad`  *)
(* the arguments of the wrong size; `genuine` whether the signature is     *)
(* valid, the ciphertext honest, the public key canonical.                 *)
Requests ==
  UNION { UNION { [via : {"php", "cpp"}, family : {f}, op : {o},
                   bad : SUBSET Sized(o), genuine : BOOLEAN]
                  : o \in Operations(f) } : f \in Families }

Nothing == <<"none", "none">>
Value(what, data) ==
  [kind |-> "value", what |-> what, code |-> 0, arg |-> "none", data |-> data]
Thrown(class, code, arg) ==
  [kind |-> "throw", what |-> class, code |-> code, arg |-> arg, data |-> Nothing]
NoReply == [kind |-> "none", what |-> "none", code |-> 0, arg |-> "none", data |-> Nothing]
=============================================================================
