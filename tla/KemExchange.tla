----------------------------- MODULE KemExchange -----------------------------
(***************************************************************************)
(* Two parties and a key encapsulation: one makes a key pair, the other    *)
(* encapsulates to a public key, and a ciphertext arrives - the one sent,  *)
(* or any other - and is decapsulated.  What a call does on its way to the *)
(* core is KpqcCall's, where a core's answer is a verdict; here it is      *)
(* computed, and the loops of key generation have found what they look for.*)
(***************************************************************************)
EXTENDS NtruKem, SmaugKem

VARIABLES
  pc,       \* "keyPair", "encapsulate", "deliver", "decapsulate", "done"
  family,   \* the scheme's family
  oracle,   \* the hash functions the schemes draw coins from
  pair,     \* generateKeyPair's result
  sent,     \* encapsulate's result
  ct,       \* the ciphertext that arrives
  got       \* decapsulate's result

vars == <<pc, family, oracle, pair, sent, ct, got>>

Nothing == [status |-> -1]      \* no result yet

Init ==
  /\ pc = "keyPair"
  /\ \/ family = "NTRU+" /\ oracle \in NtruOracles
     \/ family = "SMAUG-T" /\ oracle \in SmaugOracles
  /\ pair = Nothing
  /\ sent = Nothing
  /\ ct = Nothing
  /\ got = Nothing

GenerateKeyPair ==
  /\ pc = "keyPair"
  /\ \/ family = "NTRU+" /\ pair' \in NtruKeyPairs
     \/ family = "SMAUG-T" /\ pair' \in SmaugKeyPairs
  /\ pc' = "encapsulate"
  /\ UNCHANGED <<family, oracle, sent, ct, got>>

(* The public key is the receiver's; NTRU+'s may also be a string of the   *)
(* right size that packs no polynomial, and is then refused.               *)
NtruSends ==
  /\ pc = "encapsulate" /\ family = "NTRU+"
  /\ \E msg \in Bits, pk \in {pair.pk} \cup {w \in Words : NonCanonical(w)} :
       sent' = NtruEncapsulate(oracle, pk, msg)
  /\ pc' = IF sent'.status = 0 THEN "deliver" ELSE "done"
  /\ UNCHANGED <<family, oracle, pair, ct, got>>

SmaugSends ==
  /\ pc = "encapsulate" /\ family = "SMAUG-T"
  /\ \E mu \in Messages : sent' = SmaugEncapsulate(oracle, pair.pk, mu)
  /\ pc' = "deliver"
  /\ UNCHANGED <<family, oracle, pair, ct, got>>

Deliver ==
  /\ pc = "deliver"
  /\ ct' = sent.ct
  /\ pc' = "decapsulate"
  /\ UNCHANGED <<family, oracle, pair, sent, got>>

(* Any string of a ciphertext's size, from somewhere else.                 *)
ForeignArrives ==
  /\ pc = "encapsulate"
  /\ \/ family = "NTRU+" /\ ct' \in Words
     \/ family = "SMAUG-T" /\ ct' \in SmaugCiphertexts
  /\ pc' = "decapsulate"
  /\ UNCHANGED <<family, oracle, pair, sent, got>>

NtruReceives ==
  /\ pc = "decapsulate" /\ family = "NTRU+"
  /\ \E u \in HashG(oracle, R2Bytes(ct, pair.sk)) :
       got' = NtruDecapsulate(oracle, ct, pair.sk, u)
  /\ pc' = "done"
  /\ UNCHANGED <<family, oracle, pair, sent, ct>>

SmaugReceives ==
  /\ pc = "decapsulate" /\ family = "SMAUG-T"
  /\ got' = SmaugDecapsulate(oracle, ct, pair.sk)
  /\ pc' = "done"
  /\ UNCHANGED <<family, oracle, pair, sent, ct>>

Next == GenerateKeyPair \/ NtruSends \/ SmaugSends \/ Deliver \/ ForeignArrives
        \/ NtruReceives \/ SmaugReceives

Spec == Init /\ [][Next]_vars

-----------------------------------------------------------------------------
(* What encapsulate sent, decapsulate opens: status 0 and the secret the   *)
(* sender has, for every key, message and hash function (kem.c's three     *)
(* functions together; api_test.cpp tests it with one key).                *)
SecretsAgree ==
  pc = "done" /\ sent.status = 0 => got = [status |-> 0, ss |-> sent.ss]

(* What decapsulate opens, encapsulate could have sent: a ciphertext that  *)
(* is no encapsulation of any message to this key is answered with status  *)
(* 1 and zeros by NTRU+, and with status 0 and a secret of its own by      *)
(* SMAUG-T; one that is, with that message's secret.                       *)
Made == CASE family = "NTRU+" -> {NtruEncapsulate(oracle, pair.pk, msg) : msg \in Bits}
          [] family = "SMAUG-T" -> {SmaugEncapsulate(oracle, pair.pk, mu) : mu \in Messages}
Refusal == CASE family = "NTRU+" -> [status |-> 1, ss |-> Zeros]
             [] family = "SMAUG-T" -> [status |-> 0, ss |-> Rejected(pair.sk.d, ct)]

OnlyEncapsulations ==
  got # Nothing =>
    \/ \E e \in Made : e.ct = ct /\ got = [status |-> 0, ss |-> e.ss]
    \/ (\A e \in Made : e.ct # ct) /\ got = Refusal
=============================================================================
