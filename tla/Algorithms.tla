----------------------------- MODULE Algorithms -----------------------------
(***************************************************************************)
(* The sixteen parameter sets as the layers know them: the tables of the   *)
(* extension (ext/kpqc.cpp), the registries of the facade (src/aimer.cpp,  *)
(* haetae.cpp, ntruplus.cpp, smaugt.cpp) with their literal sizes, and the *)
(* sizes the cores compute from their own parameters (vendor).             *)
(***************************************************************************)
EXTENDS Integers

Signatures ==
  {"aimer128f", "aimer128s", "aimer192f", "aimer192s", "aimer256f",
   "aimer256s", "haetae2", "haetae3", "haetae5"}
Kems ==
  {"ntruplus768", "ntruplus864", "ntruplus1152", "smaugt128", "smaugt192",
   "smaugt256", "timer"}

(* Faulty variant of the tables: two rows of AIMer changed places.         *)
AccessorSwapped(name) ==
  CASE name = "aimer128f" -> "aimer128s"
    [] name = "aimer128s" -> "aimer128f"
    [] OTHER -> name

(* The accessor in a name's row of the tables signatures and kems.         *)
Accessor(name) == name

(* KPQC_ACCESSOR(accessor, algorithm_id, sizes...)                         *)
SignatureRow(id, public_key, secret_key, signature) ==
  [id |-> id,
   sizes |-> [publicKey |-> public_key, secretKey |-> secret_key,
              signature |-> signature]]
KemRow(id, public_key, secret_key, ciphertext) ==
  [id |-> id,
   sizes |-> [publicKey |-> public_key, secretKey |-> secret_key,
              ciphertext |-> ciphertext, sharedSecret |-> 32]]

AimerRegistry ==
  [aimer128f |-> SignatureRow("aimer-128f", 32, 48, 6944),
   aimer128s |-> SignatureRow("aimer-128s", 32, 48, 4704),
   aimer192f |-> SignatureRow("aimer-192f", 48, 72, 15408),
   aimer192s |-> SignatureRow("aimer-192s", 48, 72, 10320),
   aimer256f |-> SignatureRow("aimer-256f", 64, 96, 31360),
   aimer256s |-> SignatureRow("aimer-256s", 64, 96, 20224)]
HaetaeRegistry ==
  [haetae2 |-> SignatureRow("haetae-mode2", 992, 1408, 1474),
   haetae3 |-> SignatureRow("haetae-mode3", 1472, 2112, 2349),
   haetae5 |-> SignatureRow("haetae-mode5", 2080, 2752, 2948)]
NtruplusRegistry ==
  [ntruplus768 |-> KemRow("NTRU+768", 1152, 2336, 1152),
   ntruplus864 |-> KemRow("NTRU+864", 1296, 2624, 1296),
   ntruplus1152 |-> KemRow("NTRU+1152", 1728, 3488, 1728)]
SmaugtRegistry ==
  [smaugt128 |-> KemRow("SMAUG-T128", 672, 832, 672),
   smaugt192 |-> KemRow("SMAUG-T192", 1088, 1312, 992),
   smaugt256 |-> KemRow("SMAUG-T256", 1440, 1728, 1376),
   timer |-> KemRow("TiMER", 672, 832, 608)]

(* The object an accessor returns.                                         *)
Algorithm(accessor) ==
  CASE accessor \in DOMAIN AimerRegistry -> AimerRegistry[accessor]
    [] accessor \in DOMAIN HaetaeRegistry -> HaetaeRegistry[accessor]
    [] accessor \in DOMAIN NtruplusRegistry -> NtruplusRegistry[accessor]
    [] accessor \in DOMAIN SmaugtRegistry -> SmaugtRegistry[accessor]

-----------------------------------------------------------------------------
(* Bytes the cores write, from their parameters.                           *)

(* AIMer: field of b bytes, L input S-boxes, T repetitions, 2^LogN parties;*)
(* a signature is a signature_t of sign.h.                                 *)
AimerParams ==
  [aimer128f |-> [b |-> 16, L |-> 2, T |-> 33, LogN |-> 4],
   aimer128s |-> [b |-> 16, L |-> 2, T |-> 17, LogN |-> 8],
   aimer192f |-> [b |-> 24, L |-> 2, T |-> 49, LogN |-> 4],
   aimer192s |-> [b |-> 24, L |-> 2, T |-> 25, LogN |-> 8],
   aimer256f |-> [b |-> 32, L |-> 3, T |-> 65, LogN |-> 4],
   aimer256s |-> [b |-> 32, L |-> 3, T |-> 33, LogN |-> 8]]
AimerSizes(p) ==
  LET proof == p.b * (p.LogN + 2 + 1 + p.L + 1 + (p.L + 1))
  IN [publicKey |-> 2 * p.b, secretKey |-> 3 * p.b,
      signature |-> 5 * p.b + p.T * proof]

(* HAETAE: module ranks, packed polynomials, and the fixed signature size. *)
HaetaeParams ==
  [haetae2 |-> [K |-> 2, L |-> 4, q |-> 480, eta2 |-> 96, signature |-> 1474],
   haetae3 |-> [K |-> 3, L |-> 6, q |-> 480, eta2 |-> 96, signature |-> 2349],
   haetae5 |-> [K |-> 4, L |-> 7, q |-> 512, eta2 |-> 64, signature |-> 2948]]
HaetaeSizes(p) ==
  LET vk == 32 + p.K * p.q
  IN [publicKey |-> vk,
      secretKey |-> vk + (p.L - 1) * 64 + p.K * p.eta2 + 32,
      signature |-> p.signature]

(* NTRU+: packed polynomials.                                              *)
NtruplusPolybytes ==
  [ntruplus768 |-> 1152, ntruplus864 |-> 1296, ntruplus1152 |-> 1728]
NtruplusSizes(polybytes) ==
  [publicKey |-> polybytes, secretKey |-> 2 * polybytes + 32,
   ciphertext |-> polybytes, sharedSecret |-> 32]

(* SMAUG-T: rank and the logarithms of the three moduli.                   *)
SmaugtParams ==
  [smaugt128 |-> [K |-> 2, q |-> 10, p |-> 8, p2 |-> 5],
   smaugt192 |-> [K |-> 3, q |-> 11, p |-> 9, p2 |-> 4],
   smaugt256 |-> [K |-> 4, q |-> 11, p |-> 9, p2 |-> 7],
   timer |-> [K |-> 2, q |-> 10, p |-> 8, p2 |-> 3]]
SmaugtSizes(s) ==
  LET pk == 32 + 32 * s.q * s.K
  IN [publicKey |-> pk, secretKey |-> 64 * s.K + 32 + pk,
      ciphertext |-> 32 * s.p * s.K + 32 * s.p2, sharedSecret |-> 32]

(* The core compiled under the prefix kpqc_<name>_.                        *)
CoreSizes(name) ==
  CASE name \in DOMAIN AimerParams -> AimerSizes(AimerParams[name])
    [] name \in DOMAIN HaetaeParams -> HaetaeSizes(HaetaeParams[name])
    [] name \in DOMAIN NtruplusPolybytes -> NtruplusSizes(NtruplusPolybytes[name])
    [] name \in DOMAIN SmaugtParams -> SmaugtSizes(SmaugtParams[name])
=============================================================================
