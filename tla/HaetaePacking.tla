--------------------------- MODULE HaetaePacking ---------------------------
(***************************************************************************)
(* The layout of a HAETAE signature (vendor/HAETAE/src/packing.c, pack_sig *)
(* and unpack_sig): challenge and low bits of fixed size, two lengths as   *)
(* one-byte offsets from a base, two encodings of these lengths, zeros.    *)
(*                                                                         *)
(* Signing packs into the caller's buffer and starts again with another    *)
(* candidate when pack_sig refuses this one.  What is unpacked was packed  *)
(* or is any string of the right size.  The two encodings are members of   *)
(* given sets; that a vector has one encoding is shown of RansCodec.       *)
(***************************************************************************)
EXTENDS Integers, Sequences

CONSTANTS
  MaxByte,      \* 255
  CryptoBytes,  \* HAETAE_CRYPTO_BYTES
  Or(_, _),     \* of two bytes, bit by bit
  ChallengeBytes,  \* HAETAE_N / 8 = HAETAE_SEEDBYTES
  HeadBytes,    \* HAETAE_SEEDBYTES + HAETAE_L * HAETAE_N
  BaseHb,       \* HAETAE_BASE_ENC_HB_Z1
  BaseH,        \* HAETAE_BASE_ENC_H
  WordsHb,      \* what encode_hb_z1 makes and decode_hb_z1 accepts
  WordsH,       \* the same of h
  Heads,        \* challenges and low bits a candidate may have
  Foreign       \* signatures that come from elsewhere

Bytes == 0 .. MaxByte
Places == 0 .. CryptoBytes - 1

ASSUME PackingAssumption ==
  /\ MaxByte \in Nat \ {0}
  /\ \A b \in Bytes : Or(0, b) = b
  /\ ChallengeBytes \in Nat /\ HeadBytes \in Nat /\ ChallengeBytes <= HeadBytes
  /\ BaseHb \in Nat \ {0} /\ BaseH \in Nat \ {0}
  /\ CryptoBytes \in Nat /\ CryptoBytes >= HeadBytes + 2 + BaseHb + BaseH
  /\ WordsHb \subseteq Seq(Bytes) \ {<<>>} /\ WordsH \subseteq Seq(Bytes) \ {<<>>}
  /\ Heads \subseteq [1 .. HeadBytes -> Bytes]
  /\ Foreign \subseteq [Places -> Bytes]

VARIABLES
  pc,      \* "pack", "packed_head", "encoded", "copy_hb", "copy_h", "refused", "packed",
           \* "received", "sizes", "decode_hb", "decode_h", "padding", "accepted", "rejected"
  origin,  \* of what is unpacked: "packed", "foreign"
  head, hb, h,     \* of the candidate; h and hb are <<>> when not encodable
  sig,             \* the buffer
  at,              \* where the pointer sig stands in it
  size_enc_hb_z1, size_enc_h,
  unpacked         \* head, hb, h

vars == <<pc, origin, head, hb, h, sig, at, size_enc_hb_z1, size_enc_h, unpacked>>

Init ==
  /\ pc = "pack"
  /\ origin = "packed"
  /\ head \in Heads /\ hb = <<>> /\ h = <<>>
  /\ sig = [p \in Places |-> MaxByte]
  /\ at = 0
  /\ size_enc_hb_z1 = 0 /\ size_enc_h = 0
  /\ unpacked = [head |-> <<>>, hb |-> <<>>, h |-> <<>>]

(* memcpy of w to place p on, and of n bytes from there.                   *)
Write(s, p, w) == [q \in Places |-> IF q \in p .. p + Len(w) - 1 THEN w[q - p + 1] ELSE s[q]]
Read(p, n) == [k \in 1 .. n |-> sig[p + k - 1]]

-----------------------------------------------------------------------------
(* pack_sig                                                                *)

(* Faulty variant of the next operator: no memset.                         *)
AsItWas(s) == s

Clear(s) == [p \in Places |-> 0]

(* The challenge is ORed into the buffer, coefficient by coefficient; the  *)
(* low bits are stored.                                                    *)
WithHead(s) ==
  [q \in Places |-> IF q < ChallengeBytes THEN Or(s[q], head[q + 1])
                    ELSE IF q < HeadBytes THEN head[q + 1] ELSE s[q]]

PackHead ==
  /\ pc = "pack"
  /\ sig' = WithHead(Clear(sig))
  /\ at' = HeadBytes
  /\ pc' = "packed_head"
  /\ UNCHANGED <<origin, head, hb, h, size_enc_hb_z1, size_enc_h, unpacked>>

Encode ==
  /\ pc = "packed_head"
  /\ hb' \in WordsHb \cup {<<>>}
  /\ h' \in WordsH \cup {<<>>}
  /\ size_enc_hb_z1' = Len(hb')
  /\ size_enc_h' = Len(h')
  /\ pc' = "encoded"
  /\ UNCHANGED <<origin, head, sig, at, unpacked>>

(* Faulty variant of the next operator: no upper limit.                    *)
FromBase(size, base) == base <= size

InRange(size, base) == base <= size /\ size <= base + MaxByte

(* Faulty variant of the next operator: the two length bytes forgotten.    *)
FitsWithoutLengths(size_hb, size_h) == HeadBytes + size_hb + size_h <= CryptoBytes

Fits(size_hb, size_h) == HeadBytes + 2 + size_hb + size_h <= CryptoBytes

CheckSizes ==
  /\ pc = "encoded"
  /\ \/ /\ size_enc_h # 0 /\ size_enc_hb_z1 # 0
        /\ InRange(size_enc_h, BaseH) /\ InRange(size_enc_hb_z1, BaseHb)
        /\ Fits(size_enc_hb_z1, size_enc_h)
        /\ sig' = Write(sig, at, <<size_enc_hb_z1 - BaseHb, size_enc_h - BaseH>>)
        /\ at' = at + 2
        /\ pc' = "copy_hb"
     \/ /\ \/ size_enc_h = 0 \/ size_enc_hb_z1 = 0
           \/ ~InRange(size_enc_h, BaseH) \/ ~InRange(size_enc_hb_z1, BaseHb)
           \/ ~Fits(size_enc_hb_z1, size_enc_h)
        /\ pc' = "refused"
        /\ UNCHANGED <<sig, at>>
  /\ UNCHANGED <<origin, head, hb, h, size_enc_hb_z1, size_enc_h, unpacked>>

CopyHb ==
  /\ pc = "copy_hb"
  /\ sig' = Write(sig, at, hb)
  /\ at' = at + size_enc_hb_z1
  /\ pc' = "copy_h"
  /\ UNCHANGED <<origin, head, hb, h, size_enc_hb_z1, size_enc_h, unpacked>>

CopyH ==
  /\ pc = "copy_h"
  /\ sig' = Write(sig, at, h)
  /\ pc' = "packed"
  /\ UNCHANGED <<origin, head, hb, h, at, size_enc_hb_z1, size_enc_h, unpacked>>

(* The signing loop: another candidate into the same buffer.               *)
Retry ==
  /\ pc = "refused"
  /\ head' \in Heads
  /\ pc' = "pack"
  /\ UNCHANGED <<origin, hb, h, sig, at, size_enc_hb_z1, size_enc_h, unpacked>>

-----------------------------------------------------------------------------
(* unpack_sig                                                              *)

Deliver ==
  /\ pc = "packed"
  /\ pc' = "received"
  /\ UNCHANGED <<origin, head, hb, h, sig, at, size_enc_hb_z1, size_enc_h, unpacked>>

Receive ==
  /\ pc = "pack" /\ at = 0
  /\ sig' \in Foreign
  /\ origin' = "foreign"
  /\ pc' = "received"
  /\ UNCHANGED <<head, hb, h, at, size_enc_hb_z1, size_enc_h, unpacked>>

UnpackHead ==
  /\ pc = "received"
  /\ unpacked' = [unpacked EXCEPT !.head = Read(0, HeadBytes)]
  /\ size_enc_hb_z1' = sig[HeadBytes] + BaseHb
  /\ size_enc_h' = sig[HeadBytes + 1] + BaseH
  /\ at' = HeadBytes + 2
  /\ pc' = "sizes"
  /\ UNCHANGED <<origin, head, hb, h, sig>>

TooLong == CryptoBytes < 2 + HeadBytes + size_enc_h + size_enc_hb_z1

UnpackSizes ==
  /\ pc = "sizes"
  /\ pc' = IF TooLong THEN "rejected" ELSE "decode_hb"
  /\ UNCHANGED <<origin, head, hb, h, sig, at, size_enc_hb_z1, size_enc_h, unpacked>>

DecodeHb ==
  /\ pc = "decode_hb"
  /\ LET w == Read(at, size_enc_hb_z1)
     IN  IF w \in WordsHb
         THEN /\ unpacked' = [unpacked EXCEPT !.hb = w]
              /\ at' = at + size_enc_hb_z1
              /\ pc' = "decode_h"
         ELSE /\ pc' = "rejected"
              /\ UNCHANGED <<at, unpacked>>
  /\ UNCHANGED <<origin, head, hb, h, sig, size_enc_hb_z1, size_enc_h>>

DecodeH ==
  /\ pc = "decode_h"
  /\ LET w == Read(at, size_enc_h)
     IN  IF w \in WordsH
         THEN /\ unpacked' = [unpacked EXCEPT !.h = w]
              /\ at' = at + size_enc_h
              /\ pc' = "padding"
         ELSE /\ pc' = "rejected"
              /\ UNCHANGED <<at, unpacked>>
  /\ UNCHANGED <<origin, head, hb, h, sig, size_enc_hb_z1, size_enc_h>>

(* Faulty variant of the next operator: the last byte not looked at.       *)
PaddingButOne == at .. CryptoBytes - 2

Padding == at .. CryptoBytes - 1

CheckPadding ==
  /\ pc = "padding"
  /\ pc' = IF \A p \in Padding : sig[p] = 0 THEN "accepted" ELSE "rejected"
  /\ UNCHANGED <<origin, head, hb, h, sig, at, size_enc_hb_z1, size_enc_h, unpacked>>

Next ==
  \/ PackHead \/ Encode \/ CheckSizes \/ CopyHb \/ CopyH \/ Retry \/ Deliver
  \/ Receive \/ UnpackHead \/ UnpackSizes \/ DecodeHb \/ DecodeH \/ CheckPadding

Spec == Init /\ [][Next]_vars

-----------------------------------------------------------------------------
(* Properties.                                                             *)

(* The types: in particular the lengths stored fit in a byte               *)
(* (packing.c:196-203).                                                    *)
TypeOK ==
  /\ origin \in {"packed", "foreign"}
  /\ head \in Heads /\ hb \in WordsHb \cup {<<>>} /\ h \in WordsH \cup {<<>>}
  /\ sig \in [Places -> Bytes]
  /\ at \in 0 .. CryptoBytes
  /\ size_enc_hb_z1 \in Nat /\ size_enc_h \in Nat

(* Neither function reads or writes behind the signature: the sizes are    *)
(* compared before the encodings are copied, and before they are decoded   *)
(* (packing.c:208-211, 261-263).                                           *)
InsideSignature ==
  /\ pc \in {"copy_hb", "decode_hb"} => at + size_enc_hb_z1 + size_enc_h <= CryptoBytes
  /\ pc \in {"copy_h", "decode_h"} => at + size_enc_h <= CryptoBytes

(* A packed signature is unpacked to what was packed, although the buffer  *)
(* holds the challenge of a refused candidate and this one's is ORed into  *)
(* it (packing.c:176-181).                                                 *)
RoundTrip ==
  origin = "packed" =>
    /\ pc # "rejected"
    /\ pc = "accepted" => unpacked = [head |-> head, hb |-> hb, h |-> h]

(* A signature has one form: what unpack_sig accepts is what pack_sig      *)
(* makes of its parts, with nothing in the zero padding                    *)
(* (packing.c:277-282).                                                    *)
OneForm ==
  pc = "accepted" =>
    LET parts == unpacked.head
                   \o <<Len(unpacked.hb) - BaseHb, Len(unpacked.h) - BaseH>>
                   \o unpacked.hb \o unpacked.h
    IN  sig = Write([p \in Places |-> 0], 0, parts)
=============================================================================
