----------------------------- MODULE RansCodec -----------------------------
(***************************************************************************)
(* HAETAE's entropy coder (vendor/HAETAE/include/rans_byte.h, encoding.c). *)
(* encode_h and encode_hb_z1 code a vector from its last value to its      *)
(* first and write the bytes backwards from the end of a buffer;           *)
(* decode_h and decode_hb_z1 read them forwards.  The decoder's input is   *)
(* what an encoder wrote or any bytes at all, as a signature may hold.     *)
(*                                                                         *)
(* `encoded` is the written part of the encoder's buffer.  What the        *)
(* decoder has accepted of foreign bytes may be encoded again (Reencode),  *)
(* to ask whether a vector has one encoding only.                          *)
(***************************************************************************)
EXTENDS Integers, Sequences

CONSTANTS
  Codecs,     \* "h", "hb_z1"
  WordBits,   \* 32
  Base,       \* values of a byte, 256
  Unit,       \* RANS_BYTE_L >> SCALE_BITS
  Scale,      \* 1 << SCALE_BITS
  Symbols,    \* number of symbols, M_H and M_HB_Z1
  Start,      \* dsyms_...: start of a symbol
  Freq,       \* dsyms_...: its frequency
  SymbolAt,   \* symbol_...
  Cut,        \* H_CUT, for "h"
  Offset,     \* OFFSET_H, OFFSET_HB_Z1
  Values,     \* what a vector may hold; of "h", what caddDQ2ALPHA makes
  Length,     \* values of a vector
  BufBytes,   \* size of the array encoding
  ForeignBytes  \* byte strings that come from elsewhere

Low == Unit * Scale    \* RANS_BYTE_L
FlushBytes == 4

-----------------------------------------------------------------------------
(* RansEncSymbolInit, of which esyms_... are the results.                  *)

XMax(c, s) == Unit * Base * Freq[c][s]

Shift(f) == CHOOSE k \in 0 .. WordBits : 2^k >= f /\ \A j \in 0 .. k - 1 : 2^j < f

Reciprocal(f) ==
  IF f = 1 THEN 2^WordBits - 1 ELSE (2^(Shift(f) + WordBits - 1) + f - 1) \div f

ReciprocalShift(f) == IF f = 1 THEN 0 ELSE Shift(f) - 1

Bias(c, s) == IF Freq[c][s] = 1 THEN Start[c][s] + Scale - 1 ELSE Start[c][s]

(* The high word of a product instead of a division.                       *)
Quotient(x, f) == ((x * Reciprocal(f)) \div 2^WordBits) \div 2^ReciprocalShift(f)

(* RansEncPutSymbol without the renormalisation: x = C(s, x).              *)
Put(c, s, x) == x + Bias(c, s) + Quotient(x, Freq[c][s]) * (Scale - Freq[c][s])

(* RansDecAdvance without the renormalisation: x = D(x).                   *)
Advance(c, s, x) == Freq[c][s] * (x \div Scale) + (x % Scale) - Start[c][s]

ASSUME RansAssumption ==
  /\ Base \in Nat /\ Base > 1 /\ Unit \in Nat \ {0} /\ Scale \in Nat \ {0}
  /\ Low * Base <= Base * Base * Base * Base
  /\ Symbols \in [Codecs -> Nat \ {0}]
  /\ Length \in [Codecs -> Nat]
  /\ BufBytes \in [Codecs -> Nat]
  /\ Offset \in [Codecs -> Nat]
  /\ Values \in [Codecs -> SUBSET Int]
  /\ Cut \in Nat
  /\ ForeignBytes \subseteq Seq(0 .. Base - 1)
  /\ \A b \in ForeignBytes : Len(b) >= FlushBytes
  /\ \A c \in Codecs :
       /\ BufBytes[c] >= FlushBytes
       /\ c = "h" => /\ Cut < Symbols[c]
                     /\ Values[c] \subseteq 0 .. Symbols[c] + Offset[c] - 1
       /\ Start[c] \in [0 .. Symbols[c] - 1 -> Nat]
       /\ Freq[c] \in [0 .. Symbols[c] - 1 -> Nat \ {0}]
       /\ SymbolAt[c] \in [0 .. Scale - 1 -> 0 .. Symbols[c] - 1]
       /\ \A s \in 0 .. Symbols[c] - 1 :
            /\ Start[c][s] + Freq[c][s] <= Scale
            /\ \A r \in 0 .. Scale - 1 :
                 SymbolAt[c][r] = s <=> r \in Start[c][s] .. Start[c][s] + Freq[c][s] - 1
            /\ \A x \in 1 .. XMax(c, s) - 1 :
                 Put(c, s, x) = (x \div Freq[c][s]) * Scale + (x % Freq[c][s]) + Start[c][s]

-----------------------------------------------------------------------------
VARIABLES
  stage,    \* "start", "encode", "emit", "encoded", "refused",
            \* "received", "decode", "read", "accepted", "rejected"
  whose,    \* the vector in the encoder is: "caller", "wire", "again"
  codec,
  x,        \* the RansState
  value,    \* the value being encoded
  encoded,  \* encoding[ptr ..]
  source,   \* the values encoded so far, a suffix of the vector
  bytes,    \* the decoder's buf
  pos,      \* bytes read
  decoded   \* the values decoded so far

codecVars == <<stage, whose, codec, x, value, encoded, source, bytes, pos, decoded>>

InitCodec ==
  /\ stage = "start"
  /\ whose = "caller"
  /\ codec \in Codecs
  /\ x = Low
  /\ value = 0
  /\ encoded = <<>>
  /\ source = <<>>
  /\ bytes = <<>>
  /\ pos = 0
  /\ decoded = <<>>

-----------------------------------------------------------------------------
(* Encoder.                                                                *)

Encodable(c, v) ==
  IF c = "h" THEN ~(Cut < v /\ v <= Cut + Offset[c])
             ELSE 0 <= v + Offset[c] /\ v + Offset[c] < Symbols[c]

ToSymbol(c, v) ==
  IF c = "h" THEN IF v > Cut + Offset[c] THEN v - Offset[c] ELSE v
             ELSE v + Offset[c]

BeginEncode ==
  /\ stage = "start"
  /\ stage' = "encode"
  /\ UNCHANGED <<whose, codec, x, value, encoded, source, bytes, pos, decoded>>

Reencode ==
  /\ stage = "accepted" /\ whose = "wire"
  /\ whose' = "again"
  /\ stage' = "encode"
  /\ x' = Low
  /\ UNCHANGED <<codec, value, encoded, source, bytes, pos, decoded>>

NextValues ==
  IF whose = "again" THEN {decoded[Length[codec] - Len(source)]} ELSE Values[codec]

Take ==
  /\ stage = "encode"
  /\ Len(source) < Length[codec]
  /\ value' \in NextValues
  /\ stage' = IF Encodable(codec, value') THEN "emit" ELSE "refused"
  /\ UNCHANGED <<whose, codec, x, encoded, source, bytes, pos, decoded>>

Symbol == ToSymbol(codec, value)

(* Faulty variant of the next operator: the bound itself let through.      *)
AboveMax == x > XMax(codec, Symbol)

TooLarge == x >= XMax(codec, Symbol)

(* *--ptr = x & 0xff; x >>= 8.                                             *)
Emit ==
  /\ stage = "emit"
  /\ TooLarge
  /\ encoded' = <<x % Base>> \o encoded
  /\ x' = x \div Base
  /\ UNCHANGED <<stage, whose, codec, value, source, bytes, pos, decoded>>

(* Faulty variant of the next operator: no check.                          *)
AnyRoom(written) == TRUE

(* Not ptr < encoding + 4.                                                 *)
RoomToFlush(written) == BufBytes[codec] - written >= FlushBytes

PutSymbol ==
  /\ stage = "emit"
  /\ ~TooLarge
  /\ x' = Put(codec, Symbol, x)
  /\ source' = <<value>> \o source
  /\ stage' = IF RoomToFlush(Len(encoded)) THEN "encode" ELSE "refused"
  /\ UNCHANGED <<whose, codec, value, encoded, bytes, pos, decoded>>

Flush ==
  /\ stage = "encode"
  /\ Len(source) = Length[codec]
  /\ encoded' = <<x % Base, (x \div Base) % Base, (x \div (Base * Base)) % Base,
                  (x \div (Base * Base * Base)) % Base>> \o encoded
  /\ stage' = "encoded"
  /\ UNCHANGED <<whose, codec, x, value, source, bytes, pos, decoded>>

-----------------------------------------------------------------------------
(* Decoder.                                                                *)

DeliverBytes ==
  /\ stage = "encoded" /\ whose = "caller"
  /\ bytes' = encoded
  /\ stage' = "received"
  /\ UNCHANGED <<whose, codec, x, value, encoded, source, pos, decoded>>

ReceiveBytes ==
  /\ stage = "start"
  /\ whose' = "wire"
  /\ bytes' \in ForeignBytes
  /\ stage' = "received"
  /\ UNCHANGED <<codec, x, value, encoded, source, pos, decoded>>

FirstState ==
  bytes[1] + Base * bytes[2] + Base * Base * bytes[3] + Base * Base * Base * bytes[4]

DecInit ==
  /\ stage = "received"
  /\ \/ /\ FirstState < Low \/ Low * Base <= FirstState
        /\ stage' = "rejected"
        /\ UNCHANGED <<x, pos>>
     \/ /\ Low <= FirstState /\ FirstState < Low * Base
        /\ stage' = "decode"
        /\ x' = FirstState
        /\ pos' = FlushBytes
  /\ UNCHANGED <<whose, codec, value, encoded, source, bytes, decoded>>

(* Faulty variant of the next operator: the gap opened one symbol early.   *)
FromSymbolAtCut(c, s) ==
  IF c = "h" THEN IF Cut <= s THEN s + Offset[c] ELSE s ELSE s - Offset[c]

FromSymbol(c, s) ==
  IF c = "h" THEN IF Cut < s THEN s + Offset[c] ELSE s ELSE s - Offset[c]

DecodeSymbol ==
  /\ stage = "decode"
  /\ Len(decoded) < Length[codec]
  /\ LET s == SymbolAt[codec][x % Scale]
     IN  /\ decoded' = Append(decoded, FromSymbol(codec, s))
         /\ x' = Advance(codec, s, x)
  /\ stage' = "read"
  /\ UNCHANGED <<whose, codec, value, encoded, source, bytes, pos>>

MoreToRead == x < Low /\ pos < Len(bytes)

ReadByte ==
  /\ stage = "read"
  /\ MoreToRead
  /\ x' = x * Base + bytes[pos + 1]
  /\ pos' = pos + 1
  /\ UNCHANGED <<stage, whose, codec, value, encoded, source, bytes, decoded>>

ReadDone ==
  /\ stage = "read"
  /\ ~MoreToRead
  /\ stage' = "decode"
  /\ UNCHANGED <<whose, codec, x, value, encoded, source, bytes, pos, decoded>>

(* Faulty variant of the next operator: the size not compared.             *)
ConsistentState == x = Low

(* RansDecVerify and size_used == size_in.                                 *)
Consistent == x = Low /\ pos = Len(bytes)

Verify ==
  /\ stage = "decode"
  /\ Len(decoded) = Length[codec]
  /\ stage' = IF Consistent THEN "accepted" ELSE "rejected"
  /\ UNCHANGED <<whose, codec, x, value, encoded, source, bytes, pos, decoded>>

NextCodec ==
  \/ BeginEncode \/ Reencode \/ Take \/ Emit \/ PutSymbol \/ Flush \/ DeliverBytes
  \/ ReceiveBytes \/ DecInit \/ DecodeSymbol \/ ReadByte \/ ReadDone \/ Verify

SpecCodec == InitCodec /\ [][NextCodec]_codecVars

-----------------------------------------------------------------------------
(* Properties.                                                             *)

(* The state of the coder stays in [RANS_BYTE_L, RANS_BYTE_L << 8) between *)
(* two symbols; only a decoder that has run out of bytes leaves it, and it *)
(* never comes back (rans_byte.h:47-52, 329).                              *)
StateTyped ==
  /\ whose \in {"caller", "wire", "again"}
  /\ codec \in Codecs
  /\ x \in 0 .. Low * Base - 1
  /\ stage = "encode" => x >= Low
  /\ stage = "decode" /\ x < Low => pos = Len(bytes)
  /\ encoded \in Seq(0 .. Base - 1)
  /\ bytes \in Seq(0 .. Base - 1)
  /\ pos \in 0 .. Len(bytes)
  /\ Len(source) <= Length[codec] /\ Len(decoded) <= Length[codec]

(* The encoder never writes in front of its buffer, although it looks only *)
(* after each symbol whether the four last bytes still fit                 *)
(* (encoding.c:552-555, 644-647).                                                  *)
InsideBuffer == Len(encoded) <= BufBytes[codec]

(* What an encoder wrote is accepted, and decodes to what was encoded.     *)
DecodesBack ==
  whose = "caller" => stage # "rejected" /\ (stage = "accepted" => decoded = source)

(* A vector has one encoding: bytes the decoder accepts are what the       *)
(* encoder makes of the vector they decode to (encoding.c:600-608).        *)
OneEncoding ==
  whose = "again" =>
    /\ stage = "encoded" => encoded = bytes
    /\ stage = "refused" => Len(bytes) > BufBytes[codec]
=============================================================================
