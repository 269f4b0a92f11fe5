---------------------------- MODULE MCRansCodec ----------------------------
(* Bytes of two bits, words of eight: RANS_BYTE_L is 2^(8 - 1 - 2) as the  *)
(* code's is 2^(32 - 1 - 8).  Both tables have symbols of frequency 1.     *)
EXTENDS RansCodec

Table(h, hb) == [c \in {"h", "hb_z1"} |-> IF c = "h" THEN h ELSE hb]

MCCodecs == {"h", "hb_z1"}
MCWordBits == 8
MCBase == 4
MCUnit == 4
MCScale == 8
MCSymbols == Table(4, 3)
MCFreq == Table([s \in 0 .. 3 |-> <<3, 1, 1, 3>>[s + 1]],
                [s \in 0 .. 2 |-> <<1, 5, 2>>[s + 1]])
MCStart == Table([s \in 0 .. 3 |-> <<0, 3, 4, 5>>[s + 1]],
                 [s \in 0 .. 2 |-> <<0, 1, 6>>[s + 1]])
MCSymbolAt == Table([r \in 0 .. 7 |-> <<0, 0, 0, 1, 2, 3, 3, 3>>[r + 1]],
                    [r \in 0 .. 7 |-> <<0, 1, 1, 1, 1, 1, 2, 2>>[r + 1]])
MCCut == 1
MCOffset == Table(1, 1)
MCValues == Table(0 .. 4, -2 .. 2)
MCLength == Table(4, 5)
MCBufBytes == Table(7, 8)
MCForeignBytes == UNION {[1 .. n -> 0 .. MCBase - 1] : n \in 4 .. 6}
=============================================================================
