---------------------------- MODULE MCKemExchange ----------------------------
(* KemExchange with coefficients modulo 17 read from five-bit words, and   *)
(* moduli 32, 16 and 8; the noise is the largest the moduli allow, and no  *)
(* matrix but the first is symmetric.                                      *)
EXTENDS KemExchange

MCQ == 17
MCWords == 0 .. 31
MCSmaugQ == 32
MCSmaugP == 16
MCPPrime == 8
MCMatrices == {<< <<1, 0>>, <<0, 1>> >>, << <<3, 8>>, <<29, 17>> >>, << <<16, 31>>, <<6, 11>> >>}
MCSparse == {<<1, -1>>, <<0, 1>>}
MCNoise == {<<1, 0>>, <<-1, 1>>}
MCCoins == {<<1, 1>>, <<-1, 0>>, <<1, -1>>}
=============================================================================
