-------------------------- MODULE MCSpongeConsumed --------------------------
(* A rate of four bytes; messages and outputs of up to two blocks and a    *)
(* half, so that both end before, on and after a block boundary.           *)
EXTENDS SpongeConsumed

MCRate == 4
MCMaxIn == 10
MCMaxOut == 10
=============================================================================
