----------------------------- MODULE MCKpqcCall -----------------------------
(* KpqcCall on a small instance: draws of MCDrawBytes bytes, at most       *)
(* MCMaxSignals interruptions per draw.  Requests are all of Requests.     *)
EXTENDS KpqcCall

MCDrawBytes == 3
MCMaxSignals == 1
=============================================================================
