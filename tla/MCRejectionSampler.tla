------------------------- MODULE MCRejectionSampler -------------------------
(* A block of the uniform sampler is odd, so that bytes are carried; the   *)
(* Gaussian sampler carries 1, 2 and 0 bytes and skips its last sample.    *)
EXTENDS RejectionSampler

Table(uniform, eta, gauss) ==
  [s \in {"uniform", "eta", "gauss"} |->
     IF s = "uniform" THEN uniform ELSE IF s = "eta" THEN eta ELSE gauss]

MCNames == {"uniform", "eta", "gauss"}
MCWidth == Table(2, 1, 3)
MCSignBytes == Table(0, 0, 1)
MCBatch == Table(1, 5, 1)
MCCount == Table(7, 12, 6)
MCBlock == Table(5, 2, 4)
MCFirstBlocks == Table(2, 1, 2)
MCBufBytes == Table(11, 2, 8)
MCEager == {"gauss"}
MCRow == Table(7, 12, 5)
MCMaxRejections == 4
=============================================================================
