CONSTANTS
  MaxByte <- MCMaxByte
  CryptoBytes <- MCCryptoBytes
  Or <- MCOr
  ChallengeBytes <- MCChallengeBytes
  HeadBytes <- MCHeadBytes
  BaseHb <- MCBaseHb
  BaseH <- MCBaseH
  WordsHb <- MCWordsHb
  WordsH <- MCWordsH
  Heads <- MCHeads
  Foreign <- MCForeign
SPECIFICATION Spec
\* Unpacking ends the run.
CHECK_DEADLOCK FALSE
INVARIANTS
  TypeOK
  InsideSignature
  RoundTrip
  OneForm
