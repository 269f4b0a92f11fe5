CONSTANTS
  Wide <- MCWide
  K <- MCK
  L <- MCL
SPECIFICATION FairSpec
\* A call ends.
CHECK_DEADLOCK FALSE
INVARIANTS
  TypeOK
  FreshSamples
  SignByteFresh
PROPERTIES
  Answers
