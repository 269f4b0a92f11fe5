CONSTANTS
  T <- MCT
  LogN <- MCLogN
  Pow2 <- MCPow2
SPECIFICATION Spec
\* The program ends after the last repetition.
CHECK_DEADLOCK FALSE
INVARIANTS
  TypeOK
  SeedsRecovered
  HiddenStaysHidden
