CONSTANTS
  Elements <- MCElements
  Plus <- MCPlus
  Times <- MCTimes
  Zero = 0
  One = 1
  L <- MCL
  LogN <- MCLogN
  Pow2 <- MCPow2
  T <- MCT
  MatA <- MCMatA
  VecB <- MCVecB
  Exponents <- MCExponents
  Draws <- MCDraws
  Challenges <- MCChallenges
  Junk <- MCJunk
  Pts <- MCPts
  Cts <- MCCts
SPECIFICATION SpecSignature
\* Verification ends the run.
CHECK_DEADLOCK FALSE
INVARIANTS
  HonestAccepted
  EveryPartBound
  OnlyWitnessesPass
