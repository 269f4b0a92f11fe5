CONSTANTS
  Q <- MCQ
  Words <- MCWords
  SmaugQ <- MCSmaugQ
  SmaugP <- MCSmaugP
  PPrime <- MCPPrime
  Matrices <- MCMatrices
  Sparse <- MCSparse
  Noise <- MCNoise
  Coins <- MCCoins
SPECIFICATION Spec
\* Decapsulation ends the exchange.
CHECK_DEADLOCK FALSE
INVARIANTS
  SecretsAgree
  OnlyEncapsulations
