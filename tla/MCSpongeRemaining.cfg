CONSTANTS
  Rate <- MCRate
  MaxIn <- MCMaxIn
  MaxOut <- MCMaxOut
SPECIFICATION SpecRemaining
\* A one-shot context is released.
CHECK_DEADLOCK FALSE
PROPERTY ImplementsXof
