CONSTANTS
  t1 = t1
  t2 = t2
  seed1 = seed1
  seed2 = seed2
  Threads <- MCThreads
  Schemes <- MCSchemes
  Seeds <- MCSeeds
  ContextLengths <- MCContextLengths
  MaxAsked <- MCMaxAsked
SYMMETRY MCSymmetry
SPECIFICATION Spec
INVARIANTS
  OwnStream
  NamedSchemesAnswer
  BlocksUsedOnce
