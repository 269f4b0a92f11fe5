CONSTANTS
  DrawBytes <- MCDrawBytes
  MaxSignals <- MCMaxSignals
SPECIFICATION FairSpec
INVARIANTS
  TypeOK
  EntropyComplete
  FailureLeavesNoOutput
  BlocksFreedOnce
  RefusedBeforeWork
PROPERTIES
  ImplementsApi
  CallReturns
