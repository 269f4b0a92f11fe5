CONSTANTS
  Names <- MCNames
  Width <- MCWidth
  SignBytes <- MCSignBytes
  Batch <- MCBatch
  Count <- MCCount
  Block <- MCBlock
  FirstBlocks <- MCFirstBlocks
  BufBytes <- MCBufBytes
  Eager <- MCEager
  Row <- MCRow
  MaxRejections <- MCMaxRejections
SPECIFICATION Spec
\* A call that has its samples stops.
CHECK_DEADLOCK FALSE
INVARIANTS
  TypeOK
  InsideRow
PROPERTY ImplementsStream
