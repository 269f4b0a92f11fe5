CONSTANTS
  Rate <- MCRate
  MaxIn <- MCMaxIn
  MaxOut <- MCMaxOut
SPECIFICATION SpecConsumed
INVARIANTS
  RoomForPadding
PROPERTY ImplementsXof
