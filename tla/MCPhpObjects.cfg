CONSTANTS
  Scripts <- MCScripts
  MaxCell <- MCMaxCell
SPECIFICATION SpecObjects
INVARIANTS
  RefcountsExact
  Announced
PROPERTIES
  Immutable
