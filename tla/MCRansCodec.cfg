CONSTANTS
  Codecs <- MCCodecs
  WordBits <- MCWordBits
  Base <- MCBase
  Unit <- MCUnit
  Scale <- MCScale
  Symbols <- MCSymbols
  Start <- MCStart
  Freq <- MCFreq
  SymbolAt <- MCSymbolAt
  Cut <- MCCut
  Offset <- MCOffset
  Values <- MCValues
  Length <- MCLength
  BufBytes <- MCBufBytes
  ForeignBytes <- MCForeignBytes
SPECIFICATION SpecCodec
\* A call that has answered stops.
CHECK_DEADLOCK FALSE
INVARIANTS
  StateTyped
  InsideBuffer
  DecodesBack
  OneEncoding
