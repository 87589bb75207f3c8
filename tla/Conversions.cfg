CONSTANTS
  letter = letter
  quote = quote
  newline = newline
  other = other
  Chars = {letter, quote, newline, other}
  symbols <- SymbolList
  MaxText = 4
  Lengths <- MixedLengths
SPECIFICATION ConversionSpec
INVARIANTS
  ConversionTypeOK
  CopyIsFiltered
  FitsIffShort
CHECK_DEADLOCK FALSE
