SPECIFICATION RegistrySpec
CONSTANTS
  Lookup = {c1, c2, c3, c4}
  Symbol = {AAPL, TSLA}
  NoBook = NoBook
\* The registry stops once every call has returned.
CHECK_DEADLOCK FALSE
INVARIANTS
  RegistryInv
  OneBookPerSymbol
PROPERTIES
  EveryCallReturns
