SPECIFICATION Spec
CONSTANTS
  Width = 3
  Entries <- Listed
  RangeOf <- StringToRange
  Addrs <- Words
  MaxEntries = 4
INVARIANTS Sound Exact SearchInv MeansNetwork
CHECK_DEADLOCK FALSE
