\* A filter may wait on its own second read lock for ever.
CONSTANTS
  Positions = {1, 2}
  Nets <- NetsIn
  None = none
  Threads = {"importer", "scanner", "both"}
  Calls <- CallsOf
  Countries = {"US", "us"}
  Cidrs = {"a", "ab", "bad"}
  BadCidrs = {"bad"}
  Holds <- HoldsIn
  Upper <- UpperOf
  Texts <- TextsIn
  Concurrencies = {0, 1}
SPECIFICATION FairSpec
INVARIANTS IInv FilterIsExact OnlyNestingStalls ScanIsWhole ReportsAgree
PROPERTY CallsReturn
CHECK_DEADLOCK FALSE
