\* What the comment on ParallelTestResolvers says of its results.
CONSTANTS
  Positions = {1, 2}
  Nets <- NetsIn
  None = none
  Threads = {"importer", "scanner"}
  Calls <- CallsOf
  Countries = {"US", "us"}
  Cidrs = {"a", "ab", "bad"}
  BadCidrs = {"bad"}
  Holds <- HoldsIn
  Upper <- UpperOf
  Texts <- TextsIn
  Concurrencies = {2}
SPECIFICATION Spec
INVARIANT OrderOfCompletion
CHECK_DEADLOCK FALSE
