CONSTANTS
  Sessions = {s1}
  Ports = {p1}
  Profiles <- WithBypass
  None = none
SPECIFICATION Spec
INVARIANT BypassIsUsed
CHECK_DEADLOCK FALSE
