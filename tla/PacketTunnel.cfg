\* A start may hang in the engine, and sessions are bounded.
CONSTANTS
  Sessions = {s1, s2, s3}
  Ports = {p1, p2}
  Profiles <- OneProfile
  None = none
SPECIFICATION FairSpec
INVARIANTS IInv UpIsServed OverIsDown
PROPERTY CallsAreAnswered
CHECK_DEADLOCK FALSE
