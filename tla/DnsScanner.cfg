\* A user may stop for good.
CONSTANTS
  Scans = {s1, s2}
  Resolvers = {r1, r2}
  Offers <- SomeOffers
  MaxPorts = 1
SPECIFICATION FairSpec
INVARIANTS IInv NoResolverTwice ScreenIsTrue
PROPERTIES EndsComplete 
