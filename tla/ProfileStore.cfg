CONSTANTS
  Clients = {c1, c2}
  Names = {"", "ssh", "vayDnsSsh", "old", "new", "phone"}
  Ids = {1, 2, 3}
  ConfigFiles <- Configs
  Requests <- AllRequests
  None = none
  MaxCrashes = 2
SPECIFICATION Spec
SYMMETRY Symmetry
INVARIANTS FileFollowsMemory KnownServed IInv
PROPERTY RestartKeepsKnown
