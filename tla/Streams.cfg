SPECIFICATION FairSpec
CONSTANTS
  Kinds = {"ssh", "connect", "connectTls", "websocket", "socks"}
  Sizes = {126, 65536}
  MaxUnits = 3
  MaxTyped = 2
  MaxPings = 1
INVARIANTS StreamsAreFaithful OnlyEndsCut
PROPERTY RelaysEnd
CHECK_DEADLOCK FALSE
