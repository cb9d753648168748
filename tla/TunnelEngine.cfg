CONSTANTS
  Threads = {t1, t2}
  Second = t2
  Ids = {i1, i2}
  Conns = {c1}
  Configs <- AllConfigs
  BadJson = badJson
  None = none
SPECIFICATION MCSpec
INVARIANTS OneTransport IInv NothingLeftBehind
PROPERTIES ImplementsService CallsReturn StoppedRelaysEnd
