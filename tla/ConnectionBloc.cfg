\* A lost status event may leave the button dead for good.
CONSTANTS
  Handlers = {h1, h2}
  None = none
  MaxEvents = 2
  MaxTimers = 1
SPECIFICATION Spec
SYMMETRY Symmetry
INVARIANTS SettledAgrees StopIsObeyed IInv
CHECK_DEADLOCK FALSE
