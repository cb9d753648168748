CONSTANTS
  Ids = {i1, i2, i3}
  Contents = {a, b}
  None = none
  MaxEvents = 3
  MaxBatch = 2
  MaxFailures = 2
SPECIFICATION ProfilesSpec
SYMMETRY Symmetry
INVARIANTS ProfilesInv ShownIsStored KeptIsStored DeletedIsGone
