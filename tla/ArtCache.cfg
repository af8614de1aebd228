SPECIFICATION ArtSpec
CONSTANTS
  Keys = {k1, k2, k3}
  Unreachable = {k3}
  MaxParallel = 2
  MaxCopies = 2
  MaxRestarts = 1
INVARIANT ArtTypeOK
PROPERTIES
  CardSettles
  CachedForever
CHECK_DEADLOCK FALSE
