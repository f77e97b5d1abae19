\* Generators and iterators in the hands of any client.
SPECIFICATION WatchedSpec
CONSTANTS
  Generators = {g1, g2}
  Iterators = {i1, i2}
  Frames = {x1, x2, x3}
  None = None
  Gone = Gone
  MaxYields = 2
INVARIANTS
  OneOwner
  ThrownOnce
  KeptIsSafe
CHECK_DEADLOCK FALSE
