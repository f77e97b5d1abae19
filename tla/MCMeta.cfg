\* Any client.
SPECIFICATION Spec
CONSTANTS
  f = f
  g = g
  Functions = {f, g}
  Arity <- MCArity
  Others = {inst}
  Constants = {const}
  Tags = {args, tag}
  Arguments = args
  Strings = {empty, none, s}
  Empty = empty
  NoMeta = none
  Contexts = {ctx}
  Alien = Alien
  None = None
  Dangling = Dangling
  MaxTuples = 3
INVARIANTS
  HoldersHold
  ArgumentsHold
  KeptIsSafe
  TuplesUnshared
CHECK_DEADLOCK FALSE
