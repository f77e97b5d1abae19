\* All queries over all ranges.
SPECIFICATION Spec
CONSTANTS
  BeginOf <- MCBegin
  EndOf <- MCEnd
  Equal <- MCSame
  Dereferenced <- MCDeref
  Incremented <- MCStep
  BumpedOf <- MCBumped
  Denotes <- MCDenotes
  Owns <- MCOwns
  Stands <- MCStands
  Height <- MCHeight
  Parts <- MCParts
  Store <- MCStore
  Pipelines <- AllPipelines
  Queries <- AllQueries
  Leaves <- MCLeaves
  Characters = {".", "x", " "}
  Spaces = {" "}
  MaxRounds = 5
INVARIANTS
  FreezeDenotes
  FoldsDenote
  ExtremaHold
  FindsFirst
  FindsBeforeInPlace
  MappedOncePerPass
  FoundReadable
  TextsSplit
PROPERTIES
  WalksEnd
CHECK_DEADLOCK FALSE
