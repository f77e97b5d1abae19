\* findBefore over concatMap of a function that returns containers by value.
SPECIFICATION Spec
CONSTANTS
  BeginOf <- MCBegin
  EndOf <- MCEnd
  Equal <- MCSame
  Dereferenced <- MCDeref
  Incremented <- MCStep
  BumpedOf <- MCBumped
  Denotes <- MCDenotes
  Owns <- MCOwns
  Stands <- MCStands
  Height <- MCHeight
  Parts <- MCParts
  Store <- MCStore
  Pipelines <- OwningPipelines
  Queries <- BeforeQueries
  Leaves <- MCLeaves
  Characters = {".", "x", " "}
  Spaces = {" "}
  MaxRounds = 5
INVARIANTS
  FindsBefore
CHECK_DEADLOCK FALSE
