\* Annotations of functions.
SPECIFICATION WalkSpec
CONSTANTS
  Characters = {"a", "b", "."}
  Dot = "."
  Null = Null
  Wanted = "function"
  Entries <- MCEntries
  Questions <- MCQuestions
  MaxEntries = 2
INVARIANTS
  ElementAlive
  SeesSelected
  NamesSurvive
  CrashesAtEmpty
  NothingLeaks
  ThrowPropagates
PROPERTIES
  KeepsContract
  LoopEnds
CHECK_DEADLOCK FALSE
