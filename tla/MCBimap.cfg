SPECIFICATION PairedSpec
CONSTANTS
  A = {a1, a2, a3}
  B = {b1, b2, b3}
  Absent = Absent
INVARIANTS
  BothWays
  OutcomeTold
PROPERTIES
  ImplementsBijection
CHECK_DEADLOCK TRUE
