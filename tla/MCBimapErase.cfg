SPECIFICATION Spec
CONSTANTS
  A = {a1, a2}
  B = {b1, b2}
  Absent = Absent
INVARIANTS
  BothWays
