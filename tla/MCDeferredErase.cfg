\* Two vectors in the hands of any client.
SPECIFICATION Spec
CONSTANTS
  Instructions = {i1, i2, i3}
  Vectors = {v1, v2}
  MaxEntries = 3
SYMMETRY InstructionSymmetry
INVARIANTS
  KeptIsSafe
  KeptDefers
  GrowthErases
CHECK_DEADLOCK FALSE
