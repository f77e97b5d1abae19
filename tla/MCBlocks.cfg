\* Blocks, functions and names; hardly any values.
SPECIFICATION Spec
CONSTANTS
  f1 = f1
  f2 = f2
  i8 = i8
  ptr = i8
  void = void
  Types = {i8, void}
  Ptr = i8
  Bool = i8
  Void = void
  Names = {e, n}
  EmptyName = e
  Blocks = {b1, b2, b3}
  Functions = {f1, f2}
  Modules = {m1}
  Signature <- MCSignature
  Foreign = {b1, f2}
  None = None
  Unset = Unset
  Absent = Absent
  Reuse = TRUE
  MaxValues = 1
  MaxStack = 1
  MaxArgs = 0
  MaxOpened = 2
SYMMETRY BlockSymmetry
INVARIANTS
  CurrentBlockNamed
  OrphansStayEmpty
PROPERTIES
  ThrowKeepsBuilder
  ImplementsBijection
CHECK_DEADLOCK FALSE
