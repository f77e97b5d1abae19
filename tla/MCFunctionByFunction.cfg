\* Two functions, one of them the client's, with one block of the client's.
SPECIFICATION ClientSpec
CONSTANTS
  f1 = f1
  f2 = f2
  i8 = i8
  void = void
  Types = {i8, void}
  Ptr = i8
  Bool = i8
  Void = void
  Names = {e, n}
  EmptyName = e
  Blocks = {b1, b2, b3}
  Functions = {f1, f2}
  Modules = {m1}
  Signature <- MCSignature
  Foreign = {b1, f2}
  None = None
  Unset = Unset
  Absent = Absent
  Reuse = FALSE
  MaxValues = 3
  MaxStack = 1
  MaxArgs = 1
  MaxOpened = 2
SYMMETRY BlockSymmetry
INVARIANTS
  OperandsLocal
  RetFits
CHECK_DEADLOCK FALSE
