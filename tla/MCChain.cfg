\* The chain of actions of the test "chain".
SPECIFICATION Spec
CONSTANTS
  f1 = f1
  f2 = f2
  i8 = i8
  ptr = ptr
  void = void
  Types = {i8, ptr, void}
  Ptr = ptr
  Bool = i8
  Void = void
  Names = {e}
  EmptyName = e
  Blocks = {b1}
  Functions = {f2}
  Modules = {m1}
  Signature <- MCSignature
  Foreign = {b1, f2}
  None = None
  Unset = Unset
  Absent = Absent
  Reuse = FALSE
  MaxValues = 3
  MaxStack = 3
  MaxArgs = 2
  MaxOpened = 0
PROPERTIES
  ChainLoads
CHECK_DEADLOCK FALSE
