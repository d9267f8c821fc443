SPECIFICATION Spec
CONSTANTS
  Null = Null
  a = a
  z = z
  Element = {a, z}
  Blank = z
  Lengths = {0, 1, 2}
  Types <- MCTypes
  Backends = {"CPP", "NDK", "JAVA"}
INVARIANTS
  TypeOK
  InArrives
  OutArrives
  NoMisread
  FailsForCause
  NullIsDeclared
CHECK_DEADLOCK FALSE
