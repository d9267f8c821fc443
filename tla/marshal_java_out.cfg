SPECIFICATION Spec
CONSTANTS
  Null = Null
  a = a
  z = z
  Element = {a, z}
  Blank = z
  Lengths = {0, 1, 2}
  Types <- MCOutTypes
  Backends = {"CPP", "NDK", "JAVA"}
INVARIANTS
  JavaReadsIntoExisting
CHECK_DEADLOCK FALSE
