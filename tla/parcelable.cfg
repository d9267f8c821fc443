SPECIFICATION Spec
CONSTANTS
  Root = Root
  Outer = Outer
  Inner = Inner
  Leaf = Leaf
  Shell = Shell
  Type <- MCType
  Versions = {1, 2, 3}
  Fields <- MCFields
  Langs = {"CPP", "NDK", "JAVA"}
INVARIANTS
  TypeOK
  CommonFieldsAgree
  Aligned
CHECK_DEADLOCK FALSE
