SPECIFICATION Spec
CONSTANTS
  Root = Root
  Outer = Outer
  Inner = Inner
  Leaf = Leaf
  Shell = Shell
  Type <- MCType
  Versions = {1, 2, 3}
  Fields <- MCFields
  Langs = {"CPP"}
INVARIANT ExtensionIsCompatible
CHECK_DEADLOCK FALSE
