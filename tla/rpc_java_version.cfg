SPECIFICATION Spec
CONSTANTS
  Call = {c1}
  Setter = {s1}
  None = None
  Get = Get
  Swap = Swap
  Post = Post
  GetInterfaceVersion = GetInterfaceVersion
  Method <- MCPlainMethod
  Args <- MCPlainArgs
  NonVoid <- MCNonVoid
  Oneway <- MCNoOneway
  Langs = {"JAVA"}
  Versions = {0, 2}
  ReadFaults = {}
  WriteFaults = {}
INVARIANT MissingVersionIsReported
CHECK_DEADLOCK FALSE
