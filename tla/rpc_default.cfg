SPECIFICATION Spec
CONSTANTS
  Call = {c1, c2}
  Setter = {s1, s2}
  None = None
  Get = Get
  Swap = Swap
  Post = Post
  GetInterfaceVersion = GetInterfaceVersion
  Method <- MCPlainMethod
  Args <- MCPlainArgs
  NonVoid <- MCNonVoid
  Oneway <- MCNoOneway
  Langs = {"CPP", "NDK", "JAVA"}
  Versions = {0, 2}
  ReadFaults = {}
  WriteFaults = {}
SYMMETRY MCSymmetry
INVARIANTS
  VersionIsTheServers
  DefaultSurvivesCalls
PROPERTIES
  InstalledDefaultIsPermanent
CHECK_DEADLOCK FALSE
