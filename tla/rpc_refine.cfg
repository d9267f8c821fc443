SPECIFICATION FairSpec
CONSTANTS
  Call = {c1, c2}
  Setter = {s1}
  None = None
  Get = Get
  Swap = Swap
  Post = Post
  GetInterfaceVersion = GetInterfaceVersion
  Method <- MCSmallMethod
  Args <- MCSmallArgs
  NonVoid <- MCNonVoid
  Oneway <- MCOneway
  Langs = {"CPP", "JAVA"}
  Versions = {2}
  ReadFaults = {}
  WriteFaults = {}
PROPERTIES
  ImplementsRemoteCall
  StartedCallsSettle
CHECK_DEADLOCK FALSE
