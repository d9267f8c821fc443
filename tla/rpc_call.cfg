SPECIFICATION Spec
CONSTANTS
  Call = {c1}
  Setter = {s1}
  None = None
  Get = Get
  Swap = Swap
  Post = Post
  GetInterfaceVersion = GetInterfaceVersion
  Method <- MCMethod
  Args <- MCArgs
  NonVoid <- MCNonVoid
  Oneway <- MCOneway
  Langs = {"CPP", "NDK", "JAVA"}
  Versions = {0, 2}
  ReadFaults = {"BAD_VALUE", "UNEXPECTED_NULL"}
  WriteFaults = {"BAD_VALUE", "UNEXPECTED_NULL"}
INVARIANTS
  TypeOK
  ArgumentsArriveIntact
  ResultIsWhatWasProduced
  DefaultStandsIn
CHECK_DEADLOCK FALSE
