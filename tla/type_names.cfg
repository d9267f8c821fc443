SPECIFICATION Spec
CONSTANTS
  Worlds <- MCWorlds
  BuiltIns <- MCBuiltIns
  AidlName <- MCAidlName
  Invalid <- MCInvalid
  Stubs <- MCStubs
INVARIANTS
  TypeOK
  NameSpacesAgree
  ImportDecides
  BackendsAgree
CHECK_DEADLOCK FALSE
