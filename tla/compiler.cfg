SPECIFICATION Spec
CONSTANTS
  AidlFiles <- MCAidlFiles
  Positive <- MCPositive
  Names <- MCNames
  Sources <- MCSources
  Malformed <- MCMalformed
  Beginnings <- MCBeginnings
  OptionSet <- MCOptionSet
  MaxOptions = 2
  Arguments <- MCArguments
INVARIANTS
  TypeOK
  SuccessMeansValid
  SuccessIsComplete
  NothingTruncatedIsKept
  SourceComesLast
  DepTargetsExist
  OrderIsIrrelevant
CHECK_DEADLOCK FALSE
