SPECIFICATION Spec
CONSTANTS
  MaxUserSetMethodId = 2
  NoId = NoId
  Source <- MCSource
  MaxVersion = 3
  I = I
  P = P
  a = a
  b = b
  x = x
  y = y
INVARIANTS
  TypeOK
  ShippedVersionsInteroperate
  TipInteroperates
  NothingEmptyIsShipped
  ShippedIsImmutable
