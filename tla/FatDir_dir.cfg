CONSTANTS
  a = a
  b = b
  c = c
  Max = 4
  NClus = 4
  LongNames = {a, b, c}
  Utf8 <- MCUtf8
  UcsUnits = {0, 47, 127, 128, 2047, 2048, 65535}
  UcsBytes = {0, 47, 65, 127, 128, 175, 191, 192, 193, 194, 223, 224, 239, 240}
  UcsLen = 2
  UcsOlen = 7
  Basis <- MCBasis
  UserShort <- MCUserShort
  MaxTail = 2
SPECIFICATION Spec
INVARIANTS
  TypeOK
  EodTerminates
  ShortNamesUnique
  FileClustersDisjoint
  EncodeExact
  DecodeExact
CHECK_DEADLOCK FALSE
