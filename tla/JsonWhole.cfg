SPECIFICATION JsonSpec
CONSTANTS
  a = a
  b = b
  i0 = i0
  i2 = i2
  m1 = m1
  x1 = x1
  none = none
  q = q
  double = double
  rounded = rounded
  null = null
  Strings = {a, b}
  Primitives = {double}
  Bad = Bad
  Null = Null
  MaxTokens = 8
  Labels = {a, b, i0, i2, m1, x1, none, q}
  TextOf <- MCTextOf
  Indexes <- MCIndexes
  OtherKeys <- MCOtherKeys
  NoneObj = null
  ReprOf <- MCReprOf
  RawOf <- MCRawOf
  Objs = {o1, o2}
  MaxParsed = 0
  MaxOps = 0
INVARIANTS
  AcceptedIsWhole
CHECK_DEADLOCK FALSE
