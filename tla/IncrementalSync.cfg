SPECIFICATION Spec
CONSTANTS
  Rows = {r1, r2, r3}
  Top = 2
  PerSecond = 2
  MaxTime = 4
  NULL = NULL
INVARIANT
  TypeOK
PROPERTIES
  OnePageHighWaterMark
  OnePageConverges
