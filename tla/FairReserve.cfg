SPECIFICATION Spec
CONSTANTS
  f1 = f1
  f2 = f2
  p1 = p1
  p2 = p2
  o1 = o1
  o2 = o2
  Class <- MCClass
  Lists <- MCLists
  MaxErrors = 1
INVARIANTS
  TypeOK
  BoundedBypass
  EmptyScanProbesAll
PROPERTY
  NoStarvation
