SPECIFICATION CacheSpec
CONSTANTS
  Slots = {s1, s2}
  Sales <- MCSales
  Scopes <- MCScopes
  MinHits = 3
  Limit = 3
  ProxyTTL = 1
  EdgeTTL = 1
  MaxAge = 1
  Retention = 2
  MaxHold = 1
  MaxTime = 3
  NULL = NULL
INVARIANTS
  CacheTypeOK
  FreshServed
CHECK_DEADLOCK FALSE
