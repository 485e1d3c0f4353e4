SPECIFICATION Spec
CONSTANTS
  Hosts = {h1}
  Admin = admin
  Emails = {e1}
  Catalog <- MCCatalog
  Offers <- MCOffers
  Asked <- MCAsked
  Slots = {s1, s2}
  MaxBundles = 2
  MaxKeys = 4
  MaxInvites = 2
  MaxWrites = 4
  MaxRecords = 1
  MaxLag = 1
  NULL = NULL
INVARIANTS
  TypeOK
  OneAccountPerInvite
  GrantSound
PROPERTY RetiredKeyRefusedInTheEnd
CHECK_DEADLOCK FALSE
