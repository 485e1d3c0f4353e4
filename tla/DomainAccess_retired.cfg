SPECIFICATION Spec
CONSTANTS
  Hosts = {h1}
  Admin = admin
  Emails = {e1}
  Catalog <- MCCatalog
  Offers <- MCOffers
  Asked <- MCAsked
  Slots = {s1}
  MaxBundles = 1
  MaxKeys = 3
  MaxInvites = 0
  MaxWrites = 3
  MaxRecords = 1
  MaxLag = 1
  NULL = NULL
PROPERTY RetiredKeyRefused
CHECK_DEADLOCK FALSE
