SPECIFICATION Spec
CONSTANTS
  c1 = c1  c2 = c2  c3 = c3  a1 = a1  a2 = a2  s1 = s1  r1 = r1
  NoOne = NoOne
  Conns = {}
  Agents = {a1}
  Sessions = {}
  Runners = {}
  Partitions <- OnePartition
  Meta <- SameSite
  Caps <- AllKinds
  KindSeq <- NoKinds
  Catalogs <- OneName
  PageOf <- OnePage
  NumPages = 1
  MaxCatalogPages = 2
  MaxReservations = 2
  IdleTimeout = TRUE
  MayShutdown = FALSE
  Timeouts = FALSE
  MaxChanges = 0
  MaxCalls = 0
PROPERTIES
  IdleCloseOnlyWhenIdle
CHECK_DEADLOCK FALSE
