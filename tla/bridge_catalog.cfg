SPECIFICATION FairSpec
CONSTANTS
  c1 = c1  c2 = c2  c3 = c3  a1 = a1  a2 = a2  s1 = s1  r1 = r1
  NoOne = NoOne
  Conns = {c1}
  Agents = {a1}
  Sessions = {}
  Runners = {r1}
  Partitions <- OnePartition
  Meta <- SameSite
  Caps <- AllKinds
  KindSeq <- ToolsOnly
  Catalogs <- TwoNames
  PageOf <- YSecond
  NumPages = 2
  MaxCatalogPages = 2
  MaxReservations = 2
  IdleTimeout = FALSE
  MayShutdown = FALSE
  Timeouts = FALSE
  MaxChanges = 2
  MaxCalls = 0
INVARIANTS
  OneFetchPerCatalog
  NoStaleCatalog
  NoStaleListing
PROPERTIES
  EventuallyCurrent
CHECK_DEADLOCK FALSE
