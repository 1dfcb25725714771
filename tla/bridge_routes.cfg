SPECIFICATION Spec
CONSTANTS
  c1 = c1  c2 = c2  c3 = c3  a1 = a1  a2 = a2  s1 = s1  r1 = r1
  NoOne = NoOne
  Conns = {c1, c2}
  Agents = {a1}
  Sessions = {}
  Runners = {}
  Partitions <- TogetherOrApart
  Meta <- SamePage
  Caps <- AllKinds
  KindSeq <- ResourcesOnly
  Catalogs <- OneName
  PageOf <- OnePage
  NumPages = 1
  MaxCatalogPages = 2
  MaxReservations = 2
  IdleTimeout = FALSE
  MayShutdown = FALSE
  Timeouts = TRUE
  MaxChanges = 0
  MaxCalls = 1
INVARIANTS
  LabelsUnique
  RoutesSound
  CallsStayNamed
  AdvertisedIsRouted
CHECK_DEADLOCK FALSE
