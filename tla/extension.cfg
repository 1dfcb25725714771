SPECIFICATION Spec
CONSTANTS
  t1 = t1  o1 = o1  a1 = a1  a2 = a2  p1 = p1  p2 = p2  d1 = d1  u1 = u1  j1 = j1  j2 = j2
  e1 = e1  e2 = e2  e3 = e3  n1 = n1  da = da  db = db  b1 = b1  b2 = b2  b3 = b3
  k1 = k1  k2 = k2  c1 = c1  c2 = c2  w1 = w1  w2 = w2
  Tabs = {t1}  MaxPorts = 3  MaxProviders = 4  Ops = {o1}  Requests = {"enable", "route"}
  Agents = {a1, a2}  OriginOf <- TwoOrigins  Pages = {p1, p2}  TitleOf <- OneTitle
  Clamped = {}  MaxClients = 3  MaxOrigins = 2  Nobody = Nobody  Browser = Browser
  CdpTabs = {d1}  UserTab = u1  Jobs = {j1, j2}  MaxSessions = 3
  LastFrame = 2  Elements = {e1, e2}  MaxSeq = 5
  Names = {n1}  Defs = {da, db}  Nothing = Nothing  MaxServers = 4  MaxTunnels = 6
  Bridges = {b1, b2, b3}  Fallback = b1  PinTabs = {p1, p2}  AgentCalls = {k1, k2}
  MaxProfiles = 2  MaxDials = 6
  Errs = {c1, c2}  MaxFiles = 2  MaxRecords = 1  Kids = {w1, w2}  MaxOpened = 1
  Elems = {e1, e2, e3}  SelectorOf <- TwoSelectors  MaxPicks = 2  MaxPatches = 2
  MaxEntries = 2  MaxFetches = 3
  Budgets <- Scenarios
INVARIANTS
  TypeOK
  OneSocketPerProvider
  AgentTabsDialNobody
  ServedAsChosen
  SessionsAreReal
  UidsMeanWhatWasShown
  RegisteredToolsArrive
  UserTabsAreKept
  ReportsAreTrue
  PicksAndPatchesAgree
  HooksComeOff
PROPERTIES
  HeldSocketComesFirst
  EnabledTabsAreServed
  AsksSettle
CHECK_DEADLOCK FALSE
