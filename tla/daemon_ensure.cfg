SPECIFICATION Spec
CONSTANTS
  a1 = a1  a2 = a2  m1 = m1  t1 = t1  t2 = t2
  NoOne = NoOne
  Foreign = Foreign
  Agents = {a1, a2}
  Manual = {}
  Stops = {}
  Ports <- FreePort
  Configs <- NoConfig
  IdleTimeout = FALSE
  Timeouts = FALSE
  MaxPolls = 2
  MaxCrashes = 0
PROPERTIES
  EnsureFindsTheBridge
CHECK_DEADLOCK FALSE
