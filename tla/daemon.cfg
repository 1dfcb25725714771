SPECIFICATION FairSpec
CONSTANTS
  a1 = a1  a2 = a2  m1 = m1  t1 = t1  t2 = t2
  NoOne = NoOne
  Foreign = Foreign
  Agents = {a1}
  Manual = {m1}
  Stops = {t1}
  Ports <- AnyPort
  Configs <- SomeConfigs
  IdleTimeout = TRUE
  Timeouts = TRUE
  MaxPolls = 1
  MaxCrashes = 1
INVARIANTS
  PidFileIsTidy
  ProxiesAreServed
PROPERTIES
  StopIsKept
  OneRemains
CHECK_DEADLOCK FALSE
