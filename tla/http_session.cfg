SPECIFICATION FairSpec
CONSTANTS
  s1 = s1  p1 = p1  g1 = g1  g2 = g2  d1 = d1
  Sessions = {s1}
  Posts = {p1}
  Streams = {g1, g2}
  Deletes = {d1}
  BufferSize = 2
  MaxEvents = 3
INVARIANTS
  FlagsExact
  EventsInOrder
  OpenSessionExpires
PROPERTIES
  SessionsReaped
  StreamsEnd
CHECK_DEADLOCK FALSE
