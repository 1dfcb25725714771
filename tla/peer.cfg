SPECIFICATION FairSpec
CONSTANTS
  k1 = k1  k2 = k2  w1 = w1  x1 = x1
  Calls = {k1, k2}
  Replies = {w1}
  Closers = {x1}
  ReadLoop = ReadLoop
  Nobody = Nobody
  MaxAnswers <- OneTwice
INVARIANTS
  TypeOK
  ChannelsSafe
  PendingExact
  CloseMeansClosed
PROPERTIES
  KeepsPromise
CHECK_DEADLOCK FALSE
