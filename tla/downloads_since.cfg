SPECIFICATION Spec
CONSTANTS
  c1 = c1  c2 = c2  w1 = w1  w2 = w2
  Errs = {c1, c2}  MaxFiles = 1  MaxRecords = 1  Kids = {w1, w2}  MaxOpened = 1
  Budgets <- OneWait
INVARIANT
  WaitsForNewDownloads
CHECK_DEADLOCK FALSE
