SPECIFICATION Spec
CONSTANTS
  e1 = e1
  LastFrame = 3
  Elements = {e1}
  MaxSeq = 5
  Budgets <- TwoSnapshots
INVARIANTS
  LabelsMeanWhatTheyMark
CHECK_DEADLOCK FALSE
