SPECIFICATION Spec
CONSTANTS
  u1 = u1
  u2 = u2
  s1 = s1
  s2 = s2
  e1 = e1
  Users = {u1}
  Sweepers = {}
  Editors = {}
  FullEdits <- NoEdits
  ColumnEdits <- NoEdits
  SingboxStats = TRUE
  InitialRows <- TxRows
  MaxInt = 7
  PeriodLen = 2
  MaxTraffic = 2
  MaxTime = 2
  MaxEdits = 2
  MaxFaults = 1
CHECK_DEADLOCK FALSE
INVARIANT NoOverbill
