SPECIFICATION FairSpec
CONSTANTS
  u1 = u1
  u2 = u2
  k1 = k1
  k2 = k2
  Users = {u1}
  Xray = k1
  SingBox = k2
  Cores <- OneSpeaks
  Batch = 2
  InitialRows <- Active
  MaxInt = 7
  PeriodLen = 1
  MaxTraffic = 2
  MaxLines = 2
  MaxFaults = 2
  MaxSwitches = 1
CHECK_DEADLOCK FALSE
INVARIANTS NodeNeverOverbills FiledOnceInOrder
PROPERTIES RemoteQuotaEnforced RemoteTrafficBilled
