SPECIFICATION OnceSpec
CONSTANTS
  u1 = u1
  u2 = u2
  s1 = s1
  s2 = s2
  e1 = e1
  Users = {u1}
  Sweepers = {s1, s2}
  Editors = {}
  FullEdits <- NoEdits
  ColumnEdits <- TxColumns
  SingboxStats = TRUE
  InitialRows <- TxRows
  MaxInt = 7
  PeriodLen = 2
  MaxTraffic = 2
  MaxTime = 3
  MaxEdits = 1
  MaxFaults = 1
  t1 = t1
  h1 = h1
  h2 = h2
  Sessions = {t1}
  Handlers = {h1, h2}
  MaxConns = 1
  MaxSlots = 2
  MaxEvictions = 1
  MaxReads = 1
  SeqSpace = 8
  ChunkSize = 2
  MaxOutboundBytes = 2
  MaxReorderFrames = 1
  Window = 2
  PollNumbers = {0}
  Reach = 2
  Streams <- Wrapping
  MaxExpiries = 1
CHECK_DEADLOCK FALSE
SYMMETRY SweeperSymmetry
INVARIANTS ExactLedger ResetOncePerPeriod OpenIsAccounted
PROPERTY StreamsCarried
