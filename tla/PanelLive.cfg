SPECIFICATION PanelSpec
CONSTANTS
  one = one
  two = two
  shape = shape
  NoCred = NoCred
  NoConfig = NoConfig
  Ones = {one}
  Both = {one, two}
  Syncers = {one, two}
  Versions <- Zone
  Bad <- Rejected
  MaxProcs = 6
  MaxSyncs = 3
  MaxMishaps = 1
  Appliers = {one}
  Stoppers = {}
  Shapes = {shape}
  Users = {one}
  Creds = {two}
  ProbeFailures = 2
  MaxApplies = 1
  MaxStops = 1
  MaxFaults = 1
  MaxLaunches = 3
  Reporters = {one}
  Keys = {one, two}
  Endpoints = {one}
  Retry <- Ladder
  MaxQueued = 2
  MaxTracked = 1
  MaxReports = 3
CHECK_DEADLOCK FALSE
INVARIANTS OneChild NeverSleptOn OneDelivery
PROPERTIES CrashedCoreReturns WedgedIsReplaced CallsReturn GoodConfigReturns EveryDeliveryEnds EvictedIsClosed ClosingEnds
