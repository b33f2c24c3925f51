SPECIFICATION PanelSpec
CONSTANTS
  x1 = x1
  x2 = x2
  y1 = y1
  y2 = y2
  z1 = z1
  z2 = z2
  w1 = w1
  w2 = w2
  NoCred = NoCred
  NoConfig = NoConfig
  Absent = Absent
  Anyone = Anyone
  Pair = {x1, x2}
  Twins = {y1, y2}
  Appliers = {z1}
  Stoppers = {}
  Shapes = {y1, y2}
  Users = {z1}
  Creds = {x1, x2}
  ProbeFailures = 1
  MaxApplies = 2
  MaxStops = 1
  MaxFaults = 1
  MaxLaunches = 4
  People = {x1, x2}
  Inbounds = {y1, y2}
  Reloaders = {z1, z2}
  MaxMutations = 3
  MaxMishaps = 1
  UserIDs = {z1}
  GroupIDs = {x1, x2}
  InboundIDs = {y1, y2}
  Outbounds = {z1}
  Balancers = {z2}
  Rules = {w1}
  Tags = {z1, z2}
  Handlers = {x1, x2}
  Clients = {x1, x2}
  PeerCallers = {y1, y2}
  Narrow = {2}
  Wide = {2, 3}
  Pools <- Ranges
  MaxKeys = 2
  Engines = {z1, z2}
  VersionFirst = {z2}
  WithData = {z1}
  Releases = {x1, x2}
  Shipped = w1
  PinRequests = {y1, y2}
  Installers = {w2}
  MaxRequests = 3
  MaxInstalls = 1
  MaxBreaks = 1
  Accounts = {z1}
  Addresses = {x1, x2, w1}
  Limits = {0, 1, 2}
  MaxAddresses = 2
  TTL = 1
  Cooldown = 2
  Savers = {w2}
  Horizon = 4
  MaxEdits = 2
  MaxSlips = 1
CHECK_DEADLOCK FALSE
SYMMETRY PanelSymmetry
INVARIANTS SingleCore DisconnectHoldsInOrder QuietMeansCurrent ReferencesLive MirrorExact OneDefault TableRenders AddressesDistinct IdentityAgreed SelectionRuns RollbackHasTarget DirectoriesHold LimitEnforced
PROPERTY ServesTheFile
