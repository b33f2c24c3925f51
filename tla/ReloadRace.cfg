SPECIFICATION ReloadSpec
CONSTANTS
  u1 = u1
  u2 = u2
  i1 = i1
  i2 = i2
  r1 = r1
  r2 = r2
  People = {u1}
  Inbounds = {i1, i2}
  Reloaders = {r1, r2}
  MaxMutations = 2
  MaxMishaps = 0
CHECK_DEADLOCK FALSE
INVARIANT DisconnectHolds
