SPECIFICATION RoutingSpec
CONSTANTS
  Outbounds = {o1}
  Balancers = {g1}
  Rules = {r1}
  Tags = {a, b}
  Handlers = {h1}
CHECK_DEADLOCK FALSE
INVARIANT RefusedIsRolledBack
