SPECIFICATION PeersSpec
CONSTANTS
  Anyone = Anyone
  Clients = {x1, x2}
  PeerCallers = {y1}
  Pools = {{2, 3}}
  MaxKeys = 2
CHECK_DEADLOCK FALSE
INVARIANT PeersAreEntitled
