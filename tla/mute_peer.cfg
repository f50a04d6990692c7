SPECIFICATION FairSpec
PROPERTIES
  StartReturns
CHECK_DEADLOCK FALSE
CONSTANTS
  p1 = p1
  p2 = p2
  Peers = {p1, p2}
  MaxDials = 2
  MaxPeers = 2
  EnoughPeers = 2
  Mute = {p1}
