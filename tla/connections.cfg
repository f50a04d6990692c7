SPECIFICATION FairSpec
INVARIANTS
  TypeOK
  OnePairPerPeer
  RunningIsListed
PROPERTIES
  StartReturns
  LostIsRedialled
CONSTANTS
  p1 = p1
  p2 = p2
  Peers = {p1, p2}
  MaxDials = 2
  MaxPeers = 2
  EnoughPeers = 2
  Mute = {}
