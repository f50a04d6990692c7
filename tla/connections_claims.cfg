SPECIFICATION FairSpec
\* TLC stops at the first claim it refutes: check them one at a time
INVARIANTS
  ActiveIsSetUp
  \* MaxPeersKept
  \* EnoughAreActive
\* PROPERTIES
  \* RemovesOwn
  \* NewPeersUsed
CONSTANTS
  p1 = p1
  p2 = p2
  Peers = {p1, p2}
  MaxDials = 2
  MaxPeers = 1
  EnoughPeers = 2
  Mute = {}
