SPECIFICATION FairSpec
CONSTANTS
  NULL = NULL
  alice = alice
  bob = bob
  Node = {n1, n2}
  Uuid = {alice, bob}
  Transaction <- MCValidTransaction
  BlockWindow = 1
  MaxClock = 2
PROPERTY
  QueuedReachBlock
