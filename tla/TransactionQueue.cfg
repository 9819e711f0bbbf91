SPECIFICATION Spec
CONSTANTS
  NULL = NULL
  alice = alice
  bob = bob
  Node = {n1, n2, n3}
  Uuid = {alice, bob}
  Transaction <- MCTransaction
  BlockWindow = 2
  MaxClock = 3
INVARIANTS
  TypeOK
  LastIsTail
  ListsPartitionHeap
  CountMatchesBlock
PROPERTIES
  ImplementsMempool
SYMMETRY NodeSymmetry
