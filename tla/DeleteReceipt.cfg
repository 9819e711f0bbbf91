SPECIFICATION Spec
CONSTANTS
  NULL = NULL
  alice = alice
  bob = bob
  Node = {n1, n2}
  Uuid = {alice, bob}
  Transaction <- MCTransaction
  BlockWindow = 2
  MaxClock = 3
PROPERTY
  DeletedNotFound
