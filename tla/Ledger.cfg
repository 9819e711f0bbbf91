SPECIFICATION Spec
CONSTANTS
  User = {alice, bob}
  Coin = {BTC, ETH}
  Price = {1, 2}
  Amount = {1}
  BlockWindow = 1
  MallocMayFail = TRUE
  MaxClock = 1
  MaxAmount = 2
  MaxTransfers = 2
INVARIANTS
  TypeOK
  OneNodePerCoin
  NothingPendingWhileOpen
  WalletsMatchTransactions
PROPERTIES
  ValueConserved
SYMMETRY Symmetry
