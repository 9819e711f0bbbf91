SPECIFICATION Spec
CONSTANTS
  User = {alice, bob}
  Coin = {BTC, ETH}
  Price = {1, 2}
  Amount = {1, 2}
  BlockWindow = 1
  MallocMayFail = TRUE
  MaxClock = 1
  MaxAmount = 2
  MaxTransfers = 2
PROPERTY
  TransferMovesCoins
