SPECIFICATION Spec
CONSTANTS
  Coin = {"BTC", "ETH"}
  CoinOrder <- MCCoinOrder
  Answer <- MCAnswer
  Usd = Usd
  Leftover <- MCLeftover
  Nothing = Nothing
  Precision = 4
  Holding = {28, 30}
  Asked = {5, 9, 13, 28}
  MaxSwaps = 1
INVARIANTS
  TypeOK
  PricesAreQuoted
  RefusedByRoundingOrMemory
PROPERTIES
  ImplementsBoard
  RefreshEnds
  SwapKeepsWorth
