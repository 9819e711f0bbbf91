SPECIFICATION Spec
CONSTANTS
  Tx = {"first", "second", "other", "odd"}
  ReceiptOf <- MCReceiptOf
  CoinOf <- MCCoinOf
  NumCoins = 3
  Block = {"block"}
  User = {"ana"}
  MaxClock = 2
INVARIANTS
  TypeOK
  AnsweredIsStored
  StoredOnce
PROPERTIES
  FirstRowStays
