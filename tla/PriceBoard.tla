----------------------------- MODULE PriceBoard -----------------------------
(***************************************************************************)
(* What the price feed promises to those who read precoMercado: a coin has *)
(* no price, or one that was quoted in full, and a refresh is a number of  *)
(* single prices replaced.  Ledger.RefreshPrices takes this for granted.   *)
(***************************************************************************)
CONSTANTS
  Coin,     \* CoinType
  Quote,    \* the prices there are
  Unpriced  \* what an element of precoMercado is before its first price

VARIABLE price

Init == price = [c \in Coin |-> Unpriced]

Post(c, p) == price' = [price EXCEPT ![c] = p]

Next == \E c \in Coin, p \in Quote : Post(c, p)

Spec == Init /\ [][Next]_price
=============================================================================
