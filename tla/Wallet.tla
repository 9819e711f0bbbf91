------------------------------- MODULE Wallet -------------------------------
(***************************************************************************)
(* A user's coins (models/user_model.h, UserCoin) and the operations of    *)
(* services/coins_law.c on them.  A wallet is the list that Users.coins    *)
(* points to: a sequence of nodes, each a coin type with its quantity.     *)
(*                                                                         *)
(* Quantities and prices are whole numbers.  The program's are doubles; a  *)
(* swap whose quotient is not exact is left out here.                      *)
(***************************************************************************)
EXTENDS SequencesExt, Integers

CoinNode(Coin) == [type : Coin, qtd : Nat]

\* The nodes of coin type c.  find_coin stops at the first.
NodesOf(w, c) == {i \in DOMAIN w : w[i].type = c}

HasCoin(w, c) == NodesOf(w, c) # {}

FindCoin(w, c) == CHOOSE i \in NodesOf(w, c) : \A j \in NodesOf(w, c) : i <= j

\* user_coin_qty: what the first node holds.
CoinQty(w, c) == IF HasCoin(w, c) THEN w[FindCoin(w, c)].qtd ELSE 0

\* append_coin: an empty node at the end of the list.
AppendCoin(w, c) == Append(w, [type |-> c, qtd |-> 0])

\* Mutant: only the last node is looked at before a new one is appended.
WithCoinLastOnly(w, c) ==
  IF w # <<>> /\ Last(w).type = c THEN w ELSE AppendCoin(w, c)

WithCoin(w, c) == IF HasCoin(w, c) THEN w ELSE AppendCoin(w, c)

AddToNode(w, c, q) == [w EXCEPT ![FindCoin(w, c)].qtd = @ + q]

Credit(w, c, q) == AddToNode(WithCoin(w, c), c, q)

\* Mutant: the sender keeps what was sent.
DebitNothing(w, c, q) == w

Debit(w, c, q) == AddToNode(w, c, - q)

-----------------------------------------------------------------------------
(* buy_coins and merge_coins: the conditions and the effect on the wallet  *)

CanBuy(balance, price, q) == q > 0 /\ price > 0 /\ balance >= price * q

\* Swap q of src, at these prices, for at least dq of dst.
CanMerge(w, src, q, dst, dq, price) ==
  /\ w # <<>> /\ q > 0 /\ dq > 0
  /\ src # dst
  /\ HasCoin(w, src)
  /\ CoinQty(w, src) >= q
  /\ price[src] > 0 /\ price[dst] > 0
  /\ q * price[src] >= dq * price[dst]

\* Mutant: the quotient is upside down.
MergeReceivesInverted(q, src, dst, price) == (q * price[dst]) \div price[src]

MergeReceives(q, src, dst, price) == (q * price[src]) \div price[dst]

MergeCoins(w, src, q, dst, price) ==
  Credit(Debit(w, src, q), dst, MergeReceives(q, src, dst, price))
=============================================================================
