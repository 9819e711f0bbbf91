------------------------------- MODULE Ledger -------------------------------
(***************************************************************************)
(* The money of one CLI process: what the handlers of the user menu        *)
(* (cli/main.c) do to the balances, the wallets, the market prices, the    *)
(* transaction queue and the block.  One handler runs at a time, from the  *)
(* menu choice to its end, for the user who is logged in; any user may be. *)
(*                                                                         *)
(* An action is a handler that succeeds.  A handler that fetched prices    *)
(* and then gave up (bad input, not enough money, "no" at the prompt, no   *)
(* memory) has done what LivePrices does, and one that gave up earlier has *)
(* done nothing.                                                           *)
(*                                                                         *)
(* A transaction is the record that new_transaction queues.  The queue and *)
(* the block's list are sequences here; TransactionQueue has the pointers. *)
(* A user is identified by his UUID: two users with one UUID are not       *)
(* modelled here.                                                          *)
(***************************************************************************)
EXTENDS TransactionRules, Wallet

CONSTANTS
  User,          \* the users who may register
  Coin,          \* CoinType
  Price,         \* prices the API may answer
  Amount,        \* amounts a user may type
  BlockWindow,   \* seconds the block stays open
  MallocMayFail, \* whether malloc may return NULL
  MaxClock,      \* bound of the model: the last second of the clock
  MaxAmount,     \* bound of the model: what all users have of the money, and of
                 \* each coin
  MaxTransfers   \* bound of the model: the number of transfers

ASSUME FiniteAssumption == IsFiniteSet(User) /\ IsFiniteSet(Coin)
ASSUME AmountAssumption == Price \subseteq Nat \ {0} /\ Amount \subseteq Nat
ASSUME WindowAssumption == BlockWindow \in Nat /\ MaxClock \in Nat
ASSUME MallocAssumption == MallocMayFail \in BOOLEAN

VARIABLES
  users,     \* the user list
  balance,   \* Users.balance
  coins,     \* Users.coins
  preco,     \* precoMercado, 0 until a first fetch succeeds
  clock,     \* seconds since the block was created
  pending,   \* the queue
  included,  \* the block's transactions
  traded,    \* history: coins bought, plus swapped in, minus swapped out
  lost       \* history: coins sent to the user that no node has taken in

vars == <<users, balance, coins, preco, clock, pending, included, traded, lost>>

Transaction == [sender : User, receiver : User, coin : Coin, qtd : Amount]

\* At boot every user has no coins, and the balance that was stored when he
\* registered, which is 0.
Init ==
  /\ users \in SUBSET User
  /\ balance = [u \in User |-> 0]
  /\ coins = [u \in User |-> <<>>]
  /\ preco = [c \in Coin |-> 0]
  /\ clock = 0
  /\ pending = <<>>
  /\ included = <<>>
  /\ traded = [u \in User |-> [c \in Coin |-> 0]]
  /\ lost = [u \in User |-> [c \in Coin |-> 0]]

\* The process is killed or left, and another one starts.  The users are those of the
\* table, where nothing but a registration writes; queue, block, wallets and prices were
\* in memory, and go together.
Restart ==
  /\ users' \in SUBSET User
  /\ balance' = [u \in User |-> 0]
  /\ coins' = [u \in User |-> <<>>]
  /\ preco' = [c \in Coin |-> 0]
  /\ clock' = 0
  /\ pending' = <<>>
  /\ included' = <<>>
  /\ traded' = [u \in User |-> [c \in Coin |-> 0]]
  /\ lost' = [u \in User |-> [c \in Coin |-> 0]]

-----------------------------------------------------------------------------
(* Balance and prices                                                      *)

Money == SumFunction(balance)
Circulating(c) == SumFunction([u \in User |-> CoinQty(coins[u], c)])

Register(u) ==
  /\ u \notin users
  /\ users' = users \cup {u}
  /\ UNCHANGED <<balance, coins, preco, clock, pending, included, traded, lost>>

AddBalance(u, amount) ==
  /\ amount > 0
  /\ Money + amount <= MaxAmount
  /\ balance' = [balance EXCEPT ![u] = @ + amount]
  /\ UNCHANGED <<users, coins, preco, clock, pending, included, traded, lost>>

\* atualizarPrecosAPI for every coin: a fetch that fails leaves the old price.
RefreshPrices ==
  preco' \in {p \in [Coin -> Price \cup Range(preco)] :
                \A c \in Coin : p[c] \in Price \cup {preco[c]}}

LivePrices ==
  /\ RefreshPrices
  /\ UNCHANGED <<users, balance, coins, clock, pending, included, traded, lost>>

-----------------------------------------------------------------------------
(* Buying and swapping coins                                               *)

BuyCoins(u, c, q) ==
  /\ RefreshPrices
  /\ CanBuy(balance[u], preco'[c], q)
  /\ Circulating(c) + q <= MaxAmount
  /\ balance' = [balance EXCEPT ![u] = @ - preco'[c] * q]
  /\ coins' = [coins EXCEPT ![u] = Credit(@, c, q)]
  /\ traded' = [traded EXCEPT ![u][c] = @ + q]
  /\ UNCHANGED <<users, clock, pending, included, lost>>

\* The handler asks merge_coins for exactly what it has shown to the user.
SwapCoins(u, src, q, dst) ==
  /\ RefreshPrices
  /\ preco'[dst] > 0 /\ (q * preco'[src]) % preco'[dst] = 0
  /\ LET dq == (q * preco'[src]) \div preco'[dst]
     IN  /\ CanMerge(coins[u], src, q, dst, dq, preco')
         /\ Circulating(dst) + dq <= MaxAmount
         /\ traded' = [traded EXCEPT ![u][src] = @ - q, ![u][dst] = @ + dq]
  /\ coins' = [coins EXCEPT ![u] = MergeCoins(@, src, q, dst, preco')]
  /\ UNCHANGED <<users, balance, clock, pending, included, lost>>

-----------------------------------------------------------------------------
(* Transferring coins                                                      *)

\* Mutant: having the coin at all is enough.
CanTransferAnyQuantity(u, r, c, q) ==
  /\ r \in users /\ r # u
  /\ q > 0 /\ HasCoin(coins[u], c)

CanTransfer(u, r, c, q) ==
  /\ r \in users /\ r # u
  /\ q > 0 /\ CoinQty(coins[u], c) >= q

\* The receiver's wallet.  When it has no node for the coin and malloc fails, the
\* handler goes on without crediting it.
Credited(w, c, q) ==
  {Credit(w, c, q)} \cup (IF MallocMayFail /\ ~ HasCoin(w, c) THEN {w} ELSE {})

\* Mutant: the queue as it was before the transfer is offered to the block.
SendToBlockStale(q) ==
  IF /\ CanAcceptTransaction(BlockWindow, clock)
     /\ pending # <<>>
     /\ CheckTransaction(users, Head(pending))
    THEN included' = Append(included, Head(q)) /\ pending' = Tail(q)
    ELSE included' = included /\ pending' = q

\* send_to_block, on queue q.
SendToBlock(q) ==
  IF /\ CanAcceptTransaction(BlockWindow, clock)
     /\ q # <<>>
     /\ CheckTransaction(users, Head(q))
    THEN included' = Append(included, Head(q)) /\ pending' = Tail(q)
    ELSE included' = included /\ pending' = q

\* The transaction is queued, the coins move, and then the head of the queue is
\* offered to the block.
Transfer(u, r, c, q) ==
  /\ Len(pending) + Len(included) < MaxTransfers
  /\ CanTransfer(u, r, c, q)
  /\ \E w \in Credited(coins[r], c, q) :
       /\ coins' = [coins EXCEPT ![u] = Debit(@, c, q), ![r] = w]
       /\ lost' = IF w = coins[r] THEN [lost EXCEPT ![r][c] = @ + q] ELSE lost
  /\ SendToBlock(Append(pending,
       [sender |-> u, receiver |-> r, coin |-> c, qtd |-> q]))
  /\ UNCHANGED <<users, balance, preco, clock, traded>>

Tick ==
  /\ clock < MaxClock
  /\ clock' = clock + 1
  /\ UNCHANGED <<users, balance, coins, preco, pending, included, traded, lost>>

Next ==
  \/ \E u \in User : Register(u)
  \/ \E u \in users, amount \in Amount : AddBalance(u, amount)
  \/ LivePrices
  \/ \E u \in users, c \in Coin, q \in Amount : BuyCoins(u, c, q)
  \/ \E u \in users, src, dst \in Coin, q \in Amount : SwapCoins(u, src, q, dst)
  \/ \E u, r \in users, c \in Coin, q \in Amount : Transfer(u, r, c, q)
  \/ Tick
  \/ Restart

Spec == Init /\ [][Next]_vars

-----------------------------------------------------------------------------
(* Properties                                                              *)

\* The type invariant.  No balance and no coin quantity is ever negative.
TypeOK ==
  /\ users \subseteq User
  /\ balance \in [User -> Nat]
  /\ coins \in [User -> Seq(CoinNode(Coin))]
  /\ preco \in [Coin -> Price \cup {0}]
  /\ clock \in 0 .. MaxClock
  /\ pending \in Seq(Transaction)
  /\ included \in Seq(Transaction)
  /\ traded \in [User -> [Coin -> Int]]
  /\ lost \in [User -> [Coin -> Nat]]

\* A wallet has at most one node of each coin type.  The code reads and changes
\* the first only: coins in a second one would be out of the user's reach.
OneNodePerCoin ==
  \A u \in User : \A i, j \in DOMAIN coins[u] :
    coins[u][i].type = coins[u][j].type => i = j

\* While the block is open no transfer waits: each handler leaves the queue empty,
\* so the head it offers to the block is always its own transaction.
NothingPendingWhileOpen == clock < BlockWindow => pending = <<>>

Recorded == included \o pending

Moved(record, u, c, role) ==
  SumFunctionOnSet([i \in DOMAIN record |-> record[i].qtd],
    {i \in DOMAIN record : record[i].coin = c /\ record[i][role] = u})

\* The transactions of the block and of the queue account for every coin: a user
\* has what he bought and swapped, plus what was sent to him and not lost, minus
\* what he sent.
WalletsMatchTransactions ==
  \A u \in User, c \in Coin :
    CoinQty(coins[u], c) + lost[u][c]
      = traded[u][c] + Moved(Recorded, u, c, "receiver") - Moved(Recorded, u, c, "sender")

\* What a wallet is worth at the given prices, and coins of these quantities.
WalletWorth(w, price) ==
  SumFunction([i \in DOMAIN w |-> w[i].qtd * price[w[i].type]])

CoinsWorth(q, price) == SumFunction([c \in Coin |-> q[c] * price[c]])

\* What the users own together, with what transfers lost.
Worth(b, w, l, price) ==
  SumFunction(b)
    + SumFunction([u \in User |-> WalletWorth(w[u], price)])
    + SumFunction([u \in User |-> CoinsWorth(l[u], price)])

Deposited == \E u \in User : balance'[u] > balance[u]

\* Only deposits, and a restart, change what the users own together, at the prices of the
\* moment: buying and swapping exchange equal values, transferring moves them, and no
\* value is gone but that of transfers whose receiver could not be credited.
ValueConserved ==
  [][~ Deposited /\ ~ Restart =>
       Worth(balance', coins', lost', preco') = Worth(balance, coins, lost, preco')]_vars

\* cli/main.c:170 says of a transfer that it deducts coins from the sender and
\* credits the receiver.  So a transfer leaves the coins in circulation as they are.
TransferMovesCoins ==
  [][Recorded' # Recorded /\ ~ Restart =>
       \A c \in Coin : Circulating(c)' = Circulating(c)]_vars
=============================================================================
