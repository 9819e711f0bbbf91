---------------------------- MODULE LedgerProofs ----------------------------
(***************************************************************************)
(* Proofs about Ledger, for any users, coins, prices and amounts, any      *)
(* block window, and whether or not malloc may fail.                       *)
(*                                                                         *)
(* The wallet lemmas come first: crediting keeps a wallet a list with one  *)
(* node per coin, debiting what is there keeps its quantities natural.     *)
(* With them the conjunction of the three invariants is inductive.         *)
(* Adding that the wallets match the transactions keeps it so: a step      *)
(* adds the same quantity to, or takes it from, both sides of each         *)
(* equation.  What a step does to the worth is a sum of sums, over the     *)
(* users and over the nodes of each wallet.                                *)
(***************************************************************************)
EXTENDS Ledger, Arithmetic, SequenceTheorems

Wallets == Seq(CoinNode(Coin))

\* One node for each coin.
Single(w) == \A i, j \in DOMAIN w : w[i].type = w[j].type => i = j

-----------------------------------------------------------------------------
(* Wallets                                                                 *)

LEMMA WalletNodes ==
  ASSUME NEW w \in Wallets
  PROVE  /\ Len(w) \in Nat /\ DOMAIN w = 1 .. Len(w)
         /\ \A i \in DOMAIN w : w[i].type \in Coin /\ w[i].qtd \in Nat
<1>1. Len(w) \in Nat /\ DOMAIN w = 1 .. Len(w)
  BY LenProperties DEF Wallets
<1>2. \A i \in DOMAIN w : w[i] \in CoinNode(Coin)
  BY <1>1, ElementOfSeq DEF Wallets
<1> QED BY <1>1, <1>2 DEF CoinNode

\* find_coin finds a node of the coin.
LEMMA FindCoinFinds ==
  ASSUME NEW w \in Wallets, NEW c, HasCoin(w, c)
  PROVE  FindCoin(w, c) \in DOMAIN w /\ w[FindCoin(w, c)].type = c
<1>1. NodesOf(w, c) \subseteq Nat /\ NodesOf(w, c) # {}
  BY WalletNodes DEF NodesOf, HasCoin
<1>2. \E i \in NodesOf(w, c) : \A j \in NodesOf(w, c) : i <= j
  BY <1>1, LeastNatural
<1>3. FindCoin(w, c) \in NodesOf(w, c)
  BY <1>2 DEF FindCoin
<1> QED BY <1>3 DEF NodesOf

\* Changing the quantity of a node that exists.
LEMMA AddToNodeKeeps ==
  ASSUME NEW w \in Wallets, Single(w), NEW c, NEW q \in Int,
         HasCoin(w, c), CoinQty(w, c) + q >= 0
  PROVE  /\ AddToNode(w, c, q) \in Wallets
         /\ Single(AddToNode(w, c, q))
<1> DEFINE i == FindCoin(w, c)
           n == w[i].qtd + q
           v == [w EXCEPT ![i].qtd = n]
<1>1. i \in DOMAIN w /\ w[i].qtd = CoinQty(w, c)
  BY FindCoinFinds DEF CoinQty
<1>2. n \in Nat
  BY <1>1, WalletNodes
<1>3. AddToNode(w, c, q) = v
  BY DEF AddToNode
<1>4. w[i] \in CoinNode(Coin)
  BY <1>1, WalletNodes, ElementOfSeq DEF Wallets
<1>5. [w[i] EXCEPT !.qtd = n] \in CoinNode(Coin)
  BY <1>2, <1>4 DEF CoinNode
<1>6. v = [w EXCEPT ![i] = [w[i] EXCEPT !.qtd = n]]
  OBVIOUS
<1>7. v \in Wallets
  BY <1>1, <1>5, <1>6, WalletNodes, ExceptSeq DEF Wallets
<1>8. DOMAIN v = DOMAIN w /\ \A j \in DOMAIN w : v[j].type = w[j].type
  BY <1>4, <1>6 DEF CoinNode
<1>9. Single(v)
  BY <1>8 DEF Single
<1> QED BY <1>3, <1>7, <1>9

\* Looking for the coin before appending a node for it.
LEMMA WithCoinKeeps ==
  ASSUME NEW w \in Wallets, Single(w), NEW c \in Coin
  PROVE  /\ WithCoin(w, c) \in Wallets /\ Single(WithCoin(w, c))
         /\ HasCoin(WithCoin(w, c), c)
<1> DEFINE e == [type |-> c, qtd |-> 0]
           v == Append(w, e)
<1>1. CASE HasCoin(w, c)
  BY <1>1 DEF WithCoin
<1>2. CASE ~ HasCoin(w, c)
  <2>1. e \in CoinNode(Coin)
    BY DEF CoinNode
  <2>2. /\ v \in Seq(CoinNode(Coin)) /\ Len(v) = Len(w) + 1 /\ v[Len(w) + 1] = e
        /\ \A i \in 1 .. Len(w) : v[i] = w[i]
    BY <2>1, AppendProperties DEF Wallets
  <2>3. PICK n \in Nat : n = Len(w) /\ DOMAIN w = 1 .. n
    BY WalletNodes
  <2>4. \A i \in 1 .. n : w[i].type # c
    BY <1>2, <2>3 DEF HasCoin, NodesOf
  <2>5. DOMAIN v = 1 .. n + 1 /\ v[n+1].type = c
    BY <2>2, <2>3, LenProperties
  <2> HIDE DEF v
  <2>6. Single(v)
    <3> SUFFICES ASSUME NEW i \in 1 .. n + 1, NEW j \in 1 .. n + 1,
                        v[i].type = v[j].type
                 PROVE  i = j
      BY <2>5 DEF Single
    <3>1. CASE i \in 1 .. n /\ j \in 1 .. n
      BY <3>1, <2>2, <2>3 DEF Single
    <3>2. CASE i = n + 1 /\ j \in 1 .. n
      BY <3>2, <2>2, <2>3, <2>4, <2>5
    <3>3. CASE j = n + 1 /\ i \in 1 .. n
      BY <3>3, <2>2, <2>3, <2>4, <2>5
    <3>4. CASE i = n + 1 /\ j = n + 1
      BY <3>4
    <3> QED BY <3>1, <3>2, <3>3, <3>4
  <2>7. HasCoin(v, c)
    BY <2>5 DEF HasCoin, NodesOf
  <2> QED BY <1>2, <2>2, <2>6, <2>7 DEF WithCoin, AppendCoin, Wallets, v
<1> QED BY <1>1, <1>2

LEMMA CoinQtyNatural ==
  ASSUME NEW w \in Wallets, NEW c
  PROVE  CoinQty(w, c) \in Nat
BY FindCoinFinds, WalletNodes DEF CoinQty

LEMMA CreditKeeps ==
  ASSUME NEW w \in Wallets, Single(w), NEW c \in Coin, NEW q \in Nat
  PROVE  Credit(w, c, q) \in Wallets /\ Single(Credit(w, c, q))
<1> DEFINE v == WithCoin(w, c)
<1>1. v \in Wallets /\ Single(v) /\ HasCoin(v, c)
  BY WithCoinKeeps
<1> HIDE DEF v
<1>2. CoinQty(v, c) + q >= 0 /\ q \in Int
  BY <1>1, CoinQtyNatural
<1>3. AddToNode(v, c, q) \in Wallets /\ Single(AddToNode(v, c, q))
  BY <1>1, <1>2, AddToNodeKeeps
<1> QED BY <1>3 DEF Credit, v

\* A debit of no more than the wallet has.
LEMMA DebitKeeps ==
  ASSUME NEW w \in Wallets, Single(w), NEW c \in Coin, NEW q \in Nat,
         q > 0, CoinQty(w, c) >= q
  PROVE  Debit(w, c, q) \in Wallets /\ Single(Debit(w, c, q))
<1>1. HasCoin(w, c)
  BY DEF CoinQty
<1>2. - q \in Int /\ CoinQty(w, c) + (- q) >= 0
  BY CoinQtyNatural
<1>3. AddToNode(w, c, - q) \in Wallets /\ Single(AddToNode(w, c, - q))
  BY <1>1, <1>2, AddToNodeKeeps
<1> QED BY <1>3 DEF Debit

-----------------------------------------------------------------------------
(* What wallets hold and what they are worth                               *)

Prices == [Coin -> Nat]

\* The node that is looked for is the same after a quantity has changed.
LEMMA QtyAddToNode ==
  ASSUME NEW w \in Wallets, NEW c, NEW d, NEW q \in Int, HasCoin(w, c)
  PROVE  CoinQty(AddToNode(w, c, q), d) = CoinQty(w, d) + (IF d = c THEN q ELSE 0)
<1> DEFINE i == FindCoin(w, c)
           j == FindCoin(w, d)
           v == AddToNode(w, c, q)
<1>1. i \in DOMAIN w /\ w[i].type = c
  BY FindCoinFinds
<1>2. /\ DOMAIN v = DOMAIN w
      /\ \A k \in DOMAIN w : w[k] \in CoinNode(Coin)
      /\ \A k \in DOMAIN w : v[k] = IF k = i THEN [w[i] EXCEPT !.qtd = @ + q] ELSE w[k]
  BY <1>1, WalletNodes, ElementOfSeq DEF AddToNode, Wallets
<1>3. \A k \in DOMAIN w : /\ v[k].type = w[k].type
                          /\ v[k].qtd = w[k].qtd + (IF k = i THEN q ELSE 0)
                          /\ w[k].qtd \in Nat
  BY <1>2 DEF CoinNode
<1>4. NodesOf(v, d) = NodesOf(w, d)
  BY <1>2, <1>3 DEF NodesOf
<1>5. FindCoin(v, d) = j /\ HasCoin(v, d) = HasCoin(w, d)
  BY <1>4 DEF FindCoin, HasCoin
<1>6. HasCoin(w, d) => j \in DOMAIN w /\ w[j].type = d
  BY FindCoinFinds
<1> HIDE DEF v, i, j
<1>7. CASE ~ HasCoin(w, d)
  BY <1>5, <1>7 DEF CoinQty, v
<1>8. CASE HasCoin(w, d)
  <2>1. d = c => j = i
    BY DEF i, j
  <2>2. d # c => j # i
    BY <1>1, <1>6, <1>8
  <2>3. v[j].qtd = w[j].qtd + (IF j = i THEN q ELSE 0)
    BY <1>3, <1>6, <1>8
  <2>4. CoinQty(v, d) = v[j].qtd /\ CoinQty(w, d) = w[j].qtd
    BY <1>5, <1>8 DEF CoinQty, j
  <2>5. j = i <=> d = c
    BY <2>1, <2>2
  <2> QED BY <2>3, <2>4, <2>5 DEF v
<1> QED BY <1>7, <1>8

\* A node is appended empty.
LEMMA QtyWithCoin ==
  ASSUME NEW w \in Wallets, NEW c \in Coin, NEW d
  PROVE  CoinQty(WithCoin(w, c), d) = CoinQty(w, d)
<1> DEFINE e == [type |-> c, qtd |-> 0]
           v == Append(w, e)
<1>1. CASE HasCoin(w, c)
  BY <1>1 DEF WithCoin
<1>2. CASE ~ HasCoin(w, c)
  <2>1. e \in CoinNode(Coin)
    BY DEF CoinNode
  <2>2. /\ v \in Seq(CoinNode(Coin)) /\ Len(v) = Len(w) + 1 /\ v[Len(w) + 1] = e
        /\ \A i \in 1 .. Len(w) : v[i] = w[i]
    BY <2>1, AppendProperties DEF Wallets
  <2>3. PICK n \in Nat : n = Len(w) /\ DOMAIN w = 1 .. n
    BY WalletNodes
  <2>4. DOMAIN v = 1 .. n + 1 /\ v[n + 1].type = c /\ v[n + 1].qtd = 0
        /\ \A i \in 1 .. n : v[i] = w[i]
    BY <2>2, <2>3, LenProperties
  <2>5. WithCoin(w, c) = v
    BY <1>2 DEF WithCoin, AppendCoin
  <2> HIDE DEF v
  <2>6. CASE d = c
    <3>1. NodesOf(v, d) = {n + 1} /\ NodesOf(w, d) = {}
      BY <1>2, <2>3, <2>4, <2>6 DEF HasCoin, NodesOf
    <3>2. FindCoin(v, d) = n + 1 /\ HasCoin(v, d) /\ ~ HasCoin(w, d)
      BY <3>1 DEF FindCoin, HasCoin
    <3> QED BY <2>4, <2>5, <3>2 DEF CoinQty
  <2>7. CASE d # c
    <3>1. NodesOf(v, d) = NodesOf(w, d)
      BY <2>3, <2>4, <2>7 DEF NodesOf
    <3>2. FindCoin(v, d) = FindCoin(w, d) /\ HasCoin(v, d) = HasCoin(w, d)
      BY <3>1 DEF FindCoin, HasCoin
    <3>3. HasCoin(w, d) => FindCoin(w, d) \in 1 .. n
      BY <2>3, FindCoinFinds
    <3> QED BY <2>4, <2>5, <3>2, <3>3 DEF CoinQty
  <2> QED BY <2>6, <2>7
<1> QED BY <1>1, <1>2

LEMMA QtyCredit ==
  ASSUME NEW w \in Wallets, Single(w), NEW c \in Coin, NEW q \in Nat, NEW d
  PROVE  CoinQty(Credit(w, c, q), d) = CoinQty(w, d) + (IF d = c THEN q ELSE 0)
<1> DEFINE v == WithCoin(w, c)
<1>1. v \in Wallets /\ HasCoin(v, c) /\ CoinQty(v, d) = CoinQty(w, d)
  BY WithCoinKeeps, QtyWithCoin
<1> HIDE DEF v
<1>2. CoinQty(AddToNode(v, c, q), d) = CoinQty(v, d) + (IF d = c THEN q ELSE 0)
  BY <1>1, QtyAddToNode
<1> QED BY <1>1, <1>2 DEF Credit, v

LEMMA QtyDebit ==
  ASSUME NEW w \in Wallets, NEW c \in Coin, NEW q \in Nat, HasCoin(w, c), NEW d
  PROVE  CoinQty(Debit(w, c, q), d) = CoinQty(w, d) - (IF d = c THEN q ELSE 0)
<1>1. - q \in Int
  OBVIOUS
<1>2. CoinQty(AddToNode(w, c, - q), d) = CoinQty(w, d) + (IF d = c THEN - q ELSE 0)
  BY <1>1, QtyAddToNode
<1> QED BY <1>2, CoinQtyNatural DEF Debit

LEMMA Products ==
  /\ \A a, b \in Int : a * b \in Int
  /\ \A a, b \in Nat : a * b \in Nat
  /\ \A a, b, p \in Int : (a + b) * p = a * p + b * p
  /\ \A a, b, p \in Int : (a - b) * p = a * p - b * p
  /\ \A p \in Int : 0 * p = 0
  /\ \A a, p \in Int : (- a) * p = - (a * p)
  /\ \A a, b \in Int : a * b = b * a
BY SMT

\* A wallet's worth is a sum over its nodes.
LEMMA WorthType ==
  ASSUME NEW w \in Wallets, NEW price \in Prices
  PROVE  /\ WalletWorth(w, price) \in Nat
         /\ WalletWorth(w, price)
              = SumFunctionOnSet([i \in DOMAIN w |-> w[i].qtd * price[w[i].type]], DOMAIN w)
         /\ IsFiniteSet(DOMAIN w)
         /\ \A i \in DOMAIN w : w[i].qtd * price[w[i].type] \in Nat
<1> DEFINE f == [i \in DOMAIN w |-> w[i].qtd * price[w[i].type]]
<1>1. \A i \in DOMAIN w : w[i].qtd * price[w[i].type] \in Nat
  BY WalletNodes, Products DEF Prices
<1>2. IsFiniteSet(DOMAIN w)
  BY WalletNodes, FS_Interval
<1>3. WalletWorth(w, price) = SumFunctionOnSet(f, DOMAIN w)
  BY DEF WalletWorth, SumFunction
<1>4. \A i \in DOMAIN w : f[i] \in Nat
  BY <1>1
<1> HIDE DEF f
<1>5. SumFunctionOnSet(f, DOMAIN w) \in Nat
  BY <1>2, <1>4, SumNatural
<1> QED BY <1>1, <1>2, <1>3, <1>5 DEF f

LEMMA WorthAddToNode ==
  ASSUME NEW w \in Wallets, NEW price \in Prices, NEW c \in Coin, NEW q \in Int,
         HasCoin(w, c)
  PROVE  WalletWorth(AddToNode(w, c, q), price) = WalletWorth(w, price) + q * price[c]
<1> DEFINE i == FindCoin(w, c)
           v == AddToNode(w, c, q)
           f == [k \in DOMAIN w |-> w[k].qtd * price[w[k].type]]
           g == [k \in DOMAIN v |-> v[k].qtd * price[v[k].type]]
<1>1. i \in DOMAIN w /\ w[i].type = c
  BY FindCoinFinds
<1>2. /\ DOMAIN v = DOMAIN w
      /\ \A k \in DOMAIN w : w[k] \in CoinNode(Coin)
      /\ \A k \in DOMAIN w : v[k] = IF k = i THEN [w[i] EXCEPT !.qtd = @ + q] ELSE w[k]
  BY <1>1, WalletNodes, ElementOfSeq DEF AddToNode, Wallets
<1>3. \A k \in DOMAIN w : k # i => g[k] = f[k]
  BY <1>2
<1>4. w[i].qtd \in Nat /\ price[c] \in Nat
  BY <1>1, WalletNodes DEF Prices
<1>5. g[i] = (w[i].qtd + q) * price[c] /\ f[i] = w[i].qtd * price[c]
  BY <1>1, <1>2 DEF CoinNode
<1>6. g[i] - f[i] = q * price[c]
  <2>1. (w[i].qtd + q) * price[c] = w[i].qtd * price[c] + q * price[c]
    BY <1>4, Products
  <2>2. w[i].qtd * price[c] \in Int /\ q * price[c] \in Int
    BY <1>4, Products
  <2> QED BY <1>5, <2>1, <2>2
<1>7. \A k \in DOMAIN w : f[k] \in Int
  <2>1. \A k \in DOMAIN w : w[k].qtd * price[w[k].type] \in Nat
    BY WorthType
  <2> QED BY <2>1
<1>8. \A k \in DOMAIN w : g[k] \in Int
  <2>1. g[i] \in Int
    BY <1>4, <1>5, Products
  <2> QED BY <1>3, <1>7, <2>1
<1>9. WalletWorth(v, price) = SumFunctionOnSet(g, DOMAIN w)
  BY <1>2 DEF WalletWorth, SumFunction
<1>10. WalletWorth(w, price) = SumFunctionOnSet(f, DOMAIN w) /\ IsFiniteSet(DOMAIN w)
  BY WorthType
<1> HIDE DEF f, g, i
<1>11. SumFunctionOnSet(g, DOMAIN w) = SumFunctionOnSet(f, DOMAIN w) + (g[i] - f[i])
  BY <1>1, <1>3, <1>7, <1>8, <1>10, SumChange
<1> QED BY <1>6, <1>9, <1>10, <1>11

LEMMA WorthWithCoin ==
  ASSUME NEW w \in Wallets, NEW price \in Prices, NEW c \in Coin
  PROVE  WalletWorth(WithCoin(w, c), price) = WalletWorth(w, price)
<1> DEFINE e == [type |-> c, qtd |-> 0]
           v == Append(w, e)
           f == [k \in DOMAIN w |-> w[k].qtd * price[w[k].type]]
           g == [k \in DOMAIN v |-> v[k].qtd * price[v[k].type]]
<1>1. CASE HasCoin(w, c)
  BY <1>1 DEF WithCoin
<1>2. CASE ~ HasCoin(w, c)
  <2>1. e \in CoinNode(Coin)
    BY DEF CoinNode
  <2>2. /\ v \in Seq(CoinNode(Coin)) /\ Len(v) = Len(w) + 1 /\ v[Len(w) + 1] = e
        /\ \A i \in 1 .. Len(w) : v[i] = w[i]
    BY <2>1, AppendProperties DEF Wallets
  <2>3. PICK n \in Nat : n = Len(w) /\ DOMAIN w = 1 .. n
    BY WalletNodes
  <2>4. DOMAIN v = (1 .. n) \cup {n + 1} /\ n + 1 \notin 1 .. n
        /\ v[n + 1].type = c /\ v[n + 1].qtd = 0 /\ \A i \in 1 .. n : v[i] = w[i]
    BY <2>2, <2>3, LenProperties
  <2>5. WithCoin(w, c) = v
    BY <1>2 DEF WithCoin, AppendCoin
  <2> HIDE DEF v
  <2>6. DOMAIN v = 1 .. n + 1
    BY <2>2, <2>3, LenProperties
  <2>7. g[n + 1] = 0
    <3>1. price[c] \in Int
      BY DEF Prices
    <3> QED BY <2>4, <2>6, <3>1, Products
  <2>8. \A i \in 1 .. n : f[i] \in Int /\ g[i] = f[i]
    <3> SUFFICES ASSUME NEW i \in 1 .. n PROVE f[i] \in Int /\ g[i] = f[i]
      OBVIOUS
    <3>1. f[i] \in Int
      <4>1. \A k \in DOMAIN w : w[k].qtd * price[w[k].type] \in Nat
        BY WorthType
      <4> QED BY <2>3, <4>1
    <3>2. i \in DOMAIN v /\ v[i] = w[i]
      BY <2>4, <2>6
    <3>3. g[i] = f[i]
      BY <2>3, <3>2
    <3> QED BY <3>1, <3>3
  <2>9. WalletWorth(v, price) = SumFunctionOnSet(g, (1 .. n) \cup {n + 1})
    BY <2>4 DEF WalletWorth, SumFunction
  <2>10. WalletWorth(w, price) = SumFunctionOnSet(f, 1 .. n) /\ IsFiniteSet(1 .. n)
    BY <2>3, WorthType
  <2>11. WalletWorth(w, price) \in Nat
    BY WorthType
  <2> HIDE DEF f, g
  <2>12. g[n + 1] \in Int /\ n + 1 \notin 1 .. n
    BY <2>4, <2>7
  <2>13. SumFunctionOnSet(g, (1 .. n) \cup {n + 1}) = SumFunctionOnSet(f, 1 .. n) + g[n + 1]
    <3>1. PICK I, m : I = 1 .. n /\ m = n + 1
      OBVIOUS
    <3>2. IsFiniteSet(I) /\ m \notin I /\ g[m] \in Int
          /\ \A i \in I : f[i] \in Int /\ g[i] = f[i]
      BY <2>8, <2>10, <2>12, <3>1
    <3>3. SumFunctionOnSet(g, I \cup {m}) = SumFunctionOnSet(f, I) + g[m]
      BY <3>2, SumAdd
    <3> QED BY <3>1, <3>3
  <2> QED BY <2>5, <2>7, <2>9, <2>10, <2>11, <2>13
<1> QED BY <1>1, <1>2

LEMMA WorthCredit ==
  ASSUME NEW w \in Wallets, Single(w), NEW price \in Prices, NEW c \in Coin, NEW q \in Nat
  PROVE  WalletWorth(Credit(w, c, q), price) = WalletWorth(w, price) + q * price[c]
<1> DEFINE v == WithCoin(w, c)
<1>1. v \in Wallets /\ HasCoin(v, c) /\ WalletWorth(v, price) = WalletWorth(w, price)
  BY WithCoinKeeps, WorthWithCoin
<1> HIDE DEF v
<1>2. WalletWorth(AddToNode(v, c, q), price) = WalletWorth(v, price) + q * price[c]
  BY <1>1, WorthAddToNode
<1> QED BY <1>1, <1>2 DEF Credit, v

LEMMA WorthDebit ==
  ASSUME NEW w \in Wallets, NEW price \in Prices, NEW c \in Coin, NEW q \in Nat,
         HasCoin(w, c)
  PROVE  WalletWorth(Debit(w, c, q), price) = WalletWorth(w, price) - q * price[c]
<1>1. - q \in Int /\ price[c] \in Int
  BY DEF Prices
<1>2. WalletWorth(AddToNode(w, c, - q), price) = WalletWorth(w, price) + (- q) * price[c]
  BY <1>1, WorthAddToNode
<1>3. (- q) * price[c] = - (q * price[c]) /\ q * price[c] \in Int
  BY <1>1, Products
<1>4. WalletWorth(w, price) \in Nat
  BY WorthType
<1> QED BY <1>2, <1>3, <1>4 DEF Debit

-----------------------------------------------------------------------------
(* The record of transactions                                              *)

Role == {"sender", "receiver"}

\* The transactions that move coins of c from (or to) u, and what each moves.
MovedBy(record, u, c, role) ==
  {i \in DOMAIN record : record[i].coin = c /\ record[i][role] = u}

LEMMA RecordNodes ==
  ASSUME NEW record \in Seq(Transaction)
  PROVE  /\ Len(record) \in Nat /\ DOMAIN record = 1 .. Len(record)
         /\ \A i \in DOMAIN record : record[i].qtd \in Nat
<1>1. Len(record) \in Nat /\ DOMAIN record = 1 .. Len(record)
  BY LenProperties
<1>2. \A i \in DOMAIN record : record[i] \in Transaction
  BY <1>1, ElementOfSeq
<1>3. \A i \in DOMAIN record : record[i].qtd \in Amount
  BY <1>2 DEF Transaction
<1> QED BY <1>1, <1>3, AmountAssumption

LEMMA MovedType ==
  ASSUME NEW record \in Seq(Transaction), NEW u, NEW c, NEW role
  PROVE  /\ IsFiniteSet(MovedBy(record, u, c, role))
         /\ Moved(record, u, c, role) \in Nat
<1> DEFINE f == [i \in DOMAIN record |-> record[i].qtd]
           I == MovedBy(record, u, c, role)
<1>1. IsFiniteSet(I)
  <2>1. IsFiniteSet(DOMAIN record) /\ I \subseteq DOMAIN record
    BY RecordNodes, FS_Interval DEF MovedBy
  <2> QED BY <2>1, FS_Subset
<1>2. \A i \in I : f[i] \in Nat
  BY RecordNodes DEF MovedBy
<1>3. Moved(record, u, c, role) = SumFunctionOnSet(f, I)
  BY DEF Moved, MovedBy
<1> HIDE DEF f, I
<1>4. SumFunctionOnSet(f, I) \in Nat
  BY <1>1, <1>2, SumNatural
<1> QED BY <1>1, <1>3, <1>4 DEF I

LEMMA MovedNothing ==
  ASSUME NEW u, NEW c, NEW role
  PROVE  Moved(<<>>, u, c, role) = 0
<1>1. {i \in DOMAIN <<>> : <<>>[i].coin = c /\ <<>>[i][role] = u} = {}
  BY EmptySeq
<1> QED BY <1>1, SumEmpty DEF Moved

\* One transaction more.
LEMMA MovedAppend ==
  ASSUME NEW record \in Seq(Transaction), NEW t \in Transaction,
         NEW u, NEW c, NEW role \in Role
  PROVE  Moved(Append(record, t), u, c, role)
           = Moved(record, u, c, role) + (IF t.coin = c /\ t[role] = u THEN t.qtd ELSE 0)
<1> DEFINE v == Append(record, t)
           f == [i \in DOMAIN record |-> record[i].qtd]
           g == [i \in DOMAIN v |-> v[i].qtd]
           I == MovedBy(record, u, c, role)
           J == MovedBy(v, u, c, role)
<1>1. PICK n \in Nat : n = Len(record) /\ DOMAIN record = 1 .. n
  BY RecordNodes
<1>2. /\ v \in Seq(Transaction) /\ Len(v) = n + 1 /\ v[n + 1] = t
      /\ \A i \in 1 .. n : v[i] = record[i]
  BY <1>1, AppendProperties
<1>3. DOMAIN v = 1 .. n + 1
  BY <1>2, RecordNodes
<1> HIDE DEF v
<1>4. Moved(v, u, c, role) = SumFunctionOnSet(g, J)
  BY DEF Moved, MovedBy
<1>5. /\ Moved(record, u, c, role) = SumFunctionOnSet(f, I)
      /\ IsFiniteSet(I) /\ Moved(record, u, c, role) \in Nat
  <2>1. Moved(record, u, c, role) = SumFunctionOnSet(f, I)
    BY DEF Moved, MovedBy
  <2>2. IsFiniteSet(I) /\ Moved(record, u, c, role) \in Nat
    BY MovedType
  <2> QED BY <2>1, <2>2
<1>6. n + 1 \notin I /\ I \subseteq 1 .. n
  BY <1>1 DEF MovedBy
<1>7. \A i \in I : f[i] \in Int /\ g[i] = f[i]
  <2> SUFFICES ASSUME NEW i \in 1 .. n PROVE f[i] \in Int /\ g[i] = f[i]
    BY <1>6
  <2>1. f[i] \in Int
    BY <1>1, RecordNodes
  <2>2. i \in DOMAIN v /\ v[i] = record[i]
    BY <1>2, <1>3
  <2>3. g[i] = f[i]
    BY <1>1, <2>2
  <2> QED BY <2>1, <2>3
<1>8. g[n + 1] = t.qtd /\ t.qtd \in Int
  <2>1. t.qtd \in Amount
    BY DEF Transaction
  <2>2. n + 1 \in DOMAIN v
    BY <1>3
  <2>3. g[n + 1] = v[n + 1].qtd
    BY <2>2
  <2>4. t.qtd \in Nat
    BY <2>1, AmountAssumption
  <2> QED BY <1>2, <2>3, <2>4
<1>9. J = IF t.coin = c /\ t[role] = u THEN I \cup {n + 1} ELSE I
  <2>1. \A i \in 1 .. n : i \in J <=> i \in I
    BY <1>1, <1>2, <1>3 DEF MovedBy
  <2>2. n + 1 \in J <=> t.coin = c /\ t[role] = u
    BY <1>2, <1>3 DEF MovedBy
  <2>3. J \subseteq (1 .. n) \cup {n + 1}
    BY <1>3 DEF MovedBy
  <2>4. PICK m : m = n + 1
    OBVIOUS
  <2> HIDE DEF I, J
  <2>5. /\ \A i \in 1 .. n : i \in J <=> i \in I
        /\ m \in J <=> t.coin = c /\ t[role] = u
        /\ J \subseteq (1 .. n) \cup {m} /\ I \subseteq 1 .. n /\ m \notin 1 .. n
    BY <1>6, <2>1, <2>2, <2>3, <2>4
  <2>6. J = IF t.coin = c /\ t[role] = u THEN I \cup {m} ELSE I
    <3>1. CASE m \in J
      BY <2>5, <3>1
    <3>2. CASE m \notin J
      <4>1. J \subseteq I /\ I \subseteq J
        BY <2>5, <3>2
      <4>2. J = I
        BY <4>1
      <4> QED BY <2>5, <3>2, <4>2
    <3> QED BY <3>1, <3>2
  <2> QED BY <2>4, <2>6
<1> HIDE DEF f, g, I, J
<1>10. CASE t.coin = c /\ t[role] = u
  <2>1. SumFunctionOnSet(g, I \cup {n + 1}) = SumFunctionOnSet(f, I) + g[n + 1]
    <3>1. PICK m : m = n + 1
      OBVIOUS
    <3>2. IsFiniteSet(I) /\ m \notin I /\ g[m] \in Int
          /\ \A i \in I : f[i] \in Int /\ g[i] = f[i]
      BY <1>5, <1>6, <1>7, <1>8, <3>1
    <3>3. SumFunctionOnSet(g, I \cup {m}) = SumFunctionOnSet(f, I) + g[m]
      BY <3>2, SumAdd
    <3> QED BY <3>1, <3>3
  <2> QED BY <1>4, <1>5, <1>8, <1>9, <1>10, <2>1 DEF v
<1>11. CASE ~ (t.coin = c /\ t[role] = u)
  <2>1. SumFunctionOnSet(f, I) = SumFunctionOnSet(g, I)
    BY <1>5, <1>7, SumAgree
  <2> QED BY <1>4, <1>5, <1>9, <1>11, <2>1 DEF v
<1> QED BY <1>10, <1>11

\* Whether the transaction stays in the queue or its head goes to the block, what is
\* recorded grows by that transaction.
LEMMA RecordedAppend ==
  ASSUME TypeOK, NEW t \in Transaction, SendToBlock(Append(pending, t))
  PROVE  Recorded' = Append(Recorded, t)
<1> DEFINE p == Append(pending, t)
<1>1. pending \in Seq(Transaction) /\ included \in Seq(Transaction)
  BY DEF TypeOK
<1>2. p \in Seq(Transaction) /\ p = pending \o <<t>> /\ p # <<>>
  BY <1>1, AppendProperties, AppendIsConcat
<1>3. <<t>> \in Seq(Transaction)
  OBVIOUS
<1>4. included \o p = Append(Recorded, t)
  <2>1. included \o (pending \o <<t>>) = (included \o pending) \o <<t>>
    BY <1>1, <1>3, ConcatAssociative
  <2>2. included \o pending \in Seq(Transaction)
    BY <1>1, ConcatProperties
  <2> QED BY <1>2, <2>1, <2>2, AppendIsConcat DEF Recorded
<1>5. Head(p) \in Transaction /\ Tail(p) \in Seq(Transaction) /\ p = <<Head(p)>> \o Tail(p)
  <2> HIDE DEF p
  <2>1. Head(p) \in Transaction /\ Tail(p) \in Seq(Transaction)
    BY <1>2, HeadTailProperties
  <2>2. PICK h, r : h = Head(p) /\ r = Tail(p)
    OBVIOUS
  <2>3. /\ <<h>> \in Seq(Transaction) /\ Len(<<h>>) = 1 /\ r \in Seq(Transaction)
        /\ Len(p) \in Nat /\ Len(r) = Len(p) - 1 /\ Len(r) \in Nat
        /\ \A i \in 1 .. Len(r) : r[i] = p[i + 1]
    BY <1>2, <2>1, <2>2, HeadTailProperties, LenProperties
  <2>4. /\ <<h>> \o r \in Seq(Transaction) /\ Len(<<h>> \o r) = 1 + Len(r)
        /\ \A i \in 1 .. 1 + Len(r) : (<<h>> \o r)[i] = IF i <= 1 THEN <<h>>[i] ELSE r[i - 1]
    BY <2>3, ConcatProperties
  <2>5. \A i \in 1 .. Len(p) : p[i] = (<<h>> \o r)[i]
    <3> SUFFICES ASSUME NEW i \in 1 .. Len(p) PROVE p[i] = (<<h>> \o r)[i]
      OBVIOUS
    <3>1. CASE i = 1
      BY <3>1, <2>2, <2>3, <2>4
    <3>2. CASE i # 1
      <4>1. i - 1 \in 1 .. Len(r) /\ i \in 1 .. 1 + Len(r) /\ ~ i <= 1
        BY <3>2, <2>3
      <4>2. (<<h>> \o r)[i] = r[i - 1] /\ r[i - 1] = p[(i - 1) + 1]
        BY <4>1, <2>3, <2>4
      <4>3. (i - 1) + 1 = i
        BY <2>3
      <4> QED BY <4>2, <4>3
    <3> QED BY <3>1, <3>2
  <2>6. p = <<h>> \o r
    BY <1>2, <2>3, <2>4, <2>5, SeqEqual
  <2> QED BY <2>1, <2>2, <2>6
<1>6. Append(included, Head(p)) \o Tail(p) = included \o p
  <2> HIDE DEF p
  <2>1. Append(included, Head(p)) = included \o <<Head(p)>> /\ <<Head(p)>> \in Seq(Transaction)
    BY <1>1, <1>5, AppendIsConcat
  <2>2. (included \o <<Head(p)>>) \o Tail(p) = included \o (<<Head(p)>> \o Tail(p))
    BY <1>1, <1>5, <2>1, ConcatAssociative
  <2> QED BY <1>5, <2>1, <2>2
<1> HIDE DEF p
<1>7. included' \o pending' = included \o p
  BY <1>6 DEF SendToBlock, p
<1> QED BY <1>4, <1>7 DEF Recorded

-----------------------------------------------------------------------------
(* The invariant                                                           *)

IInv == TypeOK /\ OneNodePerCoin /\ NothingPendingWhileOpen

\* The part of it about one wallet.
LEMMA WalletsSound ==
  ASSUME TypeOK, OneNodePerCoin, NEW u \in User
  PROVE  coins[u] \in Wallets /\ Single(coins[u])
BY DEF TypeOK, OneNodePerCoin, Wallets, Single

\* Wallets that are sound one by one.
LEMMA SoundWallets ==
  ASSUME coins' \in [User -> Wallets], \A u \in User : Single(coins'[u])
  PROVE  coins' \in [User -> Seq(CoinNode(Coin))] /\ OneNodePerCoin'
BY DEF OneNodePerCoin, Wallets, Single

LEMMA InitIInv == Init => IInv
<1> SUFFICES ASSUME Init PROVE IInv
  OBVIOUS
<1>1. <<>> \in Seq(CoinNode(Coin)) /\ <<>> \in Seq(Transaction) /\ DOMAIN <<>> = {}
  BY EmptySeq
<1>2. TypeOK
  BY <1>1, WindowAssumption DEF Init, TypeOK
<1>3. OneNodePerCoin
  BY <1>1 DEF Init, OneNodePerCoin
<1>4. NothingPendingWhileOpen
  BY DEF Init, NothingPendingWhileOpen
<1> QED BY <1>2, <1>3, <1>4 DEF IInv

\* A restart ends where a first boot does.
LEMMA RestartStep ==
  ASSUME Restart
  PROVE  IInv'
<1>1. <<>> \in Seq(CoinNode(Coin)) /\ <<>> \in Seq(Transaction) /\ DOMAIN <<>> = {}
  BY EmptySeq
<1>2. TypeOK'
  BY <1>1, WindowAssumption DEF Restart, TypeOK
<1>3. OneNodePerCoin'
  BY <1>1 DEF Restart, OneNodePerCoin
<1>4. NothingPendingWhileOpen'
  BY DEF Restart, NothingPendingWhileOpen
<1> QED BY <1>2, <1>3, <1>4 DEF IInv

LEMMA RefreshTyped ==
  ASSUME TypeOK, RefreshPrices
  PROVE  preco' \in [Coin -> Price \cup {0}] /\ \A c \in Coin : preco'[c] \in Nat
<1>1. preco' \in [Coin -> Price \cup {0}]
  BY DEF RefreshPrices, TypeOK
<1>2. \A x \in Price \cup {0} : x \in Nat
  BY AmountAssumption
<1>3. \A c \in Coin : preco'[c] \in Price \cup {0}
  BY <1>1
<1> QED BY <1>1, <1>2, <1>3

LEMMA ProductNatural == \A m, n \in Nat : m * n \in Nat
BY SMT

\* buy_coins
LEMMA BuyStep ==
  ASSUME IInv, NEW u \in User, NEW c \in Coin, NEW q \in Amount, BuyCoins(u, c, q)
  PROVE  IInv'
<1> DEFINE w == Credit(coins[u], c, q)
<1>1. TypeOK /\ OneNodePerCoin
  BY DEF IInv
<1>2. q \in Nat /\ preco' \in [Coin -> Price \cup {0}] /\ preco'[c] \in Nat
  BY <1>1, RefreshTyped, AmountAssumption DEF BuyCoins
<1>3. preco'[c] * q \in Nat /\ balance[u] \in Nat /\ balance[u] >= preco'[c] * q
  BY <1>1, <1>2, ProductNatural DEF BuyCoins, CanBuy, TypeOK
<1>4. balance' \in [User -> Nat]
  <2> DEFINE total == preco'[c] * q
  <2>1. total \in Nat /\ balance[u] \in Nat /\ balance[u] >= total
    BY <1>3
  <2>2. balance' = [balance EXCEPT ![u] = @ - total]
    BY DEF BuyCoins
  <2> HIDE DEF total
  <2> QED BY <1>1, <2>1, <2>2 DEF TypeOK
<1>5. w \in Wallets /\ Single(w)
  BY <1>1, <1>2, WalletsSound, CreditKeeps
<1>6. coins' = [coins EXCEPT ![u] = w]
  BY DEF BuyCoins
<1> HIDE DEF w
<1>7. coins' \in [User -> Wallets] /\ \A v \in User : Single(coins'[v])
  BY <1>1, <1>5, <1>6, WalletsSound DEF TypeOK, Wallets
<1>8. traded' \in [User -> [Coin -> Int]]
  BY <1>1, <1>2 DEF BuyCoins, TypeOK
<1>9. TypeOK' /\ OneNodePerCoin'
  BY <1>1, <1>2, <1>4, <1>7, <1>8, SoundWallets DEF BuyCoins, TypeOK
<1>10. NothingPendingWhileOpen'
  BY DEF BuyCoins, IInv, NothingPendingWhileOpen
<1> QED BY <1>9, <1>10 DEF IInv

\* merge_coins
LEMMA SwapStep ==
  ASSUME IInv, NEW u \in User, NEW src \in Coin, NEW dst \in Coin, NEW q \in Amount,
         SwapCoins(u, src, q, dst)
  PROVE  IInv'
<1> DEFINE n == (q * preco'[src]) \div preco'[dst]
           d == Debit(coins[u], src, q)
           w == Credit(d, dst, n)
<1>1. TypeOK /\ OneNodePerCoin
  BY DEF IInv
<1>2. /\ q \in Nat /\ preco' \in [Coin -> Price \cup {0}]
      /\ preco'[src] \in Nat /\ preco'[dst] \in Nat
  BY <1>1, RefreshTyped, AmountAssumption DEF SwapCoins
<1>3. n \in Nat
  <2>1. q * preco'[src] \in Nat /\ preco'[dst] > 0
    BY <1>2, ProductNatural DEF SwapCoins
  <2>2. \A k, m \in Nat : m > 0 => k \div m \in Nat
    BY SMT
  <2> QED BY <1>2, <2>1, <2>2
<1>4. q > 0 /\ CoinQty(coins[u], src) >= q
  BY DEF SwapCoins, CanMerge
<1>5. coins' = [coins EXCEPT ![u] = w]
  BY DEF SwapCoins, MergeCoins, MergeReceives
<1>6. traded' = [traded EXCEPT ![u][src] = @ - q, ![u][dst] = @ + n]
  BY DEF SwapCoins
<1>7. d \in Wallets /\ Single(d)
  BY <1>1, <1>2, <1>4, WalletsSound, DebitKeeps
<1> HIDE DEF n, d
<1>8. w \in Wallets /\ Single(w)
  BY <1>3, <1>7, CreditKeeps
<1> HIDE DEF w
<1>9. coins' \in [User -> Wallets] /\ \A v \in User : Single(coins'[v])
  BY <1>1, <1>5, <1>8, WalletsSound DEF TypeOK, Wallets
<1>10. traded' \in [User -> [Coin -> Int]]
  BY <1>1, <1>2, <1>3, <1>6 DEF TypeOK
<1>11. TypeOK' /\ OneNodePerCoin'
  BY <1>1, <1>2, <1>9, <1>10, SoundWallets DEF SwapCoins, TypeOK
<1>12. NothingPendingWhileOpen'
  BY DEF SwapCoins, IInv, NothingPendingWhileOpen
<1> QED BY <1>11, <1>12 DEF IInv

\* action_transfer.  The one transaction that can be at the head of the queue of an
\* open block is the transfer's own, and it is valid.
LEMMA TransferStep ==
  ASSUME IInv, NEW u \in users, NEW r \in users, NEW c \in Coin, NEW q \in Amount,
         Transfer(u, r, c, q)
  PROVE  IInv'
<1> DEFINE t == [sender |-> u, receiver |-> r, coin |-> c, qtd |-> q]
           p == Append(pending, t)
<1>1. TypeOK /\ OneNodePerCoin /\ u \in User /\ r \in User /\ users \subseteq User
  BY DEF IInv, TypeOK
<1>2. r # u /\ q \in Nat /\ q > 0 /\ CoinQty(coins[u], c) >= q
  BY AmountAssumption DEF Transfer, CanTransfer
<1>3. PICK w \in Credited(coins[r], c, q) :
        /\ coins' = [coins EXCEPT ![u] = Debit(@, c, q), ![r] = w]
        /\ lost' = IF w = coins[r] THEN [lost EXCEPT ![r][c] = @ + q] ELSE lost
  BY DEF Transfer
<1>4. w \in Wallets /\ Single(w)
  BY <1>1, <1>2, WalletsSound, CreditKeeps DEF Credited
<1>5. Debit(coins[u], c, q) \in Wallets /\ Single(Debit(coins[u], c, q))
  BY <1>1, <1>2, WalletsSound, DebitKeeps
<1>6. coins' \in [User -> Wallets] /\ \A v \in User : Single(coins'[v])
  <2> DEFINE d == Debit(coins[u], c, q)
  <2>1. coins' = [coins EXCEPT ![u] = d, ![r] = w] /\ d \in Wallets /\ Single(d)
    BY <1>3, <1>5
  <2> HIDE DEF d
  <2> QED BY <1>1, <1>2, <1>4, <2>1, WalletsSound DEF TypeOK, Wallets
<1>7. t \in Transaction /\ pending \in Seq(Transaction) /\ included \in Seq(Transaction)
  BY <1>1 DEF Transaction, TypeOK
<1>8. p \in Seq(Transaction) /\ p # <<>> /\ Len(p) = Len(pending) + 1
  BY <1>7, AppendProperties
<1>9. SendToBlock(p)
  BY DEF Transfer
<1>10. clock < BlockWindow => pending = <<>>
  BY DEF IInv, NothingPendingWhileOpen
<1>11. pending = <<>> => Head(p) = t /\ Tail(p) = <<>>
  BY <1>7, <1>8
<1>12. CheckTransaction(users, t)
  BY <1>2 DEF CheckTransaction
<1>13. clock < BlockWindow => pending' = <<>>
  BY <1>8, <1>9, <1>10, <1>11, <1>12 DEF SendToBlock, CanAcceptTransaction
<1>14. pending' \in Seq(Transaction) /\ included' \in Seq(Transaction)
  <2>1. Head(p) \in Transaction /\ Tail(p) \in Seq(Transaction)
    BY <1>8, HeadTailProperties
  <2>2. Append(included, Head(p)) \in Seq(Transaction)
    BY <1>7, <2>1, AppendProperties
  <2> HIDE DEF p
  <2> QED BY <1>7, <1>8, <1>9, <2>1, <2>2 DEF SendToBlock
<1>15. UNCHANGED <<users, balance, preco, clock, traded>>
  BY DEF Transfer
<1>16. lost' \in [User -> [Coin -> Nat]]
  BY <1>1, <1>2, <1>3 DEF TypeOK
<1> HIDE DEF t, p
<1>17. TypeOK' /\ OneNodePerCoin'
  BY <1>1, <1>6, <1>14, <1>15, <1>16, SoundWallets DEF TypeOK
<1> QED BY <1>13, <1>15, <1>17 DEF IInv, NothingPendingWhileOpen

\* The steps that touch no wallet and no transaction.
LEMMA OtherStep ==
  ASSUME IInv,
         \/ \E u \in User : Register(u)
         \/ \E u \in users, amount \in Amount : AddBalance(u, amount)
         \/ LivePrices
         \/ Tick
         \/ UNCHANGED vars
  PROVE  IInv'
<1>1. TypeOK /\ OneNodePerCoin /\ NothingPendingWhileOpen
  BY DEF IInv
<1>2. UNCHANGED <<coins, pending, included, traded, lost>>
  BY DEF Register, AddBalance, LivePrices, Tick, vars
<1>3. OneNodePerCoin'
  BY <1>1, <1>2 DEF OneNodePerCoin
<1>4. TypeOK' /\ NothingPendingWhileOpen'
  <2>1. CASE \E u \in User : Register(u)
    BY <2>1, <1>1, <1>2 DEF Register, TypeOK, NothingPendingWhileOpen
  <2>2. CASE \E u \in users, amount \in Amount : AddBalance(u, amount)
    <3>1. PICK u \in users, amount \in Amount : AddBalance(u, amount)
      BY <2>2
    <3>2. balance' \in [User -> Nat]
      BY <3>1, <1>1, AmountAssumption DEF AddBalance, TypeOK
    <3> QED BY <3>1, <3>2, <1>1, <1>2 DEF AddBalance, TypeOK, NothingPendingWhileOpen
  <2>3. CASE LivePrices
    <3>1. preco' \in [Coin -> Price \cup {0}]
      BY <2>3, <1>1, RefreshTyped DEF LivePrices
    <3> QED BY <2>3, <3>1, <1>1, <1>2 DEF LivePrices, TypeOK, NothingPendingWhileOpen
  <2>4. CASE Tick
    <3>1. clock' \in 0 .. MaxClock /\ (clock' < BlockWindow => clock < BlockWindow)
      BY <2>4, <1>1, WindowAssumption DEF Tick, TypeOK
    <3> QED BY <2>4, <3>1, <1>1, <1>2 DEF Tick, TypeOK, NothingPendingWhileOpen
  <2>5. CASE UNCHANGED vars
    BY <2>5, <1>1 DEF vars, TypeOK, NothingPendingWhileOpen
  <2> QED BY <2>1, <2>2, <2>3, <2>4, <2>5
<1> QED BY <1>3, <1>4 DEF IInv

LEMMA StepIInv == IInv /\ [Next]_vars => IInv'
<1> SUFFICES ASSUME IInv, [Next]_vars PROVE IInv'
  OBVIOUS
<1>1. users \subseteq User
  BY DEF IInv, TypeOK
<1>2. ASSUME NEW u \in users, NEW c \in Coin, NEW q \in Amount, BuyCoins(u, c, q)
      PROVE  IInv'
  BY <1>1, <1>2, BuyStep
<1>3. ASSUME NEW u \in users, NEW src \in Coin, NEW dst \in Coin, NEW q \in Amount,
             SwapCoins(u, src, q, dst)
      PROVE  IInv'
  BY <1>1, <1>3, SwapStep
<1>4. ASSUME NEW u \in users, NEW r \in users, NEW c \in Coin, NEW q \in Amount,
             Transfer(u, r, c, q)
      PROVE  IInv'
  BY <1>4, TransferStep
<1> QED BY <1>2, <1>3, <1>4, OtherStep, RestartStep DEF Next

LEMMA Invariance == Spec => []IInv
BY InitIInv, StepIInv, PTL DEF Spec

-----------------------------------------------------------------------------
(* The wallets match the transactions                                      *)

Inv == IInv /\ WalletsMatchTransactions

\* The equation for one user and one coin.
Matches(u, c) ==
  CoinQty(coins[u], c) + lost[u][c]
    = traded[u][c] + Moved(Recorded, u, c, "receiver") - Moved(Recorded, u, c, "sender")

\* What each term of the equation is.
LEMMA MatchTyped ==
  ASSUME TypeOK, NEW u \in User, NEW c \in Coin
  PROVE  /\ CoinQty(coins[u], c) \in Nat /\ lost[u][c] \in Nat /\ traded[u][c] \in Int
         /\ Recorded \in Seq(Transaction)
         /\ Moved(Recorded, u, c, "receiver") \in Nat /\ Moved(Recorded, u, c, "sender") \in Nat
<1>1. coins[u] \in Wallets /\ lost[u][c] \in Nat /\ traded[u][c] \in Int
  BY DEF TypeOK, Wallets
<1>2. CoinQty(coins[u], c) \in Nat
  BY <1>1, CoinQtyNatural
<1>3. Recorded \in Seq(Transaction)
  BY ConcatProperties DEF TypeOK, Recorded
<1> QED BY <1>1, <1>2, <1>3, MovedType

\* Nobody has anything, and nothing is recorded.
LEMMA MatchEmpty ==
  /\ Init => WalletsMatchTransactions
  /\ Restart => WalletsMatchTransactions'
<1>1. \A c : CoinQty(<<>>, c) = 0
  BY EmptySeq DEF CoinQty, HasCoin, NodesOf
<1>2. <<>> \o <<>> = <<>>
  BY EmptySeq, ConcatEmptySeq
<1>3. ASSUME Init PROVE WalletsMatchTransactions
  <2> SUFFICES ASSUME NEW u \in User, NEW c \in Coin PROVE Matches(u, c)
    BY DEF WalletsMatchTransactions, Matches
  <2>1. Recorded = <<>> /\ coins[u] = <<>> /\ lost[u][c] = 0 /\ traded[u][c] = 0
    BY <1>2, <1>3 DEF Init, Recorded
  <2> QED BY <1>1, <2>1, MovedNothing DEF Matches
<1>4. ASSUME Restart PROVE WalletsMatchTransactions'
  <2> SUFFICES ASSUME NEW u \in User, NEW c \in Coin PROVE Matches(u, c)'
    BY DEF WalletsMatchTransactions, Matches
  <2>1. Recorded' = <<>> /\ coins'[u] = <<>> /\ lost'[u][c] = 0 /\ traded'[u][c] = 0
    BY <1>2, <1>4 DEF Restart, Recorded
  <2> QED BY <1>1, <2>1, MovedNothing DEF Matches
<1> QED BY <1>3, <1>4

\* buy_coins: the wallet and the history grow alike.
LEMMA BuyMatches ==
  ASSUME Inv, NEW u \in User, NEW c \in Coin, NEW q \in Amount, BuyCoins(u, c, q)
  PROVE  WalletsMatchTransactions'
<1>1. TypeOK /\ OneNodePerCoin /\ q \in Nat
  BY AmountAssumption DEF Inv, IInv
<1> SUFFICES ASSUME NEW x \in User, NEW d \in Coin PROVE Matches(x, d)'
  BY DEF WalletsMatchTransactions, Matches
<1>2. Matches(x, d)
  BY DEF Inv, WalletsMatchTransactions, Matches
<1>3. lost' = lost /\ Recorded' = Recorded
  BY DEF BuyCoins, Recorded
<1>4. CoinQty(coins'[x], d) = CoinQty(coins[x], d) + (IF x = u /\ d = c THEN q ELSE 0)
  <2>1. CoinQty(coins[x], d) \in Nat
    BY <1>1, MatchTyped
  <2>2. CASE x = u
    <3>1. coins'[x] = Credit(coins[u], c, q)
      BY <1>1, <2>2 DEF BuyCoins, TypeOK
    <3> QED BY <1>1, <2>2, <3>1, WalletsSound, QtyCredit
  <2>3. CASE x # u
    BY <1>1, <2>1, <2>3 DEF BuyCoins, TypeOK
  <2> QED BY <2>2, <2>3
<1>5. traded'[x][d] = traded[x][d] + (IF x = u /\ d = c THEN q ELSE 0)
  BY <1>1 DEF BuyCoins, TypeOK
<1>6. /\ CoinQty(coins[x], d) \in Nat /\ lost[x][d] \in Nat /\ traded[x][d] \in Int
      /\ Moved(Recorded, x, d, "receiver") \in Nat /\ Moved(Recorded, x, d, "sender") \in Nat
  BY <1>1, MatchTyped
<1> QED BY <1>1, <1>2, <1>3, <1>4, <1>5, <1>6 DEF Matches

\* merge_coins: so they do for both coins.
LEMMA SwapMatches ==
  ASSUME Inv, NEW u \in User, NEW src \in Coin, NEW dst \in Coin, NEW q \in Amount,
         SwapCoins(u, src, q, dst)
  PROVE  WalletsMatchTransactions'
<1> DEFINE n == (q * preco'[src]) \div preco'[dst]
           w == Debit(coins[u], src, q)
<1>1. TypeOK /\ OneNodePerCoin /\ IInv' /\ q \in Nat
  BY SwapStep, AmountAssumption DEF Inv, IInv
<1>2. n \in Nat
  <2>1. preco'[src] \in Nat /\ preco'[dst] \in Nat /\ preco'[dst] > 0
    BY <1>1, RefreshTyped DEF SwapCoins
  <2>2. q * preco'[src] \in Nat
    BY <1>1, <2>1, ProductNatural
  <2>3. \A k, m \in Nat : m > 0 => k \div m \in Nat
    BY SMT
  <2> QED BY <2>1, <2>2, <2>3
<1>3. q > 0 /\ src # dst /\ HasCoin(coins[u], src) /\ CoinQty(coins[u], src) >= q
  BY DEF SwapCoins, CanMerge
<1> SUFFICES ASSUME NEW x \in User, NEW d \in Coin PROVE Matches(x, d)'
  BY DEF WalletsMatchTransactions, Matches
<1>4. Matches(x, d)
  BY DEF Inv, WalletsMatchTransactions, Matches
<1>5. lost' = lost /\ Recorded' = Recorded
  BY DEF SwapCoins, Recorded
<1>6. coins' = [coins EXCEPT ![u] = Credit(w, dst, n)]
  BY DEF SwapCoins, MergeCoins, MergeReceives
<1>7. traded' = [traded EXCEPT ![u][src] = @ - q, ![u][dst] = @ + n]
  BY DEF SwapCoins
<1>8. w \in Wallets /\ Single(w)
  BY <1>1, <1>3, WalletsSound, DebitKeeps
<1>9. CoinQty(w, d) = CoinQty(coins[u], d) - (IF d = src THEN q ELSE 0)
  BY <1>1, <1>3, WalletsSound, QtyDebit
<1> HIDE DEF n, w
<1>10. CoinQty(Credit(w, dst, n), d) = CoinQty(w, d) + (IF d = dst THEN n ELSE 0)
  BY <1>2, <1>8, QtyCredit
<1> DEFINE gain == IF x # u THEN 0 ELSE IF d = src THEN - q ELSE IF d = dst THEN n ELSE 0
<1>11. CoinQty(coins'[x], d) = CoinQty(coins[x], d) + gain
  <2>1. CoinQty(coins[x], d) \in Nat
    BY <1>1, MatchTyped
  <2>2. CASE x = u
    <3>1. coins'[x] = Credit(w, dst, n)
      BY <1>1, <1>6, <2>2 DEF TypeOK
    <3> QED BY <1>1, <1>2, <1>3, <1>9, <1>10, <2>1, <2>2, <3>1
  <2>3. CASE x # u
    BY <1>1, <1>6, <2>1, <2>3 DEF TypeOK
  <2> QED BY <2>2, <2>3
<1>12. traded'[x][d] = traded[x][d] + gain
  <2>1. traded[x][d] \in Int /\ traded \in [User -> [Coin -> Int]]
    BY <1>1 DEF TypeOK
  <2> QED BY <1>1, <1>2, <1>3, <1>7, <2>1
<1>13. gain \in Int
  BY <1>1, <1>2
<1>14. /\ CoinQty(coins[x], d) \in Nat /\ lost[x][d] \in Nat /\ traded[x][d] \in Int
       /\ Moved(Recorded, x, d, "receiver") \in Nat /\ Moved(Recorded, x, d, "sender") \in Nat
  BY <1>1, MatchTyped
<1> HIDE DEF gain
<1> QED BY <1>4, <1>5, <1>11, <1>12, <1>13, <1>14 DEF Matches

\* action_transfer: the record grows by the coins that leave one wallet, and that the
\* other, or the history, takes in.
LEMMA TransferMatches ==
  ASSUME Inv, NEW u \in users, NEW r \in users, NEW c \in Coin, NEW q \in Amount,
         Transfer(u, r, c, q)
  PROVE  WalletsMatchTransactions'
<1> DEFINE t == [sender |-> u, receiver |-> r, coin |-> c, qtd |-> q]
<1>1. TypeOK /\ OneNodePerCoin /\ u \in User /\ r \in User /\ q \in Nat
  BY AmountAssumption DEF Inv, IInv, TypeOK
<1>2. r # u /\ q > 0 /\ CoinQty(coins[u], c) >= q /\ HasCoin(coins[u], c)
  BY <1>1 DEF Transfer, CanTransfer, CoinQty
<1>3. PICK w \in Credited(coins[r], c, q) :
        /\ coins' = [coins EXCEPT ![u] = Debit(@, c, q), ![r] = w]
        /\ lost' = IF w = coins[r] THEN [lost EXCEPT ![r][c] = @ + q] ELSE lost
  BY DEF Transfer
<1>4. t \in Transaction
  BY <1>1 DEF Transaction
<1>5. Recorded' = Append(Recorded, t) /\ Recorded \in Seq(Transaction)
  <2>1. SendToBlock(Append(pending, t))
    BY DEF Transfer
  <2> HIDE DEF t
  <2> QED BY <1>1, <1>4, <2>1, RecordedAppend, MatchTyped
<1>6. traded' = traded
  BY DEF Transfer
<1> SUFFICES ASSUME NEW x \in User, NEW d \in Coin PROVE Matches(x, d)'
  BY DEF WalletsMatchTransactions, Matches
<1>7. Matches(x, d)
  BY DEF Inv, WalletsMatchTransactions, Matches
<1>8. /\ Moved(Recorded', x, d, "receiver")
           = Moved(Recorded, x, d, "receiver") + (IF d = c /\ x = r THEN q ELSE 0)
      /\ Moved(Recorded', x, d, "sender")
           = Moved(Recorded, x, d, "sender") + (IF d = c /\ x = u THEN q ELSE 0)
  <2>1. t.coin = c /\ t["receiver"] = r /\ t["sender"] = u /\ t.qtd = q
    OBVIOUS
  <2>2. "receiver" \in Role /\ "sender" \in Role
    BY DEF Role
  <2> HIDE DEF t
  <2>3. /\ Moved(Append(Recorded, t), x, d, "receiver") = Moved(Recorded, x, d, "receiver")
             + (IF t.coin = d /\ t["receiver"] = x THEN t.qtd ELSE 0)
        /\ Moved(Append(Recorded, t), x, d, "sender") = Moved(Recorded, x, d, "sender")
             + (IF t.coin = d /\ t["sender"] = x THEN t.qtd ELSE 0)
    BY <1>4, <1>5, <2>2, MovedAppend
  <2> QED BY <1>5, <2>1, <2>3
<1>9. CoinQty(coins'[x], d) + lost'[x][d]
        = CoinQty(coins[x], d) + lost[x][d]
            + (IF d = c /\ x = r THEN q ELSE 0) - (IF d = c /\ x = u THEN q ELSE 0)
  <2>1. CoinQty(coins[x], d) \in Nat /\ lost[x][d] \in Nat
    BY <1>1, MatchTyped
  <2>2. CASE x = u
    <3>1. coins'[x] = Debit(coins[u], c, q) /\ lost'[x][d] = lost[x][d]
      BY <1>1, <1>2, <1>3, <2>2 DEF TypeOK
    <3>2. CoinQty(Debit(coins[u], c, q), d) = CoinQty(coins[u], d) - (IF d = c THEN q ELSE 0)
      BY <1>1, <1>2, WalletsSound, QtyDebit
    <3> QED BY <1>1, <1>2, <2>1, <2>2, <3>1, <3>2
  <2>3. CASE x = r
    <3>1. coins'[x] = w
      BY <1>1, <1>3, <2>3 DEF TypeOK
    <3>2. CoinQty(Credit(coins[r], c, q), d) = CoinQty(coins[r], d) + (IF d = c THEN q ELSE 0)
      BY <1>1, WalletsSound, QtyCredit
    <3>3. Credit(coins[r], c, q) # coins[r]
      <4>1. CoinQty(Credit(coins[r], c, q), c) = CoinQty(coins[r], c) + q
        BY <1>1, WalletsSound, QtyCredit
      <4>2. CoinQty(coins[r], c) \in Nat
        BY <1>1, MatchTyped
      <4> QED BY <1>1, <1>2, <4>1, <4>2
    <3>4. CASE w = coins[r]
      <4>1. lost'[x][d] = lost[x][d] + (IF d = c THEN q ELSE 0)
        BY <1>1, <1>3, <2>3, <3>4 DEF TypeOK
      <4> QED BY <1>1, <1>2, <2>1, <2>3, <3>1, <3>4, <4>1
    <3>5. CASE w = Credit(coins[r], c, q)
      <4>1. lost'[x][d] = lost[x][d]
        BY <1>3, <3>3, <3>5
      <4> QED BY <1>1, <1>2, <2>1, <2>3, <3>1, <3>2, <3>5, <4>1
    <3> QED BY <3>4, <3>5 DEF Credited
  <2>4. CASE x # u /\ x # r
    <3>1. coins'[x] = coins[x] /\ lost'[x][d] = lost[x][d]
      BY <1>1, <1>3, <2>4 DEF TypeOK
    <3> QED BY <2>1, <2>4, <3>1
  <2> QED BY <2>2, <2>3, <2>4
<1>10. /\ CoinQty(coins[x], d) \in Nat /\ lost[x][d] \in Nat /\ traded[x][d] \in Int
       /\ Moved(Recorded, x, d, "receiver") \in Nat /\ Moved(Recorded, x, d, "sender") \in Nat
  BY <1>1, MatchTyped
<1> HIDE DEF t
<1> QED BY <1>1, <1>6, <1>7, <1>8, <1>9, <1>10 DEF Matches

LEMMA StepInv == Inv /\ [Next]_vars => Inv'
<1> SUFFICES ASSUME Inv, [Next]_vars PROVE WalletsMatchTransactions'
  BY StepIInv DEF Inv
<1>1. users \subseteq User /\ WalletsMatchTransactions
  BY DEF Inv, IInv, TypeOK
<1>2. ASSUME UNCHANGED <<coins, pending, included, traded, lost>>
      PROVE  WalletsMatchTransactions'
  BY <1>1, <1>2 DEF WalletsMatchTransactions, Recorded
<1>3. ASSUME NEW u \in User, Register(u) PROVE WalletsMatchTransactions'
  BY <1>2, <1>3 DEF Register
<1>4. ASSUME NEW u \in users, NEW amount \in Amount, AddBalance(u, amount)
      PROVE  WalletsMatchTransactions'
  BY <1>2, <1>4 DEF AddBalance
<1>5. CASE LivePrices
  BY <1>2, <1>5 DEF LivePrices
<1>6. ASSUME NEW u \in users, NEW c \in Coin, NEW q \in Amount, BuyCoins(u, c, q)
      PROVE  WalletsMatchTransactions'
  BY <1>1, <1>6, BuyMatches
<1>7. ASSUME NEW u \in users, NEW src \in Coin, NEW dst \in Coin, NEW q \in Amount,
             SwapCoins(u, src, q, dst)
      PROVE  WalletsMatchTransactions'
  BY <1>1, <1>7, SwapMatches
<1>8. ASSUME NEW u \in users, NEW r \in users, NEW c \in Coin, NEW q \in Amount,
             Transfer(u, r, c, q)
      PROVE  WalletsMatchTransactions'
  BY <1>8, TransferMatches
<1>9. CASE Tick
  BY <1>2, <1>9 DEF Tick
<1>10. CASE UNCHANGED vars
  BY <1>2, <1>10 DEF vars
<1> QED BY <1>3, <1>4, <1>5, <1>6, <1>7, <1>8, <1>9, <1>10, MatchEmpty DEF Next

LEMMA Matching == Spec => []Inv
<1>1. Init => Inv
  BY InitIInv, MatchEmpty DEF Inv
<1> QED BY <1>1, StepInv, PTL DEF Spec

-----------------------------------------------------------------------------
(* Value is kept                                                           *)

\* The parts of Worth: the wallets, and what transfers lost.
Held(w, price) == SumFunction([u \in User |-> WalletWorth(w[u], price)])
Gone(l, price) == SumFunction([u \in User |-> CoinsWorth(l[u], price)])

LEMMA WorthParts ==
  \A b, w, l, price : Worth(b, w, l, price) = SumFunction(b) + Held(w, price) + Gone(l, price)
BY DEF Worth, Held, Gone

\* A sum over the users of which one user's part changes.
LEMMA UserChange ==
  ASSUME NEW f \in [User -> Int], NEW u \in User, NEW n \in Int
  PROVE  /\ SumFunction(f) \in Int
         /\ SumFunction([f EXCEPT ![u] = n]) = SumFunction(f) + n - f[u]
<1> DEFINE g == [f EXCEPT ![u] = n]
<1>1. IsFiniteSet(User)
  BY FiniteAssumption
<1>2. g[u] = n /\ DOMAIN g = User /\ \A i \in User \ {u} : f[i] = g[i]
  OBVIOUS
<1>3. \A i \in User : f[i] \in Int /\ g[i] \in Int
  OBVIOUS
<1>4. SumFunction(f) = SumFunctionOnSet(f, User) /\ SumFunction(g) = SumFunctionOnSet(g, User)
  BY <1>2 DEF SumFunction
<1> HIDE DEF g
<1>5. SumFunctionOnSet(g, User) = SumFunctionOnSet(f, User) + (g[u] - f[u])
  BY <1>1, <1>2, <1>3, SumChange
<1>6. SumFunctionOnSet(f, User) \in Int
  BY <1>1, <1>3, SumInteger
<1>7. f[u] \in Int
  OBVIOUS
<1> QED BY <1>2, <1>4, <1>5, <1>6, <1>7 DEF g

LEMMA HeldChange ==
  ASSUME NEW w \in [User -> Wallets], NEW price \in Prices, NEW u \in User,
         NEW x \in Wallets
  PROVE  /\ Held(w, price) \in Int
         /\ Held([w EXCEPT ![u] = x], price)
              = Held(w, price) + WalletWorth(x, price) - WalletWorth(w[u], price)
<1> DEFINE f == [v \in User |-> WalletWorth(w[v], price)]
           n == WalletWorth(x, price)
<1>1. \A v \in User : WalletWorth(w[v], price) \in Int
  <2>1. \A v \in User : w[v] \in Wallets
    OBVIOUS
  <2>2. \A y \in Wallets : WalletWorth(y, price) \in Nat
    BY WorthType
  <2> QED BY <2>1, <2>2
<1>2. f \in [User -> Int] /\ n \in Int /\ f[u] = WalletWorth(w[u], price)
  <2>1. WalletWorth(x, price) \in Nat
    BY WorthType
  <2> QED BY <1>1, <2>1
<1>3. [v \in User |-> WalletWorth([w EXCEPT ![u] = x][v], price)] = [f EXCEPT ![u] = n]
  OBVIOUS
<1>4. /\ Held(w, price) = SumFunction(f)
      /\ Held([w EXCEPT ![u] = x], price) = SumFunction([f EXCEPT ![u] = n])
  BY <1>3 DEF Held
<1> HIDE DEF f
<1>5. /\ SumFunction(f) \in Int
      /\ SumFunction([f EXCEPT ![u] = n]) = SumFunction(f) + n - f[u]
  <2> HIDE DEF n
  <2> QED BY <1>2, UserChange
<1> QED BY <1>2, <1>4, <1>5

LEMMA CoinsWorthChange ==
  ASSUME NEW l \in [Coin -> Nat], NEW price \in Prices, NEW c \in Coin, NEW q \in Nat
  PROVE  /\ CoinsWorth(l, price) \in Int
         /\ CoinsWorth([l EXCEPT ![c] = @ + q], price) = CoinsWorth(l, price) + q * price[c]
<1> DEFINE m == [l EXCEPT ![c] = @ + q]
           f == [d \in Coin |-> l[d] * price[d]]
           g == [d \in Coin |-> m[d] * price[d]]
<1>1. IsFiniteSet(Coin)
  BY FiniteAssumption
<1>2. \A d \in Coin : l[d] * price[d] \in Int /\ m[d] * price[d] \in Int
  <2>1. \A d \in Coin : l[d] \in Int /\ m[d] \in Int /\ price[d] \in Int
    BY DEF Prices
  <2> QED BY <2>1, Products
<1>3. \A d \in Coin : f[d] \in Int /\ g[d] \in Int
  BY <1>2
<1>4. \A d \in Coin \ {c} : f[d] = g[d]
  OBVIOUS
<1>5. g[c] - f[c] = q * price[c]
  <2>1. l[c] \in Int /\ q \in Int /\ price[c] \in Int
    BY DEF Prices
  <2>2. (l[c] + q) * price[c] = l[c] * price[c] + q * price[c]
    BY <2>1, Products
  <2>3. l[c] * price[c] \in Int /\ q * price[c] \in Int
    BY <2>1, Products
  <2>4. g[c] = (l[c] + q) * price[c] /\ f[c] = l[c] * price[c]
    OBVIOUS
  <2> HIDE DEF f, g
  <2> QED BY <2>2, <2>3, <2>4
<1>6. /\ CoinsWorth(l, price) = SumFunctionOnSet(f, Coin)
      /\ CoinsWorth(m, price) = SumFunctionOnSet(g, Coin)
  BY DEF CoinsWorth, SumFunction
<1> HIDE DEF f, g, m
<1>7. SumFunctionOnSet(g, Coin) = SumFunctionOnSet(f, Coin) + (g[c] - f[c])
  BY <1>1, <1>3, <1>4, SumChange
<1>8. SumFunctionOnSet(f, Coin) \in Int
  BY <1>1, <1>3, SumInteger
<1> QED BY <1>5, <1>6, <1>7, <1>8 DEF m

LEMMA GoneChange ==
  ASSUME NEW l \in [User -> [Coin -> Nat]], NEW price \in Prices, NEW u \in User,
         NEW c \in Coin, NEW q \in Nat
  PROVE  /\ Gone(l, price) \in Int
         /\ Gone([l EXCEPT ![u][c] = @ + q], price) = Gone(l, price) + q * price[c]
<1> DEFINE m == [l EXCEPT ![u][c] = @ + q]
           f == [v \in User |-> CoinsWorth(l[v], price)]
           n == CoinsWorth(m[u], price)
<1>1. \A v \in User : CoinsWorth(l[v], price) \in Int
  BY CoinsWorthChange
<1>2. m[u] = [l[u] EXCEPT ![c] = @ + q] /\ \A v \in User \ {u} : m[v] = l[v]
  OBVIOUS
<1>3. n = CoinsWorth(l[u], price) + q * price[c]
  BY <1>2, CoinsWorthChange
<1>4. q * price[c] \in Int /\ f[u] = CoinsWorth(l[u], price) /\ f[u] \in Int
  BY <1>1, Products DEF Prices
<1> HIDE DEF m
<1>5. f \in [User -> Int] /\ n \in Int
  BY <1>1, <1>3, <1>4
<1>6. [v \in User |-> CoinsWorth(m[v], price)] = [f EXCEPT ![u] = n]
  BY <1>2
<1>7. Gone(l, price) = SumFunction(f) /\ Gone(m, price) = SumFunction([f EXCEPT ![u] = n])
  BY <1>6 DEF Gone
<1> HIDE DEF f, n
<1>8. SumFunction(f) \in Int /\ SumFunction([f EXCEPT ![u] = n]) = SumFunction(f) + n - f[u]
  BY <1>5, UserChange
<1> QED BY <1>3, <1>4, <1>7, <1>8 DEF m

\* The prices that a step fetches.
LEMMA PricesNatural ==
  ASSUME TypeOK, RefreshPrices
  PROVE  preco' \in Prices
BY RefreshTyped DEF Prices

\* buy_coins: the price is paid for what it buys.
LEMMA BuyKeepsValue ==
  ASSUME IInv, NEW u \in User, NEW c \in Coin, NEW q \in Amount, BuyCoins(u, c, q)
  PROVE  Worth(balance', coins', lost', preco') = Worth(balance, coins, lost, preco')
<1> DEFINE total == preco'[c] * q
           x == Credit(coins[u], c, q)
<1>1. TypeOK /\ OneNodePerCoin /\ q \in Nat /\ q \in Int
  BY AmountAssumption DEF IInv
<1>2. preco' \in Prices /\ preco'[c] \in Int
  BY <1>1, PricesNatural DEF BuyCoins, Prices
<1>3. total \in Int /\ total = q * preco'[c]
  BY <1>1, <1>2, Products
<1>4. /\ balance' = [balance EXCEPT ![u] = balance[u] - total]
      /\ coins' = [coins EXCEPT ![u] = x] /\ lost' = lost
  BY DEF BuyCoins
<1>5. coins \in [User -> Wallets] /\ x \in Wallets
  BY <1>1, WalletsSound, CreditKeeps DEF TypeOK, Wallets
<1>6. WalletWorth(x, preco') = WalletWorth(coins[u], preco') + q * preco'[c]
  BY <1>1, <1>2, WalletsSound, WorthCredit
<1>7. WalletWorth(coins[u], preco') \in Nat
  BY <1>2, <1>5, WorthType
<1> HIDE DEF total, x
<1>8. /\ Held(coins, preco') \in Int
      /\ Held(coins', preco') = Held(coins, preco') + total
  <2>1. Held(coins', preco')
          = Held(coins, preco') + WalletWorth(x, preco') - WalletWorth(coins[u], preco')
    BY <1>2, <1>4, <1>5, HeldChange
  <2>2. Held(coins, preco') \in Int
    BY <1>2, <1>5, HeldChange
  <2> QED BY <1>3, <1>6, <1>7, <2>1, <2>2
<1>9. SumFunction(balance) \in Int /\ SumFunction(balance') = SumFunction(balance) - total
  <2>1. balance \in [User -> Int] /\ balance[u] \in Int /\ balance[u] - total \in Int
    BY <1>1, <1>3 DEF TypeOK
  <2>2. SumFunction(balance') = SumFunction(balance) + (balance[u] - total) - balance[u]
    BY <1>4, <2>1, UserChange
  <2>3. SumFunction(balance) \in Int
    BY <2>1, UserChange
  <2> QED BY <1>3, <2>1, <2>2, <2>3
<1>10. Gone(lost, preco') \in Int /\ Gone(lost', preco') = Gone(lost, preco')
  BY <1>1, <1>2, <1>4, GoneChange DEF TypeOK
<1> QED BY <1>3, <1>8, <1>9, <1>10, WorthParts

\* merge_coins: the quotient is exact, so the coins are worth what they replace.
LEMMA SwapKeepsValue ==
  ASSUME IInv, NEW u \in User, NEW src \in Coin, NEW dst \in Coin, NEW q \in Amount,
         SwapCoins(u, src, q, dst)
  PROVE  Worth(balance', coins', lost', preco') = Worth(balance, coins, lost, preco')
<1> DEFINE n == (q * preco'[src]) \div preco'[dst]
           w == Debit(coins[u], src, q)
           x == Credit(w, dst, n)
<1>1. TypeOK /\ OneNodePerCoin /\ q \in Nat
  BY AmountAssumption DEF IInv
<1>2. preco' \in Prices /\ preco'[src] \in Nat /\ preco'[dst] \in Nat /\ preco'[dst] > 0
  BY <1>1, PricesNatural DEF SwapCoins, Prices
<1>3. n \in Nat /\ n * preco'[dst] = q * preco'[src] /\ q * preco'[src] \in Nat
  <2>1. q * preco'[src] \in Nat
    BY <1>1, <1>2, Products
  <2>2. \A k, m \in Nat : m > 0 /\ k % m = 0 => k \div m \in Nat /\ (k \div m) * m = k
    BY SMT
  <2>3. (q * preco'[src]) % preco'[dst] = 0
    BY DEF SwapCoins
  <2> QED BY <1>2, <2>1, <2>2, <2>3
<1>4. q > 0 /\ CoinQty(coins[u], src) >= q /\ HasCoin(coins[u], src)
  BY DEF SwapCoins, CanMerge
<1>5. coins' = [coins EXCEPT ![u] = x] /\ balance' = balance /\ lost' = lost
  BY DEF SwapCoins, MergeCoins, MergeReceives
<1>6. coins \in [User -> Wallets]
  BY <1>1 DEF TypeOK, Wallets
<1>7. w \in Wallets /\ Single(w)
  BY <1>1, <1>4, WalletsSound, DebitKeeps
<1>8. WalletWorth(w, preco') = WalletWorth(coins[u], preco') - q * preco'[src]
  BY <1>1, <1>2, <1>4, WalletsSound, WorthDebit
<1>9. WalletWorth(coins[u], preco') \in Nat
  BY <1>2, <1>6, WorthType
<1> HIDE DEF n, w
<1>10. x \in Wallets /\ WalletWorth(x, preco') = WalletWorth(w, preco') + n * preco'[dst]
  BY <1>2, <1>3, <1>7, CreditKeeps, WorthCredit
<1> HIDE DEF x
<1>11. Held(coins', preco') = Held(coins, preco')
  <2>1. WalletWorth(x, preco') = WalletWorth(coins[u], preco')
    BY <1>3, <1>8, <1>9, <1>10
  <2>2. /\ Held(coins, preco') \in Int
        /\ Held(coins', preco')
             = Held(coins, preco') + WalletWorth(x, preco') - WalletWorth(coins[u], preco')
    BY <1>2, <1>5, <1>6, <1>10, HeldChange
  <2> QED BY <1>9, <2>1, <2>2
<1> QED BY <1>5, <1>11, WorthParts

\* action_transfer: what leaves one wallet is taken in by the other or lost.
LEMMA TransferKeepsValue ==
  ASSUME IInv, NEW u \in users, NEW r \in users, NEW c \in Coin, NEW q \in Amount,
         Transfer(u, r, c, q)
  PROVE  Worth(balance', coins', lost', preco') = Worth(balance, coins, lost, preco')
<1> DEFINE d == Debit(coins[u], c, q)
           part == [coins EXCEPT ![u] = d]
           moved == q * preco[c]
<1>1. TypeOK /\ OneNodePerCoin /\ u \in User /\ r \in User /\ q \in Nat
  BY AmountAssumption DEF IInv, TypeOK
<1>2. r # u /\ q > 0 /\ CoinQty(coins[u], c) >= q /\ HasCoin(coins[u], c)
  BY <1>1 DEF Transfer, CanTransfer, CoinQty
<1>3. PICK w \in Credited(coins[r], c, q) :
        /\ coins' = [coins EXCEPT ![u] = Debit(@, c, q), ![r] = w]
        /\ lost' = IF w = coins[r] THEN [lost EXCEPT ![r][c] = @ + q] ELSE lost
  BY DEF Transfer
<1>4. preco' = preco /\ balance' = balance /\ preco \in Prices /\ preco[c] \in Nat
  <2>1. \A x \in Price \cup {0} : x \in Nat
    BY AmountAssumption
  <2> QED BY <1>1, <2>1 DEF Transfer, TypeOK, Prices
<1>5. coins \in [User -> Wallets] /\ d \in Wallets
  BY <1>1, <1>2, WalletsSound, DebitKeeps DEF TypeOK, Wallets
<1>6. WalletWorth(d, preco) = WalletWorth(coins[u], preco) - moved
  BY <1>1, <1>2, <1>4, WalletsSound, WorthDebit
<1>7. w \in Wallets
  BY <1>1, WalletsSound, CreditKeeps DEF Credited
<1>8. \/ w = coins[r] /\ lost' = [lost EXCEPT ![r][c] = @ + q]
      \/ /\ WalletWorth(w, preco) = WalletWorth(coins[r], preco) + moved
         /\ lost' = lost
  <2>1. CASE w = coins[r]
    BY <1>3, <2>1
  <2>2. CASE w # coins[r]
    <3>1. w = Credit(coins[r], c, q) /\ lost' = lost
      BY <1>3, <2>2 DEF Credited
    <3> QED BY <1>1, <1>4, <3>1, WalletsSound, WorthCredit
  <2> QED BY <2>1, <2>2
<1>9. moved \in Nat /\ WalletWorth(coins[u], preco) \in Nat /\ WalletWorth(coins[r], preco) \in Nat
  BY <1>1, <1>4, <1>5, Products, WorthType
<1>10. part \in [User -> Wallets] /\ part[r] = coins[r] /\ coins' = [part EXCEPT ![r] = w]
  <2>1. coins' = [coins EXCEPT ![u] = d, ![r] = w]
    BY <1>3
  <2> HIDE DEF d
  <2> QED BY <1>1, <1>2, <1>5, <2>1
<1>11. Held(coins, preco) \in Int /\ Held(part, preco) = Held(coins, preco) - moved
  <2>1. /\ Held(coins, preco) \in Int
        /\ Held(part, preco)
             = Held(coins, preco) + WalletWorth(d, preco) - WalletWorth(coins[u], preco)
    BY <1>1, <1>4, <1>5, HeldChange
  <2> HIDE DEF d, part, moved
  <2> QED BY <1>6, <1>9, <2>1
<1> HIDE DEF d, part
<1>12. Held(coins', preco)
         = Held(part, preco) + WalletWorth(w, preco) - WalletWorth(coins[r], preco)
  BY <1>1, <1>4, <1>7, <1>10, HeldChange
<1>13. /\ Gone(lost, preco) \in Int
       /\ Gone([lost EXCEPT ![r][c] = @ + q], preco) = Gone(lost, preco) + moved
  BY <1>1, <1>4, GoneChange DEF TypeOK
<1> HIDE DEF moved
<1>14. Held(coins', preco) + Gone(lost', preco) = Held(coins, preco) + Gone(lost, preco)
  <2>1. CASE w = coins[r] /\ lost' = [lost EXCEPT ![r][c] = @ + q]
    BY <1>9, <1>11, <1>12, <1>13, <2>1
  <2>2. CASE WalletWorth(w, preco) = WalletWorth(coins[r], preco) + moved /\ lost' = lost
    BY <1>9, <1>11, <1>12, <1>13, <2>2
  <2> QED BY <1>8, <2>1, <2>2
<1>15. SumFunction(balance) \in Int
  <2>1. balance \in [User -> Int] /\ q \in Int
    BY <1>1 DEF TypeOK
  <2> QED BY <1>1, <2>1, UserChange
<1>16. Held(coins', preco) \in Int /\ Gone(lost', preco) \in Int
  BY <1>8, <1>9, <1>11, <1>12, <1>13
<1> QED BY <1>4, <1>11, <1>13, <1>14, <1>15, <1>16, WorthParts

LEMMA StepValue ==
  ASSUME IInv, [Next]_vars, ~ Deposited, ~ Restart
  PROVE  Worth(balance', coins', lost', preco') = Worth(balance, coins, lost, preco')
<1> DEFINE Goal == Worth(balance', coins', lost', preco') = Worth(balance, coins, lost, preco')
<1>1. TypeOK /\ users \subseteq User
  BY DEF IInv, TypeOK
<1>2. UNCHANGED <<balance, coins, lost>> => Goal
  OBVIOUS
<1>3. ASSUME NEW u \in User, Register(u) PROVE Goal
  BY <1>2, <1>3 DEF Register
<1>4. ASSUME NEW u \in users, NEW amount \in Amount, AddBalance(u, amount) PROVE FALSE
  <2>1. u \in User /\ balance[u] \in Nat /\ amount \in Nat /\ amount > 0
    BY <1>1, <1>4, AmountAssumption DEF AddBalance, TypeOK
  <2>2. balance'[u] = balance[u] + amount
    BY <1>1, <1>4, <2>1 DEF AddBalance, TypeOK
  <2>3. balance'[u] > balance[u]
    BY <2>1, <2>2
  <2> QED BY <2>1, <2>3 DEF Deposited
<1>5. ASSUME LivePrices PROVE Goal
  BY <1>2, <1>5 DEF LivePrices
<1>6. ASSUME NEW u \in users, NEW c \in Coin, NEW q \in Amount, BuyCoins(u, c, q)
      PROVE  Goal
  BY <1>1, <1>6, BuyKeepsValue
<1>7. ASSUME NEW u \in users, NEW src \in Coin, NEW dst \in Coin, NEW q \in Amount,
             SwapCoins(u, src, q, dst)
      PROVE  Goal
  BY <1>1, <1>7, SwapKeepsValue
<1>8. ASSUME NEW u \in users, NEW r \in users, NEW c \in Coin, NEW q \in Amount,
             Transfer(u, r, c, q)
      PROVE  Goal
  BY <1>8, TransferKeepsValue
<1>9. ASSUME Tick PROVE Goal
  BY <1>2, <1>9 DEF Tick
<1>10. ASSUME UNCHANGED vars PROVE Goal
  BY <1>2, <1>10 DEF vars
<1> HIDE DEF Goal
<1>11. Goal
  BY <1>3, <1>4, <1>5, <1>6, <1>7, <1>8, <1>9, <1>10 DEF Next
<1> QED BY <1>11 DEF Goal

-----------------------------------------------------------------------------
(* What malloc has to do with coins that vanish                            *)

\* When the receiver's node is there or can be allocated, every coin is credited.
LEMMA TransferMoves ==
  ASSUME IInv, ~ MallocMayFail, NEW u \in users, NEW r \in users, NEW c \in Coin,
         NEW q \in Amount, Transfer(u, r, c, q), NEW d \in Coin
  PROVE  Circulating(d)' = Circulating(d)
<1>1. TypeOK /\ OneNodePerCoin /\ u \in User /\ r \in User /\ q \in Nat
  BY AmountAssumption DEF IInv, TypeOK
<1>2. r # u /\ q > 0 /\ CoinQty(coins[u], c) >= q /\ HasCoin(coins[u], c)
  BY <1>1 DEF Transfer, CanTransfer, CoinQty
<1>3. coins' = [coins EXCEPT ![u] = Debit(@, c, q), ![r] = Credit(coins[r], c, q)]
  BY DEF Transfer, Credited
<1> DEFINE n == IF d = c THEN q ELSE 0
           f == [x \in User |-> CoinQty(coins[x], d)]
           g == [f EXCEPT ![u] = f[u] - n]
           h == [g EXCEPT ![r] = f[r] + n]
<1>4. f \in [User -> Int] /\ n \in Int
  <2>1. \A x \in User : CoinQty(coins[x], d) \in Nat
    BY <1>1, MatchTyped
  <2> QED BY <1>1, <2>1
<1>5. /\ CoinQty(coins'[u], d) = f[u] - n
      /\ CoinQty(coins'[r], d) = f[r] + n
      /\ \A x \in User \ {u, r} : CoinQty(coins'[x], d) = f[x]
  <2>1. CoinQty(Debit(coins[u], c, q), d) = CoinQty(coins[u], d) - n
    BY <1>1, <1>2, WalletsSound, QtyDebit
  <2>2. CoinQty(Credit(coins[r], c, q), d) = CoinQty(coins[r], d) + n
    BY <1>1, WalletsSound, QtyCredit
  <2>3. /\ coins'[u] = Debit(coins[u], c, q) /\ coins'[r] = Credit(coins[r], c, q)
        /\ \A x \in User \ {u, r} : coins'[x] = coins[x]
    BY <1>1, <1>2, <1>3 DEF TypeOK
  <2> QED BY <1>1, <2>1, <2>2, <2>3
<1>6. Circulating(d) = SumFunction(f) /\ Circulating(d)' = SumFunction(h)
  <2>1. [x \in User |-> CoinQty(coins'[x], d)] = h
    <3> HIDE DEF n
    <3> QED BY <1>1, <1>2, <1>5
  <2> QED BY <2>1 DEF Circulating
<1> HIDE DEF f, n
<1>7. f[u] - n \in Int /\ f[r] + n \in Int /\ f[u] \in Int /\ f[r] \in Int
  BY <1>1, <1>4
<1>8. /\ SumFunction(f) \in Int /\ SumFunction(g) = SumFunction(f) + (f[u] - n) - f[u]
      /\ g \in [User -> Int] /\ g[r] = f[r]
  BY <1>1, <1>2, <1>4, <1>7, UserChange
<1> HIDE DEF g
<1>9. SumFunction(h) = SumFunction(g) + (f[r] + n) - g[r]
  BY <1>1, <1>7, <1>8, UserChange
<1> QED BY <1>4, <1>6, <1>7, <1>8, <1>9

LEMMA StepMoves ==
  ASSUME IInv, ~ MallocMayFail, [Next]_vars, Recorded' # Recorded, ~ Restart
  PROVE  \A c \in Coin : Circulating(c)' = Circulating(c)
<1>1. PICK u \in users, r \in users, c \in Coin, q \in Amount : Transfer(u, r, c, q)
  <2>1. ~ UNCHANGED <<pending, included>>
    BY DEF Recorded
  <2>2. \A u \in User : ~ Register(u)
    BY <2>1 DEF Register
  <2>3. \A u \in users : \A amount \in Amount : ~ AddBalance(u, amount)
    BY <2>1 DEF AddBalance
  <2>4. \A u \in users : \A c \in Coin : \A q \in Amount : ~ BuyCoins(u, c, q)
    BY <2>1 DEF BuyCoins
  <2>5. \A u \in users : \A src, dst \in Coin : \A q \in Amount : ~ SwapCoins(u, src, q, dst)
    BY <2>1 DEF SwapCoins
  <2>6. ~ LivePrices /\ ~ Tick /\ ~ UNCHANGED vars
    BY <2>1 DEF LivePrices, Tick, vars
  <2> QED BY <2>2, <2>3, <2>4, <2>5, <2>6 DEF Next
<1> QED BY <1>1, TransferMoves

-----------------------------------------------------------------------------
(* Theorems                                                                *)

\* No handler ever makes a balance or a coin quantity negative.
THEOREM LedgerTyped == Spec => []TypeOK
BY Invariance, PTL DEF IInv

\* No wallet ever has two nodes of one coin.
THEOREM OneNode == Spec => []OneNodePerCoin
BY Invariance, PTL DEF IInv

\* As long as the block is open, every transfer reaches it at once.
THEOREM NothingPending == Spec => []NothingPendingWhileOpen
BY Invariance, PTL DEF IInv

\* Whatever is bought, swapped, sent and lost, the transactions of the block and of the
\* queue account for every coin of every wallet.
THEOREM WalletsMatch == Spec => []WalletsMatchTransactions
BY Matching, PTL DEF Inv

\* At the prices of the moment, only deposits and restarts change what balances, wallets
\* and lost coins are worth together: no buy, swap or transfer makes or destroys value.
THEOREM ValueKept == Spec => ValueConserved
<1>1. IInv /\ [Next]_vars
        => [~ Deposited /\ ~ Restart =>
              Worth(balance', coins', lost', preco') = Worth(balance, coins, lost, preco')]_vars
  BY StepValue
<1> QED BY <1>1, Invariance, PTL DEF Spec, ValueConserved

\* Transfers lose coins for want of memory and for no other reason: if malloc never fails,
\* they leave what circulates of each coin as it is.
THEOREM OnlyMallocLosesCoins == ~ MallocMayFail => (Spec => TransferMovesCoins)
<1> SUFFICES ASSUME ~ MallocMayFail PROVE Spec => TransferMovesCoins
  OBVIOUS
<1>1. IInv /\ [Next]_vars
        => [Recorded' # Recorded /\ ~ Restart =>
              \A c \in Coin : Circulating(c)' = Circulating(c)]_vars
  BY StepMoves
<1> QED BY <1>1, Invariance, PTL DEF Spec, TransferMovesCoins
=============================================================================
