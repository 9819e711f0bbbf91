------------------------------- MODULE Trade --------------------------------
(***************************************************************************)
(* Swapping coins with rounded numbers (action_merge_coins of cli/main.c   *)
(* and merge_coins of services/coins_law.c), on the prices that PriceFeed  *)
(* fetches: the handler refreshes them, shows what the user would get,     *)
(* asks, and calls merge_coins for exactly that.  Buying is in Ledger.     *)
(*                                                                         *)
(* The doubles of the code have 53 significant bits; these have Precision. *)
(* A quantity is a whole number of units, the unit being the smallest      *)
(* number there is, so that rounding includes gradual underflow.  Overflow *)
(* is out of reach.  The wallet is the set of coins that have a node, and  *)
(* what each holds, 0 without a node: Wallet has the list.                 *)
(***************************************************************************)
EXTENDS PriceFeed, FiniteSetsExt

CONSTANTS
  Precision,  \* significant bits of a number
  Holding,    \* what the user has of the first coin
  Asked,      \* quantities that he may type
  MaxSwaps    \* bound of the model: visits to the swap screen

ASSUME NumberAssumption == Precision \in Nat \ {0, 1} /\ MaxSwaps \in Nat
ASSUME AskedAssumption == Holding \subseteq Nat /\ Asked \subseteq Nat \ {0}

VARIABLES
  pc,       \* "menu", or what runs: "live", "swap" or "confirm"
  coins,    \* g_current's quantities
  nodes,    \* the coins that his wallet has a node for
  offer,    \* the numbers on the screen, of the last swap
  outcome,  \* what the user was told of it
  visits    \* visits to the swap screen

vars == <<pc, coins, nodes, offer, outcome, visits, feed>>

-----------------------------------------------------------------------------
(* Numbers                                                                 *)

Power[k \in Nat] == IF k = 0 THEN 1 ELSE 2 * Power[k - 1]

\* The distance of two neighbouring numbers around n / d: the first power of two that
\* leaves Precision bits of it.
Exponent(n, d) ==
  CHOOSE k \in 0 .. n :
    /\ n < Power[Precision + k] * d
    /\ \A j \in 0 .. k - 1 : Power[Precision + j] * d <= n

Ulp(n, d) == Power[Exponent(n, d)]

\* n / d as a whole number: the nearest one, and of two the even one.
Nearest(n, d) ==
  LET low == n \div d
      rest == 2 * (n % d)
  IN  IF rest < d \/ (rest = d /\ low % 2 = 0) THEN low ELSE low + 1

Round(n, d) == Ulp(n, d) * Nearest(n, d * Ulp(n, d))

Times(a, b) == Round(a * b, 1)
Over(a, b) == Round(a, b)
Plus(a, b) == Round(a + b, 1)
Minus(a, b) == IF a < b THEN - Round(b - a, 1) ELSE Round(a - b, 1)

\* The number below x.
Below(x) == Max({y \in 0 .. x - 1 : Round(y, 1) = y})

-----------------------------------------------------------------------------
(* merge_coins                                                             *)

Offer == [src : Coin, dst : Coin, sqty : Asked, dqty : Nat]

\* The last test of the code, qtd_receber < qtd_coins_destine, is Receives(o) < o.dqty.
Receives(o) == Over(Times(o.sqty, preco[o.src]), preco[o.dst])

\* Mutant: equal values do not pass.
CanMergeStrict(o) ==
  /\ o.dqty > 0
  /\ o.src # o.dst
  /\ coins[o.src] >= o.sqty
  /\ preco[o.src] > 0 /\ preco[o.dst] > 0
  /\ Times(o.sqty, preco[o.src]) > Times(o.dqty, preco[o.dst])
  /\ Receives(o) >= o.dqty

\* Mutant: the quantity is not compared with what the user has.
CanMergeUncovered(o) ==
  /\ o.dqty > 0
  /\ o.src # o.dst
  /\ preco[o.src] > 0 /\ preco[o.dst] > 0
  /\ Times(o.sqty, preco[o.src]) >= Times(o.dqty, preco[o.dst])
  /\ Receives(o) >= o.dqty

\* The tests that come before the destination's node is looked for.
CanMerge(o) ==
  /\ o.dqty > 0
  /\ o.src # o.dst
  /\ coins[o.src] >= o.sqty
  /\ preco[o.src] > 0 /\ preco[o.dst] > 0
  /\ Times(o.sqty, preco[o.src]) >= Times(o.dqty, preco[o.dst])
  /\ Receives(o) >= o.dqty

\* Mutant: what goes out is not taken from the source.
MergedKeepsSource(o) == [coins EXCEPT ![o.dst] = Plus(@, Receives(o))]

Merged(o) ==
  [coins EXCEPT ![o.src] = Minus(@, o.sqty), ![o.dst] = Plus(@, Receives(o))]

-----------------------------------------------------------------------------
(* The handlers                                                            *)

NoOffer == [src |-> Head(CoinOrder), dst |-> Head(CoinOrder), sqty |-> 0, dqty |-> 0]

Init ==
  /\ FeedInit
  /\ pc = "menu"
  /\ \E h \in Holding : coins = [c \in Coin |-> IF c = Head(CoinOrder) THEN h ELSE 0]
  /\ nodes \in {n \in SUBSET Coin : Head(CoinOrder) \in n}
  /\ offer = NoOffer
  /\ outcome = "none"
  /\ visits = 0

\* ui_clear: what the last swap showed is gone.
Clear == offer' = NoOffer /\ outcome' = "none"

LivePrices ==
  /\ pc = "menu"
  /\ StartRefresh
  /\ Clear
  /\ pc' = "live"
  /\ UNCHANGED <<coins, nodes, visits>>

\* The refresh is over; the live prices are shown.
Shown ==
  /\ pc = "live" /\ todo = <<>>
  /\ pc' = "menu"
  /\ UNCHANGED <<coins, nodes, offer, outcome, visits, feed>>

SwapScreen ==
  /\ pc = "menu"
  /\ visits < MaxSwaps
  /\ visits' = visits + 1
  /\ StartRefresh
  /\ Clear
  /\ pc' = "swap"
  /\ UNCHANGED <<coins, nodes>>

\* What the user would get for s.  Without both prices the screen says nothing.
Shows(src, s, dst) ==
  IF preco[src] > 0 /\ preco[dst] > 0 THEN Over(Times(s, preco[src]), preco[dst]) ELSE 0

Choose(src, s, dst) ==
  /\ pc = "swap" /\ todo = <<>>
  /\ offer' = [src |-> src, dst |-> dst, sqty |-> s, dqty |-> Shows(src, s, dst)]
  /\ pc' = "confirm"
  /\ UNCHANGED <<coins, nodes, outcome, visits, feed>>

\* Bad input, or "no" at the prompt.
GiveUp ==
  /\ pc \in {"swap", "confirm"} /\ todo = <<>>
  /\ pc' = "menu"
  /\ UNCHANGED <<coins, nodes, offer, outcome, visits, feed>>

\* The second case is that a test fails, or append_coin's malloc for the first node of
\* the destination (coins_law.c:75-81): the user is told the same.
Merge ==
  /\ pc = "confirm"
  /\ \/ /\ CanMerge(offer)
        /\ coins' = Merged(offer)
        /\ nodes' = nodes \cup {offer.dst}
        /\ outcome' = "done"
     \/ /\ ~ CanMerge(offer) \/ offer.dst \notin nodes
        /\ outcome' = "refused"
        /\ UNCHANGED <<coins, nodes>>
  /\ pc' = "menu"
  /\ UNCHANGED <<offer, visits, feed>>

Fetching == Fetch /\ UNCHANGED <<pc, coins, nodes, offer, outcome, visits>>

Next ==
  \/ LivePrices
  \/ Shown
  \/ SwapScreen
  \/ \E src, dst \in Coin, s \in Asked : Choose(src, s, dst)
  \/ GiveUp
  \/ Merge
  \/ Fetching

Spec == Init /\ [][Next]_vars /\ FeedFairness

-----------------------------------------------------------------------------
(* Properties                                                              *)

\* The type invariant.  No quantity becomes negative, and none is without a node.
TypeOK ==
  /\ FeedTypeOK
  /\ pc \in {"menu", "live", "swap", "confirm"}
  /\ pc \in {"menu", "confirm"} => todo = <<>>
  /\ coins \in [Coin -> Nat]
  /\ nodes \subseteq Coin
  /\ \A c \in Coin : coins[c] > 0 => c \in nodes
  /\ offer \in Offer \cup {NoOffer}
  /\ outcome \in {"none", "done", "refused"}
  /\ visits \in 0 .. MaxSwaps

\* The user has the coins and both have a price.
Entitled(o) ==
  /\ o.src # o.dst
  /\ coins[o.src] >= o.sqty
  /\ preco[o.src] > 0 /\ preco[o.dst] > 0

\* A user who is entitled to a swap and told to check his balance and the prices was
\* refused for one of two reasons that the message does not name.  No memory: the offer
\* passes every test and the destination had no node.  Or rounding: what the screen
\* offered is worth more than what he gives, by less than the distance to the number
\* below; that number passes the tests, and would pay out what the screen offered all
\* the same.
RefusedByRoundingOrMemory ==
  outcome = "refused" /\ Entitled(offer) /\ offer.dqty > 0 =>
    LET less == [offer EXCEPT !.dqty = Below(@)]
    IN  IF CanMerge(offer)
          THEN offer.dst \notin nodes
          ELSE /\ offer.dqty * preco[offer.dst] > Times(offer.sqty, preco[offer.src])
               /\ less.dqty = 0 \/ (CanMerge(less) /\ Receives(less) = offer.dqty)

Distance(a, b) == IF a > b THEN a - b ELSE b - a

Worth(w) == SumFunction([c \in Coin |-> w[c] * preco[c]])

\* A swap changes what the coins are worth by rounding alone: in proportion by at
\* most two units in the last place, but for a quotient that underflows.
SwapKeepsWorth ==
  [][coins' # coins =>
       Power[Precision - 1] * Distance(Worth(coins'), Worth(coins))
         <= Worth(coins) + Worth(coins') + Power[Precision - 2] * preco[offer.dst]]_vars
=============================================================================
