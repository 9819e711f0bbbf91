----------------------------- MODULE PriceFeed ------------------------------
(***************************************************************************)
(* The market prices (services/coin_price.c): for every coin in turn a     *)
(* transfer is performed, its answer collected piece by piece and parsed,  *)
(* and the coin's price replaced, or kept when anything went wrong.        *)
(*                                                                         *)
(* The program waits in curl_easy_perform.  What happens meanwhile is      *)
(* Deliver, a piece that write_callback takes, and one of Complete, Fail   *)
(* and TimeOut, with which the call returns.  An answer that ends early is *)
(* an error to curl, since its length is announced.                        *)
(***************************************************************************)
EXTENDS Integers, SequencesExt

CONSTANTS
  Coin,      \* CoinType
  CoinOrder, \* the order of the loop over them
  Answer,    \* answers of the server: a status and a body
  Usd,       \* the key "usd": of a body
  Leftover,  \* what the byte that malloc returned, and those after it, may spell
  Nothing    \* no answer is awaited

Digit == 0 .. 9

ASSUME CoinAssumption == CoinOrder \in Seq(Coin) /\ CoinOrder # <<>> /\ IsFiniteSet(Coin)
ASSUME AnswerAssumption ==
  /\ \A text \in {a.body : a \in Answer} \cup Leftover :
       DOMAIN text = 1 .. Len(text) /\ Len(text) \in Nat
  /\ Nothing \notin Answer

VARIABLES
  preco,     \* precoMercado
  todo,      \* coins that the loop has still to fetch; the first one is at work
  awaited,   \* the answer that the server is sending, or Nothing
  received,  \* chunk.data
  quoted,    \* history: the last price that the server sent in full, for each coin
  unwritten  \* history: coins whose price was read from a buffer never written

feed == <<preco, todo, awaited, received, quoted, unwritten>>

-----------------------------------------------------------------------------
(* Parsing                                                                 *)

Unpriced == 0
Failed == -1
Ok == 200
HttpError == 400

\* strstr finds the first key, sscanf takes the digits behind it.
Number(text) ==
  LET keys == {k \in DOMAIN text : text[k] = Usd}
      key  == CHOOSE k \in keys : \A j \in keys : k <= j
      ends == {e \in key .. Len(text) : \A i \in key + 1 .. e : text[i] \in Digit}
      end  == CHOOSE e \in ends : \A d \in ends : d <= e
  IN  IF keys = {} THEN <<>> ELSE SubSeq(text, key + 1, end)

\* Without a key or digits, and for a price that is zero, -1.
ExtrairPreco(text) ==
  LET price == FoldLeft(LAMBDA n, d : 10 * n + d, 0, Number(text))
  IN  IF Number(text) = <<>> \/ price = 0 THEN Failed ELSE price

-----------------------------------------------------------------------------
(* The transfer of one coin's price                                        *)

FeedInit ==
  /\ preco = [c \in Coin |-> Unpriced]
  /\ todo = <<>>
  /\ awaited = Nothing
  /\ received = <<>>
  /\ quoted = preco
  /\ unwritten = {}

\* The loop over the coins with which live prices, buying and swapping begin.
StartRefresh ==
  /\ todo = <<>>
  /\ todo' = CoinOrder
  /\ UNCHANGED <<preco, awaited, received, quoted, unwritten>>

Begin ==
  /\ todo # <<>> /\ awaited = Nothing
  /\ awaited' \in Answer
  /\ UNCHANGED <<preco, todo, received, quoted, unwritten>>

\* No memory, or no handle from curl: the coin is left out.
CannotBegin ==
  /\ todo # <<>> /\ awaited = Nothing
  /\ todo' = Tail(todo)
  /\ UNCHANGED <<preco, awaited, received, quoted, unwritten>>

\* write_callback takes a piece.  CURLOPT_FAILONERROR keeps the body of an error away.
Deliver ==
  /\ awaited # Nothing /\ awaited.status < HttpError
  /\ \E n \in Len(received) + 1 .. Len(awaited.body) :
       received' = SubSeq(awaited.body, 1, n)
  /\ UNCHANGED <<preco, todo, awaited, quoted, unwritten>>

\* cleanup: the buffer is freed and the loop goes on.
NextCoin ==
  /\ todo' = Tail(todo)
  /\ awaited' = Nothing
  /\ received' = <<>>

\* Mutant: what has arrived when the call fails is parsed.
FailParsed ==
  /\ awaited # Nothing
  /\ preco' = IF ExtrairPreco(received) = Failed THEN preco
              ELSE [preco EXCEPT ![Head(todo)] = ExtrairPreco(received)]
  /\ NextCoin
  /\ UNCHANGED <<quoted, unwritten>>

\* The call returns an error: no connection, a connection lost, a status of 400 or
\* more, or no memory in write_callback, which then returns 0.
Fail ==
  /\ awaited # Nothing
  /\ NextCoin
  /\ UNCHANGED <<preco, quoted, unwritten>>

\* Mutant: only the connection has a time limit.
TimeOutConnecting ==
  /\ awaited # Nothing /\ received = <<>>
  /\ NextCoin
  /\ UNCHANGED <<preco, quoted, unwritten>>

\* CURLOPT_TIMEOUT: at some time the call returns, whatever the server does.
TimeOut ==
  /\ awaited # Nothing
  /\ NextCoin
  /\ UNCHANGED <<preco, quoted, unwritten>>

\* Mutant: the answer's status is not looked at.
UsableAnyStatus(text) == ExtrairPreco(text) # Failed

Usable(text) == awaited.status = Ok /\ ExtrairPreco(text) # Failed

\* The call returns CURLE_OK.  Nothing was ever written to the buffer if the body was
\* empty, and what it happens to hold is parsed.
Complete ==
  /\ awaited # Nothing /\ awaited.status < HttpError
  /\ received = awaited.body
  /\ \E text \in IF received = <<>> THEN Leftover ELSE {received} :
       LET c == Head(todo)
       IN  IF Usable(text)
             THEN /\ preco' = [preco EXCEPT ![c] = ExtrairPreco(text)]
                  /\ unwritten' = IF received = <<>> THEN unwritten \cup {c}
                                  ELSE unwritten \ {c}
             ELSE UNCHANGED <<preco, unwritten>>
  /\ quoted' = IF awaited.status = Ok /\ ExtrairPreco(awaited.body) # Failed
                 THEN [quoted EXCEPT ![Head(todo)] = ExtrairPreco(awaited.body)]
                 ELSE quoted
  /\ NextCoin

Fetch == Begin \/ CannotBegin \/ Deliver \/ Fail \/ TimeOut \/ Complete

FeedNext == StartRefresh \/ Fetch

\* The program goes on by itself, and no transfer lasts longer than its time limit.
\* The server promises nothing.
FeedFairness == WF_feed(Begin \/ CannotBegin) /\ WF_feed(TimeOut)

FeedSpec == FeedInit /\ [][FeedNext]_feed /\ FeedFairness

-----------------------------------------------------------------------------
(* Properties                                                              *)

\* Prices that a body may bring: those of whole answers, and what a buffer that was
\* never written may spell.
Quote ==
  {ExtrairPreco(text) : text \in Leftover \cup {a.body : a \in {b \in Answer : b.status = Ok}}}
    \ {Failed}

\* The type invariant of the feed: what has arrived is the beginning of the answer.
FeedTypeOK ==
  /\ preco \in [Coin -> Quote \cup {Unpriced}]
  /\ todo \in Seq(Coin)
  /\ awaited \in Answer \cup {Nothing}
  /\ awaited = Nothing => received = <<>>
  /\ awaited # Nothing =>
       /\ todo # <<>>
       /\ \E n \in 0 .. Len(awaited.body) : received = SubSeq(awaited.body, 1, n)
  /\ quoted \in [Coin -> Quote \cup {Unpriced}]
  /\ unwritten \subseteq Coin

\* A price is the last one that the server sent in full for that very coin: no piece of
\* an answer, no error page and no other coin's answer is ever taken for a price.  The
\* exception are empty answers, for which the code reads what it never wrote.
PricesAreQuoted == \A c \in Coin \ unwritten : preco[c] = quoted[c]

\* The feed does what PriceBoard says, and no more than one coin's price at a time.
Board == INSTANCE PriceBoard WITH price <- preco

ImplementsBoard == Board!Spec

\* Every refresh ends, also when the server stops in the middle of an answer.
RefreshEnds == todo # <<>> ~> todo = <<>>
=============================================================================
