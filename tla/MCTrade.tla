------------------------------ MODULE MCTrade -------------------------------
(***************************************************************************)
(* Trade on small instances: two coins, whose answers may be a price of    *)
(* one or two digits, an empty body, a body without a price, a redirection *)
(* that looks like an answer, and an error.                                *)
(***************************************************************************)
EXTENDS Trade

MCCoinOrder == <<"BTC", "ETH">>

Body == {<<>>, <<Usd>>, <<Usd, 0>>, <<Usd, 3>>, <<Usd, 5>>, <<Usd, 7, Usd>>, <<Usd, 1, 2>>}

MCAnswer ==
  {[status |-> 200, body |-> b] : b \in Body}
    \cup {[status |-> 302, body |-> <<Usd, 8>>], [status |-> 503, body |-> <<>>]}

MCLeftover == {<<>>, <<Usd, 1, 4>>}
=============================================================================
