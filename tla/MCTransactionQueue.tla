------------------------ MODULE MCTransactionQueue ------------------------
(***************************************************************************)
(* TransactionQueue on small instances.  The transactions are chosen so    *)
(* that two share a receipt (rand() repeats itself), one carries no        *)
(* quantity, and the parties occur in both orders.                         *)
(***************************************************************************)
EXTENDS TransactionQueue

CONSTANTS alice, bob

Send(s, r, q, id) == [sender |-> s, receiver |-> r, qtd |-> q, receipt |-> id]

MCTransaction ==
  { Send(alice, bob, 1, 1), Send(alice, bob, 1, 2),
    Send(bob, alice, 0, 1), Send(bob, bob, 1, 2) }

\* Valid transactions only, each with a receipt of its own.
MCValidTransaction == { Send(alice, bob, 1, 1), Send(bob, alice, 1, 2) }

NodeSymmetry == Permutations(Node)
=============================================================================
