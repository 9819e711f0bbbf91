------------------------------ MODULE MCLedger ------------------------------
(***************************************************************************)
(* Ledger on small instances.                                              *)
(***************************************************************************)
EXTENDS Ledger

Symmetry == Permutations(User) \cup Permutations(Coin)
=============================================================================
