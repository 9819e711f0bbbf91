----------------------------- MODULE MCDatabase -----------------------------
(***************************************************************************)
(* Database on a small instance: two transactions of one receipt, one of   *)
(* another, and one in a coin that has no name.                            *)
(***************************************************************************)
EXTENDS Database

MCReceiptOf == [t \in Tx |-> IF t = "other" THEN 2 ELSE 1]

MCCoinOf == [t \in Tx |-> CASE t = "first" -> 0 [] t = "other" -> 2 [] t = "odd" -> 3 [] OTHER -> 1]
=============================================================================
