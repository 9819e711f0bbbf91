-------------------------- MODULE TransactionRules --------------------------
(***************************************************************************)
(* The validity rules of services/transaction_actions.c: what              *)
(* send_to_block asks of a transaction and of the block before it moves    *)
(* the transaction.  They are constant-level operators, shared by the      *)
(* pointer-level queue (TransactionQueue) and by the CLI handlers that     *)
(* call it (Ledger).                                                       *)
(***************************************************************************)
EXTENDS Integers

\* A transaction names its parties by UUID.  It is valid when both are on the
\* user list and it moves a positive quantity.
CheckTransaction(users, t) ==
  /\ {t.sender, t.receiver} \subseteq users
  /\ t.qtd > 0

\* A block receives transactions strictly before its expiry second.
CanAcceptTransaction(expire_at, now) == now < expire_at
=============================================================================
