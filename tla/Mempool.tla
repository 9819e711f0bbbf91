------------------------------ MODULE Mempool ------------------------------
(***************************************************************************)
(* What the transaction queue and its block promise, with no pointer and   *)
(* no clock in sight: a FIFO of pending transactions in front of one       *)
(* append-only block.                                                      *)
(*                                                                         *)
(*   - a submitted transaction goes to the end of the queue;               *)
(*   - a transaction leaves the queue by a cancellation that names its     *)
(*     receipt, or from the head, into the end of the block;               *)
(*   - only a valid transaction enters the block, and only while the block *)
(*     is open; a closed block never opens again and never changes.        *)
(*                                                                         *)
(* TransactionQueue, the translation of services/transaction_actions.c and *)
(* services/blocks.c, is shown to implement this module.                   *)
(***************************************************************************)
EXTENDS SequencesExt, Integers

CONSTANTS
  Uuid,         \* the UUIDs a user or a transaction can carry
  Transaction   \* the transactions that can be submitted

VARIABLES
  known,     \* UUIDs of the users on the user list
  open,      \* the block still receives transactions
  pending,   \* the queue, head first
  included   \* the block's transactions, oldest first

vars == <<known, open, pending, included>>

Init ==
  /\ known \subseteq Uuid
  /\ open \in BOOLEAN
  /\ pending = <<>>
  /\ included = <<>>

Submit(t) ==
  /\ pending' = Append(pending, t)
  /\ UNCHANGED <<known, open, included>>

\* The first pending transaction with receipt r leaves the queue.
Cancel(r) ==
  \E i \in DOMAIN pending :
    /\ pending[i].receipt = r
    /\ \A j \in 1 .. i-1 : pending[j].receipt # r
    /\ pending' = RemoveAt(pending, i)
    /\ UNCHANGED <<known, open, included>>

\* Both parties are users and the quantity is positive.
Valid(t) == t.sender \in known /\ t.receiver \in known /\ t.qtd > 0

\* The head of the queue enters the block.  The block may close by the time the
\* transaction is in.
Include ==
  /\ open
  /\ pending # <<>>
  /\ Valid(Head(pending))
  /\ included' = Append(included, Head(pending))
  /\ pending' = Tail(pending)
  /\ open' \in BOOLEAN
  /\ UNCHANGED known

Close ==
  /\ open
  /\ open' = FALSE
  /\ UNCHANGED <<known, pending, included>>

UsersChange ==
  /\ known' \in SUBSET Uuid
  /\ UNCHANGED <<open, pending, included>>

Next ==
  \/ \E t \in Transaction : Submit(t)
  \/ \E t \in Transaction : Cancel(t.receipt)
  \/ Include
  \/ Close
  \/ UsersChange

Spec == Init /\ [][Next]_vars
=============================================================================
