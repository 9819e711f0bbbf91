-------------------------- MODULE TransactionQueue --------------------------
(***************************************************************************)
(* The transaction queue (models/transaction_model.h, Queue) and the block *)
(* it feeds (models/block_model.h, Block), at the level of the heap: a     *)
(* Transaction is an allocated node with a `prox' pointer, the queue is    *)
(* the pointers `first' and `last', and the block's list is the pointer    *)
(* `transactions'.  The same nodes, through the same `prox' field, are in  *)
(* the queue first and in the block's list later.                          *)
(*                                                                         *)
(* The actions are the operations of services/transaction_actions.c and    *)
(* services/blocks.c on one queue and one block, called in any order by    *)
(* one thread, on a user list that registrations (cli/main.c) and          *)
(* delete_user (services/admin_actions.c) change.  send_to_block gets the  *)
(* current time from its caller (cli/main.c:185) and fill_block reads the  *)
(* clock again, so the clock may have moved in between.                    *)
(***************************************************************************)
EXTENDS SequencesExt, TransactionRules

CONSTANTS
  Node,         \* addresses malloc can return for a Transaction
  NULL,         \* the null pointer; also the contents of a free node
  Uuid,         \* UUIDs of users, on the list or not
  Transaction,  \* what new_transaction can be asked to record, and the receipt
                \* that rand() % 1000002 draws for it
  BlockWindow,  \* seconds a block stays open (3600 in create_block)
  MaxClock      \* bound of the model: the last second of the clock

ASSUME NodeAssumption == IsFiniteSet(Node) /\ NULL \notin Node
ASSUME TransactionAssumption ==
         /\ Transaction \subseteq
              [sender : Uuid, receiver : Uuid, qtd : Int, receipt : Nat]
         /\ NULL \notin Transaction
ASSUME ClockAssumption == BlockWindow \in Nat /\ MaxClock \in Nat

Receipt == {t.receipt : t \in Transaction}

VARIABLES
  users,   \* UUIDs on the user list
  clock,   \* time(NULL), in seconds since the block was created
  tx,      \* contents of each node, NULL when the node is free
  prox,    \* next pointer of each node
  first,   \* Queue.first
  last,    \* Queue.last
  block    \* the block

heap == <<tx, prox>>
queue == <<first, last>>
vars == <<users, clock, tx, prox, first, last, block>>

Pointer == Node \cup {NULL}

-----------------------------------------------------------------------------
(* Lists: following next pointers                                          *)

\* s is the NULL-terminated list that starts at pointer p.
IsChain(next, p, s) ==
  /\ p = IF s = <<>> THEN NULL ELSE s[1]
  /\ \A i \in 1 .. Len(s) :
       next[s[i]] = IF i = Len(s) THEN NULL ELSE s[i+1]

\* The list a loop `while (current != NULL) current = current->prox' visits.
ChainFrom(next, p) ==
  CHOOSE s \in SeqOf(Node, Cardinality(Node)) : IsChain(next, p, s)

Queued == ChainFrom(prox, first)
Included == ChainFrom(prox, block.transactions)

Contents(s) == [i \in 1 .. Len(s) |-> tx[s[i]]]

Free == {n \in Node : tx[n] = NULL}

-----------------------------------------------------------------------------
(* Initial state: cli/main.c creates an empty queue and one empty block    *)

\* Mutant: the expiry lands in the wrong field.
CreateBlockSwapped(time, transactions) ==
  [created_at |-> time, updated_at |-> time + BlockWindow, expire_at |-> time,
   transactions |-> transactions, num_transactions |-> 0]

CreateBlock(time, transactions) ==
  [created_at |-> time, updated_at |-> time, expire_at |-> time + BlockWindow,
   transactions |-> transactions, num_transactions |-> 0]

Init ==
  /\ users \in SUBSET Uuid
  /\ clock = 0
  /\ tx = [n \in Node |-> NULL]
  /\ prox = [n \in Node |-> NULL]
  /\ first = NULL
  /\ last = NULL
  /\ block = CreateBlock(clock, NULL)

-----------------------------------------------------------------------------
(* new_transaction                                                         *)

\* Mutant: the new node is pushed in front of the queue.
LinkFirst(n) ==
  /\ prox' = [prox EXCEPT ![n] = first]
  /\ first' = n
  /\ last' = IF first = NULL THEN n ELSE last

\* Node n, just allocated, becomes the last of the queue.
LinkLast(n) ==
  /\ prox' = IF first = NULL THEN [prox EXCEPT ![n] = NULL]
                             ELSE [prox EXCEPT ![n] = NULL, ![last] = n]
  /\ first' = IF first = NULL THEN n ELSE first
  /\ last' = n

\* t.receipt is the receipt drawn.  Without a free node malloc fails and nothing
\* changes.
NewTransaction(t) ==
  \E n \in Free :
    /\ tx' = [tx EXCEPT ![n] = t]
    /\ LinkLast(n)
    /\ UNCHANGED <<users, clock, block>>

-----------------------------------------------------------------------------
(* get_transaction_by_receipt and delete_transaction                       *)

\* The loop over the nodes q stops at index i.
StopsAt(q, i, r) ==
  /\ tx[q[i]].receipt = r
  /\ \A j \in 1 .. i-1 : tx[q[j]].receipt # r

\* get_transaction_by_receipt returns a node (and not NULL).
FoundByReceipt(r) == \E i \in DOMAIN Queued : StopsAt(Queued, i, r)

Previous(q, i) == IF i = 1 THEN NULL ELSE q[i-1]

\* Mutant: the tail pointer is only reset when the queue becomes empty.
LastAfterDeleteKept(q, i) == IF Len(q) = 1 THEN NULL ELSE last

LastAfterDelete(q, i) == IF q[i] = last THEN Previous(q, i) ELSE last

\* Node q[i] is unlinked from the queue, and then freed.
Unlink(q, i) ==
  /\ first' = IF i = 1 THEN prox[q[i]] ELSE first
  /\ prox' = IF i = 1 THEN [prox EXCEPT ![q[i]] = NULL]
             ELSE [prox EXCEPT ![q[i-1]] = prox[q[i]], ![q[i]] = NULL]
  /\ last' = LastAfterDelete(q, i)
  /\ tx' = [tx EXCEPT ![q[i]] = NULL]

DeleteTransaction(r) ==
  \E i \in DOMAIN Queued :
    /\ StopsAt(Queued, i, r)
    /\ Unlink(Queued, i)
    /\ UNCHANGED <<users, clock, block>>

-----------------------------------------------------------------------------
(* send_to_block, with dequeue_transaction and fill_block                  *)

Dequeue ==
  /\ first' = prox[first]
  /\ last' = IF prox[first] = NULL THEN NULL ELSE last

\* Mutant: the node enters the block with its queue pointer still set.
FillBlockKeepsProx(n, now) ==
  /\ prox' = IF block.transactions = NULL
               THEN prox
               ELSE [prox EXCEPT ![Last(Included)] = n]
  /\ block' = [block EXCEPT !.transactions = IF @ = NULL THEN n ELSE @,
                            !.num_transactions = @ + 1,
                            !.updated_at = now]

\* Mutant: only a transaction that finds the block empty is counted.
FillBlockCountsFirst(n, now) ==
  /\ prox' = IF block.transactions = NULL
               THEN [prox EXCEPT ![n] = NULL]
               ELSE [prox EXCEPT ![n] = NULL, ![Last(Included)] = n]
  /\ block' = [block EXCEPT !.transactions = IF @ = NULL THEN n ELSE @,
                            !.num_transactions = IF block.transactions = NULL
                                                   THEN 1 ELSE @,
                            !.updated_at = now]

\* fill_block, with the prox field that dequeue_transaction has set to NULL.
FillBlock(n, now) ==
  /\ prox' = IF block.transactions = NULL
               THEN [prox EXCEPT ![n] = NULL]
               ELSE [prox EXCEPT ![n] = NULL, ![Last(Included)] = n]
  /\ block' = [block EXCEPT !.transactions = IF @ = NULL THEN n ELSE @,
                            !.num_transactions = @ + 1,
                            !.updated_at = now]

\* The caller reads the clock for the expiry test, fill_block reads it again for
\* the stamp.
SendToBlock ==
  /\ CanAcceptTransaction(block.expire_at, clock)
  /\ first # NULL
  /\ CheckTransaction(users, tx[first])
  /\ Dequeue
  /\ \E later \in clock .. MaxClock :
       /\ clock' = later
       /\ FillBlock(first, later)
  /\ UNCHANGED <<users, tx>>

-----------------------------------------------------------------------------
(* The world around the queue                                              *)

\* A registration puts a user on the list, delete_user takes one off.
AddUser(u) ==
  /\ u \notin users
  /\ users' = users \cup {u}
  /\ UNCHANGED <<clock, heap, queue, block>>

RemoveUser(u) ==
  /\ u \in users
  /\ users' = users \ {u}
  /\ UNCHANGED <<clock, heap, queue, block>>

Tick ==
  /\ clock < MaxClock
  /\ clock' = clock + 1
  /\ UNCHANGED <<users, heap, queue, block>>

Next ==
  \/ \E t \in Transaction : NewTransaction(t)
  \/ \E r \in Receipt : DeleteTransaction(r)
  \/ SendToBlock
  \/ \E u \in Uuid : AddUser(u)
  \/ \E u \in Uuid : RemoveUser(u)
  \/ Tick

Spec == Init /\ [][Next]_vars

\* The clock advances and the caller keeps offering the head of the queue to the
\* block, as the end of every transfer does (cli/main.c:185).
FairSpec == Spec /\ WF_vars(SendToBlock) /\ WF_vars(Tick)

-----------------------------------------------------------------------------
(* Properties                                                              *)

\* The type invariant.  The block is never stamped with a second that is still
\* to come.
TypeOK ==
  /\ users \subseteq Uuid
  /\ clock \in 0 .. MaxClock
  /\ tx \in [Node -> Transaction \cup {NULL}]
  /\ prox \in [Node -> Pointer]
  /\ first \in Pointer
  /\ last \in Pointer
  /\ block \in [created_at : {0}, updated_at : 0 .. clock,
                expire_at : {BlockWindow}, transactions : Pointer,
                num_transactions : Nat]

NodeSeq == SeqOf(Node, Cardinality(Node))

\* Queue.first and Queue.last stay two ends of one list: `last' is the final node
\* of the list that starts at `first', and NULL when it is empty.  new_transaction
\* writes through last->prox (transaction_actions.c:86) without checking that.
LastIsTail ==
  \E q \in NodeSeq :
    /\ IsChain(prox, first, q)
    /\ last = IF q = <<>> THEN NULL ELSE Last(q)

\* The queue and the block's list are two NULL-terminated lists over the one prox
\* field, and no node is in both or twice in one; every allocated node is in one of
\* them (nothing leaks) and no freed node is (nothing dangles).
ListsPartitionHeap ==
  \E q, b \in NodeSeq :
    /\ IsChain(prox, first, q)
    /\ IsChain(prox, block.transactions, b)
    /\ IsInjective(q \o b)
    /\ Range(q \o b) = Node \ Free

\* Block.num_transactions, which save_blocks_info_db writes to the database, is
\* the length of the block's list.
CountMatchesBlock ==
  \E b \in NodeSeq :
    /\ IsChain(prox, block.transactions, b)
    /\ block.num_transactions = Len(b)

\* The contents of the two lists behave as Mempool says: FIFO order, nothing lost
\* or repeated between the queue and the block, only valid transactions enter, and
\* only while the block is open.
MP == INSTANCE Mempool
        WITH known <- users,
             open <- clock < BlockWindow,
             pending <- Contents(Queued),
             included <- Contents(Included)

ImplementsMempool == MP!Spec

\* models/block_model.h:12 says that from expire_at on the block receives no more
\* transactions.  A block that has received one was last updated before that.
StampedInsideWindow ==
  block.num_transactions > 0 => block.updated_at < block.expire_at

\* test/test_transaction_actions.c:158 looks the receipt up after
\* delete_transaction and says that a deleted transaction must not be found.
DeletedNotFound ==
  [][\A r \in Receipt : DeleteTransaction(r) => ~ FoundByReceipt(r)']_vars

Waiting(n) == n \in Range(Queued)

SomeoneInvalid ==
  \E n \in Range(Queued) : ~ CheckTransaction(users, tx[n])

\* README.md says that the queued transactions become a block.  So a queued
\* transaction leaves the queue in the end, unless an invalid one is queued.
QueuedReachBlock ==
  \A n \in Node : Waiting(n) ~> (~ Waiting(n) \/ SomeoneInvalid)
=============================================================================
