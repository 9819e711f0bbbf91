----------------------- MODULE TransactionQueueProofs -----------------------
(***************************************************************************)
(* Proofs about TransactionQueue, for every finite set of nodes, every set *)
(* of transactions and users, every block window and every clock bound.    *)
(*                                                                         *)
(* The inductive invariant IInv says that two sequences of nodes, q for    *)
(* the queue and b for the block, describe the whole heap (Lists).  It is  *)
(* what every action needs: delete_transaction and fill_block walk a list  *)
(* and write through a pointer, which keeps the lists apart only because   *)
(* the lists have no node in common.  Each step lemma names the two        *)
(* sequences after the step: q with a node appended, q without its i-th    *)
(* node, the head of q moved to the end of b.                              *)
(***************************************************************************)
EXTENDS TransactionQueueLists

\* The queue is q, the block's list is b, and they are the whole heap.
Lists(q, b) ==
  /\ IsChain(prox, first, q)
  /\ IsChain(prox, block.transactions, b)
  /\ IsInjective(q) /\ IsInjective(b)
  /\ Range(q) \cap Range(b) = {}
  /\ Range(q) \cup Range(b) = Node \ Free
  /\ last = IF q = <<>> THEN NULL ELSE Last(q)
  /\ block.num_transactions = Len(b)

IInv == TypeOK /\ \E q, b \in Seq(Node) : Lists(q, b)

-----------------------------------------------------------------------------
(* Consequences of the invariant                                           *)

LEMMA ListsMeaning ==
  ASSUME NEW q \in Seq(Node), NEW b \in Seq(Node), Lists(q, b)
  PROVE  /\ q \in NodeSeq /\ Queued = q
         /\ b \in NodeSeq /\ Included = b
         /\ first = IF q = <<>> THEN NULL ELSE q[1]
         /\ block.transactions = IF b = <<>> THEN NULL ELSE b[1]
<1>1. IsChain(prox, first, q) /\ IsInjective(q)
  BY DEF Lists
<1>2. IsChain(prox, block.transactions, b) /\ IsInjective(b)
  BY DEF Lists
<1>3. q \in NodeSeq /\ Queued = q
  BY <1>1, ChainFromIs DEF Queued
<1>4. b \in NodeSeq /\ Included = b
  BY <1>2, ChainFromIs DEF Included
<1> QED BY <1>1, <1>2, <1>3, <1>4 DEF IsChain

\* Two injective sequences without a common member are injective in a row.
LEMMA InjectiveInARow ==
  ASSUME NEW q \in Seq(Node), NEW b \in Seq(Node),
         IsInjective(q), IsInjective(b), Range(q) \cap Range(b) = {}
  PROVE  IsInjective(q \o b) /\ Range(q \o b) = Range(q) \cup Range(b)
<1> DEFINE c == q \o b
<1>1. /\ c \in Seq(Node) /\ Len(c) = Len(q) + Len(b)
      /\ \A i \in 1 .. Len(q) + Len(b) :
           c[i] = IF i <= Len(q) THEN q[i] ELSE b[i - Len(q)]
  BY ConcatProperties
<1> HIDE DEF c
<1>2. /\ Len(q) \in Nat /\ Len(b) \in Nat
      /\ \A i \in 1 .. Len(q) : q[i] \in Range(q)
      /\ \A i \in 1 .. Len(b) : b[i] \in Range(b)
      /\ \A i, j \in 1 .. Len(q) : q[i] = q[j] => i = j
      /\ \A i, j \in 1 .. Len(b) : b[i] = b[j] => i = j
  BY SeqRange
<1>3. ASSUME NEW i \in 1 .. Len(c), NEW j \in 1 .. Len(c), c[i] = c[j]
      PROVE  i = j
  <2>0. i \in 1 .. Len(q) + Len(b) /\ j \in 1 .. Len(q) + Len(b)
    BY <1>1
  <2>1. CASE i <= Len(q) /\ j <= Len(q)
    <3>1. i \in 1 .. Len(q) /\ j \in 1 .. Len(q) /\ c[i] = q[i] /\ c[j] = q[j]
      BY <2>0, <2>1, <1>1, <1>2
    <3> QED BY <3>1, <1>2, <1>3
  <2>2. CASE i > Len(q) /\ j > Len(q)
    <3>1. /\ i - Len(q) \in 1 .. Len(b) /\ j - Len(q) \in 1 .. Len(b)
          /\ ~ (i <= Len(q)) /\ ~ (j <= Len(q))
      BY <2>0, <2>2, <1>2
    <3>2. c[i] = b[i - Len(q)] /\ c[j] = b[j - Len(q)]
      BY <2>0, <3>1, <1>1
    <3>3. i - Len(q) = j - Len(q)
      BY <3>1, <3>2, <1>2, <1>3
    <3> QED BY <2>0, <3>3, <1>2
  <2>3. ASSUME NEW k \in 1 .. Len(c), NEW l \in 1 .. Len(c),
               k <= Len(q), l > Len(q), c[k] = c[l]
        PROVE  FALSE
    <3>1. /\ k \in 1 .. Len(q) /\ l - Len(q) \in 1 .. Len(b) /\ ~ (l <= Len(q))
          /\ k \in 1 .. Len(q) + Len(b) /\ l \in 1 .. Len(q) + Len(b)
      BY <2>3, <1>1, <1>2
    <3>2. c[k] = q[k] /\ c[l] = b[l - Len(q)]
      BY <3>1, <2>3, <1>1
    <3> QED BY <3>1, <3>2, <2>3, <1>2
  <2>4. \/ i <= Len(q) /\ j <= Len(q)
        \/ i > Len(q) /\ j > Len(q)
        \/ i <= Len(q) /\ j > Len(q)
        \/ j <= Len(q) /\ i > Len(q)
    BY <2>0, <1>2
  <2> QED BY <2>1, <2>2, <2>3, <2>4, <1>3
<1>4. IsInjective(c)
  BY <1>1, <1>3, SeqRange
<1>5. Range(c) = Range(q) \cup Range(b)
  BY RangeConcatenation DEF c
<1> QED BY <1>4, <1>5 DEF c

\* The invariant implies the safety properties the runs check.
LEMMA IInvImplies ==
  IInv => TypeOK /\ LastIsTail /\ ListsPartitionHeap /\ CountMatchesBlock
<1> SUFFICES ASSUME IInv
             PROVE  TypeOK /\ LastIsTail /\ ListsPartitionHeap /\ CountMatchesBlock
  OBVIOUS
<1>1. PICK q \in Seq(Node), b \in Seq(Node) : Lists(q, b)
  BY DEF IInv
<1>2. q \in NodeSeq /\ b \in NodeSeq
  BY <1>1, ListsMeaning
<1>3. LastIsTail
  BY <1>1, <1>2 DEF LastIsTail, Lists
<1>4. ListsPartitionHeap
  <2>1. IsInjective(q \o b) /\ Range(q \o b) = Node \ Free
    BY <1>1, InjectiveInARow DEF Lists
  <2> QED BY <1>1, <1>2, <2>1 DEF ListsPartitionHeap, Lists
<1>5. CountMatchesBlock
  BY <1>1, <1>2 DEF CountMatchesBlock, Lists
<1> QED BY <1>3, <1>4, <1>5 DEF IInv

-----------------------------------------------------------------------------
(* The invariant holds initially and every action preserves it             *)

LEMMA InitIInv == Init => IInv
<1> SUFFICES ASSUME Init PROVE IInv
  OBVIOUS
<1>1. TypeOK
  BY ClockAssumption DEF Init, TypeOK, CreateBlock, Pointer
<1>2. <<>> \in Seq(Node) /\ Len(<<>>) = 0 /\ Range(<<>>) = {} /\ IsInjective(<<>>)
  BY EmptySeq DEF Range, IsInjective
<1>3. Free = Node /\ first = NULL /\ last = NULL
      /\ block.transactions = NULL /\ block.num_transactions = 0
  BY DEF Init, Free, CreateBlock
<1>4. IsChain(prox, NULL, <<>>)
  BY <1>2 DEF IsChain
<1>5. Lists(<<>>, <<>>)
  BY <1>2, <1>3, <1>4 DEF Lists
<1> QED BY <1>1, <1>2, <1>5 DEF IInv

\* new_transaction: the new node goes behind the queue.
LEMMA NewTransactionStep ==
  ASSUME TypeOK, NEW q \in Seq(Node), NEW b \in Seq(Node), Lists(q, b),
         NEW t \in Transaction, NewTransaction(t)
  PROVE  /\ TypeOK'
         /\ \E n \in Node : /\ n \in Free
                            /\ tx' = [tx EXCEPT ![n] = t]
                            /\ Lists(Append(q, n), b)'
<1>1. PICK n \in Free : /\ tx' = [tx EXCEPT ![n] = t]
                        /\ LinkLast(n)
                        /\ UNCHANGED <<users, clock, block>>
  BY DEF NewTransaction
<1>2. n \in Node /\ n \in Free /\ n \notin Range(q) /\ n \notin Range(b)
  BY DEF Free, Lists
<1>3. /\ first = IF q = <<>> THEN NULL ELSE q[1]
      /\ last = IF q = <<>> THEN NULL ELSE Last(q)
      /\ q # <<>> => Last(q) \in Range(q) /\ q[1] \in Node
      /\ Range(q) \subseteq Node /\ Range(b) \subseteq Node
  BY ListsMeaning, SeqRange DEF Lists
<1>4. first = NULL <=> q = <<>>
  BY <1>3, NodeAssumption
<1>5. TypeOK'
  BY <1>1, <1>2, <1>3, <1>4 DEF TypeOK, LinkLast, Pointer
<1>6. /\ prox'[n] = NULL
      /\ q # <<>> => prox'[Last(q)] = n
      /\ \A m \in Node : m # n /\ (q # <<>> => m # Last(q)) => prox'[m] = prox[m]
  BY <1>1, <1>2, <1>3, <1>4 DEF TypeOK, LinkLast
<1>7. IsChain(prox', first', Append(q, n)) /\ last' = n
  <2>1. IsChain(prox, first, q) /\ IsInjective(q)
    BY DEF Lists
  <2>2. q # <<>> => \A m \in Range(q) : m # Last(q) => prox'[m] = prox[m]
    BY <1>2, <1>3, <1>6
  <2>3. \A m \in Range(q) : m # Last(q) => prox'[m] = prox[m]
    BY <2>2, EmptySeq DEF Range
  <2>4. IsChain(prox', IF q = <<>> THEN n ELSE first, Append(q, n))
    BY <1>2, <1>6, <2>1, <2>3, ChainAppend
  <2> QED BY <2>4, <1>1, <1>4 DEF LinkLast
<1>8. IsChain(prox', block'.transactions, b)
  <2>1. \A m \in Range(b) : prox'[m] = prox[m]
    BY <1>2, <1>3, <1>6 DEF Lists
  <2>2. IsChain(prox', block.transactions, b)
    BY <2>1, ChainFrame DEF Lists
  <2> QED BY <2>2, <1>1
<1>9. Free' = Free \ {n}
  BY <1>1, <1>2, TransactionAssumption DEF Free, TypeOK
<1>10. /\ Append(q, n) \in Seq(Node) /\ Append(q, n) # <<>>
       /\ Range(Append(q, n)) = Range(q) \cup {n}
       /\ IsInjective(Append(q, n)) /\ Last(Append(q, n)) = n
  BY <1>2, AppendMembers, AppendProperties DEF Lists
<1>11. Lists(Append(q, n), b)'
  <2>1. Range(Append(q, n)) \cap Range(b) = {}
    BY <1>2, <1>10 DEF Lists
  <2>2. Range(Append(q, n)) \cup Range(b) = Node \ Free'
    BY <1>2, <1>9, <1>10 DEF Lists, Free
  <2>3. IsInjective(b) /\ block'.num_transactions = Len(b)
    BY <1>1 DEF Lists
  <2> QED BY <1>7, <1>8, <1>10, <2>1, <2>2, <2>3 DEF Lists
<1> QED BY <1>1, <1>2, <1>5, <1>11

\* delete_transaction: the first node with the receipt is unlinked and freed.
LEMMA DeleteTransactionStep ==
  ASSUME TypeOK, NEW q \in Seq(Node), NEW b \in Seq(Node), Lists(q, b),
         NEW r \in Receipt, DeleteTransaction(r)
  PROVE  /\ TypeOK'
         /\ \E i \in 1 .. Len(q) : /\ StopsAt(q, i, r)
                                   /\ tx' = [tx EXCEPT ![q[i]] = NULL]
                                   /\ Lists(RemoveAt(q, i), b)'
<1>0. Queued = q /\ DOMAIN q = 1 .. Len(q)
  BY ListsMeaning, SeqRange
<1>1. PICK i \in 1 .. Len(q) : /\ StopsAt(q, i, r)
                               /\ Unlink(q, i)
                               /\ UNCHANGED <<users, clock, block>>
  BY <1>0 DEF DeleteTransaction
<1>2. /\ Len(q) \in Nat /\ i \in Nat /\ i >= 1 /\ i <= Len(q)
      /\ \A j \in 1 .. Len(q) : q[j] \in Node /\ q[j] \in Range(q)
      /\ \A j, k \in 1 .. Len(q) : q[j] = q[k] => j = k
      /\ Range(q) = {q[j] : j \in 1 .. Len(q)}
      /\ Range(q) \subseteq Node /\ Range(b) \subseteq Node
  BY SeqRange DEF Lists
<1>3. q # <<>> /\ last = Last(q) /\ Last(q) = q[Len(q)]
  BY <1>2, SeqRange DEF Lists
<1>4. i > 1 => i - 1 \in 1 .. Len(q) /\ q[i-1] \in Node /\ q[i-1] # q[i]
  BY <1>2
<1>5. last' = IF i = Len(q) THEN (IF i = 1 THEN NULL ELSE q[i-1]) ELSE last
  BY <1>1, <1>2, <1>3 DEF Unlink, LastAfterDelete, Previous
<1>6. TypeOK'
  <2>1. prox' \in [Node -> Pointer] /\ first' \in Pointer /\ tx' \in [Node -> Transaction \cup {NULL}]
    BY <1>1, <1>2, <1>4 DEF TypeOK, Unlink, Pointer
  <2>2. last' \in Pointer
    BY <1>2, <1>4, <1>5 DEF TypeOK, Pointer
  <2> QED BY <1>1, <2>1, <2>2 DEF TypeOK
<1>7. \A m \in Node : m # q[i] /\ (i > 1 => m # q[i-1]) => prox'[m] = prox[m]
  BY <1>1, <1>2, <1>4 DEF TypeOK, Unlink
<1>8. IsChain(prox', first', RemoveAt(q, i))
  <2>1. IsChain(prox, first, q) /\ IsInjective(q)
    BY DEF Lists
  <2>2. i > 1 => prox'[q[i-1]] = prox[q[i]]
    BY <1>1, <1>2, <1>4 DEF TypeOK, Unlink
  <2>3. \A j \in 1 .. Len(q) : j # i /\ j # i-1 => prox'[q[j]] = prox[q[j]]
    <3> SUFFICES ASSUME NEW j \in 1 .. Len(q), j # i, j # i-1
                 PROVE  prox'[q[j]] = prox[q[j]]
      OBVIOUS
    <3>1. q[j] # q[i] /\ (i > 1 => q[j] # q[i-1])
      BY <1>2, <1>4
    <3> QED BY <3>1, <1>2, <1>7
  <2>4. IsChain(prox', IF i = 1 THEN prox[q[i]] ELSE first, RemoveAt(q, i))
    BY <2>1, <2>2, <2>3, ChainRemove
  <2> QED BY <2>4, <1>1 DEF Unlink
<1>9. IsChain(prox', block'.transactions, b)
  <2>1. \A m \in Range(b) : m \in Node /\ m # q[i] /\ (i > 1 => m # q[i-1])
    BY <1>2, <1>4 DEF Lists
  <2>2. IsChain(prox', block.transactions, b)
    BY <2>1, <1>7, ChainFrame DEF Lists
  <2> QED BY <2>2, <1>1
<1>10. Free' = Free \cup {q[i]}
  BY <1>1, <1>2 DEF Unlink, Free, TypeOK
<1>11. /\ RemoveAt(q, i) \in Seq(Node)
       /\ Range(RemoveAt(q, i)) = Range(q) \ {q[i]}
       /\ IsInjective(RemoveAt(q, i))
  BY RemoveMembers DEF Lists
<1>12. last' = IF RemoveAt(q, i) = <<>> THEN NULL ELSE Last(RemoveAt(q, i))
  <2>1. RemoveAt(q, i) = <<>> <=> Len(q) = 1
    <3>1. Len(RemoveAt(q, i)) = Len(q) - 1
      BY RemoveAtProperties
    <3>2. RemoveAt(q, i) # <<>> <=> Len(RemoveAt(q, i)) >= 1
      BY <1>11, SeqRange
    <3> QED BY <3>1, <3>2, <1>2
  <2>2. CASE Len(q) = 1
    BY <2>1, <2>2, <1>2, <1>5
  <2>3. CASE Len(q) # 1
    <3>1. Last(RemoveAt(q, i)) = IF i = Len(q) THEN q[i-1] ELSE Last(q)
      BY <2>1, <2>3, LastAfterRemove
    <3> QED BY <3>1, <2>1, <2>3, <1>3, <1>5
  <2> QED BY <2>2, <2>3
<1>13. Lists(RemoveAt(q, i), b)'
  <2>1. Range(RemoveAt(q, i)) \cap Range(b) = {}
    BY <1>11 DEF Lists
  <2>2. Range(RemoveAt(q, i)) \cup Range(b) = Node \ Free'
    BY <1>2, <1>10, <1>11 DEF Lists
  <2>3. IsInjective(b) /\ block'.num_transactions = Len(b)
    BY <1>1 DEF Lists
  <2> QED BY <1>8, <1>9, <1>11, <1>12, <2>1, <2>2, <2>3 DEF Lists
<1>14. tx' = [tx EXCEPT ![q[i]] = NULL]
  BY <1>1 DEF Unlink
<1> QED BY <1>1, <1>6, <1>13, <1>14

\* send_to_block: the head of the queue, a node of its own, goes behind the
\* block's list.
LEMMA SendToBlockStep ==
  ASSUME TypeOK, NEW q \in Seq(Node), NEW b \in Seq(Node), Lists(q, b),
         SendToBlock
  PROVE  /\ TypeOK'
         /\ q # <<>> /\ q[1] = first /\ first \in Node \ Free
         /\ Lists(RemoveAt(q, 1), Append(b, q[1]))'
<1> DEFINE d == RemoveAt(q, 1)
           h == q[1]
           e == Append(b, h)
<1>1. PICK later \in Nat : /\ clock <= later /\ later <= MaxClock
                           /\ clock' = later
                           /\ FillBlock(first, later)
  BY ClockAssumption DEF SendToBlock, TypeOK
<1>2. first # NULL /\ Dequeue /\ UNCHANGED <<users, tx>>
  BY DEF SendToBlock
<1>3. q # <<>> /\ q[1] = first /\ 1 \in 1 .. Len(q)
  BY <1>2, ListsMeaning, TailIsRemove
<1>4. /\ Len(q) \in Nat /\ Len(q) >= 1
      /\ \A j \in 1 .. Len(q) : q[j] \in Node /\ q[j] \in Range(q)
      /\ \A j, k \in 1 .. Len(q) : q[j] = q[k] => j = k
      /\ Range(q) \subseteq Node /\ Range(b) \subseteq Node
      /\ Last(q) = q[Len(q)]
  BY <1>3, SeqRange DEF Lists
<1>5. first \in Node /\ first \in Range(q) /\ first \notin Range(b)
      /\ first \in Node \ Free
  BY <1>3, <1>4 DEF Lists
<1>6. /\ Included = b
      /\ block.transactions = IF b = <<>> THEN NULL ELSE b[1]
      /\ b # <<>> => Last(b) \in Range(b) /\ b[1] \in Node
      /\ Len(b) \in Nat
  BY ListsMeaning, SeqRange
<1>7. block.transactions = NULL <=> b = <<>>
  BY <1>6, NodeAssumption
<1>8. /\ block'.transactions = IF b = <<>> THEN first ELSE block.transactions
      /\ block'.num_transactions = Len(b) + 1
      /\ block' \in [created_at : {0}, updated_at : {later},
                     expire_at : {BlockWindow}, transactions : Pointer,
                     num_transactions : Nat]
  <2>1. block' = [block EXCEPT !.transactions = IF b = <<>> THEN first ELSE @,
                               !.num_transactions = @ + 1,
                               !.updated_at = later]
    BY <1>1, <1>7 DEF FillBlock
  <2>2. block.num_transactions = Len(b)
    BY DEF Lists
  <2>3. block \in [created_at : {0}, updated_at : 0 .. clock,
                   expire_at : {BlockWindow}, transactions : Pointer,
                   num_transactions : Nat]
    BY DEF TypeOK
  <2>4. block'.transactions = IF b = <<>> THEN first ELSE block.transactions
    BY <2>1, <2>3
  <2>5. block'.num_transactions = Len(b) + 1
    BY <2>1, <2>2, <2>3
  <2>6. (IF b = <<>> THEN first ELSE block.transactions) \in Pointer
    BY <2>3, <1>5 DEF Pointer
  <2>7. block' \in [created_at : {0}, updated_at : {later},
                    expire_at : {BlockWindow}, transactions : Pointer,
                    num_transactions : Nat]
    <3>1. block.num_transactions + 1 \in Nat
      BY <2>3
    <3> HIDE DEF d, e, h
    <3> QED BY <2>1, <2>3, <2>6, <3>1
  <2> QED BY <2>4, <2>5, <2>7
<1>9. TypeOK'
  <2>1. clock' = later /\ later \in 0 .. MaxClock /\ later \in 0 .. later
    BY <1>1, ClockAssumption DEF TypeOK
  <2>2. prox' \in [Node -> Pointer]
    BY <1>1, <1>5 DEF TypeOK, FillBlock, Pointer
  <2>3. first' \in Pointer /\ last' \in Pointer
    BY <1>2, <1>5 DEF TypeOK, Dequeue, Pointer
  <2> QED BY <2>1, <2>2, <2>3, <1>2, <1>8 DEF TypeOK
<1>10. /\ prox'[first] = NULL
       /\ b # <<>> => prox'[Last(b)] = first
       /\ \A m \in Node : m # first /\ (b # <<>> => m # Last(b))
                            => prox'[m] = prox[m]
  BY <1>1, <1>4, <1>5, <1>6, <1>7 DEF TypeOK, FillBlock
<1>11. /\ d \in Seq(Node)
       /\ Range(d) = Range(q) \ {first}
       /\ IsInjective(d)
  BY <1>3, RemoveMembers DEF Lists
<1>12. Len(d) = Len(q) - 1
  BY <1>3, RemoveAtProperties
<1>13. d # <<>> /\ Len(q) # 1 => Last(d) = Last(q)
  BY <1>3, LastAfterRemove
<1>14. IsChain(prox, prox[first], d)
  <2>1. IsChain(prox, first, q) /\ IsInjective(q)
    BY DEF Lists
  <2>2. IsChain(prox, IF 1 = 1 THEN prox[q[1]] ELSE first, d)
    BY <1>3, <2>1, ChainRemove
  <2> QED BY <2>2, <1>3
<1>15. PICK n \in Nat : n = Len(q)
  BY <1>4
<1> HIDE DEF d
<1>16. IsChain(prox', first', d)
  <2>2. \A m \in Range(d) : prox'[m] = prox[m]
    BY <1>4, <1>6, <1>10, <1>11 DEF Lists
  <2>3. IsChain(prox', prox[first], d)
    BY <1>11, <1>14, <2>2, ChainFrame
  <2> QED BY <2>3, <1>2 DEF Dequeue
<1>17. IsChain(prox', block'.transactions, e)
  <2>1. \A m \in Range(b) : m # Last(b) => prox'[m] = prox[m]
    <3>1. b # <<>> => \A m \in Range(b) : m # Last(b) => prox'[m] = prox[m]
      BY <1>4, <1>5, <1>10
    <3> QED BY <3>1, EmptySeq DEF Range
  <2>2. IsChain(prox, block.transactions, b) /\ IsInjective(b)
    BY DEF Lists
  <2>3. IsChain(prox', IF b = <<>> THEN first ELSE block.transactions,
                e)
    BY <1>3, <1>5, <1>10, <2>1, <2>2, ChainAppend
  <2> QED BY <2>3, <1>8
<1>18. /\ e \in Seq(Node)
       /\ Range(e) = Range(b) \cup {first}
       /\ IsInjective(e)
       /\ Len(e) = Len(b) + 1
  BY <1>3, <1>5, AppendMembers, AppendProperties DEF Lists
<1>19. last' = IF d = <<>> THEN NULL ELSE Last(d)
  <2>1. d = <<>> <=> n = 1
    <3>1. Len(d) = n - 1
      BY <1>12, <1>15
    <3>2. d # <<>> <=> Len(d) >= 1
      BY <1>11, SeqRange
    <3> QED BY <3>1, <3>2
  <2>2. prox[first] = IF n = 1 THEN NULL ELSE q[1+1]
    <3>1. \A j \in 1 .. Len(q) :
            prox[q[j]] = IF j = Len(q) THEN NULL ELSE q[j+1]
      BY DEF Lists, IsChain
    <3> QED BY <3>1, <1>3, <1>15
  <2>3. n # 1 => q[1+1] # NULL
    <3>1. n # 1 => 1 + 1 \in 1 .. Len(q)
      BY <1>4, <1>15
    <3> QED BY <3>1, <1>4, NodeAssumption
  <2>4. d # <<>> => Last(d) = Last(q)
    BY <1>15, <1>13, <2>1
  <2>5. last = Last(q)
    BY <1>3 DEF Lists
  <2> QED BY <2>1, <2>2, <2>3, <2>4, <2>5, <1>2 DEF Dequeue
<1>20. Lists(d, e)'
  <2>1. Range(d) \cap Range(e) = {}
    BY <1>11, <1>18 DEF Lists
  <2>2. Free' = Free
    BY <1>2 DEF Free
  <2>3. Range(d) \cup Range(e) = Node \ Free'
    BY <2>2, <1>5, <1>11, <1>18 DEF Lists
  <2> QED BY <1>8, <1>11, <1>16, <1>17, <1>18, <1>19, <2>1, <2>3 DEF Lists
<1> QED BY <1>3, <1>5, <1>9, <1>20 DEF d, e, h

\* The steps that leave the heap alone.
LEMMA FrameStep ==
  ASSUME TypeOK, NEW q \in Seq(Node), NEW b \in Seq(Node), Lists(q, b),
         UNCHANGED <<heap, queue, block>>
  PROVE  Lists(q, b)'
<1>1. UNCHANGED <<tx, prox, first, last, block>>
  BY DEF heap, queue
<1>2. Free' = Free
  BY <1>1 DEF Free
<1> QED BY <1>1, <1>2 DEF Lists

LEMMA WorldStep ==
  ASSUME TypeOK,
         \/ \E u \in Uuid : AddUser(u)
         \/ \E u \in Uuid : RemoveUser(u)
         \/ Tick
         \/ UNCHANGED vars
  PROVE  TypeOK' /\ UNCHANGED <<heap, queue, block>>
<1>1. CASE \E u \in Uuid : AddUser(u)
  BY <1>1 DEF AddUser, TypeOK, heap, queue
<1>2. CASE \E u \in Uuid : RemoveUser(u)
  BY <1>2 DEF RemoveUser, TypeOK, heap, queue
<1>3. CASE Tick
  BY <1>3, ClockAssumption DEF Tick, TypeOK, heap, queue
<1>4. CASE UNCHANGED vars
  BY <1>4 DEF vars, TypeOK, heap, queue
<1> QED BY <1>1, <1>2, <1>3, <1>4

LEMMA StepIInv == IInv /\ [Next]_vars => IInv'
<1> SUFFICES ASSUME IInv, [Next]_vars PROVE IInv'
  OBVIOUS
<1>1. TypeOK
  BY DEF IInv
<1>2. PICK q \in Seq(Node), b \in Seq(Node) : Lists(q, b)
  BY DEF IInv
<1>3. ASSUME NEW t \in Transaction, NewTransaction(t) PROVE IInv'
  <2>1. TypeOK' /\ \E n \in Node : Lists(Append(q, n), b)'
    BY <1>1, <1>2, <1>3, NewTransactionStep
  <2>2. \A n \in Node : Append(q, n) \in Seq(Node)
    BY AppendProperties
  <2> QED BY <2>1, <2>2 DEF IInv
<1>4. ASSUME NEW r \in Receipt, DeleteTransaction(r) PROVE IInv'
  <2>1. TypeOK' /\ \E i \in 1 .. Len(q) : Lists(RemoveAt(q, i), b)'
    BY <1>1, <1>2, <1>4, DeleteTransactionStep
  <2>2. \A i \in 1 .. Len(q) : RemoveAt(q, i) \in Seq(Node)
    BY RemoveAtProperties
  <2> QED BY <2>1, <2>2 DEF IInv
<1>5. CASE SendToBlock
  <2>1. TypeOK' /\ q # <<>> /\ q[1] \in Node
        /\ Lists(RemoveAt(q, 1), Append(b, q[1]))'
    BY <1>1, <1>2, <1>5, SendToBlockStep
  <2>2. RemoveAt(q, 1) \in Seq(Node) /\ Append(b, q[1]) \in Seq(Node)
    BY <2>1, TailIsRemove, RemoveAtProperties, AppendProperties
  <2> QED BY <2>1, <2>2 DEF IInv
<1>6. CASE \/ \E u \in Uuid : AddUser(u)
           \/ \E u \in Uuid : RemoveUser(u)
           \/ Tick
           \/ UNCHANGED vars
  BY <1>1, <1>2, <1>6, WorldStep, FrameStep DEF IInv
<1> QED BY <1>3, <1>4, <1>5, <1>6 DEF Next

LEMMA Invariance == Spec => []IInv
BY InitIInv, StepIInv, PTL DEF Spec

-----------------------------------------------------------------------------
(* Theorems                                                                *)

\* Every reachable state of the queue and the block is well-typed.
THEOREM TypeCorrect == Spec => []TypeOK
BY Invariance, IInvImplies, PTL

\* new_transaction always finds the true end of the queue in Queue.last.
THEOREM TailPointerCorrect == Spec => []LastIsTail
BY Invariance, IInvImplies, PTL

\* The queue and the block share no node, and together they own every allocated
\* node and no other: no operation leaks, frees twice or leaves a node dangling.
THEOREM HeapPartitioned == Spec => []ListsPartitionHeap
BY Invariance, IInvImplies, PTL

\* The block's counter is the length of the block's list.
THEOREM CountCorrect == Spec => []CountMatchesBlock
BY Invariance, IInvImplies, PTL

-----------------------------------------------------------------------------
(* The refinement: TransactionQueue implements Mempool                     *)

\* The contents of a list, as a sequence.
LEMMA ContentsProperties ==
  ASSUME NEW s \in Seq(Node), TypeOK
  PROVE  /\ Contents(s) \in Seq(Transaction \cup {NULL})
         /\ Len(Contents(s)) = Len(s)
         /\ \A i \in 1 .. Len(s) : Contents(s)[i] = tx[s[i]]
<1>1. Len(s) \in Nat /\ \A i \in 1 .. Len(s) : s[i] \in Node
  BY SeqRange
<1>2. \A i \in 1 .. Len(s) : tx[s[i]] \in Transaction \cup {NULL}
  BY <1>1 DEF TypeOK
<1> QED BY <1>1, <1>2 DEF Contents

\* Nodes that keep their contents keep the contents of a list.
LEMMA ContentsFrame ==
  ASSUME NEW s \in Seq(Node), TypeOK, TypeOK',
         \A n \in Range(s) : tx'[n] = tx[n]
  PROVE  Contents(s)' = Contents(s)
<1>1. \A i \in 1 .. Len(s) : tx'[s[i]] = tx[s[i]]
  BY SeqRange
<1> QED BY <1>1 DEF Contents

LEMMA ContentsAppend ==
  ASSUME NEW s \in Seq(Node), NEW n \in Node, TypeOK
  PROVE  Contents(Append(s, n)) = Append(Contents(s), tx[n])
<1> DEFINE S == Transaction \cup {NULL}
           a == Append(s, n)
           c == Contents(s)
           d == Contents(a)
           e == Append(c, tx[n])
<1>1. tx[n] \in S
  BY DEF TypeOK
<1>2. c \in Seq(S) /\ Len(c) = Len(s) /\ \A i \in 1 .. Len(s) : c[i] = tx[s[i]]
  BY ContentsProperties
<1>3. /\ a \in Seq(Node) /\ Len(a) = Len(s) + 1 /\ a[Len(s) + 1] = n
      /\ \A i \in 1 .. Len(s) : a[i] = s[i]
  BY AppendProperties
<1> HIDE DEF S, a, c
<1>4. d \in Seq(S) /\ Len(d) = Len(a) /\ \A i \in 1 .. Len(a) : d[i] = tx[a[i]]
  BY <1>3, ContentsProperties DEF S
<1>5. /\ e \in Seq(S) /\ Len(e) = Len(c) + 1 /\ e[Len(c) + 1] = tx[n]
      /\ \A i \in 1 .. Len(c) : e[i] = c[i]
  BY <1>1, <1>2, AppendProperties
<1> HIDE DEF d, e
<1>6. PICK k \in Nat : k = Len(s)
  BY SeqRange
<1>7. \A i \in 1 .. Len(d) : d[i] = e[i]
  <2> SUFFICES ASSUME NEW i \in 1 .. k + 1 PROVE d[i] = e[i]
    BY <1>3, <1>4, <1>6
  <2>1. CASE i = k + 1
    BY <2>1, <1>2, <1>3, <1>4, <1>5, <1>6
  <2>2. CASE i \in 1 .. k
    BY <2>2, <1>2, <1>3, <1>4, <1>5, <1>6
  <2> QED BY <2>1, <2>2, <1>6
<1>8. Len(d) = Len(e)
  BY <1>2, <1>3, <1>4, <1>5
<1>9. d = e
  BY <1>4, <1>5, <1>7, <1>8, SeqEqual
<1> QED BY <1>9 DEF a, c, d, e

LEMMA ContentsRemove ==
  ASSUME NEW s \in Seq(Node), NEW i \in 1 .. Len(s), TypeOK
  PROVE  Contents(RemoveAt(s, i)) = RemoveAt(Contents(s), i)
<1> DEFINE S == Transaction \cup {NULL}
           a == RemoveAt(s, i)
           c == Contents(s)
           d == Contents(a)
           e == RemoveAt(c, i)
<1>1. c \in Seq(S) /\ Len(c) = Len(s) /\ \A j \in 1 .. Len(s) : c[j] = tx[s[j]]
  BY ContentsProperties
<1>2. /\ a \in Seq(Node) /\ Len(a) = Len(s) - 1
      /\ \A j \in 1 .. Len(s) - 1 : a[j] = IF j < i THEN s[j] ELSE s[j+1]
  BY RemoveAtProperties
<1> HIDE DEF S, a, c
<1>3. d \in Seq(S) /\ Len(d) = Len(a) /\ \A j \in 1 .. Len(a) : d[j] = tx[a[j]]
  BY <1>2, ContentsProperties DEF S
<1>4. /\ e \in Seq(S) /\ Len(e) = Len(c) - 1
      /\ \A j \in 1 .. Len(c) - 1 : e[j] = IF j < i THEN c[j] ELSE c[j+1]
  BY <1>1, RemoveAtProperties
<1> HIDE DEF d, e
<1>5. PICK k \in Nat : k = Len(s)
  BY SeqRange
<1>6. \A j \in 1 .. Len(d) : d[j] = e[j]
  <2> SUFFICES ASSUME NEW j \in 1 .. k - 1 PROVE d[j] = e[j]
    BY <1>2, <1>3, <1>5
  <2>1. j \in 1 .. Len(s) /\ j + 1 \in 1 .. Len(s) /\ j \in 1 .. Len(s) - 1
    BY <1>5
  <2>2. d[j] = tx[a[j]] /\ c[j] = tx[s[j]] /\ c[j+1] = tx[s[j+1]]
    BY <2>1, <1>1, <1>2, <1>3
  <2>3. CASE j < i
    BY <2>1, <2>2, <2>3, <1>1, <1>2, <1>4
  <2>4. CASE ~ (j < i)
    BY <2>1, <2>2, <2>4, <1>1, <1>2, <1>4
  <2> QED BY <2>3, <2>4
<1>7. Len(d) = Len(e)
  BY <1>1, <1>2, <1>3, <1>4
<1>8. d = e
  BY <1>3, <1>4, <1>6, <1>7, SeqEqual
<1> QED BY <1>8 DEF a, c, d, e

\* ContentsAppend, of the next state.
LEMMA ContentsAppendTyped ==
  TypeOK => \A s \in Seq(Node), n \in Node :
              Contents(Append(s, n)) = Append(Contents(s), tx[n])
BY ContentsAppend

LEMMA ContentsAppendNext ==
  (TypeOK => \A s \in Seq(Node), n \in Node :
               Contents(Append(s, n)) = Append(Contents(s), tx[n]))'
BY ContentsAppendTyped, PTL

\* ListsMeaning, of the next state.
LEMMA ListsMeaningNext ==
  ASSUME NEW q \in Seq(Node), NEW b \in Seq(Node), Lists(q, b)'
  PROVE  Queued' = q /\ Included' = b
<1>1. IsChain(prox', first', q) /\ IsInjective(q)
  BY DEF Lists
<1>2. IsChain(prox', block'.transactions, b) /\ IsInjective(b)
  BY DEF Lists
<1>3. Queued' = q
  BY <1>1, ChainFromIs DEF Queued
<1>4. Included' = b
  BY <1>2, ChainFromIs DEF Included
<1> QED BY <1>3, <1>4

\* The head of the queue, in terms of the contents.
LEMMA ContentsHead ==
  ASSUME NEW s \in Seq(Node), s # <<>>, TypeOK
  PROVE  /\ Contents(s) # <<>>
         /\ Head(Contents(s)) = tx[s[1]]
         /\ Contents(RemoveAt(s, 1)) = Tail(Contents(s))
<1> DEFINE S == Transaction \cup {NULL}
           c == Contents(s)
<1>1. c \in Seq(S) /\ Len(c) = Len(s) /\ \A i \in 1 .. Len(s) : c[i] = tx[s[i]]
  BY ContentsProperties
<1>2. 1 \in 1 .. Len(s)
  BY SeqRange
<1>3. Contents(RemoveAt(s, 1)) = RemoveAt(c, 1)
  BY <1>2, ContentsRemove
<1> HIDE DEF S, c
<1>4. c # <<>>
  BY <1>1, <1>2, SeqRange
<1>5. RemoveAt(c, 1) = Tail(c)
  BY <1>1, <1>4, TailIsRemove
<1>6. Head(c) = c[1]
  BY <1>1, <1>4, HeadTailProperties
<1> QED BY <1>1, <1>2, <1>3, <1>4, <1>5, <1>6 DEF c

LEMMA InitRefines == Init => MP!Init
<1> SUFFICES ASSUME Init PROVE MP!Init
  OBVIOUS
<1>1. <<>> \in Seq(Node) /\ Len(<<>>) = 0 /\ IsInjective(<<>>)
  BY EmptySeq DEF IsInjective
<1>2. first = NULL /\ block.transactions = NULL
  BY DEF Init, CreateBlock
<1>3. IsChain(prox, NULL, <<>>)
  BY <1>1 DEF IsChain
<1>4. Queued = <<>> /\ Included = <<>>
  BY <1>1, <1>2, <1>3, ChainFromIs DEF Queued, Included
<1>5. Contents(<<>>) = <<>>
  BY <1>1 DEF Contents
<1>6. (clock < BlockWindow) \in BOOLEAN
  BY ClockAssumption DEF Init
<1>7. users \subseteq Uuid
  BY DEF Init
<1> QED BY <1>4, <1>5, <1>6, <1>7 DEF MP!Init

\* new_transaction is Submit.
LEMMA NewTransactionRefines ==
  ASSUME TypeOK, NEW q \in Seq(Node), NEW b \in Seq(Node), Lists(q, b),
         NEW t \in Transaction, NewTransaction(t)
  PROVE  MP!Submit(t)
<1>1. PICK n \in Node : /\ n \in Free
                        /\ tx' = [tx EXCEPT ![n] = t]
                        /\ Lists(Append(q, n), b)'
  BY NewTransactionStep
<1>2. TypeOK'
  BY NewTransactionStep
<1>3. UNCHANGED <<users, clock, block>>
  BY DEF NewTransaction
<1>4. n \notin Range(q) /\ n \notin Range(b)
      /\ Range(q) \subseteq Node /\ Range(b) \subseteq Node
  BY <1>1, SeqRange DEF Lists
<1>5. Contents(q)' = Contents(q) /\ Contents(b)' = Contents(b)
  <2>1. \A m \in Node : m # n => tx'[m] = tx[m]
    BY <1>1 DEF TypeOK
  <2> QED BY <2>1, <1>2, <1>4, ContentsFrame
<1>6. Contents(Append(q, n))' = Append(Contents(q)', tx'[n])
  BY <1>2, ContentsAppendNext
<1>7. tx'[n] = t
  BY <1>1 DEF TypeOK
<1>8. Queued = q /\ Included = b
  BY ListsMeaning
<1>9. Queued' = Append(q, n) /\ Included' = b
  <2>1. Append(q, n) \in Seq(Node)
    BY AppendProperties
  <2> QED BY <2>1, <1>1, ListsMeaningNext
<1>10. Contents(Queued)' = Append(Contents(Queued), t)
  BY <1>5, <1>6, <1>7, <1>8, <1>9 DEF Contents
<1>11. Contents(Included)' = Contents(Included)
  BY <1>5, <1>8, <1>9 DEF Contents
<1> QED BY <1>3, <1>10, <1>11 DEF MP!Submit

\* delete_transaction is Cancel.
LEMMA DeleteTransactionRefines ==
  ASSUME TypeOK, NEW q \in Seq(Node), NEW b \in Seq(Node), Lists(q, b),
         NEW r \in Receipt, DeleteTransaction(r)
  PROVE  MP!Cancel(r)
<1>1. PICK i \in 1 .. Len(q) : /\ StopsAt(q, i, r)
                               /\ tx' = [tx EXCEPT ![q[i]] = NULL]
                               /\ Lists(RemoveAt(q, i), b)'
  BY DeleteTransactionStep
<1>2. TypeOK'
  BY DeleteTransactionStep
<1>3. UNCHANGED <<users, clock, block>>
  BY DEF DeleteTransaction
<1>4. /\ RemoveAt(q, i) \in Seq(Node)
      /\ Range(RemoveAt(q, i)) = Range(q) \ {q[i]}
      /\ Range(q) \subseteq Node /\ Range(b) \subseteq Node
      /\ q[i] \in Range(q) /\ q[i] \notin Range(b)
  BY RemoveMembers, SeqRange DEF Lists
<1>5. /\ Contents(RemoveAt(q, i))' = Contents(RemoveAt(q, i))
      /\ Contents(b)' = Contents(b)
  <2>1. \A m \in Node : m # q[i] => tx'[m] = tx[m]
    BY <1>1 DEF TypeOK
  <2>2. \A m \in Range(RemoveAt(q, i)) : tx'[m] = tx[m]
    BY <2>1, <1>4
  <2>3. \A m \in Range(b) : tx'[m] = tx[m]
    BY <2>1, <1>4
  <2> QED BY <2>2, <2>3, <1>2, <1>4, ContentsFrame
<1>6. Contents(RemoveAt(q, i)) = RemoveAt(Contents(q), i)
  BY ContentsRemove
<1>7. Queued = q /\ Included = b
  BY ListsMeaning
<1>8. Queued' = RemoveAt(q, i) /\ Included' = b
  BY <1>1, <1>4, ListsMeaningNext
<1>9. /\ Contents(Queued)' = RemoveAt(Contents(Queued), i)
      /\ Contents(Included)' = Contents(Included)
  BY <1>5, <1>6, <1>7, <1>8 DEF Contents
<1>10. /\ i \in DOMAIN Contents(Queued)
       /\ Contents(Queued)[i].receipt = r
       /\ \A j \in 1 .. i-1 : Contents(Queued)[j].receipt # r
  <2>1. DOMAIN Contents(q) = 1 .. Len(q)
    BY DEF Contents
  <2>2. \A j \in 1 .. Len(q) : Contents(q)[j] = tx[q[j]]
    BY ContentsProperties
  <2>3. PICK k \in Nat : k = Len(q)
    BY SeqRange
  <2>4. \A j \in 1 .. i-1 : j \in 1 .. Len(q)
    BY <2>3
  <2> QED BY <2>1, <2>2, <2>4, <1>1, <1>7 DEF StopsAt
<1>11. Contents(Queued)' = MP!RemoveAt(Contents(Queued), i)
  BY <1>9 DEF RemoveAt, MP!RemoveAt
<1> QED BY <1>3, <1>10, <1>11, <1>9 DEF MP!Cancel

\* send_to_block is Include.
LEMMA SendToBlockRefines ==
  ASSUME TypeOK, NEW q \in Seq(Node), NEW b \in Seq(Node), Lists(q, b),
         SendToBlock
  PROVE  MP!Include
<1>1. /\ TypeOK' /\ q # <<>> /\ q[1] = first /\ first \in Node \ Free
      /\ Lists(RemoveAt(q, 1), Append(b, q[1]))'
  BY SendToBlockStep
<1>2. /\ CanAcceptTransaction(block.expire_at, clock)
      /\ CheckTransaction(users, tx[first])
      /\ UNCHANGED <<users, tx>>
  BY DEF SendToBlock
<1>3. RemoveAt(q, 1) \in Seq(Node) /\ Append(b, q[1]) \in Seq(Node)
  BY <1>1, TailIsRemove, RemoveAtProperties, AppendProperties
<1>4. /\ Contents(q) # <<>> /\ Head(Contents(q)) = tx[first]
      /\ Contents(RemoveAt(q, 1)) = Tail(Contents(q))
  BY <1>1, ContentsHead
<1>5. Contents(Append(b, q[1])) = Append(Contents(b), tx[first])
  BY <1>1, ContentsAppend
<1>6. Queued = q /\ Included = b
  BY ListsMeaning
<1>7. Queued' = RemoveAt(q, 1) /\ Included' = Append(b, q[1])
  BY <1>1, <1>3, ListsMeaningNext
<1>8. \A s : Contents(s)' = Contents(s)
  BY <1>2 DEF Contents
<1>9. Contents(Queued)' = Tail(Contents(Queued))
  BY <1>2, <1>4, <1>6, <1>7 DEF Contents
<1>10. Contents(Included)' = Append(Contents(Included), Head(Contents(Queued)))
  BY <1>2, <1>4, <1>5, <1>6, <1>7 DEF Contents
<1>11. clock < BlockWindow
  BY <1>2 DEF CanAcceptTransaction, TypeOK
<1>12. (clock < BlockWindow)' \in BOOLEAN
  BY <1>1, ClockAssumption DEF TypeOK
<1>13. MP!Valid(Head(Contents(Queued)))
  BY <1>2, <1>4, <1>6 DEF MP!Valid, CheckTransaction
<1> QED BY <1>2, <1>4, <1>6, <1>9, <1>10, <1>11, <1>12, <1>13 DEF MP!Include

\* The steps that leave the heap alone leave the contents of the lists alone.
LEMMA WorldRefines ==
  ASSUME TypeOK, TypeOK', UNCHANGED <<heap, queue, block>>
  PROVE  /\ Contents(Queued)' = Contents(Queued)
         /\ Contents(Included)' = Contents(Included)
BY DEF heap, queue, Contents, Queued, Included

LEMMA StepRefines == IInv /\ [Next]_vars => [MP!Next]_(MP!vars)
<1> SUFFICES ASSUME IInv, [Next]_vars PROVE [MP!Next]_(MP!vars)
  OBVIOUS
<1>1. TypeOK
  BY DEF IInv
<1>2. PICK q \in Seq(Node), b \in Seq(Node) : Lists(q, b)
  BY DEF IInv
<1>3. ASSUME NEW t \in Transaction, NewTransaction(t) PROVE MP!Next
  BY <1>1, <1>2, <1>3, NewTransactionRefines DEF MP!Next
<1>4. ASSUME NEW r \in Receipt, DeleteTransaction(r) PROVE MP!Next
  <2>1. PICK t \in Transaction : r = t.receipt
    BY <1>4 DEF Receipt
  <2>2. MP!Cancel(t.receipt)
    BY <2>1, <1>1, <1>2, <1>4, DeleteTransactionRefines
  <2> QED BY <2>2 DEF MP!Next
<1>5. CASE SendToBlock
  BY <1>1, <1>2, <1>5, SendToBlockRefines DEF MP!Next
<1>6. CASE (\E u \in Uuid : AddUser(u)) \/ (\E u \in Uuid : RemoveUser(u))
  <2>1. TypeOK' /\ UNCHANGED <<heap, queue, block>>
    BY <1>1, <1>6, WorldStep
  <2>2. clock' = clock /\ users' \in SUBSET Uuid
    BY <2>1, <1>6 DEF AddUser, RemoveUser, TypeOK
  <2>3. MP!UsersChange
    BY <2>1, <2>2, <1>1, WorldRefines DEF MP!UsersChange
  <2> QED BY <2>3 DEF MP!Next
<1>7. CASE Tick
  <2>1. TypeOK' /\ UNCHANGED <<heap, queue, block>>
    BY <1>1, <1>7, WorldStep
  <2>2. clock' = clock + 1 /\ users' = users
    BY <1>7 DEF Tick
  <2>3. CASE clock < BlockWindow /\ ~ (clock + 1 < BlockWindow)
    <3>1. MP!Close
      BY <2>1, <2>2, <2>3, <1>1, WorldRefines DEF MP!Close
    <3> QED BY <3>1 DEF MP!Next
  <2>4. CASE (clock < BlockWindow) = (clock + 1 < BlockWindow)
    BY <2>1, <2>2, <2>4, <1>1, WorldRefines DEF MP!vars
  <2>5. clock \in Nat
    BY <1>1, ClockAssumption DEF TypeOK
  <2> QED BY <2>3, <2>4, <2>5, ClockAssumption
<1>8. CASE UNCHANGED vars
  <2>1. TypeOK' /\ UNCHANGED <<heap, queue, block>>
    BY <1>1, <1>8, WorldStep
  <2> QED BY <2>1, <1>1, <1>8, WorldRefines DEF MP!vars, vars
<1> QED BY <1>3, <1>4, <1>5, <1>6, <1>7, <1>8 DEF Next

\* send_to_block, new_transaction and delete_transaction, pointers and all, do to
\* the queue and the block only what Mempool allows.
THEOREM Refinement == Spec => ImplementsMempool
BY Invariance, InitRefines, StepRefines, PTL DEF Spec, ImplementsMempool, MP!Spec
=============================================================================
