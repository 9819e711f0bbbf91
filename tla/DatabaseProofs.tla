--------------------------- MODULE DatabaseProofs ---------------------------
(***************************************************************************)
(* Proofs about Database, for any transactions, receipts, blocks, users    *)
(* and outages.                                                            *)
(*                                                                         *)
(* No statement about blocks or coins is executable, whatever was created, *)
(* so only Stored ever changes a table; what it does to receipts and rows  *)
(* is a lemma, and the rest is that the answers follow it.                 *)
(***************************************************************************)
EXTENDS Database, TLAPS

LEMMA Tables ==
  /\ Transactions \in Table /\ Blocks \in Table /\ Coins \in Table
  /\ Transactions # Blocks /\ Transactions # Coins /\ Blocks # Coins
BY DEF Table, Transactions, Blocks, Coins

\* The inserted names against the tables'.
LEMMA NotExecutable == ~ Executable(InsertBlock) /\ ~ Executable(InsertCoins)
<1>1. /\ TransactionsTable.name = Transactions /\ BlocksTable.name = Blocks
      /\ CoinsTable.name = Coins
  BY DEF TransactionsTable, BlocksTable, CoinsTable
<1>2. ~ Executable(InsertBlock)
  <2>1. InsertBlock.into = Blocks /\ "created_at" \in InsertBlock.columns
    BY DEF InsertBlock
  <2>2. "created_at" \notin BlocksTable.columns
    BY DEF BlocksTable
  <2> QED BY <1>1, <2>1, <2>2, Tables DEF Executable
<1>3. ~ Executable(InsertCoins)
  <2>1. InsertCoins.into \notin Table
    BY DEF InsertCoins, Table, Transactions, Blocks, Coins
  <2> QED BY <1>1, <2>1, Tables DEF Executable
<1> QED BY <1>2, <1>3

\* An insertion keeps every row, and leaves one with the receipt.
LEMMA Insertion ==
  ASSUME NEW x \in Tx
  PROVE  /\ rows[Transactions] \subseteq Stored(x)
         /\ Stored(x) \subseteq rows[Transactions] \cup {[of |-> x, at |-> clock]}
         /\ \E r \in Stored(x) : ReceiptOf[r.of] = ReceiptOf[x]
         /\ StoredOnce => \A r, s \in Stored(x) : ReceiptOf[r.of] = ReceiptOf[s.of] => r = s
<1> DEFINE new == [of |-> x, at |-> clock]
<1>1. CASE \E r \in rows[Transactions] : ReceiptOf[r.of] = ReceiptOf[x]
  BY <1>1 DEF Stored, StoredOnce
<1>2. CASE ~ \E r \in rows[Transactions] : ReceiptOf[r.of] = ReceiptOf[x]
  <2>1. Stored(x) = rows[Transactions] \cup {new} /\ new.of = x
    BY <1>2 DEF Stored
  <2>2. \E r \in Stored(x) : ReceiptOf[r.of] = ReceiptOf[x]
    BY <2>1
  <2>3. ASSUME StoredOnce
        PROVE  \A r, s \in Stored(x) : ReceiptOf[r.of] = ReceiptOf[s.of] => r = s
    <3> HIDE DEF new
    <3> QED BY <1>2, <2>1, <2>3 DEF StoredOnce
  <2> QED BY <2>1, <2>2, <2>3
<1> QED BY <1>1, <1>2

\* A caller who was told 1 finds his receipt: AnsweredIsStored without the two cases.
ReceiptStored ==
  \A t \in Tx : <<Transactions, t>> \in answered =>
    \E r \in rows[Transactions] : ReceiptOf[r.of] = ReceiptOf[t]

IInv == TypeOK /\ ReceiptStored /\ StoredOnce

LEMMA InitIInv == Init => IInv
<1> SUFFICES ASSUME Init PROVE IInv
  OBVIOUS
<1>1. \A table \in Table : rows[table] = {}
  BY DEF Init
<1>2. TypeOK
  BY <1>1, Tables, ClockAssumption DEF Init, TypeOK
<1>3. ReceiptStored /\ StoredOnce
  BY <1>1, Tables DEF Init, ReceiptStored, StoredOnce
<1> QED BY <1>2, <1>3 DEF IInv

\* A refused statement changes nothing.
LEMMA RefusedStep ==
  ASSUME NEW insert, NEW table, NEW x, NEW after, ~ Executable(insert),
         Save(insert, table, x, after)
  PROVE  UNCHANGED vars
BY DEF Save, Answer, vars

LEMMA SaveTransactionStep ==
  ASSUME IInv, NEW t \in Tx, SaveTransaction(t), Executable(InsertTransaction)
  PROVE  IInv' /\ \A table \in Table : rows[table] \subseteq rows'[table]
<1>1. /\ rows' = [rows EXCEPT ![Transactions] = Stored(t)]
      /\ answered' \in {answered, answered \cup {<<Transactions, t>>}}
      /\ UNCHANGED <<clock, dbUp, created>>
      /\ HasCoinType(t)
  BY DEF SaveTransaction, Save, Answer
<1>2. /\ DOMAIN rows = Table /\ DOMAIN rows' = Table
      /\ rows'[Transactions] = Stored(t)
      /\ \A table \in Table \ {Transactions} : rows'[table] = rows[table]
  BY <1>1, Tables DEF IInv, TypeOK
<1>3. \A table \in Table : rows[table] \subseteq rows'[table]
  BY <1>2, Insertion
<1>4. TypeOK'
  <2>1. Transactions \in created
    <3>1. InsertTransaction.into = Transactions
      BY DEF InsertTransaction
    <3> QED BY <3>1 DEF Executable
  <2>2. CoinOf[t] < NumCoins
    BY <1>1, CoinAssumption DEF HasCoinType
  <2>3. rows'[Transactions] \subseteq [of : {u \in Tx : CoinOf[u] < NumCoins}, at : 0 .. MaxClock]
    <3>1. [of |-> t, at |-> clock] \in [of : {u \in Tx : CoinOf[u] < NumCoins}, at : 0 .. MaxClock]
      BY <2>2 DEF IInv, TypeOK
    <3> QED BY <1>2, <3>1, Insertion DEF IInv, TypeOK
  <2>4. \A table \in Table : rows'[table] # {} => table \in created'
    BY <1>1, <1>2, <2>1 DEF IInv, TypeOK
  <2>5. answered' \subseteq Table \X (Tx \cup Block \cup User)
    BY <1>1, Tables DEF IInv, TypeOK
  <2> QED BY <1>1, <1>2, <2>3, <2>4, <2>5 DEF IInv, TypeOK
<1>5. StoredOnce'
  BY <1>2, Insertion DEF IInv, StoredOnce
<1>6. ReceiptStored'
  <2> SUFFICES ASSUME NEW u \in Tx, <<Transactions, u>> \in answered'
               PROVE  \E r \in rows'[Transactions] : ReceiptOf[r.of] = ReceiptOf[u]
    BY DEF ReceiptStored
  <2>1. CASE u = t
    BY <1>2, <2>1, Insertion
  <2>2. CASE u # t
    <3>1. <<Transactions, u>> \in answered
      BY <1>1, <2>2
    <3> QED BY <1>3, <3>1, Tables DEF IInv, ReceiptStored
  <2> QED BY <2>1, <2>2
<1> QED BY <1>3, <1>4, <1>5, <1>6 DEF IInv

LEMMA StepIInv ==
  IInv /\ [Next]_vars => IInv' /\ \A table \in Table : rows[table] \subseteq rows'[table]
<1> SUFFICES ASSUME IInv, [Next]_vars
             PROVE  IInv' /\ \A table \in Table : rows[table] \subseteq rows'[table]
  OBVIOUS
<1>1. ASSUME UNCHANGED vars
      PROVE  IInv' /\ \A table \in Table : rows[table] \subseteq rows'[table]
  BY <1>1 DEF vars, IInv, TypeOK, ReceiptStored, StoredOnce
<1>2. ASSUME UNCHANGED <<rows, answered>>, TypeOK'
      PROVE  IInv' /\ \A table \in Table : rows[table] \subseteq rows'[table]
  BY <1>2 DEF IInv, ReceiptStored, StoredOnce
<1>3. ASSUME NEW table \in Table, CreateTable(table) PROVE TypeOK' /\ UNCHANGED <<rows, answered>>
  BY <1>3 DEF CreateTable, IInv, TypeOK
<1>4. ASSUME NEW t \in Tx, SaveTransaction(t)
      PROVE  IInv' /\ \A table \in Table : rows[table] \subseteq rows'[table]
  <2>1. CASE Executable(InsertTransaction)
    BY <1>4, <2>1, SaveTransactionStep
  <2>2. CASE ~ Executable(InsertTransaction)
    BY <1>1, <1>4, <2>2, RefusedStep DEF SaveTransaction
  <2> QED BY <2>1, <2>2
<1>5. ASSUME NEW b \in Block, SaveBlock(b) PROVE UNCHANGED vars
  BY <1>5, NotExecutable, RefusedStep DEF SaveBlock
<1>6. ASSUME NEW u \in User, SaveCoins(u) PROVE UNCHANGED vars
  BY <1>6, NotExecutable, RefusedStep DEF SaveCoins
<1>7. CASE DbGoesOrComes
  <2>1. TypeOK' /\ UNCHANGED <<rows, answered>>
    BY <1>7 DEF DbGoesOrComes, IInv, TypeOK
  <2> QED BY <1>2, <2>1
<1>8. CASE Tick
  <2>1. TypeOK' /\ UNCHANGED <<rows, answered>>
    BY <1>8, ClockAssumption DEF Tick, IInv, TypeOK
  <2> QED BY <1>2, <2>1
<1> QED BY <1>1, <1>2, <1>3, <1>4, <1>5, <1>6, <1>7, <1>8 DEF Next

LEMMA Invariance == Spec => []IInv
<1>1. IInv /\ [Next]_vars => IInv'
  BY StepIInv
<1> QED BY <1>1, InitIInv, PTL DEF Spec

-----------------------------------------------------------------------------
(* What it gives                                                           *)

\* Types, and that only transactions in a coin with a name are stored, in a table that
\* was created.
THEOREM DatabaseTyped == Spec => []TypeOK
BY Invariance, PTL DEF IInv

\* What was answered with 1 is stored, or its receipt is another transaction's.
THEOREM AnswersKept == Spec => []AnsweredIsStored
<1>1. IInv => AnsweredIsStored
  BY DEF IInv, ReceiptStored, AnsweredIsStored
<1> QED BY <1>1, Invariance, PTL

\* Saving again never makes a second row.
THEOREM OneRow == Spec => []StoredOnce
BY Invariance, PTL DEF IInv

\* No call ever changes or removes a row.
THEOREM RowsStay == Spec => FirstRowStays
<1>1. IInv /\ [Next]_vars => [\A table \in Table : rows[table] \subseteq rows'[table]]_vars
  BY StepIInv
<1> QED BY <1>1, Invariance, PTL DEF Spec, FirstRowStays
=============================================================================
