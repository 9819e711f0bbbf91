------------------------------ MODULE Database ------------------------------
(***************************************************************************)
(* Saving transactions, blocks and coins (db/save_infos_db.c) in tables    *)
(* that db/createTables_db.c creates.  Each function connects, executes    *)
(* one statement and answers 1 if the server says it was executed.  The    *)
(* users table is in Accounts.                                             *)
(*                                                                         *)
(* The functions come as a library: any caller, in any order, as often as  *)
(* it likes.  The server may be away, and the connection may be lost after *)
(* the statement was executed and before its answer arrived; what is       *)
(* stored survives.  A user without coins is not saved here: the code      *)
(* follows the NULL pointer.                                               *)
(***************************************************************************)
EXTENDS Integers

CONSTANTS
  Tx,         \* transactions with both UUIDs and a coin
  ReceiptOf,  \* Transaction.receipt
  CoinOf,     \* Transaction.coin->type, any int
  NumCoins,   \* NUM_COINS
  Block,      \* blocks that hold transactions
  User,       \* users with coins
  MaxClock    \* bound of the model: the last second of the clock

ASSUME CoinAssumption == NumCoins \in Nat /\ CoinOf \in [Tx -> Int]
ASSUME ClockAssumption == MaxClock \in Nat

VARIABLES
  clock,    \* time(NULL)
  dbUp,     \* the server can be reached
  created,  \* the tables there are
  rows,     \* of each table: what was saved, and when
  answered  \* history: the calls that returned 1, as table and subject

vars == <<clock, dbUp, created, rows, answered>>

-----------------------------------------------------------------------------
(* Tables and statements                                                   *)

Transactions == "transactions"
Blocks == "blocks"
Coins == "relation_transaction_users"
Table == {Transactions, Blocks, Coins}

\* The columns of each table, their case folded as SQL does, and those that are NOT NULL
\* without a value of their own.
TransactionsTable ==
  [name |-> Transactions,
   columns |-> {"id", "sender", "receiver", "qtdcoins", "cointype", "timestamp", "receipt"},
   required |-> {"sender", "receiver", "qtdcoins", "cointype", "timestamp", "receipt"}]

BlocksTable ==
  [name |-> Blocks,
   columns |-> {"id", "blockhash", "previoushash", "timestamp", "transactionsid",
                "numberoftransactions", "createdat", "updatedat", "expireat"},
   required |-> {"blockhash", "timestamp"}]

CoinsTable ==
  [name |-> Coins,
   columns |-> {"userid", "coin_name", "qtd_coin"},
   required |-> {"coin_name", "qtd_coin"}]

InsertTransaction ==
  [into |-> Transactions,
   columns |-> {"sender", "receiver", "qtdcoins", "cointype", "timestamp", "receipt"}]

InsertBlock ==
  [into |-> Blocks,
   columns |-> {"blockhash", "previoushash", "created_at", "updated_at", "expire_at",
                "numberoftransactions"}]

InsertCoins ==
  [into |-> "relation_coins_users", columns |-> {"userid", "coin_name", "qtd_coin"}]

\* The server takes the statement.
Executable(insert) ==
  \E table \in {TransactionsTable, BlocksTable, CoinsTable} :
    /\ table.name = insert.into
    /\ table.name \in created
    /\ insert.columns \subseteq table.columns
    /\ table.required \subseteq insert.columns

\* Mutant: on a conflict the row is replaced.
StoredOver(x) ==
  {r \in rows[Transactions] : ReceiptOf[r.of] # ReceiptOf[x]} \cup {[of |-> x, at |-> clock]}

\* Mutant: every call adds a row.
StoredAgain(x) == rows[Transactions] \cup {[of |-> x, at |-> clock]}

\* The table after an insertion; on a receipt that it has, it does nothing.
Stored(x) ==
  IF \E r \in rows[Transactions] : ReceiptOf[r.of] = ReceiptOf[x]
    THEN rows[Transactions]
    ELSE rows[Transactions] \cup {[of |-> x, at |-> clock]}

-----------------------------------------------------------------------------
(* The functions                                                           *)

Init ==
  /\ clock = 0
  /\ dbUp \in BOOLEAN
  /\ created = {}
  /\ rows = [table \in Table |-> {}]
  /\ answered = {}

\* CREATE TABLE IF NOT EXISTS.
CreateTable(table) ==
  /\ dbUp
  /\ created' = created \cup {table}
  /\ UNCHANGED <<clock, dbUp, rows, answered>>

\* Mutant: the connection is enough for a yes.
AnswerConnected(insert, call) ==
  answered' \in {answered, answered \cup {call}}

\* What the caller hears: 1 for a statement that was executed, unless the answer is lost.
Answer(insert, call) ==
  answered' \in {answered} \cup (IF Executable(insert) THEN {answered \cup {call}} ELSE {})

\* Mutant: one coin type too many.
HasCoinTypeOffByOne(t) == CoinOf[t] \in 0 .. NumCoins

HasCoinType(t) == CoinOf[t] \in 0 .. NumCoins - 1

\* One statement about x, which leaves the table with these rows.
Save(insert, table, x, after) ==
  /\ dbUp
  /\ rows' = IF Executable(insert) THEN [rows EXCEPT ![table] = after] ELSE rows
  /\ Answer(insert, <<table, x>>)
  /\ UNCHANGED <<clock, dbUp, created>>

\* save_transactions_info_db.
SaveTransaction(t) ==
  /\ HasCoinType(t)
  /\ Save(InsertTransaction, Transactions, t, Stored(t))

\* save_blocks_info_db.
SaveBlock(b) == Save(InsertBlock, Blocks, b, rows[Blocks] \cup {[of |-> b, at |-> clock]})

\* save_tables_relation_coins_user_db, of the user's first coin.
SaveCoins(u) == Save(InsertCoins, Coins, u, rows[Coins] \cup {[of |-> u, at |-> clock]})

DbGoesOrComes ==
  /\ dbUp' = ~ dbUp
  /\ UNCHANGED <<clock, created, rows, answered>>

Tick ==
  /\ clock < MaxClock
  /\ clock' = clock + 1
  /\ UNCHANGED <<dbUp, created, rows, answered>>

Next ==
  \/ \E table \in Table : CreateTable(table)
  \/ \E t \in Tx : SaveTransaction(t)
  \/ \E b \in Block : SaveBlock(b)
  \/ \E u \in User : SaveCoins(u)
  \/ DbGoesOrComes
  \/ Tick

Spec == Init /\ [][Next]_vars

-----------------------------------------------------------------------------
(* Properties                                                              *)

\* The type invariant.  Only transactions in a coin that has a name are stored, and
\* never in a table that was not created.
TypeOK ==
  /\ clock \in 0 .. MaxClock
  /\ dbUp \in BOOLEAN
  /\ created \subseteq Table
  /\ DOMAIN rows = Table
  /\ \A table \in Table : rows[table] # {} => table \in created
  /\ rows[Transactions] \subseteq [of : {t \in Tx : CoinOf[t] < NumCoins}, at : 0 .. MaxClock]
  /\ answered \subseteq Table \X (Tx \cup Block \cup User)

\* A caller who was told that his transaction is saved finds it in the table, or finds
\* in its place another transaction that has its receipt: this loss is not reported.
AnsweredIsStored ==
  \A t \in Tx : <<Transactions, t>> \in answered =>
    \/ \E r \in rows[Transactions] : r.of = t
    \/ \E r \in rows[Transactions] : r.of # t /\ ReceiptOf[r.of] = ReceiptOf[t]

\* A transaction that is saved again, because the first answer was lost or by mistake,
\* gets no second row; nor do two transactions of one receipt.
StoredOnce ==
  \A r, s \in rows[Transactions] : ReceiptOf[r.of] = ReceiptOf[s.of] => r = s

\* What is stored stays as it was first written, its time included, whatever is saved
\* again and whichever answers are lost.
FirstRowStays ==
  [][\A table \in Table : rows[table] \subseteq rows'[table]]_vars
=============================================================================
