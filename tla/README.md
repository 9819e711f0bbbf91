# Verification of block-chain-cli

TLA+ models of the C program in `src/`, TLC runs that check them on small
instances, and TLAPS proofs of the main results for every instance. All
references `file:line` are to files under `src/`.

## 1. The system

One process is one terminal session: `cli/main.c` shows an authentication screen
and, to a logged-in user, a menu. It is single-threaded; a handler runs from the
menu choice to its end. All state is in globals of the process, except a
PostgreSQL table of users, which is read at boot and written at registration, and
which other processes may use at the same time. Prices come from an HTTP API.

| Component | State | Operations | Talks to |
|---|---|---|---|
| Queue and block (`services/transaction_actions.c`, `services/blocks.c`) | `Queue.first/last`, nodes with a `prox` pointer, one `Block` (list, count, times) | `new_transaction`, `get_transaction_by_receipt`, `delete_transaction`, `send_to_block` (`can_accept_transaction`, `check_transaction`, `dequeue_transaction`, `fill_block`), `create_block` | reads the user list; the clock |
| Wallet (`services/coins_law.c`) | `Users.coins`, a list of (type, quantity) | `find_coin`, `append_coin`, `buy_coins`, `merge_coins`, `user_coin_qty` | reads prices, changes `Users.balance` |
| User menu (`cli/main.c:101-421`) | `g_users`, `g_current`, `g_queue`, `g_block` | transfer, buy, deposit, swap, live prices, profile, logout | calls all of the above |
| Accounts (`cli/main.c:505-600`, `services/user_actions.c`, `db/`) | the user list of the process, the `users` table | boot (load), login, registration (`new_user`, `save_users_db`), exit | PostgreSQL |
| Price feed (`services/coin_price.c`) | `precoMercado[3]`, the answer buffer | `atualizarPrecosAPI`, `extrairPreco`, `getPreco` | CoinGecko over libcurl |
| Banks and administration (`services/bank_actions.c`, `services/admin_actions.c`) | `g_banks`, `qtdClients`, the admin list | approve, reject, `create_bank`, `create_admin`, `delete_user` | user list |
| Hashing (`services/hash.c`, `services/hashpass.c`) | none | FNV-1a of a string; a byte shift | |
| Database writers (`db/`) | `transactions`, `blocks`, relation tables | create and insert functions that the CLI never calls | PostgreSQL |
| Exchange, user hash table | | not called by the program | |
| Terminal interface (`cli/ui.c`) | none | output | |

What is hard here, and the property each part has to keep:

* **Queue and block.** The same node, with its one `prox` field, is in the queue
  and later in the block. Appending, cancelling at any position and moving the
  head to the block must keep both lists apart, NULL-terminated and complete,
  `last` at the end, the count equal to the length, and the order FIFO.
  The clock is read twice on the way to the block. Receipts are random. There is one
  block and it expires.
* **Wallet and menu.** A transfer records, deducts, credits and offers to the
  block in sequence, and the credit may fail for lack of memory. Prices are
  fetched coin by coin, and a failed fetch keeps the old price. Three pieces of
  code append coin nodes. Nothing may become negative, appear or vanish; the
  transactions must account for the wallets.
* **Accounts.** The CPF is checked against a list that is as old as the boot and
  inserted into a shared table whose refusal is ignored; the UUID is a function
  of the second; the database may be down at boot or at registration; a process may
  be killed at any point.
* **Price feed.** The program waits inside curl while a server it does not control
  sends pieces, stops, redirects or breaks off. No half answer and no error page
  may become a price, and every refresh has to end.
* **Banks and administration.** A bank counts its clients in a number that
  `create_bank` never sets and that removals do not touch; the table keeps the rows
  of removed users; an administrator may remove himself.
* **Database writers.** The statements and the tables are in two files and have to
  fit; an answer may be lost after its statement was executed, and the caller saves
  again; random receipts are the key.

## 2. The modules

| Module | What it is |
|---|---|
| `TransactionRules` | `check_transaction` and `can_accept_transaction`, shared by the two modules that call them |
| `Mempool` | abstract: a FIFO of pending transactions before one append-only block that closes for good |
| `TransactionQueue` | the queue and the block on the heap: `tx` and `prox` map addresses to contents and next pointers |
| `Wallet` | the operations on a coin list, as operators on a sequence of nodes |
| `Ledger` | the money handlers of the user menu: composes `Wallet` and `TransactionRules` |
| `Accounts` | processes that boot, register, log in and stop, on one users table |
| `Membership` | registration, banks, the administrator's panel and restarts, on the list, the counters and the table |
| `PriceBoard` | abstract: prices that are replaced one at a time by quoted ones |
| `PriceFeed` | the loop over the coins, the transfer piece by piece, the parser |
| `Trade` | the swap handler and `merge_coins` with rounded numbers; composes `PriceFeed` |
| `Database` | the writers of transactions, blocks and coins, and the tables |
| `MCTransactionQueue`, `MCLedger`, `MCAccounts`, `MCMembership`, `MCTrade`, `MCDatabase` | constants and symmetry sets for TLC |
| `Arithmetic`, `TransactionQueueLists` | lemmas: least elements, induction and sums over finite sets; pointer lists |
| `TransactionQueueProofs`, `LedgerProofs`, `AccountsProofs`, `MembershipProofs`, `TradeProofs`, `DatabaseProofs` | theorems |

### TransactionQueue

`Node` is the set of addresses `malloc` may return; a node is free when its `tx`
is `NULL`. `IsChain(prox, p, s)` says that `s` is the list that a `while (current
!= NULL)` loop from pointer `p` visits; the operations that walk a list use it,
and `ChainFrom` names the list. Actions are `NewTransaction`,
`DeleteTransaction`, `SendToBlock` (with `Dequeue` and `FillBlock` inside it, as
in the code), the user list's `AddUser` and `RemoveUser`, and `Tick`. Failed calls
(no memory, unknown receipt, closed block, empty queue, invalid head) change nothing
and are stutters. The branch of `send_to_block` that pushes the node back when
`fill_block` refuses is left out: `fill_block` refuses `NULL` only, which has been
excluded. `SendToBlock` takes any later second for `fill_block`'s own call of `time`.
An address becomes available again once freed, so the model sees reuse.

Any order of calls is allowed, including those that `main.c` does not make: the
module is about the two source files as a library, which is how the tests use them.

### Ledger

Quantities and prices are whole numbers. A handler that gives up after fetching
prices has done what `LivePrices` does; one that gives up earlier is a stutter;
the rest are actions. `RefreshPrices` gives each coin a new price or leaves it, 0
standing for "never fetched". `Credited` has two outcomes when the receiver's node
must be allocated and `MallocMayFail`. Two history variables record what the
properties compare against and no action reads: `traded` (bought and swapped
coins) and `lost` (coins no node took in). The queue and block are sequences here,
which `TransactionQueue` justifies by implementing `Mempool`. A receiver is found by
CPF or UUID; users are identified with their UUIDs, and what happens when two share
one is the subject of `Accounts`. `Restart` is a kill, or an exit, at any time between
two handlers, followed by a boot: users come back with the stored balance, 0, because
nothing writes balances back, and without coins, queue and block. A kill inside a
handler gives the same.

### Accounts

A process is at "auth" or "menu", "off", or "saving": between `new_user`, which
reads the clock for the UUID, and `save_users_db`. That is one code path
(`main.c:569-586`) split in two so that other processes, the database, the clock
and a kill can come in between. `SaveUsersDb` is the INSERT with the table's
constraints: nothing on a UUID conflict, an error on a CPF conflict or an
over-long CPF (`read_line` admits 15 characters, the column 14), and the caller
ignores both. A text that the server's encoding refuses has the effect of an over-long
CPF. A load takes all rows, or, with `CallocMayFail`, any of them: the loop over the rows
ends at the first `calloc` that fails (`save_infos_db.c:150`), and the server chooses their
order. The database being down and its tables being absent look the same to
every query, so one variable stands for both. `missed` is a history variable.
The password check, the name and the age are left out: they can only refuse.

### Membership

One process whose database always answers (`Accounts` has the rest). A user is named
by his CPF and a UUID by its second. `Restart` is a kill or an exit, followed by
`main`'s start: memberships, banks and administrators are gone, and the list comes from
the table, in any order and without the rows (`unloaded`) that were left when `calloc`
failed. `LongCpf` are the users whom the table refuses, as in `Accounts`. The slots of `g_banks` get their counter from `Uninit`, whatever
the memory that `malloc` returned holds. `Register` is the whole of
`auth_screen`'s registration, approval included; `Approve` and `Reject` may also come at
any time, as library calls. `DeleteUser` takes the first user on the list with the
name or the UUID; it reads the right to remove from `g_current`, which is freed memory
once the administrator has removed himself: the test may then go either way. That use
after `free` may be worse than a wrong answer to the test; the model has no outcome for
a crash, and no session gets there (`PanelNeedsSeed`). `SeedAdmins` stands for an
administrator that something else puts on the list, so that the panel is reached
at all. `first`, `departed`, `removed`, `unloaded` and `seeded` are history; the middle
three begin anew with each process.

### PriceFeed and Trade

A refresh (`StartRefresh`) puts the coins in `todo`. For the first one `Begin` starts a
transfer and picks the answer that the server is sending, a status and a body; `Deliver`
is one call of `write_callback` with a piece of any size; `Complete`, `Fail` and
`TimeOut` are the ways in which `curl_easy_perform` returns, each with the rest of the
loop body: status test, parsing, assignment, `cleanup`. `CannotBegin` is a failed
`malloc` or `curl_easy_init`. Answers are announced with their length, so that one that
ends early is an error to curl; `Fail` may therefore come at any time. A body is a sequence of
digits and of the key `"usd":`, the only text the parser looks for; a decimal point
is left out, prices being whole. `Leftover` holds what the one byte that `malloc`
returned and those after it may spell: `extrairPreco` reads them when the body was
empty (`coin_price.c:75`), and what it finds is a choice. `quoted` and `unwritten` are history.

`Trade` is the swap screen on that feed, once more with the numbers rounded to
`Precision` bits, to nearest with ties to even, as the hardware rounds to 53: `Exponent`
is the first power of two that leaves no more than `Precision` bits of a fraction. A
quantity is a multiple of the smallest number there is. The handler's steps are actions
of their own (`SwapScreen`, the fetches, `Choose`, `Merge`) because the fetches
take time; nothing else changes the wallet meanwhile, since the program has one thread.
`nodes` are the coins that the wallet has a node for. `CanMerge` is `merge_coins` up to the
search for the destination's node; when there is none, `Merge` may also refuse because
`append_coin` found no memory, before anything has changed. `Init` lets the user have
emptied nodes of other coins.

The same refresh is one step in `Ledger`. `BoardImplemented` is what allows it:
all that the handlers see of the feed is single prices replaced.

### Database

`TransactionsTable`, `BlocksTable` and `CoinsTable` are the column names and the columns
that need a value, from the `CREATE TABLE` statements; `InsertTransaction`,
`InsertBlock` and `InsertCoins` are the names in the `INSERT`s. `Executable` is what
the server makes of the pair, which is never true of the last two (section 3). `Answer` may lose the answer of a statement that was
executed. Nobody calls the writers yet, so every order of calls is allowed.

## 3. The runs

| Run | Checks | Result |
|---|---|---|
| `queue` | types, `LastIsTail`, `ListsPartitionHeap`, `CountMatchesBlock`, `ImplementsMempool` | hold |
| `block_stamp` | `StampedInsideWindow`: no update at or after the expiry | violated |
| `delete_receipt` | `DeletedNotFound`: a deleted receipt is not found | violated |
| `queue_progress` | `QueuedReachBlock`: a queued transaction leaves the queue | violated |
| `ledger` | types (nothing negative), `OneNodePerCoin`, `NothingPendingWhileOpen`, `WalletsMatchTransactions`, `ValueConserved` | hold |
| `ledger_credit` | `TransferMovesCoins`: coins in circulation survive a transfer | violated |
| `accounts` | types, `CpfUniqueInProcess`, `ListedIsSavedUnlessClash` | hold |
| `account_uuid` | `UuidsDiffer` | violated |
| `account_cpf` | `CpfIsOneAccount` | violated |
| `membership` | types, `StoredIsListed`, `CountFollowsMembers`, `ListedIsStored`, `PanelNeedsSeed` | hold |
| `trade` | types, `PricesAreQuoted`, `ImplementsBoard`, `RefreshEnds`, `RefusedByRoundingOrMemory`, `SwapKeepsWorth` | hold |
| `database` | types, `AnsweredIsStored`, `StoredOnce`, `FirstRowStays` | hold |

The violated properties state what a comment, a test or the documentation says;
each is one disagreement between that text and the code:

1. `fill_block` (`blocks.c:48`) stamps the block with a second that may be past the
   expiry that was tested, against `block_model.h:12`.
2. Receipts are not checked for being in use (`transaction_actions.c:79`), so a
   receipt may be found after its deletion, against
   `test/test_transaction_actions.c:158`.
3. No block follows the first (`main.c:621`): what is queued after its hour stays
   queued, against `README.md:20-22`.
4. A transfer whose receiver's node cannot be allocated deducts without crediting
   (`main.c:180`), against the comment at `main.c:170`.
5. Two registrations in one second get one UUID (`user_actions.c:17`), against the
   (ignored) test at `test/test_exchange.c:109`.
6. Two processes may register one CPF (`main.c:562`); the table refuses the second,
   nobody looks (`main.c:581`), and the account lives until its process ends.

Some properties that hold describe how the code falls short, as exactly as the code
allows, rather than what one would like of it:

* `CountFollowsMembers`: a bank's counter is wrong by its uninitialised start
  (`admin_actions.c:53`) and by the clients that `delete_user` removed; and by nothing
  else, unless the start is negative.
* `StoredIsListed` and `ListedIsStored`: the table has a user whom the process does not
  know only when he was removed in this session (`admin_actions.c:97` does not touch the
  table) or when the boot had no memory for his row; and the process lists a user without
  a row of his own only when the CPF is too long, the UUID taken, or his row was left behind
  in one of those ways and he registered again. That is with a database that answers; with
  outages, and with other processes, `ListedIsSavedUnlessClash` of `accounts` says it.
* `RefusedByRoundingOrMemory`: a swap that the screen offers and the user confirms may be
  refused with "check your balance and the prices". One cause is that `append_coin` finds
  no memory for the destination's first node. The other is rounding: the quotient that `main.c:343`
  computes was rounded up, and `merge_coins` multiplies it by the price again
  (`coins_law.c:65`). It does happen with doubles: 0.39 BTC at 72991.0 for ETH
  at 3343.63 is refused. With the prices of a day about one swap in twenty is.
* `PanelNeedsSeed`: no session of the program reaches the administrator's panel, since
  `admin_list` is empty at boot and only the panel adds to it.
* `PricesAreQuoted` exempts prices that were read from a buffer nobody wrote.

Two more disagreements have no run, because nothing has to happen for them; they are seen
by reading two places side by side:

* No code creates the tables, which `README.md:168` says the first boot does.
* `README.md:88` says that blocks and coins are persisted, and `README.md:34-35` names the
  table of the coins. Neither can be: the `INSERT` into `blocks` (`save_infos_db.c:67`)
  says `created_at` where the table says `createdAt`, and has no `timestamp`
  (`createTables_db.c:62`); the coins go into `relation_coins_users`
  (`save_infos_db.c:174`), which nobody creates. `Database` has both statements as they
  are, so both calls are refused in every state.

### Bounds

* `queue`: 3 nodes, 2 users, 4 kinds of transaction (two share a receipt, one is
  without quantity, parties in both orders), a window of 2 seconds and 3 to
  run. Three nodes give queues with a head, a middle and a tail, and a queue and a
  block that both have a list; a node can be freed and reused. Nodes are symmetric.
  The violation runs use 2 nodes, which is enough.
* `ledger`: 2 users, 2 coins, prices 1 and 2, amounts of 1, at most 2 units of
  money and of each coin in all, 2 transfers, a block open for 1 second of 2. One
  transfer can be in the block and one wait behind its expiry; coins go back and
  forth; prices differ, fail to arrive, and change between trades. Users and coins are
  symmetric. `MaxAmount`, `MaxTransfers` and `MaxClock` bound the model only.
* `accounts`: 2 processes, 3 CPFs of which one is too long, 2 seconds, the database
  going down and coming back at any time, boots that run out of memory after any row. The
  two violation runs need none of the failures and have them off. Two seconds give equal and different UUIDs;
  three CPFs let the processes clash on one while others are stored.
* `membership`: 3 users of one name, one of them with a CPF that does not fit, one bank
  (there at boot or created later), counters that start at -1, 0 or 2, UUIDs
  from 2 seconds, so that they collide or not, one seeded administrator, boots that leave
  out any rows. Users can be administrators, remove each other or themselves, and register
  again. The counters of several banks do not touch each other but through a user's `bank`
  field, which one bank shows too; `CounterSettled` is proved for any number. `MaxClock` and
  `MaxDeparted` bound the model only. Users whose CPF fits are symmetric.
* `trade`: 2 coins, bodies of up to 3 tokens that are empty, without price, zero, one
  or two digits or cut by a second key, statuses 200, 302 and 503, one swap after any
  number of refreshes, a wallet with or without a node for the other coin. 4 bits of precision, with holdings of 28 or 30 and 4 quantities,
  give exact and inexact quotients, ties, quotients that underflow, and swaps refused by
  rounding. `MaxSwaps` bounds the model only.
* `database`: 4 transactions of which two share a receipt and one has a coin type that
  is out of range, one block, one user, 3 seconds.

### Fairness

`RefreshEnds` assumes that the program goes on by itself between two transfers
(`WF(Begin \/ CannotBegin)`) and that no transfer lasts longer than `CURLOPT_TIMEOUT`
(`coin_price.c:102`), `WF(TimeOut)`. Nothing is assumed of the server: it may send one byte and stop.
The property fails if the time limit only covers the connection.

`queue_progress` assumes that the clock advances and that
`send_to_block` is called again and again, more than the code does (it is called
once per transfer, `main.c:185`); the property fails nevertheless. No other
property is a liveness property.

### Mutants

Each property that holds has a mutant: a bug in one definition (a pointer not
reset, a swapped field, an unchecked quantity, an inverted quotient, a save done
once) under which TLC finds the property violated. They stand before the
definitions they replace.

## 4. The proofs

All are for any values of the constants that satisfy the named `ASSUME`s (types,
`NULL` not an address, finitely many addresses, users and coins, natural bounds, at least
two significant bits, answers that are sequences).

**Arithmetic.** The library's induction theorems take a predicate as a parameter, which
the provers cannot instantiate. `SubsetInduction` and `Induction` say the same of sets: a family
of subsets of a finite set that has each subset whose parts it has is all of them. This
follows from the library's theorem that strict inclusion of finite sets is well-founded. With it the
fold in `SumFunctionOnSet` satisfies the equation that defines it (`SumNext`), and a
sum can be split at any element (`SumRemove`), from which the others follow.

**TransactionQueueProofs.** `TypeCorrect`, `TailPointerCorrect`, `HeapPartitioned`
and `CountCorrect` state the four invariants of run `queue`. None is inductive:
whether an append through `last` is right depends on the whole heap. The inductive
invariant says that there are two node sequences, one for the queue and one for the
block, that are chains over `prox`, disjoint and without repetition, that cover
exactly the allocated nodes, with `last` at the end of the first and the count equal
to the length of the second. Each action maps the pair of sequences to a pair that
fits the new state: append to the first, remove one element, or move the first's
head to the second's end. `TransactionQueueLists` has the lemmas: a chain is
determined by its pointer, changing `prox` outside a chain keeps it, and what
appending to, unlinking from and splitting off a chain gives.
`Refinement` is `Spec => ImplementsMempool`: since chains are unique, the sequence
pair is what `Queued` and `Included` denote, and each of those moves is a step of
`Mempool`.

**LedgerProofs.** `LedgerTyped`, `OneNode` and `NothingPending` are proved together:
that a deduction does not go below zero needs the node checked and the node changed to
be the same, and that a transfer leaves the queue of an open block empty needs it
to be empty before, so that the head is the transfer's own, valid, transaction.
The wallet lemmas say what `Credit` and `Debit` keep. `WalletsMatch` is inductive on top of
these: a transfer adds its quantity to the receiver's side of the equation, as quantity or as
lost, and to the sender's, while the record grows by the transaction; sending to the block moves
the head from `pending` to `included`, which leaves `Recorded` as it is. `ValueKept`
is about steps: buying takes from the balance what the node gains, a swap exchanges
quotients that are exact in `Ledger`, a transfer moves a quantity from one
wallet to another or to `lost`; the sum over the users then changes in one or two summands.
`OnlyMallocLosesCoins` is the other side of run `ledger_credit`: without `MallocMayFail` what the run
refutes holds, so that the failed allocation is the one cause.

**AccountsProofs.** `AccountsTyped`, `CpfUnique` and `SavedUnlessClash`. The second needs
two more conjuncts: the table has no CPF twice (a boot copies it) and a user who is being
saved has a CPF that is new to his process. The third adds that the table only grows,
so that the row an account lost to stays there.

**MembershipProofs.** `MembershipTyped`, `StoredListed`, `CounterSettled`, `ListStored` and
`PanelUnreachable`. The inductive invariant is their conjunction. `ListedIsStored` rests on
`StoredIsListed`: without it a registration could find the row of somebody who is not on
the list, though he was neither removed nor left out. The counter's proof goes through lemmas
on the number of a bank's members when one joins or leaves.

**TradeProofs.** `FeedTyped`, `QuotedPrices` and `BoardImplemented`, for any coins
and answers. What carries them is that the buffer is always the
beginning of the answer awaited, so that a buffer as long as the body is the body.
The digits of an answer are a number that is not negative (`ValueNatural`, by induction
on their count) and zero is refused, so every price there is is positive (`QuotesPositive`).

`TradeTyped`, `RefusalExplained` and `WorthKept` are about the swap, for any precision of two
bits or more, any quantities and any prices that answers may bring. They rest on four facts of
rounding: it keeps the order of fractions (`RoundMonotone`), leaves every number that has no more
than `Precision` bits as it is (`RoundUnits`), and so what is already rounded (`RoundTwice`), and is
off by at most one part in `2^Precision` or half of the smallest number (`RoundError`). The
inductive invariant adds to the types that the screen's numbers are those that today's prices
give (`OfferShown`), from the question until the screen is cleared, which holds
because no fetch can happen in between, and that a refused offer is still
one that a test of `merge_coins` refuses, or one whose destination has no node. `RefusedOffer` and `WorthBound` are then about numbers only: an offer
is refused when the product of the rounded quotient exceeds the worth given, and by monotony the
next number below does not; and the two roundings of the quantities and the two of the
quotient move the worth by no more than the bound.

**DatabaseProofs.** `DatabaseTyped`, `AnswersKept`, `OneRow` and `RowsStay`.
The second needs that a row once there stays, and that each call that was answered has a row
of its receipt (`ReceiptStored`); the last that only transactions are ever written, since the
other two statements are not executable, whichever tables there are (`NotExecutable`).

**Model-checked only.** `RefreshEnds`, which is liveness under fairness and needs
`ENABLED`, out of this prover's reach, and everything that is violated. All other properties of
the runs that hold have a theorem.

## 5. What is not modelled

* Infinities and NaN, which `atof` accepts; prices and quantities with decimals in
  the models of the handlers (`Trade` has rounding, on a scale of its own).
* curl beyond what `coin_price.c` sees of it.
* Both hash functions: they have no state, one is a digest whose quality is not a
  property of behaviours, and nothing calls the other, which leaves bytes unwritten for
  short passwords (`hashpass.c:17`). A wrong password changes nothing.
* Crashes inside a handler that follow a pointer to freed memory or `NULL`: an
  administrator who removed himself, a user without coins in
  `save_tables_relation_coins_user_db`.
* Hashes and linking of blocks: no code computes or sets any.
* The exchange record and the hash table in `user_actions.c`: nothing uses them.
* A `strdup` that fails where the `calloc` before it did not (`save_infos_db.c:151-154`): the
  user would be listed without one of his fields.
* Screen drawing, the clipboard and prompts (`cli/ui.c`).

## 6. How the project is laid out, and what is left

The modules were written in this order: `TransactionQueue` with `Mempool`, `Ledger` with
`Wallet`, `Accounts`, `Membership`, `PriceFeed` with `PriceBoard`, `Trade`, `Database`. Every
component that keeps state and that some code calls is modelled; of those nobody calls,
the database writers are.

Left to state: that `Ledger`'s queue and block, sequences there, are a `Mempool` (now an
argument in words, by `Refinement`), and the parts of value conservation that need no sum.
When the program gains a caller for the writers, or a second block, the order of
calls in `Database` and the finding of `queue_progress` are the places to begin.
