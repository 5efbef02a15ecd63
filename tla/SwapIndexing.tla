----------------------------- MODULE SwapIndexing -----------------------------
(***************************************************************************)
(* How the swaps of the AMM reach the tables orders and takes.             *)
(*                                                                         *)
(* Three sources run the same code (builders/swaps.ts) on a transaction:   *)
(* the replay of the stored transactions when the process starts, the      *)
(* queue on which a watcher pushes what it has just stored                 *)
(* (start-transaction-history-indexers.ts), and the log subscription of a  *)
(* market (start-logs-subscribe-indexer.ts).  Nothing orders them.  The    *)
(* code checks for the order row, then writes the transactions row, the    *)
(* order and the take, each in a statement of its own.                     *)
(*                                                                         *)
(* The watchers appear here only by what they hand over; TransactionWatcher *)
(* has the rest.  Signatures are numbered by their position on the chain.  *)
(***************************************************************************)
EXTENDS Integers

CONSTANTS
    Accts,      \* the watched accounts
    Indexed,    \* those whose first dependency is the AMM instruction indexer
    NumTxs,     \* the number of transactions that the chain will hold
    MaxSlot,    \* the slot of the last one
    SlotOf,     \* SlotOf[i]: the slot of transaction i
    Mentions,   \* Mentions[i]: the watched accounts that transaction i names
    Swaps,      \* transactions from which a swap can be built
    Refused,    \* swaps of actors without a users row, which orders refers to
    Subscribed, \* transactions of a market with a log subscription
    MaxCrashes, \* bound: how many times the process may die
    Faults      \* what may go wrong, of "crash", "lostLogs", "nullTx",
                \* "buildError" and "dbError"

Sigs == 1..NumTxs
Slots == 0..MaxSlot

ASSUME ChainAssumption ==
    /\ NumTxs \in Nat
    /\ MaxSlot \in Nat
    /\ SlotOf \in [Sigs -> Slots]
    /\ Mentions \in [Sigs -> SUBSET Accts]
    /\ Indexed \subseteq Accts
    /\ Swaps \subseteq Sigs
    /\ Refused \subseteq Swaps
    /\ Subscribed \subseteq Sigs
    /\ MaxCrashes \in Nat

VARIABLES
    confirmed,           \* the transactions up to this one are on the chain
    crashes,             \* how many times the process died
    txs,                 \* rows of transactions
    links,               \* rows of transaction_watcher_transactions
    orders,              \* rows of orders
    takes,               \* rows of takes
    latestSlotProcessed, \* of the row of the indexer, one for all its accounts
    watch,               \* what each watcher is doing
    worker,              \* where each source is with each transaction
    replay               \* the replay of each indexed account

chainVars == <<confirmed, crashes>>
swapVars  == <<orders, takes, latestSlotProcessed>>
vars == <<chainVars, txs, links, swapVars, watch, worker, replay>>

-------------------------------------------------------------------------------
Replay(a) == <<"replay", a>>
Queue(a) == <<"queue", a>>
Logs == <<"logs", "market">>

\* Each has its own copy of the work on a transaction.
Sources == {Replay(a) : a \in Indexed} \cup {Queue(a) : a \in Indexed} \cup {Logs}

Stages == {"none",    \* the source has nothing to do with the transaction
           "check",   \* awaiting the order row
           "build",   \* awaiting getTransaction, the market and its tokens
           "tx",      \* awaiting the upsert of the transactions row
           "order",   \* awaiting the insert of the order
           "take",    \* awaiting the insert of the take
           "advance"} \* awaiting the update of latestSlotProcessed

WatchType == [seen : 0..NumTxs,  \* latestTxSig of its row
              pc : {"idle",      \* at the next signature of the history
                    "upsert",    \* awaiting the write of the transactions row
                    "link",      \* awaiting the write of the link row
                    "queued"},   \* awaiting the handler of the queue
              cur : 0..NumTxs]   \* the signature in hand

ReplayType == [pc : {"start",    \* startAllIndexers has not read its row
                     "query",    \* awaiting the transactions to replay
                     "run"},     \* in the loop of indexExistingTxs
               from : Slots,     \* latestSlotProcessed when the row was read
               todo : SUBSET Sigs]

\* The one type invariant of the module.
TypeOK ==
    /\ confirmed \in 0..NumTxs
    /\ crashes \in 0..MaxCrashes
    /\ txs \subseteq Sigs
    /\ links \subseteq Accts \X Sigs
    /\ orders \subseteq Sigs
    /\ takes \subseteq Sigs
    /\ latestSlotProcessed \in Slots
    /\ watch \in [Accts -> WatchType]
    /\ worker \in [Sources -> [Sigs -> Stages]]
    /\ replay \in [Indexed -> ReplayType]
    /\ \A a \in Accts : watch[a].pc # "idle" => watch[a].cur \in Sigs

NoWork == [s \in Sources |-> [i \in Sigs |-> "none"]]
NoReplay == [a \in Indexed |-> [pc |-> "start", from |-> 0, todo |-> {}]]

Init ==
    /\ confirmed = 0
    /\ crashes = 0
    /\ txs = {}
    /\ links = {}
    /\ orders = {}
    /\ takes = {}
    /\ latestSlotProcessed = 0
    /\ watch = [a \in Accts |-> [seen |-> 0, pc |-> "idle", cur |-> 0]]
    /\ worker = NoWork
    /\ replay = NoReplay

\* Source s is at another stage with transaction i.
Goto(s, i, stage) == worker' = [worker EXCEPT ![s][i] = stage]

-------------------------------------------------------------------------------
(* Where the work comes from.                                              *)

\* A transaction is confirmed.  A market's logs are sent to the subscription once.
Confirm ==
    LET i == confirmed + 1
    IN  /\ confirmed < NumTxs
        /\ confirmed' = i
        /\ \/ /\ i \in Subscribed
              /\ Goto(Logs, i, "check")
           \/ /\ i \notin Subscribed \/ "lostLogs" \in Faults
              /\ UNCHANGED worker
        /\ UNCHANGED <<crashes, txs, links, swapVars, watch, replay>>

\* A watcher skips what is stored, whoever stored it; only the rest is handed over.
WatcherReads(a, i) ==
    /\ watch[a].pc = "idle"
    /\ i \in watch[a].seen + 1 .. confirmed
    /\ a \in Mentions[i]
    /\ \A j \in watch[a].seen + 1 .. i - 1 : a \notin Mentions[j]
    /\ watch' = [watch EXCEPT ![a] = IF i \in txs
                                     THEN [@ EXCEPT !.seen = i]
                                     ELSE [@ EXCEPT !.pc = "upsert", !.cur = i]]
    /\ UNCHANGED <<chainVars, txs, links, swapVars, worker, replay>>

WatcherUpserts(a) ==
    /\ watch[a].pc = "upsert"
    /\ txs' = txs \cup {watch[a].cur}
    /\ watch' = [watch EXCEPT ![a].pc = "link"]
    /\ UNCHANGED <<chainVars, links, swapVars, worker, replay>>

\* The push follows the insert of the link row at once.
WatcherLinks(a) ==
    /\ watch[a].pc = "link"
    /\ links' = links \cup {<<a, watch[a].cur>>}
    /\ watch' = [watch EXCEPT ![a].pc = "queued"]
    /\ UNCHANGED <<chainVars, txs, swapVars, worker, replay>>

\* handleNewTxs returns without waiting for indexExistingTxs, so that any number of
\* transactions of the queue are worked on at once.
HandleNewTxs(a) ==
    LET i == watch[a].cur
    IN  /\ watch[a].pc = "queued"
        /\ \/ a \in Indexed /\ Goto(Queue(a), i, "check")
           \/ a \notin Indexed /\ UNCHANGED worker
        /\ watch' = [watch EXCEPT ![a].seen = i, ![a].pc = "idle", ![a].cur = 0]
        /\ UNCHANGED <<chainVars, txs, links, swapVars, replay>>

\* startAllIndexers reads the rows of all the dependencies at once.
ReadIndexers ==
    /\ \A a \in Indexed : replay[a].pc = "start"
    /\ replay' = [a \in Indexed |->
                    [pc |-> "query", from |-> latestSlotProcessed, todo |-> {}]]
    /\ UNCHANGED <<chainVars, txs, links, swapVars, watch, worker>>

\* Variant of QueryTransactions with a bug: the slot itself is left out.
QueryLaterTransactions(a) ==
    /\ replay[a].pc = "query"
    /\ replay' = [replay EXCEPT
                    ![a].pc = "run",
                    ![a].todo = {i \in txs : <<a, i>> \in links /\ SlotOf[i] > replay[a].from}]
    /\ UNCHANGED <<chainVars, txs, links, swapVars, watch, worker>>

\* The transactions of the account from that slot on, in no order.
QueryTransactions(a) ==
    /\ replay[a].pc = "query"
    /\ replay' = [replay EXCEPT
                    ![a].pc = "run",
                    ![a].todo = {i \in txs : <<a, i>> \in links /\ SlotOf[i] >= replay[a].from}]
    /\ UNCHANGED <<chainVars, txs, links, swapVars, watch, worker>>

\* The loop of indexExistingTxs takes one after the other.
ReplayNext(a, i) ==
    /\ i \in replay[a].todo
    /\ \A j \in Sigs : worker[Replay(a)][j] = "none"
    /\ replay' = [replay EXCEPT ![a].todo = @ \ {i}]
    /\ Goto(Replay(a), i, "check")
    /\ UNCHANGED <<chainVars, txs, links, swapVars, watch>>

-------------------------------------------------------------------------------
(* withSignatureAndCtx and persist.                                        *)

\* Variant of CheckOrder with a bug: a stored transaction counts as indexed.
CheckStored(s, i) ==
    /\ worker[s][i] = "check"
    /\ Goto(s, i, IF i \in txs THEN "none" ELSE "build")
    /\ UNCHANGED <<chainVars, txs, links, swapVars, watch, replay>>

\* AlreadyPersistedSwap is an error: the slot of the indexer does not move.
CheckOrder(s, i) ==
    /\ worker[s][i] = "check"
    /\ Goto(s, i, IF i \in orders THEN "none" ELSE "build")
    /\ UNCHANGED <<chainVars, txs, links, swapVars, watch, replay>>

\* A log subscription may ask before the RPC node has the transaction.
MayFail(s) == "buildError" \in Faults \/ (s = Logs /\ "nullTx" \in Faults)

\* The two getTransactions and the reads between them, of which any may fail.
Build(s, i) ==
    /\ worker[s][i] = "build"
    /\ \/ Goto(s, i, IF i \in Swaps THEN "tx" ELSE "none")
       \/ MayFail(s) /\ Goto(s, i, "none")
    /\ UNCHANGED <<chainVars, txs, links, swapVars, watch, replay>>

UpsertTx(s, i) ==
    /\ worker[s][i] = "tx"
    /\ txs' = txs \cup {i}
    /\ Goto(s, i, "order")
    /\ UNCHANGED <<chainVars, links, swapVars, watch, replay>>

\* What follows persist, which returns nothing.
Persisted(s) == IF s = Logs THEN "none" ELSE "advance"

\* Variant of InsertOrder with a bug: the take is left to whom the order existed.
InsertOrderAlone(s, i) ==
    /\ worker[s][i] = "order"
    /\ i \notin Refused
    /\ orders' = orders \cup {i}
    /\ Goto(s, i, IF i \in orders THEN "take" ELSE Persisted(s))
    /\ UNCHANGED <<chainVars, txs, links, takes, latestSlotProcessed, watch, replay>>

\* An order that exists is kept.
InsertOrder(s, i) ==
    /\ worker[s][i] = "order"
    /\ i \notin Refused
    /\ orders' = orders \cup {i}
    /\ Goto(s, i, "take")
    /\ UNCHANGED <<chainVars, txs, links, takes, latestSlotProcessed, watch, replay>>

\* The statements of persist that may throw: the foreign key refuses an order.
Throwing(i) ==
    (IF i \in Refused THEN {"order"} ELSE {})
      \cup (IF "dbError" \in Faults THEN {"tx", "order", "take"} ELSE {})

\* persist catches the exception, and its caller answers Ok.
PersistFails(s, i) ==
    /\ worker[s][i] \in Throwing(i)
    /\ Goto(s, i, Persisted(s))
    /\ UNCHANGED <<chainVars, txs, links, swapVars, watch, replay>>

InsertTake(s, i) ==
    /\ worker[s][i] = "take"
    /\ takes' = takes \cup {i}
    /\ Goto(s, i, Persisted(s))
    /\ UNCHANGED <<chainVars, txs, links, orders, latestSlotProcessed, watch, replay>>

\* Variant of Advance with a bug: the next slot.
AdvancePast(s, i) ==
    /\ worker[s][i] = "advance"
    /\ latestSlotProcessed' = SlotOf[i] + 1
    /\ Goto(s, i, "none")
    /\ UNCHANGED <<chainVars, txs, links, orders, takes, watch, replay>>

\* The slot of the transaction, be it earlier than the one in the row.
Advance(s, i) ==
    /\ worker[s][i] = "advance"
    /\ latestSlotProcessed' = SlotOf[i]
    /\ Goto(s, i, "none")
    /\ UNCHANGED <<chainVars, txs, links, orders, takes, watch, replay>>

\* The process dies and is started again: the queue, the replay and the events of
\* the subscription are gone.
Restart ==
    /\ "crash" \in Faults
    /\ crashes < MaxCrashes
    /\ crashes' = crashes + 1
    /\ watch' = [a \in Accts |-> [watch[a] EXCEPT !.pc = "idle", !.cur = 0]]
    /\ worker' = NoWork
    /\ replay' = NoReplay
    /\ UNCHANGED <<confirmed, txs, links, swapVars>>

-------------------------------------------------------------------------------
Watcher(a) ==
    \/ \E i \in Sigs : WatcherReads(a, i)
    \/ WatcherUpserts(a)
    \/ WatcherLinks(a)
    \/ HandleNewTxs(a)

Replayer(a) ==
    \/ QueryTransactions(a)
    \/ \E i \in Sigs : ReplayNext(a, i)

Work(s, i) ==
    \/ CheckOrder(s, i)
    \/ Build(s, i)
    \/ UpsertTx(s, i)
    \/ InsertOrder(s, i)
    \/ PersistFails(s, i)
    \/ InsertTake(s, i)
    \/ Advance(s, i)

Next ==
    \/ Confirm
    \/ \E a \in Accts : Watcher(a)
    \/ ReadIndexers
    \/ \E a \in Indexed : Replayer(a)
    \/ \E s \in Sources, i \in Sigs : Work(s, i)
    \/ Restart

Spec == Init /\ [][Next]_vars

\* Awaited calls return, and watchers poll.
Fairness ==
    /\ WF_vars(ReadIndexers)
    /\ \A a \in Accts : WF_vars(Watcher(a))
    /\ \A a \in Indexed : WF_vars(Replayer(a))
    /\ \A s \in Sources, i \in Sigs : WF_vars(Work(s, i))

FairSpec == Spec /\ Fairness

-------------------------------------------------------------------------------
(* Properties                                                              *)

\* The swaps that the sources can index: those of accounts that hand them over, and of
\* no other account, whose watcher might store them first.
Indexable == {i \in Swaps \ Refused : Mentions[i] # {} /\ Mentions[i] \subseteq Indexed}

\* An order has its take, or someone is about to insert it: nobody else would, for
\* a swap with an order counts as persisted.  Only a crash can leave it alone.
OrderGetsTake ==
    crashes = 0 =>
      \A i \in orders \ takes : \E s \in Sources : worker[s][i] = "take"

\* Who is bound to bring transaction i to the insert of its order.
Carried(i) ==
    \/ \E a \in Indexed : watch[a].cur = i /\ watch[a].pc \in {"link", "queued"}
    \/ \E a \in Indexed : worker[Queue(a)][i] \in {"check", "build", "tx", "order"}
    \/ worker[Logs][i] = "order"

\* A watcher skips a swap that the log subscription stored before it.  As long as
\* the process lives, the swap is then indexed all the same: what is stored has an
\* order, or someone carries it there.
StoredIsCarried ==
    crashes = 0 => \A i \in Indexable \cap txs : i \in orders \/ Carried(i)

\* The conjuncts of the inductive invariant behind the two.  A watcher has in hand a
\* transaction of its account that it has not passed,
HandInv ==
    \A a \in Accts : watch[a].pc # "idle" =>
        /\ a \in Mentions[watch[a].cur]
        /\ watch[a].seen < watch[a].cur

\* the queue works on what its watcher has passed,
QueueInv ==
    \A a \in Indexed, i \in Sigs : worker[Queue(a)][i] # "none" => i <= watch[a].seen

\* the subscription on what is confirmed,
LogsInv ==
    \A i \in Sigs : worker[Logs][i] # "none" => i <= confirmed

\* and the replay on what is stored.
ReplayInv ==
    \A a \in Indexed :
        /\ replay[a].todo \subseteq txs
        /\ \A i \in Sigs : worker[Replay(a)][i] # "none" => i \in txs

SourcesInv == TypeOK /\ HandInv /\ QueueInv /\ LogsInv /\ ReplayInv

\* While the process lives, no swap is lost: not by a lost or early log event, nor by
\* the race of the two sources.
NoSwapLost ==
    \A i \in Indexable : (confirmed >= i ~> (i \in takes \/ crashes > 0))

\* Across crashes, the replay brings back every swap that was handed over and that
\* latestSlotProcessed has not passed.
ReplayCovers ==
    \A i \in Indexable :
      (\E a \in Indexed : <<a, i>> \in links) /\ SlotOf[i] >= latestSlotProcessed
        ~> i \in orders \/ SlotOf[i] < latestSlotProcessed
===============================================================================
