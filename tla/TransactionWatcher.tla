-------------------------- MODULE TransactionWatcher --------------------------
(***************************************************************************)
(* The transaction watchers of the indexer service                         *)
(* (packages/indexer/src/transaction/watcher.ts).                          *)
(*                                                                         *)
(* A row of transaction_watchers names an account.  getWatchers runs every *)
(* five seconds and keeps one TransactionWatcher object per active row.    *)
(* Each object polls the RPC node: it asks for the finalized slot, then    *)
(* for the account's signatures after the latestTxSig it was constructed   *)
(* with, stores every transaction that is missing, writes its progress to  *)
(* its row after each of them, and at the end advances checkedUpToSlot.    *)
(*                                                                         *)
(* Every `await' of the code is a point where anything else may run, so    *)
(* each action below goes from one await to the next.                      *)
(*                                                                         *)
(* Signatures are numbered by their position on the chain; 0 is `null'.    *)
(***************************************************************************)
EXTENDS Integers

CONSTANTS
    Accts,         \* the watched accounts: one transaction_watchers row each
    NumTxs,        \* the number of transactions that the chain will hold
    SlotOf,        \* SlotOf[i]: the slot of transaction i
    Mentions,      \* Mentions[i]: the watched accounts that transaction i names
    MaxSlot,       \* bound: the last slot the chain reaches
    Insts,         \* the TransactionWatcher objects that may exist at once
    AcctOf,        \* AcctOf[w]: the account object w is for
    MAX_RETRIES,   \* history errors after which a watcher is marked failed
    MaxVersion,    \* bound: the last SERIALIZED_TRANSACTION_LOGIC_VERSION
    MaxCrashes,    \* bound: how many times the process may die
    Faults         \* what may go wrong, a subset of AllFaults

AllFaults == {"throw",     \* an awaited call rejects
              "crash",     \* the process dies and is started again
              "parse",     \* getTransaction returns an error
              "rpcError",  \* the last attempt to fetch the history throws
              "rpcLoss",   \* the RPC node leaves signatures out of the history
              "disable",   \* an operator changes the status of a row
              "upgrade"}   \* a restart deploys the next logic version

Sigs == 1..NumTxs
Slots == 0..MaxSlot

ASSUME ChainAssumption ==
    /\ NumTxs \in Nat
    /\ MaxSlot \in Nat
    /\ SlotOf \in [Sigs -> 1..MaxSlot]
    /\ \A i, j \in Sigs : i <= j => SlotOf[i] <= SlotOf[j]
    /\ Mentions \in [Sigs -> SUBSET Accts]

ASSUME ProcessAssumption ==
    /\ AcctOf \in [Insts -> Accts]
    /\ MAX_RETRIES \in Nat
    /\ MaxVersion \in Nat \ {0}
    /\ MaxCrashes \in Nat
    /\ Faults \subseteq AllFaults

VARIABLES
    confirmedSlot, \* the RPC node serves the transactions up to this slot
    finalizedSlot, \* what getSlot("finalized") answers
    codeVersion,   \* SERIALIZED_TRANSACTION_LOGIC_VERSION of the running code
    crashes,       \* how many times the process died
    txs,           \* transactions: the version tx i is stored at, 0 if it is not
    links,         \* transaction_watcher_transactions
    row,           \* transaction_watchers
    pc,            \* where each object is between two awaits
    mem,           \* the fields and locals of each object
    watchers,      \* the objects in the `watchers' map
    mgr            \* the state of getWatchers

envVars == <<confirmedSlot, finalizedSlot, codeVersion, crashes>>
dbVars  == <<txs, links, row>>
objVars == <<pc, mem>>
mgrVars == <<watchers, mgr>>
vars    == <<envVars, dbVars, objVars, mgrVars>>

-------------------------------------------------------------------------------
PCs == {"free",     \* no such object
        "idle",     \* waiting for the poll interval
        "slot",     \* awaiting getSlot
        "history",  \* awaiting the signatures
        "fail",     \* awaiting the update that marks the row failed
        "tx",       \* at the head of the loop over the history
        "readTx",   \* awaiting the transactions row of the current signature
        "getTx",    \* awaiting getTransaction
        "upsert",   \* awaiting the write of the transactions row
        "link",     \* awaiting the write of the link row
        "push",     \* awaiting the handler of the pushed transaction
        "update"}   \* awaiting the update of the watcher's row

\* The stages at which a signature of the history is in hand.
InTx == {"readTx", "getTx", "upsert", "link", "push", "update"}

Statuses == {"active", "failed", "disabled"}

Progress == [latestTxSig : 0..NumTxs, checkedUpToSlot : Slots]

RowType == [latestTxSig : 0..NumTxs, firstTxSig : 0..NumTxs,
            checkedUpToSlot : Slots, version : 1..MaxVersion, status : Statuses]

MemType == [latestTxSig : 0..NumTxs,      \* set by the constructor only
            checkedUpToSlot : Slots,
            stopped : BOOLEAN,
            backfilling : BOOLEAN,
            errorCount : Nat,
            latestFinalizedSlot : Slots,  \* local of backfillFromLatest
            todo : SUBSET Sigs,           \* what the loop has still to process
            cur : 0..NumTxs,              \* the signature being processed
            first : 0..NumTxs]            \* firstTxSig of curWatcherRecord

MgrType == [pc : {"idle", "busy", "stuck"},
            active : SUBSET Accts,        \* accounts of curWatchers
            toStart : SUBSET Accts,       \* watchersToStart
            toReset : SUBSET Accts,       \* rows of another version, still to reset
            resetting : SUBSET Accts,     \* the row whose reset is awaited
            rows : [Accts -> Progress]]   \* what curWatchers says of toStart

\* The one type invariant of the module.
TypeOK ==
    /\ confirmedSlot \in Slots
    /\ finalizedSlot \in Slots
    /\ codeVersion \in 1..MaxVersion
    /\ crashes \in 0..MaxCrashes
    /\ txs \in [Sigs -> 0..MaxVersion]
    /\ links \subseteq Accts \X Sigs
    /\ row \in [Accts -> RowType]
    /\ pc \in [Insts -> PCs]
    /\ mem \in [Insts -> MemType]
    /\ watchers \subseteq Insts
    /\ mgr \in MgrType
    /\ \A w \in Insts : pc[w] \in InTx => mem[w].cur \in Sigs

NoProgress == [latestTxSig |-> 0, checkedUpToSlot |-> 0]

BlankMem == [latestTxSig |-> 0, checkedUpToSlot |-> 0, stopped |-> FALSE,
             backfilling |-> FALSE, errorCount |-> 0, latestFinalizedSlot |-> 0,
             todo |-> {}, cur |-> 0, first |-> 0]

IdleMgr == [pc |-> "idle", active |-> {}, toStart |-> {}, toReset |-> {},
            resetting |-> {}, rows |-> [a \in Accts |-> NoProgress]]

Init ==
    /\ confirmedSlot = 0
    /\ finalizedSlot = 0
    /\ codeVersion = 1
    /\ crashes = 0
    /\ txs = [i \in Sigs |-> 0]
    /\ links = {}
    /\ row = [a \in Accts |->
                [latestTxSig |-> 0, firstTxSig |-> 0, checkedUpToSlot |-> 0,
                 version |-> 1, status |-> "active"]]
    /\ pc = [w \in Insts |-> "free"]
    /\ mem = [w \in Insts |-> BlankMem]
    /\ watchers = {}
    /\ mgr = IdleMgr

-------------------------------------------------------------------------------
(* The chain.  A slot is confirmed before it is finalized.                 *)

Confirm ==
    /\ confirmedSlot < MaxSlot
    /\ confirmedSlot' = confirmedSlot + 1
    /\ UNCHANGED <<finalizedSlot, codeVersion, crashes, dbVars, objVars, mgrVars>>

Finalize ==
    /\ finalizedSlot < confirmedSlot
    /\ finalizedSlot' = finalizedSlot + 1
    /\ UNCHANGED <<confirmedSlot, codeVersion, crashes, dbVars, objVars, mgrVars>>

\* What the RPC node knows of account a.
Observable(a) == {i \in Sigs : a \in Mentions[i] /\ SlotOf[i] <= confirmedSlot}

\* getTransactionHistory with `after' set to the latestTxSig of the object.
History(w) == {i \in Observable(AcctOf[w]) : i > mem[w].latestTxSig}

-------------------------------------------------------------------------------
(* backfillFromLatest, one action per await.                               *)

\* An object outside the `watchers' map is garbage once it awaits nothing.
Rest(w) ==
    IF w \in watchers THEN "idle" ELSE "free"

\* The fields at the end of a backfill: its locals are gone.
Settle(m) == [m EXCEPT !.latestFinalizedSlot = 0, !.todo = {}, !.cur = 0, !.first = 0]

\* The object w stops running and keeps the fields m, unless it is garbage.
Leave(w, m) ==
    /\ pc' = [pc EXCEPT ![w] = Rest(w)]
    /\ mem' = [mem EXCEPT ![w] = IF w \in watchers THEN Settle(m) ELSE BlankMem]

\* The interval fires; stopped and backfilling objects return at once.
Poll(w) ==
    /\ pc[w] = "idle"
    /\ ~mem[w].stopped
    /\ ~mem[w].backfilling
    /\ pc' = [pc EXCEPT ![w] = "slot"]
    /\ mem' = [mem EXCEPT ![w].backfilling = TRUE]
    /\ UNCHANGED <<envVars, dbVars, mgrVars>>

\* Variant of GetSlot with a bug: one slot too many.
GetSlotOffByOne(w) ==
    /\ pc[w] = "slot"
    /\ mem' = [mem EXCEPT ![w].latestFinalizedSlot = finalizedSlot + 1]
    /\ pc' = [pc EXCEPT ![w] = "history"]
    /\ UNCHANGED <<envVars, dbVars, mgrVars>>

\* getSlot("finalized") answers, before the history is asked for.
GetSlot(w) ==
    /\ pc[w] = "slot"
    /\ mem' = [mem EXCEPT ![w].latestFinalizedSlot = finalizedSlot]
    /\ pc' = [pc EXCEPT ![w] = "history"]
    /\ UNCHANGED <<envVars, dbVars, mgrVars>>

\* The longest of three attempts: a lossy node may still leave signatures out.
FetchHistory(w, h) ==
    /\ pc[w] = "history"
    /\ h = History(w) \/ "rpcLoss" \in Faults
    /\ mem' = [mem EXCEPT ![w].todo = h]
    /\ pc' = [pc EXCEPT ![w] = "tx"]
    /\ UNCHANGED <<envVars, dbVars, mgrVars>>

\* The third attempt throws.  Below the limit the code returns with
\* `backfilling' still set.
HistoryError(w) ==
    LET errors == mem[w].errorCount + 1
    IN  /\ "rpcError" \in Faults
        /\ pc[w] = "history"
        /\ \/ /\ errors <= MAX_RETRIES
              /\ Leave(w, [mem[w] EXCEPT !.errorCount = errors])
           \/ /\ errors > MAX_RETRIES
              /\ pc' = [pc EXCEPT ![w] = "fail"]
              /\ mem' = [mem EXCEPT ![w].errorCount = errors,
                                    ![w].backfilling = FALSE,
                                    ![w].stopped = TRUE]
        /\ UNCHANGED <<envVars, dbVars, mgrVars>>

\* The update of markTransactionWatcherAsFailed.
MarkFailed(w) ==
    /\ pc[w] = "fail"
    /\ row' = [row EXCEPT ![AcctOf[w]].status = "failed"]
    /\ Leave(w, mem[w])
    /\ UNCHANGED <<envVars, txs, links, mgrVars>>

\* A stopped watcher returns StoppedBackfill for each signature left.
SkipStopped(w) ==
    /\ pc[w] = "tx"
    /\ mem[w].stopped
    /\ mem[w].todo # {}
    /\ mem' = [mem EXCEPT ![w].todo = {}]
    /\ UNCHANGED <<envVars, dbVars, pc, mgrVars>>

\* Variant of ReadRow with a bug: the history is not reversed.
ReadRowNewestFirst(w, i) ==
    /\ pc[w] = "tx"
    /\ ~mem[w].stopped
    /\ i \in mem[w].todo
    /\ \A j \in mem[w].todo : i >= j
    /\ mem' = [mem EXCEPT ![w].cur = i,
                          ![w].todo = @ \ {i},
                          ![w].first = row[AcctOf[w]].firstTxSig]
    /\ pc' = [pc EXCEPT ![w] = "readTx"]
    /\ UNCHANGED <<envVars, dbVars, mgrVars>>

\* The earliest signature left; curWatcherRecord is read.
ReadRow(w, i) ==
    /\ pc[w] = "tx"
    /\ ~mem[w].stopped
    /\ i \in mem[w].todo
    /\ \A j \in mem[w].todo : i <= j
    /\ mem' = [mem EXCEPT ![w].cur = i,
                          ![w].todo = @ \ {i},
                          ![w].first = row[AcctOf[w]].firstTxSig]
    /\ pc' = [pc EXCEPT ![w] = "readTx"]
    /\ UNCHANGED <<envVars, dbVars, mgrVars>>

\* A transaction stored at the current version is not stored again.
ReadTx(w) ==
    /\ pc[w] = "readTx"
    /\ pc' = [pc EXCEPT ![w] = IF txs[mem[w].cur] < codeVersion
                               THEN "getTx" ELSE "update"]
    /\ UNCHANGED <<envVars, dbVars, mem, mgrVars>>

GetTx(w) ==
    /\ pc[w] = "getTx"
    /\ pc' = [pc EXCEPT ![w] = "upsert"]
    /\ UNCHANGED <<envVars, dbVars, mem, mgrVars>>

\* Variant of ParseFails with a bug: the watcher is not stopped.
ParseFailsGoesOn(w) ==
    /\ "parse" \in Faults
    /\ pc[w] = "getTx"
    /\ mem' = [mem EXCEPT ![w].cur = 0, ![w].first = 0]
    /\ pc' = [pc EXCEPT ![w] = "tx"]
    /\ UNCHANGED <<envVars, dbVars, mgrVars>>

\* TransactionParseFailure stops the watcher; the loop goes on.
ParseFails(w) ==
    /\ "parse" \in Faults
    /\ pc[w] = "getTx"
    /\ mem' = [mem EXCEPT ![w].stopped = TRUE, ![w].cur = 0, ![w].first = 0]
    /\ pc' = [pc EXCEPT ![w] = "tx"]
    /\ UNCHANGED <<envVars, dbVars, mgrVars>>

\* handleNewTransaction: the transactions row ...
Upsert(w) ==
    /\ pc[w] = "upsert"
    /\ txs' = [txs EXCEPT ![mem[w].cur] = codeVersion]
    /\ pc' = [pc EXCEPT ![w] = "link"]
    /\ UNCHANGED <<envVars, links, row, mem, mgrVars>>

\* ... then the link row (nothing is done if it exists) ...
Link(w) ==
    /\ pc[w] = "link"
    /\ links' = links \cup {<<AcctOf[w], mem[w].cur>>}
    /\ pc' = [pc EXCEPT ![w] = "push"]
    /\ UNCHANGED <<envVars, txs, row, mem, mgrVars>>

\* ... then newTxQueue.push, whose promise resolves when the handler is done.
Push(w) ==
    /\ pc[w] = "push"
    /\ pc' = [pc EXCEPT ![w] = "update"]
    /\ UNCHANGED <<envVars, dbVars, mem, mgrVars>>

\* Variant of SlotAfterTx with a bug: the slot of the transaction at hand.
SlotOfTx(i, priorSlot, checked) == SlotOf[i]

\* newCheckedUpToSlot of processTransactionInHistory.  Nothing changes the
\* field between the two reads of it, so priorSlot and the field are equal.
SlotAfterTx(i, priorSlot, checked) ==
    IF SlotOf[i] > priorSlot THEN priorSlot ELSE checked

\* Variant of UpdateRow with a bug: the latestTxSig of the object moves too, so
\* that a signature the node left out is never asked for again.
UpdateRowAndField(w) ==
    LET a == AcctOf[w]
        m == mem[w]
    IN  /\ pc[w] = "update"
        /\ row' = [row EXCEPT ![a].latestTxSig = m.cur,
                              ![a].firstTxSig = IF m.first = 0 THEN m.cur ELSE m.first,
                              ![a].version = codeVersion]
        /\ mem' = [mem EXCEPT ![w].latestTxSig = m.cur, ![w].cur = 0, ![w].first = 0]
        /\ pc' = [pc EXCEPT ![w] = "tx"]
        /\ UNCHANGED <<envVars, txs, links, mgrVars>>

\* The row is updated after each signature, from values read before.
UpdateRow(w) ==
    LET a == AcctOf[w]
        m == mem[w]
        checked == SlotAfterTx(m.cur, m.checkedUpToSlot, m.checkedUpToSlot)
    IN  /\ pc[w] = "update"
        /\ row' = [row EXCEPT ![a].latestTxSig = m.cur,
                              ![a].firstTxSig = IF m.first = 0 THEN m.cur ELSE m.first,
                              ![a].version = codeVersion,
                              ![a].checkedUpToSlot = checked]
        /\ mem' = [mem EXCEPT ![w].checkedUpToSlot = checked,
                              ![w].cur = 0, ![w].first = 0]
        /\ pc' = [pc EXCEPT ![w] = "tx"]
        /\ UNCHANGED <<envVars, txs, links, mgrVars>>

\* newCheckedUpToSlot at the end of backfillFromLatest.
Later(s, t) ==
    IF s > t THEN s ELSE t

\* Variants of EndBackfill with a bug: the slot is the one finalized by now, ...
EndBackfillAtPresent(w) ==
    LET checked == Later(mem[w].checkedUpToSlot, finalizedSlot)
    IN  /\ pc[w] = "tx"
        /\ mem[w].todo = {}
        /\ row' = [row EXCEPT ![AcctOf[w]].checkedUpToSlot = checked]
        /\ Leave(w, [mem[w] EXCEPT !.checkedUpToSlot = checked, !.backfilling = FALSE])
        /\ UNCHANGED <<envVars, txs, links, mgrVars>>

\* ... or only the slot of the latest transaction.
EndBackfillAtLatestTx(w) ==
    LET latest == row[AcctOf[w]].latestTxSig
        checked == IF latest = 0 THEN mem[w].checkedUpToSlot
                   ELSE Later(mem[w].checkedUpToSlot, SlotOf[latest] - 1)
    IN  /\ pc[w] = "tx"
        /\ mem[w].todo = {}
        /\ row' = [row EXCEPT ![AcctOf[w]].checkedUpToSlot = checked]
        /\ Leave(w, [mem[w] EXCEPT !.checkedUpToSlot = checked, !.backfilling = FALSE])
        /\ UNCHANGED <<envVars, txs, links, mgrVars>>

\* The end of backfillFromLatest.
EndBackfill(w) ==
    LET m == mem[w]
        checked == Later(m.checkedUpToSlot, m.latestFinalizedSlot)
    IN  /\ pc[w] = "tx"
        /\ m.todo = {}
        /\ row' = [row EXCEPT ![AcctOf[w]].checkedUpToSlot = checked]
        /\ Leave(w, [m EXCEPT !.checkedUpToSlot = checked, !.backfilling = FALSE])
        /\ UNCHANGED <<envVars, txs, links, mgrVars>>

\* A rejected call abandons the backfill where it is: nothing catches it.
CallThrows(w) ==
    /\ "throw" \in Faults
    /\ pc[w] \notin {"free", "idle"}
    /\ Leave(w, mem[w])
    /\ UNCHANGED <<envVars, dbVars, mgrVars>>

-------------------------------------------------------------------------------
(* getWatchers                                                             *)

Watched == {AcctOf[w] : w \in watchers}

\* The rows are read.  updatingWatchers keeps a second getWatchers out.
SelectWatchers ==
    LET active == {a \in Accts : row[a].status = "active"}
    IN  /\ mgr.pc = "idle"
        /\ mgr' = [pc |-> "busy",
                   active |-> active,
                   toStart |-> active \ Watched,
                   toReset |-> {a \in active \cap Watched : row[a].version # codeVersion},
                   resetting |-> {},
                   rows |-> [a \in Accts |->
                               IF a \in active \ Watched
                               THEN [latestTxSig |-> row[a].latestTxSig,
                                     checkedUpToSlot |-> row[a].checkedUpToSlot]
                               ELSE NoProgress]]
        /\ UNCHANGED <<envVars, dbVars, objVars, watchers>>

\* TransactionWatcher.stop on the objects of S, which leave the map.  The others
\* that await nothing are garbage at once.
Stopped(S) ==
    [w \in Insts |-> IF w \notin S THEN mem[w]
                     ELSE IF pc[w] = "idle" THEN BlankMem
                     ELSE [mem[w] EXCEPT !.stopped = TRUE]]

Dropped(S) == [w \in Insts |-> IF w \in S /\ pc[w] = "idle" THEN "free" ELSE pc[w]]

\* A running watcher whose row has another version is stopped ...
StopForReset(a) ==
    LET S == {w \in watchers : AcctOf[w] = a}
    IN  /\ mgr.pc = "busy"
        /\ mgr.resetting = {}
        /\ a \in mgr.toReset
        /\ mem' = Stopped(S)
        /\ pc' = Dropped(S)
        /\ watchers' = watchers \ S
        /\ mgr' = [mgr EXCEPT !.toReset = @ \ {a}, !.resetting = {a}]
        /\ UNCHANGED <<envVars, dbVars>>

\* ... and its row is set back.  It is started by the next getWatchers.
ResetRow(a) ==
    /\ mgr.pc = "busy"
    /\ a \in mgr.resetting
    /\ row' = [row EXCEPT ![a].version = codeVersion,
                          ![a].latestTxSig = 0,
                          ![a].checkedUpToSlot = 0]
    /\ mgr' = [mgr EXCEPT !.resetting = {}]
    /\ UNCHANGED <<envVars, txs, links, objVars, watchers>>

\* Watchers without an active row stop; the constructor runs the others up to
\* their first await, getSlot.  One object slot per started account must be free
\* (a bound: Insts limits the stopped watchers that have not finished yet).
StartAndStop(new) ==
    LET S == {w \in watchers : AcctOf[w] \notin mgr.active}
        m == Stopped(S)
        p == Dropped(S)
    IN  /\ mgr.pc = "busy"
        /\ mgr.toReset = {}
        /\ mgr.resetting = {}
        /\ new \subseteq {w \in Insts : pc[w] = "free"}
        /\ {AcctOf[w] : w \in new} = mgr.toStart
        /\ \A v, w \in new : AcctOf[v] = AcctOf[w] => v = w
        /\ watchers' = (watchers \ S) \cup new
        /\ mem' = [w \in Insts |->
                     IF w \in new
                     THEN [BlankMem EXCEPT
                             !.latestTxSig = mgr.rows[AcctOf[w]].latestTxSig,
                             !.checkedUpToSlot = mgr.rows[AcctOf[w]].checkedUpToSlot,
                             !.backfilling = TRUE]
                     ELSE m[w]]
        /\ pc' = [w \in Insts |-> IF w \in new THEN "slot" ELSE p[w]]
        /\ mgr' = IdleMgr
        /\ UNCHANGED <<envVars, dbVars>>

\* A rejected query leaves updatingWatchers set for good.
GetWatchersThrows ==
    /\ "throw" \in Faults
    /\ mgr.pc \in {"idle", "busy"}
    /\ mgr' = [IdleMgr EXCEPT !.pc = "stuck"]
    /\ UNCHANGED <<envVars, dbVars, objVars, watchers>>

-------------------------------------------------------------------------------
(* The surroundings: the process is restarted, an operator edits a row.    *)

Restart ==
    /\ "crash" \in Faults
    /\ crashes < MaxCrashes
    /\ crashes' = crashes + 1
    /\ \/ UNCHANGED codeVersion
       \/ /\ "upgrade" \in Faults
          /\ codeVersion < MaxVersion
          /\ codeVersion' = codeVersion + 1
    /\ pc' = [w \in Insts |-> "free"]
    /\ mem' = [w \in Insts |-> BlankMem]
    /\ watchers' = {}
    /\ mgr' = IdleMgr
    /\ UNCHANGED <<confirmedSlot, finalizedSlot, dbVars>>

SetStatus(a, status) ==
    /\ "disable" \in Faults
    /\ row[a].status # status
    /\ row' = [row EXCEPT ![a].status = status]
    /\ UNCHANGED <<envVars, txs, links, objVars, mgrVars>>

-------------------------------------------------------------------------------
\* What the code of one object does when it runs.
Backfill(w) ==
    \/ GetSlot(w)
    \/ \E h \in SUBSET History(w) : FetchHistory(w, h)
    \/ HistoryError(w)
    \/ MarkFailed(w)
    \/ SkipStopped(w)
    \/ \E i \in Sigs : ReadRow(w, i)
    \/ ReadTx(w)
    \/ GetTx(w)
    \/ ParseFails(w)
    \/ Upsert(w)
    \/ Link(w)
    \/ Push(w)
    \/ UpdateRow(w)
    \/ EndBackfill(w)

GetWatchers ==
    \/ SelectWatchers
    \/ \E a \in Accts : StopForReset(a) \/ ResetRow(a)
    \/ \E new \in SUBSET Insts : StartAndStop(new)

Next ==
    \/ Confirm
    \/ Finalize
    \/ \E w \in Insts : Poll(w) \/ Backfill(w) \/ CallThrows(w)
    \/ GetWatchers
    \/ GetWatchersThrows
    \/ Restart
    \/ \E a \in Accts, status \in {"active", "disabled"} : SetStatus(a, status)

Spec == Init /\ [][Next]_vars

\* Timers fire and awaited calls return; a node that loses signatures answers
\* completely if it is asked again and again.
Fairness ==
    /\ WF_vars(GetWatchers)
    /\ \A w \in Insts : /\ WF_vars(Poll(w))
                        /\ WF_vars(Backfill(w))
                        /\ SF_vars(FetchHistory(w, History(w)))

FairSpec == Spec /\ Fairness

-------------------------------------------------------------------------------
(* Properties                                                              *)

\* checkedUpToSlot of a row is a promise to the indexers that depend on it:
\* every transaction of the account up to that slot is in the database.  It
\* rests on the finalized slot being read before the history and written after it.
CheckedImpliesStored ==
    \A a \in Accts : \A i \in Sigs :
        a \in Mentions[i] /\ SlotOf[i] <= row[a].checkedUpToSlot => txs[i] > 0

\* latestTxSig is where the history resumes after a restart, so no transaction
\* of the account may be missing before it: a watcher that fails on one must not
\* let its row move past it.
LatestIsPrefix ==
    \A a \in Accts : \A i \in Sigs :
        a \in Mentions[i] /\ i <= row[a].latestTxSig => txs[i] > 0

\* firstTxSig is the first transaction of the account and does not move, although
\* it is written from a row that was read several awaits before.
FirstIsEarliest ==
    \A a \in Accts : row[a].firstTxSig # 0 =>
        /\ a \in Mentions[row[a].firstTxSig]
        /\ \A i \in Sigs : a \in Mentions[i] => row[a].firstTxSig <= i

\* checkedUpToSlot never moves back: each object writes it from its own copy, so
\* an object must never hold one older than the row's.
CheckedNeverMovesBack ==
    [][\A a \in Accts : row'[a].checkedUpToSlot >= row[a].checkedUpToSlot]_vars

\* The rows as the promise that a restart and the dependent indexers build on.
Abstract == INSTANCE AccountBackup WITH
    stored <- {i \in Sigs : txs[i] > 0},
    resume <- [a \in Accts |-> row[a].latestTxSig],
    first <- [a \in Accts |-> row[a].firstTxSig]

\* A transaction is stored after those before it of an account that it names, although
\* objects of several accounts, and several of one, store side by side and give up in
\* between; and each write of a row points behind nothing that is missing, and to the
\* first transaction, from values that were read several awaits before.
BackedUpInOrder == Abstract!Spec

\* Every transaction of a watched account that is confirmed is stored in the end.
EventuallyStored ==
    \A i \in Sigs : Mentions[i] # {} =>
        (SlotOf[i] <= confirmedSlot ~> txs[i] > 0)

\* An account without new transactions does not hold its indexers back: its
\* checkedUpToSlot reaches every slot that is finalized.
CheckedCatchesUp ==
    \A a \in Accts : \A s \in Slots :
        finalizedSlot >= s ~> row[a].checkedUpToSlot >= s

\* "tx watcher hit an error, retrying backfill": a watcher that met an error and
\* was not stopped runs again.
RetriesAfterError ==
    \A w \in Insts :
        (pc[w] = "idle" /\ mem[w].errorCount > 0 /\ ~mem[w].stopped) ~> pc[w] = "slot"

-------------------------------------------------------------------------------
(* The inductive invariant behind LatestIsPrefix.  The row alone does not  *)
(* explain it: the next value of latestTxSig is the signature in hand of   *)
(* an object, which was taken from a history that starts after the         *)
(* latestTxSig of the object, which was read from the row by getWatchers.  *)

Loop == {"tx"} \cup InTx

\* Every transaction of account a up to signature n is stored.
StoredBelow(a, n) ==
    \A i \in Sigs : a \in Mentions[i] /\ i <= n => txs[i] > 0

\* What is left of a history names the account, and nothing before it is missing
\* but what is left too or in hand.  A stopped object takes no more of it.
HistoryInv(w) ==
    pc[w] \in Loop =>
      \A j \in mem[w].todo :
        /\ AcctOf[w] \in Mentions[j]
        /\ ~mem[w].stopped =>
             \A i \in Sigs : AcctOf[w] \in Mentions[i] /\ i < j =>
               \/ txs[i] > 0
               \/ i \in mem[w].todo
               \/ i = mem[w].cur /\ pc[w] \in InTx

\* Everything before the signature in hand is stored; after handleNewTransaction
\* it is stored itself.
InHandInv(w) ==
    pc[w] \in InTx =>
      /\ AcctOf[w] \in Mentions[mem[w].cur]
      /\ \A i \in Sigs : AcctOf[w] \in Mentions[i] /\ i < mem[w].cur => txs[i] > 0
      /\ pc[w] \in {"link", "push", "update"} => txs[mem[w].cur] > 0

RowPrefix(a) == StoredBelow(a, row[a].latestTxSig) /\ StoredBelow(a, mgr.rows[a].latestTxSig)

ObjectPrefix(w) ==
    /\ StoredBelow(AcctOf[w], mem[w].latestTxSig)
    /\ HistoryInv(w)
    /\ InHandInv(w)

PrefixInv ==
    /\ TypeOK
    /\ \A a \in Accts : RowPrefix(a)
    /\ \A w \in Insts : ObjectPrefix(w)
-------------------------------------------------------------------------------
(* The inductive invariant behind FirstIsEarliest.  As long as a row has   *)
(* no firstTxSig, nothing has made an object of the account skip the       *)
(* beginning of its history: the row, what getWatchers read of it and the  *)
(* objects all still start at the first transaction.                       *)

\* Signature n is the first transaction of account a.
Earliest(a, n) ==
    /\ n \in Sigs
    /\ a \in Mentions[n]
    /\ \A i \in Sigs : a \in Mentions[i] => n <= i

RowFirst(a) ==
    IF row[a].firstTxSig = 0
    THEN row[a].latestTxSig = 0 /\ mgr.rows[a].latestTxSig = 0
    ELSE Earliest(a, row[a].firstTxSig)

\* What an object that is not stopped has still to process lacks no earlier one.
TodoFromFirst(w) ==
    pc[w] = "tx" /\ ~mem[w].stopped =>
      \A j \in mem[w].todo :
        /\ AcctOf[w] \in Mentions[j]
        /\ \A i \in Sigs : AcctOf[w] \in Mentions[i] /\ i < j => i \in mem[w].todo

\* What UpdateRow will write to firstTxSig, from the row as it was read before.
FirstInHand(w) == IF mem[w].first = 0 THEN mem[w].cur ELSE mem[w].first

ObjectFirst(w) ==
    /\ row[AcctOf[w]].firstTxSig = 0 => mem[w].latestTxSig = 0 /\ TodoFromFirst(w)
    /\ pc[w] \in InTx => Earliest(AcctOf[w], FirstInHand(w))

FirstInv ==
    /\ TypeOK
    /\ \A a \in Accts : RowFirst(a)
    /\ \A w \in Insts : ObjectFirst(w)
-------------------------------------------------------------------------------
(* The inductive invariant behind CheckedImpliesStored and                 *)
(* CheckedNeverMovesBack, for a process in which no object is stopped but  *)
(* by its own errors.  Each account has one object, whose checkedUpToSlot  *)
(* is the row's, so nobody writes an older one; and what the loop has not  *)
(* stored of the slots up to latestFinalizedSlot it still has to process.  *)

\* The faults after which a loop never skips a signature.
CheckedFaults == {"throw", "crash", "rpcError"}

\* Every object is in the map; one whose row is not active rests for good.
ObjectControl(w) ==
    /\ pc[w] # "free" => w \in watchers
    /\ w \in watchers =>
         /\ mem[w].checkedUpToSlot = row[AcctOf[w]].checkedUpToSlot
         /\ row[AcctOf[w]].status # "active" => pc[w] = "idle" /\ mem[w].stopped
    /\ pc[w] = "fail" => mem[w].stopped
    /\ pc[w] \notin {"free", "idle", "fail"} => ~mem[w].stopped

\* What getWatchers read is still so when it acts on it.
MgrControl(a) ==
    mgr.pc = "busy" =>
      /\ a \in mgr.toStart =>
           /\ a \notin Watched
           /\ row[a].status = "active"
           /\ mgr.rows[a].checkedUpToSlot = row[a].checkedUpToSlot
      /\ a \notin mgr.active => row[a].status # "active"

ControlInv ==
    /\ \A w \in Insts : ObjectControl(w)
    /\ \A a \in Accts : MgrControl(a) /\ row[a].version = codeVersion
    /\ \A v, w \in watchers : AcctOf[v] = AcctOf[w] => v = w
    /\ mgr.toReset = {} /\ mgr.resetting = {}

\* Every transaction of account a up to slot s is stored.
SlotStored(a, s) ==
    \A i \in Sigs : a \in Mentions[i] /\ SlotOf[i] <= s => txs[i] > 0

\* The loop of w leaves nothing out up to the slot that was finalized.
LoopCovers(w) ==
    pc[w] \in Loop =>
      \A i \in Sigs :
        AcctOf[w] \in Mentions[i] /\ SlotOf[i] <= mem[w].latestFinalizedSlot =>
          \/ txs[i] > 0
          \/ i \in mem[w].todo
          \/ i = mem[w].cur /\ pc[w] \in InTx

CheckedInv ==
    /\ finalizedSlot <= confirmedSlot
    /\ \A a \in Accts : SlotStored(a, row[a].checkedUpToSlot)
    /\ \A w \in Insts : mem[w].latestFinalizedSlot <= confirmedSlot /\ LoopCovers(w)
===============================================================================
