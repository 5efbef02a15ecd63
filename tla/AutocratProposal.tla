---------------------------- MODULE AutocratProposal ----------------------------
(***************************************************************************)
(* The interval job that keeps proposals, their vaults, markets and user   *)
(* performance (packages/indexer/src/indexers/autocrat/                    *)
(* autocrat-proposal-indexer.ts), beside the job that keeps the DAOs.      *)
(*                                                                         *)
(* Cron starts a run every minute, whether or not the last has ended.  A   *)
(* run takes a snapshot of the proposals on the chain, starts inserting    *)
(* those it does not know without waiting for it, and goes through the     *)
(* snapshot one statement at a time.  Anything that throws ends the run    *)
(* with an error, which the interval job counts (ProposalJob).             *)
(* Every `await' is a point where the other runs and inserts may work.     *)
(***************************************************************************)
EXTENDS UserPerformance

CONSTANTS
    NumProposals, \* the proposals, numbered in the order the chain lists them
    Daos,
    Known,        \* the DAOs whose token keys the DAO job can determine
    DaoOf,        \* DaoOf[p]: the DAO of proposal p
    Decimals,     \* Decimals[d]: the decimals of the base token of DAO d
    EndSlot,      \* EndSlot[p]: slotEnqueued plus slotsPerProposal
    Book,         \* Book[p]: the orders that may be indexed for proposal p
    SpotAt,       \* SpotAt[t]: the price of the base token around time t, or 0
    MaxTime,      \* bound: how many prices are recorded
    Runs,         \* bound: the runs of the job that may overlap
    MaxInserts,   \* bound: unfinished inserts of one proposal
    MaxFaults,    \* bound: how many faults there are
    Faults        \* what may go wrong, a subset of {"throw", "crash"}

Proposals == 1..NumProposals
Times == 0..MaxTime

ASSUME ProposalAssumption ==
    /\ NumProposals \in Nat
    /\ MaxTime \in Nat
    /\ MaxInserts \in Nat
    /\ MaxFaults \in Nat
    /\ Known \subseteq Daos
    /\ DaoOf \in [Proposals -> Daos]
    /\ Decimals \in [Daos -> Nat]
    /\ EndSlot \in [Proposals -> Nat]
    /\ SpotAt \in [Times -> Nat]

VARIABLES
    chain,    \* the state of each proposal on the chain
    now,      \* the slot and time of the latest price, 0 if there is none
    dao,      \* how far the DAO job got with each DAO
    row,      \* proposals
    vault,    \* conditional_vaults: the status of the two vaults of a proposal
    markets,  \* the proposals whose two rows of markets are there
    orders,   \* orders in the markets of each proposal
    perf,     \* user_performance: for each proposal, a function of its traders
    run,      \* the runs of the job
    found,    \* the user_performance rows that each run is about to write
    inserts,  \* how many inserts of each proposal await each statement
    faults    \* how many faults there were

dbVars  == <<dao, row, vault, markets, orders, perf>>
envVars == <<chain, now, faults>>
runVars == <<run, found>>
vars    == <<envVars, dbVars, runVars, inserts>>

-------------------------------------------------------------------------------
Final == {"passed", "failed"}
Statuses == {"none", "pending"} \cup Final   \* "none": there is no such row
VaultStatuses == {"none", "active", "finalized", "reverted"}
VaultSides == {"base", "quote"}

\* The statements of insertAssociatedAccountsDataForProposal, in order (the tokens
\* and token accounts, which only the markets refer to, are one) ...
Assoc == <<"assocDao", "assocVaults", "assocTokens", "assocMarkets">>
\* ... and those of an insert that is not awaited, which ends with the former.
Insert == <<"newVaults", "newDao", "newRow">> \o Assoc

AssocStages == ToSet(Assoc)
InsertStages == ToSet(Insert)

RunPCs == {"off",      \* not running
           "known",    \* awaiting the proposals of the database
           "chain",    \* awaiting the proposals of the chain
           "head",     \* awaiting the first statement for proposal cur
           "update",   \* awaiting the update of a pending proposal
           "base",     \* awaiting the update of the base vault
           "quote",    \* awaiting the update of the quote vault
           "perfRow",  \* awaiting the proposal, its DAO and tokens
           "perfRead", \* awaiting its orders, then the spot price
           "perfWrite",\* awaiting the transaction on users and user_performance
           "markets"}  \* awaiting the markets of proposal cur
          \cup AssocStages

RowType == [status : Statuses, completedAt : Times]

RunType == [pc : RunPCs,
            time : Times,                    \* currentTime, currentSlot
            known : SUBSET Proposals,        \* dbProposals
            snap : [Proposals -> Statuses],  \* what is left of onChainProposals
            cur : 0..NumProposals,           \* the proposal of the loop
            resolving : Markets,             \* locals of calculateUserPerformance
            completedAt : Times]

NoRow == [status |-> "none", completedAt |-> 0]
NoPerf == [a \in {} |-> NoTotals]

Idle == [pc |-> "off", time |-> 0, known |-> {}, cur |-> 0,
         snap |-> [p \in Proposals |-> "none"], resolving |-> "fail",
         completedAt |-> 0]

\* The one type invariant of the module.
TypeOK ==
    /\ chain \in [Proposals -> Statuses]
    /\ now \in Times
    /\ faults \in 0..MaxFaults
    /\ dao \in [Daos -> {"none", "token", "row"}]
    /\ row \in [Proposals -> RowType]
    /\ vault \in [Proposals -> [VaultSides -> VaultStatuses]]
    /\ markets \subseteq Proposals
    /\ DOMAIN orders = Proposals /\ \A p \in Proposals : orders[p] \subseteq Book[p]
    /\ DOMAIN perf = Proposals
    /\ inserts \in [Proposals -> [InsertStages -> Nat]]
    /\ run \in [Runs -> RunType]
    /\ DOMAIN found = Runs
    /\ \A r \in Runs :
         run[r].pc \notin {"off", "known", "chain"} =>
           run[r].cur \in Proposals /\ run[r].time > 0

Init ==
    /\ chain = [p \in Proposals |-> "none"]
    /\ now = 0
    /\ faults = 0
    /\ dao = [d \in Daos |-> "none"]
    /\ row = [p \in Proposals |-> NoRow]
    /\ vault = [p \in Proposals |-> [s \in VaultSides |-> "none"]]
    /\ markets = {}
    /\ orders = [p \in Proposals |-> {}]
    /\ perf = [p \in Proposals |-> NoPerf]
    /\ run = [r \in Runs |-> Idle]
    /\ found = [r \in Runs |-> NoPerf]
    /\ inserts = [p \in Proposals |-> [s \in InsertStages |-> 0]]

-------------------------------------------------------------------------------
(* The surroundings: the chain, the price jobs, the swap indexers and the  *)
(* DAO job, whose inserts are not awaited either.                          *)

Enqueue(p) ==
    /\ chain[p] = "none"
    /\ chain' = [chain EXCEPT ![p] = "pending"]
    /\ UNCHANGED <<now, faults, dbVars, runVars, inserts>>

Finalize(p, outcome) ==
    /\ chain[p] = "pending"
    /\ chain' = [chain EXCEPT ![p] = outcome]
    /\ UNCHANGED <<now, faults, dbVars, runVars, inserts>>

RecordPrice ==
    /\ now < MaxTime
    /\ now' = now + 1
    /\ UNCHANGED <<chain, faults, dbVars, runVars, inserts>>

\* The foreign key of orders needs the market.
IndexOrder(p, o) ==
    /\ p \in markets
    /\ o \in Book[p] \ orders[p]
    /\ orders' = [orders EXCEPT ![p] = @ \cup {o}]
    /\ UNCHANGED <<envVars, dao, row, vault, markets, perf, runVars, inserts>>

\* A DAO without token keys is left out; the base token comes before the DAO.
DaoToken(d) ==
    /\ d \in Known
    /\ dao[d] = "none"
    /\ dao' = [dao EXCEPT ![d] = "token"]
    /\ UNCHANGED <<envVars, row, vault, markets, orders, perf, runVars, inserts>>

DaoRow(d) ==
    /\ dao[d] = "token"
    /\ dao' = [dao EXCEPT ![d] = "row"]
    /\ UNCHANGED <<envVars, row, vault, markets, orders, perf, runVars, inserts>>

-------------------------------------------------------------------------------
(* A run, up to the loop.                                                  *)

Goto(r, pc) == run' = [run EXCEPT ![r].pc = pc]

\* The latest price is read; its slot and time are 0 if there is none.
Start(r) ==
    /\ run[r].pc = "off"
    /\ run' = [run EXCEPT ![r].pc = "known", ![r].time = now]
    /\ UNCHANGED <<envVars, dbVars, inserts, found>>

\* Variant of ReadProposals with a bug: no price is taken for slot 0.
ReadProposalsAtZero(r) ==
    /\ run[r].pc = "known"
    /\ run' = [run EXCEPT ![r].pc = "chain",
                          ![r].known = {p \in Proposals : row[p].status # "none"}]
    /\ UNCHANGED <<envVars, dbVars, inserts, found>>

ReadProposals(r) ==
    /\ run[r].pc = "known"
    /\ run[r].time > 0
    /\ run' = [run EXCEPT ![r].pc = "chain",
                          ![r].known = {p \in Proposals : row[p].status # "none"}]
    /\ UNCHANGED <<envVars, dbVars, inserts, found>>

\* The next proposal of the snapshot after p, or the end of the run.
Following(r, snap, p) ==
    LET left == {q \in Proposals : q > p /\ snap[q] # "none"}
    IN  IF left = {} THEN [run EXCEPT ![r] = Idle]
        ELSE [run EXCEPT ![r] =
                [Idle EXCEPT !.pc = "head", !.time = run[r].time, !.cur = Min(left),
                             !.snap = [q \in Proposals |-> IF q > p THEN snap[q]
                                                           ELSE "none"]]]

\* The snapshot: the proposals the database lacks start to be inserted.
FetchProposals(r) ==
    LET new == {p \in Proposals : chain[p] # "none"} \ run[r].known
    IN  /\ run[r].pc = "chain"
        /\ \A p \in new : MapThenSumSet(LAMBDA s : inserts[p][s], InsertStages) < MaxInserts
        /\ inserts' = [p \in Proposals |->
                         IF p \in new THEN [inserts[p] EXCEPT !["newVaults"] = @ + 1]
                         ELSE inserts[p]]
        /\ run' = Following(r, chain, 0)
        /\ UNCHANGED <<envVars, dbVars, found>>

-------------------------------------------------------------------------------
(* The inserts: each does nothing if the row exists.                       *)

\* A vault that is inserted is active.
NewVaults(p) ==
    [vault EXCEPT ![p] = [s \in VaultSides |-> IF @[s] = "none" THEN "active" ELSE @[s]]]

\* What a statement needs to succeed: the row of the DAO is dereferenced, and the
\* foreign keys want the base token, the DAO and the proposal.
Accepted(p, s) ==
    /\ s \in {"newVaults", "assocVaults"} => dao[DaoOf[p]] # "none"
    /\ s \in {"newDao", "assocDao"} => dao[DaoOf[p]] = "row"
    /\ s = "assocMarkets" => row[p].status # "none"

\* Variant of Write with a bug: an insert overwrites the vaults.
WriteVaultsOver(p, s) ==
    /\ vault' = IF s \in {"newVaults", "assocVaults"}
                THEN [vault EXCEPT ![p] = [v \in VaultSides |-> "active"]] ELSE vault
    /\ row' = IF s = "newRow" /\ row[p].status = "none"
              THEN [row EXCEPT ![p].status = "pending"] ELSE row
    /\ markets' = IF s = "assocMarkets" THEN markets \cup {p} ELSE markets

Write(p, s) ==
    /\ vault' = IF s \in {"newVaults", "assocVaults"} THEN NewVaults(p) ELSE vault
    /\ row' = IF s = "newRow" /\ row[p].status = "none"
              THEN [row EXCEPT ![p].status = "pending"] ELSE row
    /\ markets' = IF s = "assocMarkets" THEN markets \cup {p} ELSE markets

\* One insert of p goes from statement number k to the next; the last one ends it.
InsertGoesOn(p, k) ==
    /\ inserts[p][Insert[k]] > 0
    /\ Accepted(p, Insert[k])
    /\ Write(p, Insert[k])
    /\ inserts' = [inserts EXCEPT ![p] =
                     [s \in InsertStages |->
                        CASE s = Insert[k]                        -> @[s] - 1
                          [] k < Len(Insert) /\ s = Insert[k + 1] -> @[s] + 1
                          [] OTHER                                -> @[s]]]
    /\ UNCHANGED <<envVars, dao, orders, perf, runVars>>

\* A rejected insert: nothing catches it.
InsertEnds(p, s) ==
    /\ inserts[p][s] > 0
    /\ ~Accepted(p, s)
    /\ inserts' = [inserts EXCEPT ![p][s] = @ - 1]
    /\ UNCHANGED <<envVars, dbVars, runVars>>

-------------------------------------------------------------------------------
(* The loop over the snapshot.                                             *)

\* A pending proposal: the row of the DAO is read.
ReadDao(r) ==
    LET p == run[r].cur
    IN  /\ run[r].pc = "head"
        /\ run[r].snap[p] = "pending"
        /\ dao[DaoOf[p]] = "row"
        /\ Goto(r, "update")
        /\ UNCHANGED <<envVars, dbVars, inserts, found>>

\* Variant of UpdatePending with a bug: a completed proposal is updated too.
UpdateAnyPending(r) ==
    LET p == run[r].cur
    IN  /\ run[r].pc = "update"
        /\ row' = IF row[p].status # "none" /\ EndSlot[p] >= run[r].time
                  THEN [row EXCEPT ![p].status = "pending"] ELSE row
        /\ Goto(r, "markets")
        /\ UNCHANGED <<envVars, dao, vault, markets, orders, perf, inserts, found>>

UpdatePending(r) ==
    LET p == run[r].cur
    IN  /\ run[r].pc = "update"
        /\ row' = IF /\ row[p].status # "none"
                     /\ EndSlot[p] >= run[r].time
                     /\ row[p].completedAt = 0
                  THEN [row EXCEPT ![p].status = "pending"] ELSE row
        /\ Goto(r, "markets")
        /\ UNCHANGED <<envVars, dao, vault, markets, orders, perf, inserts, found>>

\* A passed or failed proposal is completed once.
Complete(r) ==
    LET p == run[r].cur
    IN  /\ run[r].pc = "head"
        /\ run[r].snap[p] \in Final
        /\ row' = IF row[p].status # "none" /\ row[p].completedAt = 0
                  THEN [row EXCEPT ![p] = [status |-> run[r].snap[p],
                                           completedAt |-> run[r].time]]
                  ELSE row
        /\ Goto(r, "base")
        /\ UNCHANGED <<envVars, dao, vault, markets, orders, perf, inserts, found>>

\* The vaults are updated one by one, if their rows exist.
SettledVault(outcome) == IF outcome = "passed" THEN "finalized" ELSE "reverted"

SettleVault(r, side, next) ==
    LET p == run[r].cur
    IN  /\ run[r].pc = side
        /\ vault' = IF vault[p][side] = "none" THEN vault
                    ELSE [vault EXCEPT ![p][side] = SettledVault(run[r].snap[p])]
        /\ Goto(r, next)
        /\ UNCHANGED <<envVars, dao, row, markets, orders, perf, inserts, found>>

\* calculateUserPerformance: the proposal is read with its DAO and tokens.
ReadPerfRow(r) ==
    LET p == run[r].cur
    IN  /\ run[r].pc = "perfRow"
        /\ row[p].status # "none"
        /\ run' = [run EXCEPT ![r].pc = "perfRead",
                              ![r].resolving = IF row[p].status = "passed" THEN "pass"
                                               ELSE "fail",
                              ![r].completedAt = row[p].completedAt]
        /\ UNCHANGED <<envVars, dbVars, inserts, found>>

\* The orders come in any order; a proposal not completed yet is priced at the
\* time of the clock.
ReadOrders(r) ==
    LET p == run[r].cur
        spot == SpotAt[IF run[r].completedAt = 0 THEN now ELSE run[r].completedAt]
    IN  /\ run[r].pc = "perfRead"
        /\ \E rows \in SetToSeqs(orders[p]) :
             found' = [found EXCEPT ![r] = Performance(rows, run[r].resolving,
                                                       Decimals[DaoOf[p]], spot)]
        /\ Goto(r, "perfWrite")
        /\ UNCHANGED <<envVars, dbVars, inserts>>

\* A fault.  What it throws is caught in WritePerf, and by the section on faults.
Faulty(kind) ==
    /\ kind \in Faults
    /\ faults < MaxFaults
    /\ faults' = faults + 1
    /\ UNCHANGED <<chain, now>>

\* The transaction ends, with these rows of the traders found.
PerfWritten(r, rows) ==
    LET p == run[r].cur
    IN  /\ run[r].pc = "perfWrite"
        /\ perf' = [perf EXCEPT ![p] = rows @@ @]
        /\ found' = [found EXCEPT ![r] = NoPerf]
        /\ Goto(r, "markets")
        /\ UNCHANGED <<dao, row, vault, markets, orders, inserts>>

\* Variant of WritePerf with a bug: a row that exists is left as it is.
WritePerfOnce(r) ==
    /\ PerfWritten(r, perf[run[r].cur] @@ found[r])
    /\ UNCHANGED envVars

\* The rows are inserted, or updated.  A rejected row is caught: the run goes on
\* without it (without any if Postgres rejected it, which aborts the transaction).
WritePerf(r) ==
    \E lost \in SUBSET DOMAIN found[r] :
        /\ PerfWritten(r, Restrict(found[r], DOMAIN found[r] \ lost))
        /\ IF lost = {} THEN UNCHANGED envVars ELSE Faulty("throw")

\* Variant of ReadMarkets with a bug: the insert of a new proposal is trusted.
ReadMarketsOnly(r) ==
    LET p == run[r].cur
    IN  /\ run[r].pc = "markets"
        /\ run' = Following(r, run[r].snap, p)
        /\ UNCHANGED <<envVars, dbVars, inserts, found>>

\* The two markets are inserted together: if they are missing, the associated
\* rows are inserted within the run.
ReadMarkets(r) ==
    LET p == run[r].cur
    IN  /\ run[r].pc = "markets"
        /\ run' = IF p \in markets THEN Following(r, run[r].snap, p)
                  ELSE [run EXCEPT ![r].pc = Assoc[1]]
        /\ UNCHANGED <<envVars, dbVars, inserts, found>>

InsertAssociated(r, k) ==
    LET p == run[r].cur
    IN  /\ run[r].pc = Assoc[k]
        /\ Accepted(p, Assoc[k])
        /\ Write(p, Assoc[k])
        /\ run' = IF k < Len(Assoc) THEN [run EXCEPT ![r].pc = Assoc[k + 1]]
                  ELSE Following(r, run[r].snap, p)
        /\ UNCHANGED <<envVars, dao, orders, perf, inserts, found>>

\* What throws: a latest price that is not there, the missing row of a DAO or of the
\* proposal, or a foreign key.
Throws(r) ==
    LET p == run[r].cur
    IN  \/ run[r].pc = "known" /\ run[r].time = 0
        \/ run[r].pc = "head" /\ run[r].snap[p] = "pending" /\ dao[DaoOf[p]] # "row"
        \/ run[r].pc = "perfRow" /\ row[p].status = "none"
        \/ run[r].pc \in AssocStages /\ ~Accepted(p, run[r].pc)

\* The catch of index(): the rest of the snapshot is left to the next run.
RunFails(r) ==
    /\ Throws(r)
    /\ run' = [run EXCEPT ![r] = Idle]
    /\ UNCHANGED <<envVars, dbVars, inserts, found>>

-------------------------------------------------------------------------------
(* Faults.                                                                 *)

\* Any other rejection of a query or of the RPC node, in a run ...
RunThrows(r) ==
    /\ Faulty("throw")
    /\ run[r].pc # "off"
    /\ run' = [run EXCEPT ![r] = Idle]
    /\ found' = [found EXCEPT ![r] = NoPerf]
    /\ UNCHANGED <<dbVars, inserts>>

\* ... or in an insert.
InsertThrows(p, s) ==
    /\ Faulty("throw")
    /\ inserts[p][s] > 0
    /\ inserts' = [inserts EXCEPT ![p][s] = @ - 1]
    /\ UNCHANGED <<dbVars, runVars>>

Restart ==
    /\ Faulty("crash")
    /\ run' = [r \in Runs |-> Idle]
    /\ found' = [r \in Runs |-> NoPerf]
    /\ inserts' = [p \in Proposals |-> [s \in InsertStages |-> 0]]
    /\ UNCHANGED dbVars

-------------------------------------------------------------------------------
RunGoesOn(r) ==
    \/ ReadProposals(r)
    \/ FetchProposals(r)
    \/ ReadDao(r)
    \/ UpdatePending(r)
    \/ Complete(r)
    \/ SettleVault(r, "base", "quote")
    \/ SettleVault(r, "quote", "perfRow")
    \/ ReadPerfRow(r)
    \/ ReadOrders(r)
    \/ WritePerf(r)
    \/ ReadMarkets(r)
    \/ \E k \in DOMAIN Assoc : InsertAssociated(r, k)

InsertStep(p) ==
    \/ \E k \in DOMAIN Insert : InsertGoesOn(p, k)
    \/ \E s \in InsertStages : InsertEnds(p, s)

\* What is not a step of a run.
Surroundings ==
    \/ \E p \in Proposals : \/ Enqueue(p)
                            \/ \E outcome \in Final : Finalize(p, outcome)
                            \/ \E o \in Book[p] : IndexOrder(p, o)
    \/ \E d \in Daos : DaoToken(d) \/ DaoRow(d)
    \/ RecordPrice

Next ==
    \/ Surroundings
    \/ \E p \in Proposals : \/ InsertStep(p)
                            \/ \E s \in InsertStages : InsertThrows(p, s)
    \/ \E r \in Runs : \/ Start(r) \/ RunGoesOn(r) \/ RunFails(r)
                       \/ RunThrows(r)
    \/ Restart

\* Here a run may start at any time; when it does, and when it does no more, is in
\* ProposalJob.
Spec == Init /\ [][Next]_vars

-------------------------------------------------------------------------------
(* Properties                                                              *)

\* A proposal is completed once: no run that took its snapshot or its time earlier
\* sets it back to pending or moves its completion.
CompletedOnce ==
    [][\A p \in Proposals : row[p].completedAt # 0 => row'[p] = row[p]]_vars

\* A vault that was settled is never active again, although inserts that began
\* before the proposal was finalized may still be under way.
SettledVaultStays ==
    [][\A p \in Proposals : \A s \in VaultSides :
         vault[p][s] \in {"finalized", "reverted"} => vault'[p][s] = vault[p][s]]_vars

\* What the database says of a proposal that is over is what the chain decided, of
\* the proposal as of both its vaults, whatever snapshot the run worked from.
OutcomesAgree ==
    \A p \in Proposals :
        /\ row[p].completedAt # 0 => chain[p] \in Final /\ row[p].status = chain[p]
        /\ \A s \in VaultSides :
             vault[p][s] \in {"finalized", "reverted"} =>
               chain[p] \in Final /\ vault[p][s] = SettledVault(chain[p])
===============================================================================
