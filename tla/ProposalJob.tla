------------------------------ MODULE ProposalJob ------------------------------
(***************************************************************************)
(* The proposal indexer as an interval job: AutocratProposal, whose runs   *)
(* are started by the job of IntervalFetch and whose results it counts.    *)
(* A run that fails ends with an error that index() returns; so many of    *)
(* them pause the job, and after maxResets pauses it is stopped for good,  *)
(* whatever proposals there are still to be settled.                       *)
(***************************************************************************)
EXTENDS AutocratProposal

CONSTANTS
    JobRetries, \* `retries' of the indexer (3 in the code)
    maxResets   \* pauses after which a failure is final (5 in the code)

VARIABLES
    status,    \* of the row of indexer_account_dependencies
    job,       \* its cron job
    waits,     \* the updates and timers outstanding
    restarts   \* how many times the process was restarted

jobVars == <<status, job, waits, restarts>>
allVars == <<vars, jobVars>>

\* The row, by the name of its indexer.  Its account is that of the autocrat program.
Dep == "autocrat-proposals"

Job == INSTANCE IntervalFetch
         WITH Deps <- {Dep}, Jobs <- {Dep}, AcctOf <- [d \in {Dep} |-> "autocrat"],
              Retries <- [d \in {Dep} |-> JobRetries],
              MaxRuns <- Cardinality(Runs), MaxRestarts <- MaxFaults

ASSUME JobAssumption ==
    /\ IsFiniteSet(Runs)
    /\ JobRetries \in Nat
    /\ maxResets \in Nat

JobInit == Init /\ Job!Init

-------------------------------------------------------------------------------
\* Cron starts a run of a job that is neither paused nor stopped.
StartRun(r) == Start(r) /\ Job!Tick(Dep)

\* A run goes from one await to the next, ...
RunProceeds(r) ==
    /\ RunGoesOn(r)
    /\ run'[r].pc # "off"
    /\ UNCHANGED jobVars

\* ... ends after the last proposal of its snapshot, ...
RunEnds(r) ==
    /\ RunGoesOn(r)
    /\ run'[r].pc = "off"
    /\ Job!RunSucceeds(Dep)

\* ... or fails, which the job counts.
RunIsCounted(r) ==
    /\ RunFails(r) \/ RunThrows(r)
    /\ Job!RunFails(Dep)

\* The updates of the row and the timer of a pause.
JobMoves ==
    /\ Job!Updates(Dep) \/ Job!Resume(Dep)
    /\ UNCHANGED vars

\* A rejected update.  There are as many as pauses and stops: no fault is counted.
JobUpdateThrows ==
    /\ Job!UpdateThrows(Dep)
    /\ UNCHANGED vars

\* A restart takes the job only if its row is active.
JobRestart == Restart /\ Job!Restart

JobNext ==
    \/ /\ \/ Surroundings
          \/ \E p \in Proposals : \/ InsertStep(p)
                                  \/ \E s \in InsertStages : InsertThrows(p, s)
       /\ UNCHANGED jobVars
    \/ \E r \in Runs : StartRun(r) \/ RunProceeds(r) \/ RunEnds(r) \/ RunIsCounted(r)
    \/ JobMoves
    \/ JobUpdateThrows
    \/ JobRestart

JobSpec == JobInit /\ [][JobNext]_allVars

\* Cron ticks as long as the job is not paused or stopped, awaited calls return,
\* the updates of the row return and the timer fires.  The chain, the traders, the
\* prices and the DAO job may stop.
JobFairness ==
    /\ WF_allVars(\E r \in Runs : StartRun(r))
    /\ \A r \in Runs : WF_allVars(RunProceeds(r) \/ RunEnds(r) \/ RunIsCounted(r))
    /\ \A p \in Proposals : WF_allVars(InsertStep(p) /\ UNCHANGED jobVars)
    /\ WF_allVars(JobMoves)

FairJobSpec == JobSpec /\ JobFairness

-------------------------------------------------------------------------------
(* Properties                                                              *)

\* Unless the job is given up, all finalized proposals are settled in the end and stay
\* so, with both vaults and their markets, whatever failed half-way before.  One
\* proposal whose DAO is unknown, listed anywhere, is enough to give the job up.
Settles ==
    <>[](\/ Job!GivenUp(Dep)
         \/ \A p \in Proposals : chain[p] \in Final =>
               /\ row[p].status = chain[p]
               /\ \A s \in VaultSides : vault[p][s] = SettledVault(chain[p])
               /\ p \in markets)

\* Traders whose performance can be computed: the base token has decimals.
Traders(p) == IF Decimals[DaoOf[p]] = 0 THEN {} ELSE {o.actor : o \in orders[p]}

\* Unless the job is given up, the performance of a finalized proposal is, for good,
\* that of all its orders in the market of the outcome at the price of the completion.
PerformanceSettles ==
    <>[](\/ Job!GivenUp(Dep)
         \/ \A p \in Proposals : chain[p] \in Final =>
               /\ DOMAIN perf[p] = Traders(p)
               /\ \A a \in Traders(p) :
                    ProfitOf(perf[p][a]) =
                      Profit(orders[p], a, IF chain[p] = "passed" THEN "pass" ELSE "fail",
                             SpotAt[row[p].completedAt]))
===============================================================================
