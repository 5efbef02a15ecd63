----------------------------- MODULE IntervalFetch -----------------------------
(***************************************************************************)
(* The interval fetch jobs of the indexer service                          *)
(* (packages/indexer/src/indexers/start-interval-fetch-indexers.ts).       *)
(*                                                                         *)
(* A row of indexer_account_dependencies names an indexer and an account.  *)
(* startAllIndexers starts every active row; one whose indexer is of type  *)
(* IntervalFetch gets a cron job.  A job that fails too often is paused    *)
(* for an hour, and after maxResets pauses the next failure stops it for   *)
(* good.  The status of the row follows by updates that nothing awaits:    *)
(* each of them, and each timer, is outstanding until an action of its own *)
(* takes it.  Cron starts a run whether or not the last one has ended.     *)
(***************************************************************************)
EXTENDS Integers

CONSTANTS
    Deps,        \* the rows of indexer_account_dependencies
    Jobs,        \* those whose indexer is of type IntervalFetch
    AcctOf,      \* AcctOf[d]: the account of row d
    Retries,     \* Retries[d]: `retries' of the indexer of row d
    maxResets,   \* pauses after which a failure is final
    MaxRuns,     \* bound: how many runs of a job overlap
    MaxRestarts, \* bound: how many times the process is restarted
    Faults       \* what may go wrong, a subset of {"throw", "crash"}

ASSUME DepsAssumption ==
    /\ Jobs \subseteq Deps
    /\ Retries \in [Jobs -> Nat]
    /\ maxResets \in Nat
    /\ MaxRuns \in Nat
    /\ MaxRestarts \in Nat

VARIABLES
    status,    \* the status of each row
    job,       \* the cron job of each row, and the counters of its closure
    waits,     \* the updates and timers outstanding for each row
    restarts   \* how many times the process was restarted

vars == <<status, job, waits, restarts>>

-------------------------------------------------------------------------------
Statuses == {"active", "paused", "disabled"}

JobType == [started : BOOLEAN,   \* startIndexer was called for the row
            paused : BOOLEAN,    \* job.pause(), undone by job.resume()
            killed : BOOLEAN,    \* job.stop(), which nothing undoes
            runs : Nat,          \* runs of the job that have not ended
            errorCount : Nat,
            resets : 0..maxResets]

WaitsType == [pausing : Nat,     \* updates to Paused
              sleeping : Nat,    \* timers that will resume the job
              waking : Nat,      \* updates to Active
              disabling : Nat,   \* updates to Disabled
              lost : BOOLEAN]    \* (history) an update to Paused was rejected since
                                 \* the job was last resumed

\* The one type invariant of the module.
TypeOK ==
    /\ status \in [Deps -> Statuses]
    /\ job \in [Deps -> JobType]
    /\ waits \in [Deps -> WaitsType]
    /\ restarts \in 0..MaxRestarts

NewJob(started) ==
    [started |-> started, paused |-> FALSE, killed |-> FALSE,
     runs |-> 0, errorCount |-> 0, resets |-> 0]

NoWaits == [pausing |-> 0, sleeping |-> 0, waking |-> 0, disabling |-> 0, lost |-> FALSE]

Init ==
    /\ status = [d \in Deps |-> "active"]
    /\ job = [d \in Deps |-> NewJob(TRUE)]
    /\ waits = [d \in Deps |-> NoWaits]
    /\ restarts = 0

-------------------------------------------------------------------------------
(* A run of a job, from the tick of cron to the result of index().         *)

Tick(d) ==
    /\ job[d].started
    /\ ~job[d].paused
    /\ ~job[d].killed
    /\ job[d].runs < MaxRuns
    /\ job' = [job EXCEPT ![d].runs = @ + 1]
    /\ UNCHANGED <<status, waits, restarts>>

RunSucceeds(d) ==
    /\ job[d].runs > 0
    /\ job' = [job EXCEPT ![d].runs = @ - 1, ![d].errorCount = 0]
    /\ UNCHANGED <<status, waits, restarts>>

\* index() rejects: the callback ends there.
RunThrows(d) ==
    /\ "throw" \in Faults
    /\ job[d].runs > 0
    /\ job' = [job EXCEPT ![d].runs = @ - 1]
    /\ UNCHANGED <<status, waits, restarts>>

\* The failure of a job that has used up its resets: it is stopped.
FinalFailure(d) ==
    /\ job[d].runs > 0
    /\ job[d].resets = maxResets
    /\ job' = [job EXCEPT ![d].runs = @ - 1, ![d].errorCount = @ + 1,
                          ![d].killed = TRUE]
    /\ waits' = [waits EXCEPT ![d].disabling = @ + 1]
    /\ UNCHANGED <<status, restarts>>

\* Variants of Failure with a bug: the resets are not compared, ...
FailureUnchecked(d) ==
    /\ job[d].runs > 0
    /\ job[d].errorCount + 1 > Retries[d]
    /\ job' = [job EXCEPT ![d].runs = @ - 1, ![d].errorCount = 0,
                          ![d].resets = @ + 1, ![d].paused = TRUE]
    /\ waits' = [waits EXCEPT ![d].pausing = @ + 1]
    /\ UNCHANGED <<status, restarts>>

\* ... or not counted.
FailureUncounted(d) ==
    /\ job[d].runs > 0
    /\ job[d].resets # maxResets
    /\ job[d].errorCount + 1 > Retries[d]
    /\ job' = [job EXCEPT ![d].runs = @ - 1, ![d].errorCount = 0, ![d].paused = TRUE]
    /\ waits' = [waits EXCEPT ![d].pausing = @ + 1]
    /\ UNCHANGED <<status, restarts>>

\* The failure after `retries' others: the job is paused.
Failure(d) ==
    /\ job[d].runs > 0
    /\ job[d].resets # maxResets
    /\ job[d].errorCount + 1 > Retries[d]
    /\ job' = [job EXCEPT ![d].runs = @ - 1, ![d].errorCount = 0,
                          ![d].resets = @ + 1, ![d].paused = TRUE]
    /\ waits' = [waits EXCEPT ![d].pausing = @ + 1]
    /\ UNCHANGED <<status, restarts>>

\* Any other failure is only counted.
CountedFailure(d) ==
    /\ job[d].runs > 0
    /\ job[d].resets # maxResets
    /\ job[d].errorCount + 1 <= Retries[d]
    /\ job' = [job EXCEPT ![d].runs = @ - 1, ![d].errorCount = @ + 1]
    /\ UNCHANGED <<status, waits, restarts>>

-------------------------------------------------------------------------------
(* The updates of the row and the timer.                                   *)

\* Variant of PauseWritten with a bug: no timer if the row says Paused already.
PauseWrittenIfActive(d) ==
    /\ waits[d].pausing > 0
    /\ status' = [status EXCEPT ![d] = "paused"]
    /\ waits' = [waits EXCEPT ![d].pausing = @ - 1,
                              ![d].sleeping = IF status[d] = "active" THEN @ + 1 ELSE @]
    /\ UNCHANGED <<job, restarts>>

\* The row says Paused; only then is the timer set.
PauseWritten(d) ==
    /\ waits[d].pausing > 0
    /\ status' = [status EXCEPT ![d] = "paused"]
    /\ waits' = [waits EXCEPT ![d].pausing = @ - 1, ![d].sleeping = @ + 1]
    /\ UNCHANGED <<job, restarts>>

\* Variant of Resume with a bug: the job is left paused, only the row is updated.
ResumeRowOnly(d) ==
    /\ waits[d].sleeping > 0
    /\ waits' = [waits EXCEPT ![d].sleeping = @ - 1, ![d].waking = @ + 1]
    /\ UNCHANGED <<status, job, restarts>>

\* The timer fires, whatever happened to the job since.
Resume(d) ==
    /\ waits[d].sleeping > 0
    /\ job' = [job EXCEPT ![d].paused = FALSE]
    /\ waits' = [waits EXCEPT ![d].sleeping = @ - 1, ![d].waking = @ + 1,
                              ![d].lost = FALSE]
    /\ UNCHANGED <<status, restarts>>

ActiveWritten(d) ==
    /\ waits[d].waking > 0
    /\ status' = [status EXCEPT ![d] = "active"]
    /\ waits' = [waits EXCEPT ![d].waking = @ - 1]
    /\ UNCHANGED <<job, restarts>>

\* The update of the final failure has no condition on the name of the row.
DisabledWritten(d) ==
    /\ waits[d].disabling > 0
    /\ status' = [e \in Deps |-> IF AcctOf[e] = AcctOf[d] THEN "disabled" ELSE status[e]]
    /\ waits' = [waits EXCEPT ![d].disabling = @ - 1]
    /\ UNCHANGED <<job, restarts>>

\* A rejected update: what would have followed it does not happen.
UpdateThrows(d) ==
    /\ "throw" \in Faults
    /\ \/ /\ waits[d].pausing > 0
          /\ waits' = [waits EXCEPT ![d] = [waits[d] EXCEPT !.pausing = @ - 1, !.lost = TRUE]]
       \/ waits[d].waking > 0 /\ waits' = [waits EXCEPT ![d].waking = @ - 1]
       \/ waits[d].disabling > 0 /\ waits' = [waits EXCEPT ![d].disabling = @ - 1]
    /\ UNCHANGED <<status, job, restarts>>

\* Variant of Restart with a bug: every row is taken.
RestartAll ==
    /\ "crash" \in Faults
    /\ restarts < MaxRestarts
    /\ restarts' = restarts + 1
    /\ job' = [d \in Deps |-> NewJob(TRUE)]
    /\ waits' = [d \in Deps |-> NoWaits]
    /\ UNCHANGED status

\* The process is started again: startAllIndexers takes the active rows only.
Restart ==
    /\ "crash" \in Faults
    /\ restarts < MaxRestarts
    /\ restarts' = restarts + 1
    /\ job' = [d \in Deps |-> NewJob(status[d] = "active")]
    /\ waits' = [d \in Deps |-> NoWaits]
    /\ UNCHANGED status

-------------------------------------------------------------------------------
RunFails(d) == FinalFailure(d) \/ Failure(d) \/ CountedFailure(d)

Updates(d) == PauseWritten(d) \/ ActiveWritten(d) \/ DisabledWritten(d)

Next ==
    \/ \E d \in Jobs : \/ Tick(d)
                       \/ RunSucceeds(d) \/ RunThrows(d) \/ RunFails(d)
                       \/ Updates(d) \/ Resume(d)
                       \/ UpdateThrows(d)
    \/ Restart

Spec == Init /\ [][Next]_vars

\* Cron ticks, runs end, updates return and timers fire.
Fairness ==
    \A d \in Jobs :
        /\ WF_vars(Tick(d))
        /\ WF_vars(RunSucceeds(d) \/ RunFails(d))
        /\ WF_vars(PauseWritten(d))
        /\ WF_vars(Resume(d))
        /\ WF_vars(ActiveWritten(d))
        /\ WF_vars(DisabledWritten(d))

FairSpec == Spec /\ Fairness

-------------------------------------------------------------------------------
(* Properties                                                              *)

\* A paused job is never forgotten, unless the update of its pause was rejected: the
\* update after which its timer is set, or the timer, is outstanding, however many runs
\* of it failed at the same time.
PausedWillResume ==
    \A d \in Jobs :
        job[d].paused => waits[d].pausing + waits[d].sleeping > 0 \/ waits[d].lost

\* The final update takes all the rows of the account, also of jobs that go on, and
\* of indexers of other kinds.  But a row of this process says disabled only since a
\* job of its own account was stopped for good.
DisabledByFinalFailure ==
    \A d \in Deps : job[d].started /\ status[d] = "disabled" =>
        \E e \in Jobs : AcctOf[e] = AcctOf[d] /\ job[e].killed

\* The job runs no more in this process: it was stopped for good, a restart did not
\* take it, or the update of its pause was rejected and nothing else resumes it.
GivenUp(d) ==
    \/ job[d].killed
    \/ ~job[d].started
    \/ job[d].paused /\ waits[d].lost /\ waits[d].pausing + waits[d].sleeping = 0

\* A job that is not given up fetches again and again, also after its own pauses and
\* after the final failure of another job of the account.
KeepsFetching ==
    \A d \in Jobs : []<>(job[d].runs > 0 \/ GivenUp(d))

\* Jobs whose runs only fail are given up, and do not alternate between pause and
\* resume for ever.
GivesUp ==
    <>[][~ \E d \in Jobs : RunSucceeds(d) \/ RunThrows(d)]_vars
        => \A d \in Jobs : <>GivenUp(d)
===============================================================================
