------------------------------- MODULE TxHistory -------------------------------
(***************************************************************************)
(* The history of an account, read page by page                            *)
(* (packages/indexer/src/transaction/history.ts, and its retries in        *)
(* transaction/watcher.ts).                                                *)
(*                                                                         *)
(* The RPC node walks backwards from the newest transaction, which is      *)
(* another one for each attempt.  Of three attempts the longest is kept.   *)
(* A watcher asks for what comes after the latestTxSig of its row when it  *)
(* was constructed, at every poll.                                         *)
(***************************************************************************)
EXTENDS Integers, Sequences, SequencesExt

CONSTANTS
    NumTxs,     \* the transactions of the account are 1..NumTxs, in their order
    SlotOf,     \* SlotOf[i]: the slot of transaction i
    PageSize,   \* the signatures in an answer of the node
    maxRetries, \* attempts
    None,       \* there is no answer
    MaxFaults,  \* bound: how many faults there are
    Faults      \* what may go wrong, a subset of {"throw", "order", "crash"}

Sigs == 1..NumTxs

ASSUME HistoryAssumption ==
    /\ NumTxs \in Nat
    /\ SlotOf \in [Sigs -> Nat]
    /\ \A i, j \in Sigs : i <= j => SlotOf[i] <= SlotOf[j]
    /\ PageSize \in Nat \ {0}
    /\ maxRetries \in Nat \ {0}
    /\ MaxFaults \in Nat

VARIABLES
    confirmed, \* the transactions that the node serves
    latest,    \* latestTxSig of the row, 0 for null
    after,     \* latestTxSig of the watcher
    polling,   \* the watcher still polls: it is not stopped, nor left backfilling
    asked,     \* history: what was confirmed when the fetch began, -1 outside it
    fetch,     \* the fetch in progress
    answer,    \* what of its result is not taken yet, None before there is one
    faults     \* how many faults there were

historyVars == <<confirmed, latest, after, polling, asked, fetch, answer, faults>>

-------------------------------------------------------------------------------
FetchType == [attempt : 0..maxRetries, \* 0 outside a fetch
              before : 0..NumTxs,      \* earliestSig, 0 for undefined
              history : Seq(Sigs),     \* latest first
              kept : Seq(Sigs)]        \* the longest result, earliest first

HistoryTypeOK ==
    /\ confirmed \in 0..NumTxs
    /\ latest \in 0..confirmed
    /\ after \in 0..confirmed
    /\ polling \in BOOLEAN
    /\ asked \in -1..confirmed
    /\ fetch \in FetchType
    /\ answer \in Seq(Sigs) \cup {None}
    /\ faults \in 0..MaxFaults
    /\ fetch.attempt = 0 <=> asked = -1
    /\ answer # None => fetch.attempt = 0
    /\ fetch.before = 0 <=> fetch.history = <<>>
    /\ ~polling => fetch.attempt = 0 /\ answer = None

NoFetch == [attempt |-> 0, before |-> 0, history |-> <<>>, kept |-> <<>>]

HistoryInit ==
    /\ confirmed = 0
    /\ latest = 0
    /\ after = 0
    /\ polling = TRUE
    /\ asked = -1
    /\ fetch = NoFetch
    /\ answer = None
    /\ faults = 0

-------------------------------------------------------------------------------
Confirm ==
    /\ confirmed < NumTxs
    /\ confirmed' = confirmed + 1
    /\ UNCHANGED <<latest, after, polling, asked, fetch, answer, faults>>

\* Variant of Begin with a bug: the last answer may still be worked on.
BeginAgain ==
    /\ polling
    /\ fetch.attempt = 0
    /\ fetch' = [NoFetch EXCEPT !.attempt = 1]
    /\ asked' = confirmed
    /\ UNCHANGED <<confirmed, latest, after, polling, answer, faults>>

\* A poll: getTransactionHistoryFromFinalizedSlotWithRetry is called.
Begin ==
    /\ polling
    /\ fetch.attempt = 0
    /\ answer = None
    /\ fetch' = [NoFetch EXCEPT !.attempt = 1]
    /\ asked' = confirmed
    /\ UNCHANGED <<confirmed, latest, after, polling, answer, faults>>

\* The transactions from the last one back to the first one.
Back(last, first) == [i \in 1..(last - first + 1) |-> last - i + 1]

\* The answer of the node: the newest signatures before the one given.
Page(before) ==
    LET last  == IF before = 0 THEN confirmed ELSE before - 1
        first == IF last > PageSize THEN last - PageSize + 1 ELSE 1
    IN  Back(last, first)

\* Whether `after' is in the page, and what is pushed until it is met.
ReachedAfter(page) == after > 0 /\ Contains(page, after)
Newer(page) ==
    IF ReachedAfter(page)
    THEN SubSeq(page, 1, (CHOOSE i \in DOMAIN page : page[i] = after) - 1)
    ELSE page

\* The attempt is over: the longest result is kept, the last attempt returns it.
EndAttempt(result) ==
    LET kept == IF Len(result) > Len(fetch.kept) THEN result ELSE fetch.kept
    IN  IF fetch.attempt < maxRetries
        THEN /\ fetch' = [NoFetch EXCEPT !.attempt = fetch.attempt + 1, !.kept = kept]
             /\ UNCHANGED <<answer, asked>>
        ELSE /\ fetch' = NoFetch
             /\ answer' = kept
             /\ asked' = -1

\* Variant of ReadPage with a bug: earliestSig is not moved.
ReadSamePage ==
    /\ fetch.attempt > 0
    /\ LET page == Page(fetch.before)
       IN  IF page = <<>> \/ ReachedAfter(page)
           THEN EndAttempt(Reverse(fetch.history \o Newer(page)))
           ELSE /\ fetch' = [fetch EXCEPT !.history = page]
                /\ UNCHANGED <<answer, asked>>
    /\ UNCHANGED <<confirmed, latest, after, polling, faults>>

\* The node answers.  An empty page or one with `after' in it is the last.
ReadPage ==
    /\ fetch.attempt > 0
    /\ LET page == Page(fetch.before)
       IN  IF page = <<>> \/ ReachedAfter(page)
           THEN EndAttempt(Reverse(fetch.history \o Newer(page)))
           ELSE /\ fetch' = [fetch EXCEPT !.history = @ \o page, !.before = Last(page)]
                /\ UNCHANGED <<answer, asked>>
    /\ UNCHANGED <<confirmed, latest, after, polling, faults>>

-------------------------------------------------------------------------------
Fault(kind) ==
    /\ kind \in Faults
    /\ faults < MaxFaults
    /\ faults' = faults + 1

\* Variant of AttemptThrows with a bug: the pages read so far count as a result.
AttemptKeepsPages ==
    /\ fetch.attempt > 0
    /\ EndAttempt(Reverse(fetch.history))
    /\ UNCHANGED <<confirmed, latest, after, polling>>

\* The attempt ends in an exception: an earlier result is kept for the last attempt
\* to return.  If that throws itself, the fetch fails and the watcher is left in
\* its backfill, or is marked as failed.
AttemptThrows ==
    /\ fetch.attempt > 0
    /\ IF fetch.attempt < maxRetries
       THEN /\ fetch' = [NoFetch EXCEPT !.attempt = fetch.attempt + 1, !.kept = fetch.kept]
            /\ UNCHANGED <<asked, polling>>
       ELSE /\ fetch' = NoFetch
            /\ asked' = -1
            /\ polling' = FALSE
    /\ UNCHANGED <<confirmed, latest, after, answer>>

\* The request throws.
RequestThrows == Fault("throw") /\ AttemptThrows

\* The node answers out of order, which the slots of the page tell.
PageOutOfOrder ==
    LET page == Page(fetch.before)
    IN  /\ Fault("order")
        /\ \E i, j \in DOMAIN page : SlotOf[page[i]] # SlotOf[page[j]]
        /\ AttemptThrows

\* The process is started again, and constructs the watcher from the row.
Reconstruct ==
    /\ after' = latest
    /\ polling' = TRUE
    /\ asked' = -1
    /\ fetch' = NoFetch
    /\ answer' = None
    /\ UNCHANGED <<confirmed, latest>>

-------------------------------------------------------------------------------
(* What is done with the answer.                                           *)

\* The row is updated, and the next transaction of the answer is taken.
Advance ==
    /\ latest' = Head(answer)
    /\ answer' = Tail(answer)
    /\ UNCHANGED <<confirmed, after, polling, asked, fetch>>

\* The rest of the answer is given up, and the watcher polls again or not.
Drop(goesOn) ==
    /\ answer' = None
    /\ polling' = goesOn
    /\ UNCHANGED <<confirmed, latest, after, asked, fetch>>

FetchSteps == Begin \/ ReadPage

\* Each fetch ends, whatever is confirmed while its pages are read.
PagingEnds == fetch.attempt > 0 ~> fetch.attempt = 0
===============================================================================
