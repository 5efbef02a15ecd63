---------------------------- MODULE IndexerStartup ----------------------------
(***************************************************************************)
(* How the rows of indexer_account_dependencies are started                *)
(* (packages/indexer/src/indexers/index.ts, and the trigger of             *)
(* database/sql/indexer-account-dependencies-insert-notify.sql).           *)
(*                                                                         *)
(* startIndexers reads the active rows, starts one after the other, and    *)
(* only then listens for rows inserted later.  The actions that insert     *)
(* rows are those of the module that extends this one.                     *)
(***************************************************************************)
EXTENDS Integers

CONSTANTS
    Deps,      \* the rows there may be in indexer_account_dependencies
    Followed,  \* bound: those of them whose start is modelled
    MaxFaults, \* bound: how many faults there are
    Faults     \* what may go wrong, a subset of {"throw", "crash", "off"}

ASSUME StartupAssumption == Followed \subseteq Deps /\ MaxFaults \in Nat

VARIABLES
    table,   \* the rows: "none", or "active", or "off" (paused or disabled)
    boot,    \* how far startIndexers is
    left,    \* the rows of its query that are not started yet
    notices, \* the rows whose notification was not handled yet
    missed,  \* the rows inserted when nothing hears of them, or whose start failed
    starts,  \* how often each row was started in this process
    faults   \* how many faults there were

startVars == <<table, boot, left, notices, missed, starts, faults>>

\* Bound: the starts of a row are counted up to two.
Many == 2

Boots == {"query",  \* awaiting the active rows
          "start",  \* starting them in turn
          "listen", \* LISTEN is sent
          "on"}     \* LISTEN took effect

StartTypeOK ==
    /\ table \in [Deps -> {"none", "active", "off"}]
    /\ boot \in Boots
    /\ left \subseteq Followed
    /\ notices \subseteq Followed
    /\ missed \subseteq Followed
    /\ starts \in [Followed -> 0..Many]
    /\ faults \in 0..MaxFaults
    /\ left # {} => boot = "start"

StartInit ==
    /\ table = [d \in Deps |-> "none"]
    /\ boot = "query"
    /\ left = {}
    /\ notices = {}
    /\ missed = {}
    /\ starts = [d \in Followed |-> 0]
    /\ faults = 0

-------------------------------------------------------------------------------
(* The trigger.                                                            *)

\* Variant of Heard with a bug: LISTEN comes before the query.
HeardFromTheStart(new) == new \cap Followed

\* The notifications of new rows that reach the process.
Heard(new) == IF boot = "on" THEN new \cap Followed ELSE {}

\* Those inserted too late for the query and too early for LISTEN.
Unheard(new) == IF boot \in {"start", "listen"} THEN new \cap Followed ELSE {}

\* Variant of Insert with a bug: the trigger fires once per statement.
InsertNotifiesOnce(rows) ==
    LET new == {d \in rows : table[d] = "none"}
        told == IF new = {} THEN {} ELSE {CHOOSE d \in new : TRUE}
    IN  /\ table' = [d \in Deps |-> IF d \in new THEN "active" ELSE table[d]]
        /\ notices' = notices \cup Heard(told)
        /\ missed' = missed \cup Unheard(new)
        /\ UNCHANGED <<boot, left, starts>>

\* A statement that inserts those of the rows that are not there yet.
Insert(rows) ==
    LET new == {d \in rows : table[d] = "none"}
    IN  /\ table' = [d \in Deps |-> IF d \in new THEN "active" ELSE table[d]]
        /\ notices' = notices \cup Heard(new)
        /\ missed' = missed \cup Unheard(new)
        /\ UNCHANGED <<boot, left, starts>>

-------------------------------------------------------------------------------
(* startIndexers.                                                          *)

StartIndexer(d) ==
    starts' = [starts EXCEPT ![d] = IF @ < Many THEN @ + 1 ELSE @]

\* startAllIndexers takes the active rows.
QueryActive ==
    /\ boot = "query"
    /\ left' = {d \in Followed : table[d] = "active"}
    /\ boot' = "start"
    /\ UNCHANGED <<table, notices, missed, starts, faults>>

StartNext ==
    /\ boot = "start"
    /\ \E d \in left : StartIndexer(d) /\ left' = left \ {d}
    /\ UNCHANGED <<table, boot, notices, missed, faults>>

\* Variant of Listen with a bug: an exception of the loop is caught outside it.
ListenAfterThrow ==
    /\ boot = "start"
    /\ boot' = "listen"
    /\ UNCHANGED <<table, left, notices, missed, starts, faults>>

\* LISTEN is sent when all are started; its result is not awaited.
Listen ==
    /\ boot = "start"
    /\ left = {}
    /\ boot' = "listen"
    /\ UNCHANGED <<table, left, notices, missed, starts, faults>>

ListenTakesEffect ==
    /\ boot = "listen"
    /\ boot' = "on"
    /\ UNCHANGED <<table, left, notices, missed, starts, faults>>

\* handleNewAccountToIndex.  The payload names the row but not its status, so that
\* a row that was switched off meanwhile is started as well.
HandleNotice ==
    /\ \E d \in notices : StartIndexer(d) /\ notices' = notices \ {d}
    /\ UNCHANGED <<table, boot, left, missed, faults>>

-------------------------------------------------------------------------------
(* Faults.                                                                 *)

Fault(kind) ==
    /\ kind \in Faults
    /\ faults < MaxFaults
    /\ faults' = faults + 1

\* The read of the indexer, or its start, throws: it is logged.
NoticeThrows ==
    /\ Fault("throw")
    /\ \E d \in notices : notices' = notices \ {d} /\ missed' = missed \cup {d}
    /\ UNCHANGED <<table, boot, left, starts>>

\* The job of a started row, or an operator, pauses or disables it.
SwitchOff ==
    /\ Fault("off")
    /\ \E d \in Followed : /\ table[d] = "active"
                           /\ table' = [table EXCEPT ![d] = "off"]
    /\ UNCHANGED <<boot, left, notices, missed, starts>>

\* The process dies, also when a row's start throws in startAllIndexers, whose
\* rejection leaves the top level of the program; it is started again.
StartAgain ==
    /\ boot' = "query"
    /\ left' = {}
    /\ notices' = {}
    /\ missed' = {}
    /\ starts' = [d \in Followed |-> 0]
    /\ UNCHANGED table

-------------------------------------------------------------------------------
StartSteps == QueryActive \/ StartNext \/ Listen \/ ListenTakesEffect \/ HandleNotice

\* No row is started twice by a process.
StartedOnce == \A d \in Followed : starts[d] <= 1

\* Once LISTEN took effect, an active row that is neither started nor about to be is
\* one that was inserted between the query and LISTEN, or whose start threw.
OnlyMissedUnstarted ==
    boot = "on" => \A d \in Followed : \/ table[d] # "active"
                                       \/ starts[d] > 0
                                       \/ d \in notices \cup missed
===============================================================================
