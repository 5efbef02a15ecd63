------------------------------- MODULE AmmMarket -------------------------------
(***************************************************************************)
(* The price and the TWAP of one AMM market account                        *)
(* (packages/indexer/src/indexers/amm-market, start-account-info-indexers).*)
(*                                                                         *)
(* Three sources write them: the fetch when the indexer starts, the        *)
(* subscription to changes of the account that begins after it, and an     *)
(* interval job that fetches every minute.  Each call of                   *)
(* indexAmmMarketAccountWithContext writes two rows, one await after the   *)
(* other, for the slot in the context of what it was given.                *)
(***************************************************************************)
EXTENDS Integers

CONSTANTS
    MaxSlot,    \* bound: the last slot of the chain
    MaxVersion, \* bound: how often the account changes, plus one
    LiveFrom,   \* the first version of the account with an oracle aggregator
    Start,      \* the call of the start-up
    Ticks,      \* bound: the runs of the interval job that may overlap
    MaxFaults,  \* bound: how many faults there are
    Faults      \* what may go wrong, a subset of {"throw", "crash", "lost"}

Slots == 0..MaxSlot
Versions == 1..MaxVersion

\* The calls in progress: the start-up, the notice of each change, the job.
Calls == {Start} \cup Versions \cup Ticks

ASSUME MarketAssumption ==
    /\ MaxSlot \in Nat
    /\ MaxVersion \in Nat \ {0}
    /\ LiveFrom \in Nat
    /\ MaxFaults \in Nat
    /\ Start \notin Versions \cup Ticks
    /\ Versions \cap Ticks = {}

VARIABLES
    slot,       \* the slot of the RPC node
    version,    \* the version of the account at that slot
    subscribed, \* onAccountChange was called
    call,       \* the calls in progress
    twaps,      \* twaps: the slots that have a row
    prices,     \* prices: the rows for each slot, and the version they are of
    faults      \* how many faults there were

dbVars == <<twaps, prices>>
vars   == <<slot, version, subscribed, call, dbVars, faults>>

-------------------------------------------------------------------------------
PCs == {"off",    \* no such call
        "fetch",  \* awaiting getAccountInfoAndContext
        "market", \* awaiting the metadata of the tokens, then the market's row
        "twap",   \* awaiting the insert of the TWAP
        "price"}  \* awaiting the insert of the price

CallType == [pc : PCs, slot : Slots, version : Versions]

\* Bound: rows of a slot are counted up to two.
Many == 2

PriceType == [rows : 0..Many, version : Versions]

\* The one type invariant of the module.
TypeOK ==
    /\ slot \in Slots
    /\ version \in Versions
    /\ subscribed \in BOOLEAN
    /\ call \in [Calls -> CallType]
    /\ twaps \subseteq Slots
    /\ prices \in [Slots -> PriceType]
    /\ faults \in 0..MaxFaults
    /\ call[Start].pc # "off" => ~subscribed

Off == [pc |-> "off", slot |-> 0, version |-> 1]
Fetching == [Off EXCEPT !.pc = "fetch"]
JustStarted == [c \in Calls |-> IF c = Start THEN Fetching ELSE Off]

Init ==
    /\ slot = 0
    /\ version = 1
    /\ subscribed = FALSE
    /\ call = JustStarted
    /\ twaps = {}
    /\ prices = [s \in Slots |-> [rows |-> 0, version |-> 1]]
    /\ faults = 0

-------------------------------------------------------------------------------
(* The chain and the RPC node.                                             *)

NextSlot ==
    /\ slot < MaxSlot
    /\ slot' = slot + 1
    /\ UNCHANGED <<version, subscribed, call, dbVars, faults>>

\* The account changes in a new slot; a subscriber is told, unless it is lost.
Change ==
    /\ slot < MaxSlot
    /\ version < MaxVersion
    /\ slot' = slot + 1
    /\ version' = version + 1
    /\ \/ /\ subscribed
          /\ call' = [call EXCEPT ![version'] = [pc |-> "market", slot |-> slot',
                                                 version |-> version']]
       \/ /\ ~subscribed \/ "lost" \in Faults
          /\ UNCHANGED call
    /\ UNCHANGED <<subscribed, dbVars, faults>>

-------------------------------------------------------------------------------
(* The sources of the calls.                                               *)

\* Variant of Tick with a bug: the job leaves a subscribed account alone.
TickUnlessSubscribed(c) ==
    /\ call[c].pc = "off"
    /\ ~subscribed
    /\ call' = [call EXCEPT ![c] = Fetching]
    /\ UNCHANGED <<slot, version, subscribed, dbVars, faults>>

\* Cron starts a run of the job.
Tick(c) ==
    /\ call[c].pc = "off"
    /\ call' = [call EXCEPT ![c] = Fetching]
    /\ UNCHANGED <<slot, version, subscribed, dbVars, faults>>

\* Variant of Fetch with a bug: the start-up subscribes with its call under way.
FetchSubscribes(c) ==
    /\ call[c].pc = "fetch"
    /\ call' = [call EXCEPT ![c] = [pc |-> "market", slot |-> slot, version |-> version]]
    /\ subscribed' = (subscribed \/ c = Start)
    /\ UNCHANGED <<slot, version, dbVars, faults>>

\* The node answers with the account and the slot it is of.
Fetch(c) ==
    /\ call[c].pc = "fetch"
    /\ call' = [call EXCEPT ![c] = [pc |-> "market", slot |-> slot, version |-> version]]
    /\ UNCHANGED <<slot, version, subscribed, dbVars, faults>>

\* The call c returns, whatever its result; the start-up then subscribes.
Return(c) ==
    /\ call' = [call EXCEPT ![c] = Off]
    /\ subscribed' = (subscribed \/ c = Start)

-------------------------------------------------------------------------------
(* indexAmmMarketAccountWithContext.                                       *)

\* The TWAP is left out as long as the aggregator of the oracle is 0.
ReadMarket(c) ==
    /\ call[c].pc = "market"
    /\ call' = [call EXCEPT ![c].pc = IF call[c].version >= LiveFrom THEN "twap"
                                      ELSE "price"]
    /\ UNCHANGED <<slot, version, subscribed, dbVars, faults>>

\* Variant of the slot of a TWAP with a bug: that of the last change.
SlotOfChange(c) == call[c].version

\* The key of a TWAP: the slot of the context.
TwapSlot(c) == call[c].slot

InsertTwap(c) ==
    /\ call[c].pc = "twap"
    /\ TwapSlot(c) \notin twaps
    /\ twaps' = twaps \cup {TwapSlot(c)}
    /\ call' = [call EXCEPT ![c].pc = "price"]
    /\ UNCHANGED <<slot, version, subscribed, prices, faults>>

\* Variant of TwapExists with a bug: the call goes on to the price.
TwapExistsGoesOn(c) ==
    /\ call[c].pc = "twap"
    /\ TwapSlot(c) \in twaps
    /\ call' = [call EXCEPT ![c].pc = "price"]
    /\ UNCHANGED <<slot, version, subscribed, dbVars, faults>>

\* The slot has a TWAP: the insert returns no row, AmmTwapIndexError.
TwapExists(c) ==
    /\ call[c].pc = "twap"
    /\ TwapSlot(c) \in twaps
    /\ Return(c)
    /\ UNCHANGED <<slot, version, dbVars, faults>>

\* The key of a price is the time of its insert.
InsertPrice(c) ==
    /\ call[c].pc = "price"
    /\ prices' = [prices EXCEPT ![call[c].slot] =
                     [rows |-> IF @.rows < Many THEN @.rows + 1 ELSE Many,
                      version |-> call[c].version]]
    /\ Return(c)
    /\ UNCHANGED <<slot, version, twaps, faults>>

-------------------------------------------------------------------------------
(* Faults.  None comes in the last slot, so that a later one remains.      *)

Fault ==
    /\ faults < MaxFaults
    /\ slot < MaxSlot
    /\ faults' = faults + 1

\* A rejection in a call is caught; the first fetch is not in a call.
CallThrows ==
    /\ "throw" \in Faults
    /\ Fault
    /\ \E c \in Calls :
         /\ call[c].pc # "off"
         /\ c = Start => call[c].pc # "fetch"
         /\ Return(c)
    /\ UNCHANGED <<slot, version, dbVars>>

\* The process dies, also by a rejected first fetch, and is started again.
Restart ==
    /\ "crash" \in Faults
    /\ Fault
    /\ call' = JustStarted
    /\ subscribed' = FALSE
    /\ UNCHANGED <<slot, version, dbVars>>

-------------------------------------------------------------------------------
Step(c) ==
    \/ Fetch(c)
    \/ ReadMarket(c)
    \/ InsertTwap(c)
    \/ TwapExists(c)
    \/ InsertPrice(c)

Next ==
    \/ NextSlot
    \/ Change
    \/ \E c \in Ticks : Tick(c)
    \/ \E c \in Calls : Step(c)
    \/ CallThrows
    \/ Restart

Spec == Init /\ [][Next]_vars

\* Slots pass, cron ticks, awaited calls return.
Fairness ==
    /\ WF_vars(NextSlot)
    /\ \A c \in Ticks : WF_vars(Tick(c))
    /\ \A c \in Calls : WF_vars(Step(c))

FairSpec == Spec /\ Fairness

-------------------------------------------------------------------------------
(* Properties                                                              *)

\* However many calls are given the same slot, one of them writes its price: the
\* insert of the TWAP decides which.
OnePricePerSlot ==
    \A s \in Slots : prices[s].version >= LiveFrom => prices[s].rows <= 1

\* A TWAP without a price is one whose call is under way, unless a fault cut it off.
TwapGetsPrice ==
    faults = 0 => \A s \in twaps : \/ prices[s].rows > 0
                                   \/ \E c \in Calls : call[c].pc = "price" /\ call[c].slot = s

\* The price of the highest slot is that of the account in the end, whether the
\* change fell before the subscription, its notice was lost, came late, or a call
\* was cut off between the two rows.
PriceCatchesUp ==
    <>[](\E s \in Slots : /\ prices[s].rows > 0 /\ prices[s].version = version
                         /\ \A t \in Slots : t > s => prices[t].rows = 0)
===============================================================================
