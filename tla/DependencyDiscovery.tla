-------------------------- MODULE DependencyDiscovery --------------------------
(***************************************************************************)
(* The job that fills indexer_account_dependencies                         *)
(* (packages/indexer/src/cli/txw/populate.ts), with IndexerStartup, which  *)
(* starts what it inserts.                                                 *)
(*                                                                         *)
(* Every five minutes a run reads the tokens and markets and inserts the   *)
(* rows they need, one await after the other; nothing keeps a run from     *)
(* starting before the last one ended.  The run inserts the rows of the    *)
(* mints, of the AMM markets, of the Openbook markets and then of the      *)
(* prices of the tokens; an exception ends it.                             *)
(***************************************************************************)
EXTENDS IndexerStartup

CONSTANTS
    Tokens,    \* the mints there may be in the tokens table
    Usdc,      \* that of USDC
    Spot,      \* those of tokens that have a spot price: no proposal's, not USDC
    Amms,      \* the AMM markets there may be in the markets table
    Openbooks, \* the Openbook markets
    Initially, \* those of all these that have their row from the start
    Runs       \* bound: the runs that may overlap

Entities == Tokens \cup Amms \cup Openbooks

AmmNames == {"amm-market-accounts", "amm-market-accounts-fetch",
             "amm-markets-logs-subscribe-indexer"}

MintDep(t) == <<"token-mint-accounts", t>>
AmmDeps(a) == {<<name, a>> : name \in AmmNames}
OpenbookDep(o) == <<"openbook-market-accounts", o>>
QuoteDep(t) == <<"jupiter-quotes", t>>
BirdeyeDep(t) == <<"birdeye-prices", t>>

ASSUME DiscoveryAssumption ==
    /\ Usdc \in Tokens
    /\ Spot \subseteq Tokens \ {Usdc}
    /\ Initially \subseteq Entities
    /\ Deps = {MintDep(t) : t \in Tokens} \cup UNION {AmmDeps(a) : a \in Amms}
              \cup {OpenbookDep(o) : o \in Openbooks}
              \cup {QuoteDep(t) : t \in Spot} \cup {BirdeyeDep(t) : t \in Spot}

VARIABLES
    known,  \* the tokens and markets that have a row, those of spot prices left out
    priced, \* the mints that have a row in markets for their spot price
    run     \* the runs in progress

vars == <<startVars, known, priced, run>>

-------------------------------------------------------------------------------
PCs == {"off", "mints", "mint", "amms", "amm", "accts", "openbooks", "openbook",
        "spot", "quote", "quoteDep", "quoteMarket", "usdc", "birdeyeDep",
        "birdeyeMarket"}

RunType == [pc : PCs,
            todo : SUBSET Entities, \* what its loop has left, or dependent accounts
            token : Tokens,         \* the token at hand
            usdc : BOOLEAN]         \* a row of USDC was found

\* The one type invariant of the module.
TypeOK ==
    /\ StartTypeOK
    /\ known \subseteq Entities
    /\ priced \subseteq Spot
    /\ run \in [Runs -> RunType]
    /\ \A r \in Runs : run[r].pc = "openbook" => run[r].todo # {}

Ended == [pc |-> "off", todo |-> {}, token |-> Usdc, usdc |-> FALSE]

Init ==
    /\ StartInit
    /\ known = Initially
    /\ priced = {}
    /\ run = [r \in Runs |-> Ended]

\* A loop at pc over todo, or what comes after it.
Loop(pc, todo, next) == [Ended EXCEPT !.pc = IF todo = {} THEN next ELSE pc, !.todo = todo]

\* Run r goes on with the next of the tokens, which are in no order.
NextToken(r, todo) ==
    run' = [run EXCEPT ![r] = IF todo = {} THEN Ended
                              ELSE LET t == CHOOSE t \in todo : TRUE
                                   IN  [Ended EXCEPT !.pc = "quote", !.todo = todo \ {t},
                                                     !.token = t]]

-------------------------------------------------------------------------------
\* An indexer inserts a token or a market.
Appear ==
    /\ \E e \in Entities \ known : known' = known \cup {e}
    /\ UNCHANGED <<startVars, priced, run>>

Tick(r) ==
    /\ run[r].pc = "off"
    /\ run' = [run EXCEPT ![r].pc = "mints"]
    /\ UNCHANGED <<startVars, known, priced>>

-------------------------------------------------------------------------------
(* Mints and AMM markets.                                                  *)

ReadMints(r) ==
    /\ run[r].pc = "mints"
    /\ run' = [run EXCEPT ![r] = Loop("mint", known \cap Tokens, "amms")]
    /\ UNCHANGED <<startVars, known, priced>>

InsertMint(r) ==
    /\ run[r].pc = "mint"
    /\ \E t \in run[r].todo :
         /\ Insert({MintDep(t)})
         /\ run' = [run EXCEPT ![r] = Loop("mint", run[r].todo \ {t}, "amms")]
    /\ UNCHANGED <<faults, known, priced>>

ReadAmms(r) ==
    /\ run[r].pc = "amms"
    /\ run' = [run EXCEPT ![r] = Loop("amm", known \cap Amms, "accts")]
    /\ UNCHANGED <<startVars, known, priced>>

InsertAmm(r) ==
    /\ run[r].pc = "amm"
    /\ \E a \in run[r].todo :
         /\ Insert(AmmDeps(a))
         /\ run' = [run EXCEPT ![r] = Loop("amm", run[r].todo \ {a}, "accts")]
    /\ UNCHANGED <<faults, known, priced>>

-------------------------------------------------------------------------------
(* Openbook markets: the accounts that have a row are read first.          *)

\* Variant of HasDep with a bug: the filter is dropped.
HasNoDep(e) == FALSE

HasDep(e) == \E d \in Deps : d[2] = e /\ table[d] # "none"

ReadAccts(r) ==
    /\ run[r].pc = "accts"
    /\ run' = [run EXCEPT ![r].pc = "openbooks", ![r].todo = {o \in Openbooks : HasDep(o)}]
    /\ UNCHANGED <<startVars, known, priced>>

ReadOpenbooks(r) ==
    /\ run[r].pc = "openbooks"
    /\ run' = [run EXCEPT ![r] = Loop("openbook", (known \cap Openbooks) \ run[r].todo, "spot")]
    /\ UNCHANGED <<startVars, known, priced>>

InsertOpenbook(r) ==
    /\ run[r].pc = "openbook"
    /\ \E o \in run[r].todo :
         /\ table[OpenbookDep(o)] = "none"
         /\ Insert({OpenbookDep(o)})
         /\ run' = [run EXCEPT ![r] = Loop("openbook", run[r].todo \ {o}, "spot")]
    /\ UNCHANGED <<faults, known, priced>>

\* The insert has no conflict clause: it throws, and the run ends.
OpenbookConflict(r) ==
    /\ run[r].pc = "openbook"
    /\ \E o \in run[r].todo : table[OpenbookDep(o)] # "none"
    /\ run' = [run EXCEPT ![r] = Ended]
    /\ UNCHANGED <<startVars, known, priced>>

-------------------------------------------------------------------------------
(* Spot prices: from Jupiter, or from Birdeye.                             *)

ReadSpot(r) ==
    /\ run[r].pc = "spot"
    /\ NextToken(r, known \cap Spot)
    /\ UNCHANGED <<startVars, known, priced>>

\* fetchQuoteFromJupe needs the row of USDC for its decimals.
Quote(r) ==
    /\ run[r].pc = "quote"
    /\ \/ Usdc \in known /\ run' = [run EXCEPT ![r].pc = "quoteDep"]
       \/ run' = [run EXCEPT ![r].pc = "usdc"]
    /\ UNCHANGED <<startVars, known, priced>>

InsertQuoteDep(r) ==
    /\ run[r].pc = "quoteDep"
    /\ Insert({QuoteDep(run[r].token)})
    /\ run' = [run EXCEPT ![r].pc = "quoteMarket"]
    /\ UNCHANGED <<faults, known, priced>>

InsertQuoteMarket(r) ==
    /\ run[r].pc = "quoteMarket"
    /\ priced' = priced \cup {run[r].token}
    /\ NextToken(r, run[r].todo)
    /\ UNCHANGED <<startVars, known>>

ReadUsdc(r) ==
    /\ run[r].pc = "usdc"
    /\ run' = [run EXCEPT ![r].pc = "birdeyeDep", ![r].usdc = Usdc \in known]
    /\ UNCHANGED <<startVars, known, priced>>

\* Without a row of USDC the record of the market cannot be made: an error, caught.
InsertBirdeyeDep(r) ==
    /\ run[r].pc = "birdeyeDep"
    /\ Insert({BirdeyeDep(run[r].token)})
    /\ IF run[r].usdc THEN run' = [run EXCEPT ![r].pc = "birdeyeMarket"]
       ELSE NextToken(r, run[r].todo)
    /\ UNCHANGED <<faults, known, priced>>

InsertBirdeyeMarket(r) ==
    /\ run[r].pc = "birdeyeMarket"
    /\ priced' = priced \cup {run[r].token}
    /\ NextToken(r, run[r].todo)
    /\ UNCHANGED <<startVars, known>>

-------------------------------------------------------------------------------
(* Faults.                                                                 *)

\* A query throws: Jupiter's gives way to Birdeye, Birdeye's to the next token, and
\* any other ends the run.
PopulateThrows ==
    /\ Fault("throw")
    /\ \E r \in Runs :
         /\ run[r].pc # "off"
         /\ IF run[r].pc \in {"quoteDep", "quoteMarket"}
            THEN run' = [run EXCEPT ![r].pc = "usdc"]
            ELSE IF run[r].pc \in {"usdc", "birdeyeDep", "birdeyeMarket"}
            THEN NextToken(r, run[r].todo)
            ELSE run' = [run EXCEPT ![r] = Ended]
    /\ UNCHANGED <<table, boot, left, notices, missed, starts, known, priced>>

Restart ==
    /\ Fault("crash")
    /\ StartAgain
    /\ run' = [r \in Runs |-> Ended]
    /\ UNCHANGED <<known, priced>>

-------------------------------------------------------------------------------
Step(r) ==
    \/ ReadMints(r) \/ InsertMint(r)
    \/ ReadAmms(r) \/ InsertAmm(r)
    \/ ReadAccts(r) \/ ReadOpenbooks(r) \/ InsertOpenbook(r) \/ OpenbookConflict(r)
    \/ ReadSpot(r) \/ Quote(r) \/ InsertQuoteDep(r) \/ InsertQuoteMarket(r)
    \/ ReadUsdc(r) \/ InsertBirdeyeDep(r) \/ InsertBirdeyeMarket(r)

Startup ==
    /\ StartSteps \/ NoticeThrows \/ SwitchOff
    /\ UNCHANGED <<known, priced, run>>

Next ==
    \/ Appear
    \/ \E r \in Runs : Tick(r) \/ Step(r)
    \/ PopulateThrows
    \/ Startup
    \/ Restart

Spec == Init /\ [][Next]_vars

\* Cron ticks, awaited queries return, the start goes on and notices are handled.
Fairness ==
    /\ \A r \in Runs : WF_vars(Tick(r)) /\ WF_vars(Step(r))
    /\ WF_vars(StartSteps /\ UNCHANGED <<known, priced, run>>)

FairSpec == Spec /\ Fairness

-------------------------------------------------------------------------------
(* Properties                                                              *)

\* The three indexers of an AMM market are started, unless its row came in between
\* the query and LISTEN, its start threw, or it is switched off.
MarketIndexed ==
    \A a \in Amms : \A d \in AmmDeps(a) \cap Followed :
        a \in known ~> (starts[d] > 0 \/ d \in missed \/ table[d] = "off")

\* A token gets a price indexer, and the market its prices refer to, whatever runs
\* are aborted before by the conflict of an Openbook market or by a query.
TokenPriced ==
    \A t \in Spot :
        {t, Usdc} \subseteq known ~> /\ t \in priced
                                     /\ \/ table[QuoteDep(t)] # "none"
                                        \/ table[BirdeyeDep(t)] # "none"
===============================================================================
