----------------------- MODULE DependencyDiscoveryProofs -----------------------
(***************************************************************************)
(* Theorems about IndexerStartup beside DependencyDiscovery, for any       *)
(* tokens and markets, any number of runs that overlap, and any faults.    *)
(***************************************************************************)
EXTENDS DependencyDiscovery, TLAPS

\* The stages of a run that work on a token.
TokenPCs == {"quote", "quoteDep", "quoteMarket", "usdc", "birdeyeDep", "birdeyeMarket"}

\* A row waits to be started in one place at most, and only until it is; nothing
\* was started or heard of before the rows are read.
Waiting ==
    /\ boot = "query" => /\ notices = {}
                         /\ \A d \in Followed : starts[d] = 0
    /\ \A d \in left \cup notices : starts[d] = 0 /\ table[d] # "none"
    /\ \A d \in Followed : starts[d] > 0 => table[d] # "none"
    /\ left \cap notices = {}
    /\ notices # {} => boot = "on"

\* Since the rows were read, an active one is started, waits to be, or was missed.
Accounted ==
    boot # "query" => \A d \in Followed : \/ table[d] # "active"
                                          \/ starts[d] > 0
                                          \/ d \in left \cup notices \cup missed

\* The part of the invariant about the start, whatever the runs do.
StartGood ==
    /\ StartTypeOK
    /\ Waiting
    /\ Accounted
    /\ StartedOnce

\* The part about the runs.
RunGood(x) ==
    /\ x \in RunType
    /\ x.pc = "openbook" => x.todo # {}
    /\ x.pc \in TokenPCs => x.todo \subseteq Spot /\ x.token \in Spot

RunsGood ==
    /\ known \subseteq Entities
    /\ priced \subseteq Spot
    /\ run \in [Runs -> RunType]
    /\ \A r \in Runs : RunGood(run[r])

IInv == StartGood /\ RunsGood

-------------------------------------------------------------------------------
(* The start.                                                              *)

\* Rows that are inserted are new: they were neither started nor heard of.  Those
\* that come after the rows were read are heard of, or missed.
LEMMA InsertGood ==
    ASSUME StartGood, NEW rows, Insert(rows), UNCHANGED faults
    PROVE  StartGood'
<1> DEFINE new == {d \in rows : table[d] = "none"}
<1> USE DEF StartGood, StartTypeOK
<1>1. /\ table' = [d \in Deps |-> IF d \in new THEN "active" ELSE table[d]]
      /\ notices' = notices \cup Heard(new)
      /\ missed' = missed \cup Unheard(new)
      /\ UNCHANGED <<boot, left, starts, faults>>
  BY DEF Insert
<1>2. \A d \in new : table[d] = "none"
  OBVIOUS
<1> HIDE DEF new
<1>3. StartTypeOK'
  BY <1>1 DEF Heard, Unheard
<1>4. \A d \in Followed : table'[d] = IF d \in new THEN "active" ELSE table[d]
  BY <1>1, StartupAssumption
<1>5. Waiting'
  BY <1>1, <1>2, <1>4 DEF Waiting, Heard
<1>6. Accounted'
  BY <1>1, <1>4 DEF Accounted, Heard, Unheard, Boots
<1>7. StartedOnce'
  BY <1>1 DEF StartedOnce
<1> QED
  BY <1>3, <1>5, <1>6, <1>7

\* Starting a row that waits, once: it waits no longer.
LEMMA StartIndexerGood ==
    ASSUME StartGood, NEW d \in Followed, StartIndexer(d), starts[d] = 0
    PROVE  /\ starts' \in [Followed -> 0..Many]
           /\ starts'[d] = 1
           /\ \A e \in Followed \ {d} : starts'[e] = starts[e]
BY DEF StartGood, StartTypeOK, StartIndexer, Many

\* The query, the starts, LISTEN and the notifications keep the account of the rows.
LEMMA StartStepsGood ==
    ASSUME StartGood, StartSteps
    PROVE  StartGood'
<1> USE DEF StartGood, StartTypeOK
<1>1. CASE QueryActive
  <2>1. StartTypeOK'
    BY <1>1 DEF QueryActive, Boots
  <2>2. Waiting'
    BY <1>1 DEF QueryActive, Waiting
  <2>3. Accounted' /\ StartedOnce'
    BY <1>1 DEF QueryActive, Accounted, StartedOnce
  <2> QED
    BY <2>1, <2>2, <2>3
<1>2. CASE StartNext
  <2>1. PICK d \in left : StartIndexer(d) /\ left' = left \ {d}
    BY <1>2 DEF StartNext
  <2>2. d \in Followed /\ starts[d] = 0 /\ table[d] # "none" /\ d \notin notices
    BY DEF Waiting
  <2>3. /\ starts' \in [Followed -> 0..Many] /\ starts'[d] = 1
        /\ \A e \in Followed \ {d} : starts'[e] = starts[e]
    BY <2>1, <2>2, StartIndexerGood
  <2>4. UNCHANGED <<table, boot, notices, missed, faults>> /\ boot = "start"
    BY <1>2 DEF StartNext
  <2>5. StartTypeOK'
    BY <2>1, <2>3, <2>4
  <2>6. Waiting'
    BY <2>1, <2>2, <2>3, <2>4 DEF Waiting
  <2>7. Accounted' /\ StartedOnce'
    BY <2>1, <2>3, <2>4 DEF Accounted, StartedOnce
  <2> QED
    BY <2>5, <2>6, <2>7
<1>3. CASE Listen \/ ListenTakesEffect
  <2>1. StartTypeOK'
    BY <1>3 DEF Listen, ListenTakesEffect, Boots
  <2>2. Waiting' /\ Accounted' /\ StartedOnce'
    BY <1>3 DEF Listen, ListenTakesEffect, Waiting, Accounted, StartedOnce
  <2> QED
    BY <2>1, <2>2
<1>4. CASE HandleNotice
  <2>1. PICK d \in notices : StartIndexer(d) /\ notices' = notices \ {d}
    BY <1>4 DEF HandleNotice
  <2>2. d \in Followed /\ starts[d] = 0 /\ table[d] # "none" /\ d \notin left
    BY DEF Waiting
  <2>3. /\ starts' \in [Followed -> 0..Many] /\ starts'[d] = 1
        /\ \A e \in Followed \ {d} : starts'[e] = starts[e]
    BY <2>1, <2>2, StartIndexerGood
  <2>4. UNCHANGED <<table, boot, left, missed, faults>> /\ boot = "on"
    BY <1>4 DEF HandleNotice, Waiting
  <2>5. StartTypeOK'
    BY <2>1, <2>3, <2>4
  <2>6. Waiting'
    BY <2>1, <2>2, <2>3, <2>4 DEF Waiting
  <2>7. Accounted' /\ StartedOnce'
    BY <2>1, <2>3, <2>4 DEF Accounted, StartedOnce
  <2> QED
    BY <2>5, <2>6, <2>7
<1> QED
  BY <1>1, <1>2, <1>3, <1>4 DEF StartSteps

\* A fault is counted, and the rest of the start is as the fault leaves it.
LEMMA FaultCounted ==
    ASSUME faults \in 0..MaxFaults, NEW kind, Fault(kind)
    PROVE  faults' \in 0..MaxFaults
BY StartupAssumption DEF Fault

\* So do a start that throws, a row that is switched off, and a restart.
LEMMA StartFaultsGood ==
    ASSUME StartGood, NoticeThrows \/ SwitchOff \/ (Fault("crash") /\ StartAgain)
    PROVE  StartGood'
<1> USE DEF StartGood, StartTypeOK
<1>1. faults' \in 0..MaxFaults
  BY FaultCounted DEF NoticeThrows, SwitchOff
<1>2. CASE NoticeThrows
  <2>1. StartTypeOK'
    BY <1>1, <1>2 DEF NoticeThrows
  <2>2. Waiting' /\ Accounted' /\ StartedOnce'
    BY <1>2 DEF NoticeThrows, Waiting, Accounted, StartedOnce
  <2> QED
    BY <2>1, <2>2
<1>3. CASE SwitchOff
  <2>1. PICK d \in Followed : table[d] = "active" /\ table' = [table EXCEPT ![d] = "off"]
    BY <1>3 DEF SwitchOff
  <2>2. \A e \in Followed : table'[e] = IF e = d THEN "off" ELSE table[e]
    BY <2>1, StartupAssumption
  <2>3. StartTypeOK'
    BY <1>1, <1>3, <2>1 DEF SwitchOff
  <2>4. Waiting' /\ Accounted' /\ StartedOnce'
    BY <1>3, <2>1, <2>2 DEF SwitchOff, Waiting, Accounted, StartedOnce
  <2> QED
    BY <2>3, <2>4
<1>4. CASE Fault("crash") /\ StartAgain
  <2>1. StartTypeOK'
    BY <1>1, <1>4 DEF StartAgain, Boots, Many
  <2>2. Waiting' /\ Accounted' /\ StartedOnce'
    BY <1>4 DEF StartAgain, Waiting, Accounted, StartedOnce
  <2> QED
    BY <2>1, <2>2
<1> QED
  BY <1>2, <1>3, <1>4

-------------------------------------------------------------------------------
(* The runs.                                                               *)

\* A run that is over has nothing to work on.
LEMMA EndedGood == RunGood(Ended) /\ Ended.pc = "off"
BY DiscoveryAssumption DEF RunGood, RunType, Ended, PCs, TokenPCs

\* A run at a stage that works on no token, with what its loop has left.
LEMMA LoopGood ==
    ASSUME NEW pc \in PCs \ TokenPCs, NEW next \in PCs \ TokenPCs, next # "openbook",
           NEW todo \in SUBSET Entities
    PROVE  RunGood(Loop(pc, todo, next))
<1> DEFINE at == IF todo = {} THEN next ELSE pc
           x == Loop(pc, todo, next)
<1>1. Ended \in RunType
  BY EndedGood DEF RunGood
<1>2. at \in PCs
  OBVIOUS
<1>3. x = [Ended EXCEPT !.pc = at, !.todo = todo]
  BY DEF Loop
<1> HIDE DEF x, at
<1>4. x \in RunType /\ x.pc = at /\ x.todo = todo
  BY <1>1, <1>2, <1>3 DEF RunType
<1> USE DEF at
<1>5. RunGood(x)
  BY <1>4 DEF RunGood
<1> QED
  BY <1>5 DEF x

\* One run changes, to a good one.
LEMMA RunBecomes ==
    ASSUME RunsGood, NEW r \in Runs, NEW x, RunGood(x), run' = [run EXCEPT ![r] = x],
           known' \subseteq Entities, priced' \subseteq Spot
    PROVE  RunsGood'
BY DEF RunsGood, RunGood

\* One run goes to a stage, with what it is at.
LEMMA StageBecomes ==
    ASSUME RunsGood, NEW r \in Runs, NEW pc \in PCs \ {"openbook"},
           pc \in TokenPCs => run[r].pc \in TokenPCs,
           run' = [run EXCEPT ![r].pc = pc],
           known' \subseteq Entities, priced' \subseteq Spot
    PROVE  RunsGood'
<1> DEFINE x == [run[r] EXCEPT !.pc = pc]
<1>1. run[r] \in RunType /\ RunGood(run[r])
  BY DEF RunsGood
<1>2. x \in RunType /\ x.pc = pc /\ x.todo = run[r].todo /\ x.token = run[r].token
  BY <1>1 DEF RunType
<1>3. run' = [run EXCEPT ![r] = x]
  OBVIOUS
<1> HIDE DEF x
<1>4. RunGood(x)
  BY <1>1, <1>2 DEF RunGood
<1> QED
  BY <1>3, <1>4, RunBecomes

\* The next token is one of those left.
LEMMA NextTokenGood ==
    ASSUME RunsGood, NEW r \in Runs, NEW todo \in SUBSET Spot, NextToken(r, todo),
           known' \subseteq Entities, priced' \subseteq Spot
    PROVE  RunsGood'
<1>1. CASE todo = {}
  BY <1>1, EndedGood, RunBecomes DEF NextToken
<1>2. CASE todo # {}
  <2> DEFINE t == CHOOSE t \in todo : TRUE
             x == [Ended EXCEPT !.pc = "quote", !.todo = todo \ {t}, !.token = t]
  <2>1. t \in todo
    BY <1>2
  <2>2. run' = [run EXCEPT ![r] = x]
    BY <1>2 DEF NextToken
  <2> HIDE DEF t
  <2>3. /\ t \in Tokens /\ t \in Spot /\ "quote" \in PCs
        /\ todo \ {t} \in SUBSET Entities
    BY <2>1, DiscoveryAssumption DEF Entities, PCs
  <2>4. Ended \in RunType
    BY EndedGood DEF RunGood
  <2>5. x \in RunType /\ x.pc = "quote" /\ x.todo = todo \ {t} /\ x.token = t
    BY <2>3, <2>4 DEF RunType
  <2> HIDE DEF x
  <2>6. RunGood(x)
    BY <2>3, <2>5 DEF RunGood
  <2> QED
    BY <2>2, <2>6, RunBecomes
<1> QED
  BY <1>1, <1>2

\* Each step of a run leaves it what its next stage needs.
LEMMA StepRuns ==
    ASSUME RunsGood, NEW r \in Runs, Step(r)
    PROVE  RunsGood'
<1> USE DEF PCs, TokenPCs
<1>1. /\ run[r] \in RunType /\ RunGood(run[r]) /\ run[r].todo \in SUBSET Entities
      /\ known \subseteq Entities /\ priced \subseteq Spot
  BY DEF RunsGood, RunType
<1>2. CASE ReadMints(r) \/ ReadAmms(r)
  <2>1. known \cap Tokens \in SUBSET Entities /\ known \cap Amms \in SUBSET Entities
    BY <1>1
  <2> QED
    BY <1>1, <1>2, <2>1, LoopGood, RunBecomes DEF ReadMints, ReadAmms
<1>3. CASE InsertMint(r) \/ InsertAmm(r) \/ InsertOpenbook(r)
  <2>1. \A e : run[r].todo \ {e} \in SUBSET Entities
    BY <1>1
  <2>2. UNCHANGED <<known, priced>>
    BY <1>3 DEF InsertMint, InsertAmm, InsertOpenbook
  <2>3. \E e : \/ run' = [run EXCEPT ![r] = Loop("mint", run[r].todo \ {e}, "amms")]
               \/ run' = [run EXCEPT ![r] = Loop("amm", run[r].todo \ {e}, "accts")]
               \/ run' = [run EXCEPT ![r] = Loop("openbook", run[r].todo \ {e}, "spot")]
    BY <1>3 DEF InsertMint, InsertAmm, InsertOpenbook
  <2> QED
    BY <1>1, <2>1, <2>2, <2>3, LoopGood, RunBecomes
<1>4. CASE ReadAccts(r)
  <2> DEFINE todo == {o \in Openbooks : HasDep(o)}
             x == [run[r] EXCEPT !.pc = "openbooks", !.todo = todo]
  <2>1. todo \in SUBSET Entities
    BY DEF Entities
  <2>2. run' = [run EXCEPT ![r] = x]
    BY <1>4 DEF ReadAccts
  <2> HIDE DEF todo
  <2>3. x \in RunType /\ x.pc = "openbooks"
    BY <1>1, <2>1 DEF RunType
  <2> HIDE DEF x
  <2>4. RunGood(x)
    BY <2>3 DEF RunGood
  <2> QED
    BY <1>1, <1>4, <2>2, <2>4, RunBecomes DEF ReadAccts
<1>5. CASE ReadOpenbooks(r)
  <2>1. (known \cap Openbooks) \ run[r].todo \in SUBSET Entities
    BY <1>1
  <2> QED
    BY <1>1, <1>5, <2>1, LoopGood, RunBecomes DEF ReadOpenbooks
<1>6. CASE OpenbookConflict(r)
  BY <1>1, <1>6, EndedGood, RunBecomes DEF OpenbookConflict
<1>7. CASE ReadSpot(r)
  BY <1>1, <1>7, NextTokenGood DEF ReadSpot
<1>8. CASE Quote(r) \/ InsertQuoteDep(r)
  BY <1>1, <1>8, StageBecomes DEF Quote, InsertQuoteDep
<1>9. CASE InsertQuoteMarket(r) \/ InsertBirdeyeMarket(r)
  BY <1>1, <1>9, NextTokenGood DEF InsertQuoteMarket, InsertBirdeyeMarket, RunGood
<1>10. CASE ReadUsdc(r)
  <2> DEFINE found == Usdc \in known
             x == [run[r] EXCEPT !.pc = "birdeyeDep", !.usdc = found]
  <2>1. run' = [run EXCEPT ![r] = x]
    BY <1>10 DEF ReadUsdc
  <2>2. /\ x \in RunType /\ x.pc = "birdeyeDep"
        /\ x.todo = run[r].todo /\ x.token = run[r].token
    <3>1. found \in BOOLEAN
      OBVIOUS
    <3> HIDE DEF found
    <3> QED
      BY <1>1, <3>1 DEF RunType
  <2> HIDE DEF x
  <2>3. RunGood(x)
    BY <1>1, <1>10, <2>2 DEF RunGood, ReadUsdc
  <2> QED
    BY <1>1, <1>10, <2>1, <2>3, RunBecomes DEF ReadUsdc
<1>11. CASE InsertBirdeyeDep(r)
  <2>1. run[r].pc = "birdeyeDep" /\ run[r].todo \in SUBSET Spot /\ UNCHANGED <<known, priced>>
    BY <1>1, <1>11 DEF InsertBirdeyeDep, RunGood
  <2>2. CASE run' = [run EXCEPT ![r].pc = "birdeyeMarket"]
    BY <1>1, <2>1, <2>2, StageBecomes
  <2>3. CASE NextToken(r, run[r].todo)
    BY <1>1, <2>1, <2>3, NextTokenGood
  <2> QED
    BY <1>11, <2>2, <2>3 DEF InsertBirdeyeDep
<1> QED
  BY <1>2, <1>3, <1>4, <1>5, <1>6, <1>7, <1>8, <1>9, <1>10, <1>11 DEF Step

\* An exception ends a part of a run, a restart all runs.
LEMMA FaultRuns ==
    ASSUME RunsGood, PopulateThrows \/ Restart
    PROVE  RunsGood'
<1>1. known' \subseteq Entities /\ priced' \subseteq Spot
  BY DEF PopulateThrows, Restart, RunsGood
<1>2. CASE Restart
  BY <1>1, <1>2, EndedGood DEF Restart, RunsGood, RunGood
<1>3. CASE PopulateThrows
  <2>1. PICK r \in Runs :
               \/ run' = [run EXCEPT ![r].pc = "usdc"] /\ run[r].pc \in TokenPCs
               \/ NextToken(r, run[r].todo) /\ run[r].pc \in TokenPCs
               \/ run' = [run EXCEPT ![r] = Ended]
    BY <1>3 DEF PopulateThrows, TokenPCs
  <2>2. RunGood(run[r])
    BY DEF RunsGood
  <2>3. CASE run' = [run EXCEPT ![r].pc = "usdc"] /\ run[r].pc \in TokenPCs
    BY <1>1, <2>3, StageBecomes DEF PCs
  <2>4. CASE NextToken(r, run[r].todo) /\ run[r].pc \in TokenPCs
    BY <1>1, <2>2, <2>4, NextTokenGood DEF RunGood
  <2>5. CASE run' = [run EXCEPT ![r] = Ended]
    BY <1>1, <2>5, EndedGood, RunBecomes
  <2> QED
    BY <2>1, <2>3, <2>4, <2>5
<1> QED
  BY <1>2, <1>3

-------------------------------------------------------------------------------
(* Both together.                                                          *)

\* Nothing is started or inserted at first.
LEMMA InitGood == Init => IInv
<1> SUFFICES ASSUME Init
             PROVE  IInv
  OBVIOUS
<1>1. StartGood
  BY StartupAssumption
     DEF Init, StartInit, StartGood, StartTypeOK, Boots, Many, Waiting, Accounted, StartedOnce
<1>2. RunsGood
  BY DiscoveryAssumption, EndedGood DEF Init, RunsGood, RunGood
<1> QED
  BY <1>1, <1>2 DEF IInv

\* Steps that leave the start alone, and those that leave the runs alone.
LEMMA StartStays ==
    ASSUME StartGood, UNCHANGED <<table, boot, left, notices, missed, starts>>,
           faults' \in 0..MaxFaults
    PROVE  StartGood'
BY DEF StartGood, StartTypeOK, Waiting, Accounted, StartedOnce

\* A run does not care for what appears beside it.
LEMMA RunsStay ==
    ASSUME RunsGood, UNCHANGED <<priced, run>>, known' \subseteq Entities
    PROVE  RunsGood'
BY DEF RunsGood, RunGood

\* The start and the runs meet in the rows only.
LEMMA StepGood == IInv /\ [Next]_vars => IInv'
<1> SUFFICES ASSUME StartGood, RunsGood, [Next]_vars
             PROVE  StartGood' /\ RunsGood'
  BY DEF IInv
<1>1. faults \in 0..MaxFaults /\ known \subseteq Entities
  BY DEF StartGood, StartTypeOK, RunsGood
<1>2. CASE Appear
  BY <1>1, <1>2, StartStays, RunsStay DEF Appear, startVars
<1>3. ASSUME NEW r \in Runs, Tick(r)
      PROVE  StartGood' /\ RunsGood'
  <2>1. StartGood'
    BY <1>1, <1>3, StartStays DEF Tick, startVars
  <2>2. RunsGood'
    BY <1>1, <1>3, StageBecomes DEF Tick, RunsGood, PCs, TokenPCs
  <2> QED
    BY <2>1, <2>2
<1>4. ASSUME NEW r \in Runs, Step(r)
      PROVE  StartGood' /\ RunsGood'
  <2>1. UNCHANGED startVars \/ \E rows : Insert(rows) /\ UNCHANGED faults
    BY <1>4 DEF Step, ReadMints, InsertMint, ReadAmms, InsertAmm, ReadAccts, ReadOpenbooks,
                InsertOpenbook, OpenbookConflict, ReadSpot, Quote, InsertQuoteDep,
                InsertQuoteMarket, ReadUsdc, InsertBirdeyeDep, InsertBirdeyeMarket
  <2>2. StartGood'
    BY <1>1, <2>1, StartStays, InsertGood DEF startVars
  <2> QED
    BY <1>4, <2>2, StepRuns
<1>5. CASE PopulateThrows
  <2>1. StartGood'
    BY <1>1, <1>5, FaultCounted, StartStays DEF PopulateThrows
  <2> QED
    BY <1>5, <2>1, FaultRuns
<1>6. CASE Startup
  BY <1>1, <1>6, StartStepsGood, StartFaultsGood, RunsStay DEF Startup
<1>7. CASE Restart
  BY <1>7, StartFaultsGood, FaultRuns DEF Restart
<1>8. CASE UNCHANGED vars
  BY <1>1, <1>8, StartStays, RunsStay DEF vars, startVars
<1> QED
  BY <1>2, <1>3, <1>4, <1>5, <1>6, <1>7, <1>8 DEF Next

\* The invariant on which everything below rests.
LEMMA Invariant == Spec => []IInv
BY InitGood, StepGood, PTL DEF Spec

-------------------------------------------------------------------------------
\* Every variable keeps its type: a run that is aborted in the middle of a token
\* still has a token or market to work on next.
THEOREM TypeCorrect == Spec => []TypeOK
<1>1. IInv => TypeOK
  BY DEF IInv, TypeOK, StartGood, RunsGood, RunGood
<1> QED
  BY <1>1, Invariant, PTL

\* No row of indexer_account_dependencies is started twice by a process: what
\* startIndexers reads and what the trigger tells of do not overlap, because LISTEN
\* comes last and a row is inserted once.
THEOREM StartedOnceCorrect == Spec => []StartedOnce
<1>1. IInv => StartedOnce
  BY DEF IInv, StartGood
<1> QED
  BY <1>1, Invariant, PTL

\* A row that stays without its indexer, though it is active, is one that was
\* inserted between the query and LISTEN, or one whose start threw; no other row is
\* forgotten.
THEOREM OnlyMissedUnstartedCorrect == Spec => []OnlyMissedUnstarted
<1>1. IInv => OnlyMissedUnstarted
  BY DEF IInv, StartGood, StartTypeOK, Accounted, OnlyMissedUnstarted
<1> QED
  BY <1>1, Invariant, PTL
===============================================================================
