---------------------------- MODULE AmmMarketProofs ----------------------------
(***************************************************************************)
(* Theorems about AmmMarket, for every chain and account, and for any      *)
(* number of overlapping runs of the interval job and any faults.          *)
(***************************************************************************)
EXTENDS AmmMarket, TLAPS

\* Facts of the types that most steps need.
LEMMA CallFacts ==
    /\ Start \in Calls /\ Versions \subseteq Calls /\ Ticks \subseteq Calls
    /\ Off \in CallType /\ Off.pc = "off"
    /\ Fetching \in CallType /\ Fetching.pc = "fetch"
    /\ JustStarted \in [Calls -> CallType]
    /\ \A c \in Calls : JustStarted[c].pc \in {"off", "fetch"}
<1>1. 0 \in Slots /\ 1 \in Versions
  BY MarketAssumption DEF Slots, Versions
<1>2. Off \in CallType /\ Off.pc = "off"
  BY <1>1 DEF Off, CallType, PCs
<1>3. Fetching = [pc |-> "fetch", slot |-> 0, version |-> 1]
  BY DEF Fetching, Off
<1>4. Fetching \in CallType /\ Fetching.pc = "fetch"
  BY <1>1, <1>3 DEF CallType, PCs
<1> QED
  BY <1>2, <1>4 DEF Calls, JustStarted

\* What is written is of a slot the node has reached and of a version the account
\* had; the subscription begins when the call of the start-up has returned.
THEOREM TypeCorrect == Spec => []TypeOK
<1>1. Init => TypeOK
  <2>1. 0 \in Slots /\ 1 \in Versions /\ 0 \in 0..MaxFaults
    BY MarketAssumption DEF Slots, Versions
  <2>2. [rows |-> 0, version |-> 1] \in PriceType
    BY <2>1 DEF PriceType, Many
  <2> QED
    BY <2>1, <2>2, CallFacts DEF Init, TypeOK
<1>2. TypeOK /\ [Next]_vars => TypeOK'
  <2> SUFFICES ASSUME TypeOK, [Next]_vars
               PROVE  TypeOK'
    OBVIOUS
  <2> USE CallFacts DEF TypeOK
  <2>1. CASE NextSlot
    <3>1. slot' \in Slots
      BY <2>1, MarketAssumption DEF NextSlot, Slots
    <3> QED
      BY <2>1, <3>1 DEF NextSlot, dbVars
  <2>2. CASE Change
    <3>1. slot' \in Slots
      BY <2>2, MarketAssumption DEF Change, Slots
    <3>2. version' \in Versions
      BY <2>2, MarketAssumption DEF Change, Versions
    <3>3. [pc |-> "market", slot |-> slot', version |-> version'] \in CallType
      BY <3>1, <3>2 DEF CallType, PCs
    <3>4. call' \in [Calls -> CallType] /\ call'[Start] = call[Start]
      BY <2>2, <3>2, <3>3, MarketAssumption DEF Change
    <3> QED
      BY <2>2, <3>1, <3>2, <3>4 DEF Change, dbVars
  <2>3. ASSUME NEW c \in Ticks, Tick(c)
        PROVE  TypeOK'
    BY <2>3, MarketAssumption DEF Tick, dbVars
  <2>4. ASSUME NEW c \in Calls, Fetch(c)
        PROVE  TypeOK'
    <3>1. [pc |-> "market", slot |-> slot, version |-> version] \in CallType
      BY DEF CallType, PCs
    <3> QED
      BY <2>4, <3>1 DEF Fetch, dbVars
  <2>5. ASSUME NEW c \in Calls, NEW pc \in PCs \ {"off"}, call[c].pc # "off",
               call' = [call EXCEPT ![c].pc = pc]
        PROVE  call' \in [Calls -> CallType] /\ (call'[Start].pc # "off" => call[Start].pc # "off")
    <3>1. [call[c] EXCEPT !.pc = pc] \in CallType
      BY DEF CallType
    <3>2. call' = [call EXCEPT ![c] = [call[c] EXCEPT !.pc = pc]]
      BY <2>5
    <3> QED
      BY <2>5, <3>1, <3>2
  <2>6. ASSUME NEW c \in Calls, ReadMarket(c)
        PROVE  TypeOK'
    BY <2>6, <2>5 DEF ReadMarket, dbVars, PCs
  <2>7. ASSUME NEW c \in Calls, InsertTwap(c)
        PROVE  TypeOK'
    <3>1. call[c].slot \in Slots
      BY DEF CallType
    <3> QED
      BY <2>7, <2>5, <3>1 DEF InsertTwap, TwapSlot, PCs
  <2>8. ASSUME NEW c \in Calls, Return(c)
        PROVE  /\ call' \in [Calls -> CallType] /\ subscribed' \in BOOLEAN
               /\ call'[Start].pc # "off" => ~subscribed'
    BY <2>8 DEF Return
  <2>9. ASSUME NEW c \in Calls, TwapExists(c)
        PROVE  TypeOK'
    BY <2>9, <2>8 DEF TwapExists, dbVars
  <2>10. ASSUME NEW c \in Calls, InsertPrice(c)
         PROVE  TypeOK'
    <3>1. call[c].slot \in Slots /\ call[c].version \in Versions
      BY DEF CallType
    <3>2. prices' \in [Slots -> PriceType]
      BY <2>10, <3>1 DEF InsertPrice, PriceType, Many
    <3> QED
      BY <2>10, <2>8, <3>2 DEF InsertPrice
  <2>11. ASSUME Fault
         PROVE  faults' \in 0..MaxFaults
    BY <2>11, MarketAssumption DEF Fault
  <2>12. CASE CallThrows
    BY <2>12, <2>8, <2>11 DEF CallThrows, dbVars
  <2>13. CASE Restart
    BY <2>13, <2>11 DEF Restart, dbVars
  <2>14. CASE UNCHANGED vars
    BY <2>14 DEF vars, dbVars
  <2> QED
    BY <2>1, <2>2, <2>3, <2>4, <2>6, <2>7, <2>9, <2>10, <2>12, <2>13, <2>14 DEF Next, Step
<1> QED
  BY <1>1, <1>2, PTL DEF Spec

-------------------------------------------------------------------------------
(* The strengthening.  A slot has one version of the account, so that all   *)
(* calls for a slot agree whether there is a TWAP; of those that write one  *)
(* a single call goes on to the price, before the slot has any.             *)

Working(c) == call[c].pc \in {"market", "twap", "price"}
Live(v) == v >= LiveFrom

\* Calls and prices of one slot are of one version.
CallsOfSlot ==
    \A c \in Calls : Working(c) =>
        /\ call[c].slot <= slot
        /\ call[c].slot = slot => call[c].version = version
        /\ \A d \in Calls : Working(d) /\ call[d].slot = call[c].slot =>
                              call[d].version = call[c].version

PricesOfSlot ==
    \A s \in Slots : prices[s].rows > 0 =>
        /\ s <= slot
        /\ s = slot => prices[s].version = version
        /\ \A c \in Calls : Working(c) /\ call[c].slot = s =>
                              call[c].version = prices[s].version

\* The insert of the TWAP decides which call writes the price.
TwapDecides ==
    /\ \A c \in Calls : call[c].pc = "twap" => Live(call[c].version)
    /\ \A c \in Calls : call[c].pc = "price" /\ Live(call[c].version) =>
         /\ call[c].slot \in twaps
         /\ prices[call[c].slot].rows = 0
         /\ \A d \in Calls : call[d].pc = "price" /\ call[d].slot = call[c].slot => d = c
    /\ \A s \in Slots : prices[s].rows > 0 /\ Live(prices[s].version) =>
         s \in twaps /\ prices[s].rows = 1

SlotInv == TypeOK /\ CallsOfSlot /\ PricesOfSlot

LEMMA SlotInvariant == Spec => []SlotInv
<1>1. Init /\ TypeOK => SlotInv
  BY CallFacts DEF Init, SlotInv, CallsOfSlot, PricesOfSlot, Working
<1>2. SlotInv /\ TypeOK' /\ [Next]_vars => SlotInv'
  <2> SUFFICES ASSUME SlotInv, TypeOK', [Next]_vars
               PROVE  CallsOfSlot' /\ PricesOfSlot'
    BY DEF SlotInv
  <2> USE CallFacts DEF SlotInv, CallsOfSlot, PricesOfSlot, Working
  <2>1. /\ call \in [Calls -> CallType] /\ slot \in Nat /\ slot' \in Nat
        /\ \A c \in Calls : call[c].slot \in Slots
        /\ \A s \in Slots : s \in Nat
        /\ DOMAIN prices = Slots
    <3>1. \A s \in Slots : s \in Nat
      BY MarketAssumption DEF Slots
    <3>2. \A c \in Calls : call[c].slot \in Slots
      BY DEF TypeOK, CallType
    <3> QED
      BY <3>1, <3>2 DEF TypeOK
  <2>2. CASE NextSlot
    BY <2>1, <2>2 DEF NextSlot, dbVars
  <2>3. CASE Change
    <3>1. version' \in Calls
      BY DEF TypeOK
    <3>2. \A c \in Calls : \/ call'[c] = call[c]
                            \/ call'[c] = [pc |-> "market", slot |-> slot', version |-> version']
      BY <2>1, <2>3, <3>1 DEF Change
    <3>3. slot' = slot + 1 /\ prices' = prices
      BY <2>3 DEF Change, dbVars
    <3> QED
      BY <2>1, <3>2, <3>3
  <2>4. ASSUME NEW c \in Calls, call' = [call EXCEPT ![c] = Off] \/ call' = [call EXCEPT ![c] = Fetching],
               UNCHANGED <<slot, version>>
        PROVE  CallsOfSlot' /\ (prices' = prices => PricesOfSlot')
    BY <2>1, <2>4
  <2>5. ASSUME NEW c \in Ticks, Tick(c)
        PROVE  CallsOfSlot' /\ PricesOfSlot'
    BY <2>4, <2>5 DEF Tick, dbVars
  <2>6. ASSUME NEW c \in Calls, Fetch(c)
        PROVE  CallsOfSlot' /\ PricesOfSlot'
    <3>1. call'[c] = [pc |-> "market", slot |-> slot, version |-> version]
      BY <2>1, <2>6 DEF Fetch
    <3>2. \A d \in Calls : d # c => call'[d] = call[d]
      BY <2>1, <2>6 DEF Fetch
    <3>3. UNCHANGED <<slot, version, prices>>
      BY <2>6 DEF Fetch, dbVars
    <3> QED
      BY <2>1, <3>1, <3>2, <3>3
  <2>7. ASSUME NEW c \in Calls, NEW pc, Working(c), call' = [call EXCEPT ![c].pc = pc],
               UNCHANGED <<slot, version, prices>>
        PROVE  CallsOfSlot' /\ PricesOfSlot'
    <3>1. \A d \in Calls : /\ call'[d].slot = call[d].slot
                            /\ call'[d].version = call[d].version
                            /\ Working(d)' => Working(d)
      BY <2>1, <2>7 DEF CallType
    <3> QED
      BY <2>7, <3>1
  <2>8. ASSUME NEW c \in Calls, ReadMarket(c) \/ InsertTwap(c)
        PROVE  CallsOfSlot' /\ PricesOfSlot'
    BY <2>7, <2>8 DEF ReadMarket, InsertTwap, dbVars
  <2>9. ASSUME NEW c \in Calls, TwapExists(c)
        PROVE  CallsOfSlot' /\ PricesOfSlot'
    BY <2>4, <2>9 DEF TwapExists, Return, dbVars
  <2>10. ASSUME NEW c \in Calls, InsertPrice(c)
         PROVE  CallsOfSlot' /\ PricesOfSlot'
    <3>1. CallsOfSlot'
      BY <2>4, <2>10 DEF InsertPrice, Return
    <3>2. \A d \in Calls : Working(d)' => Working(d) /\ call'[d] = call[d]
      BY <2>1, <2>10 DEF InsertPrice, Return
    <3>3. prices'[call[c].slot].version = call[c].version
      BY <2>1, <2>10 DEF InsertPrice
    <3>4. \A s \in Slots : s # call[c].slot => prices'[s] = prices[s]
      BY <2>1, <2>10 DEF InsertPrice
    <3>5. Working(c) /\ UNCHANGED <<slot, version>>
      BY <2>10 DEF InsertPrice
    <3>6. PricesOfSlot'
      BY <2>1, <3>2, <3>3, <3>4, <3>5
    <3> QED
      BY <3>1, <3>6
  <2>11. CASE CallThrows
    BY <2>4, <2>11 DEF CallThrows, Return, dbVars
  <2>12. CASE Restart
    BY <2>1, <2>12 DEF Restart, dbVars
  <2>13. CASE UNCHANGED vars
    BY <2>13 DEF vars, dbVars
  <2> QED
    BY <2>2, <2>3, <2>5, <2>6, <2>8, <2>9, <2>10, <2>11, <2>12, <2>13 DEF Next, Step
<1> QED
  BY <1>1, <1>2, TypeCorrect, PTL DEF Spec

LEMMA TwapInvariant == Spec => []TwapDecides
<1>1. Init => TwapDecides
  BY CallFacts DEF Init, TwapDecides
<1>2. SlotInv /\ TwapDecides /\ [Next]_vars => TwapDecides'
  <2> SUFFICES ASSUME SlotInv, TwapDecides, [Next]_vars
               PROVE  TwapDecides'
    OBVIOUS
  <2> USE CallFacts DEF TwapDecides
  <2>1. /\ call \in [Calls -> CallType] /\ twaps \subseteq Slots
        /\ prices \in [Slots -> PriceType]
        /\ \A c \in Calls : call[c].slot \in Slots
    BY DEF SlotInv, TypeOK, CallType
  \* Calls that begin or end change nothing for the others.
  <2>2. ASSUME NEW c \in Calls, NEW x, x.pc \notin {"twap", "price"},
               call' = [call EXCEPT ![c] = x], UNCHANGED dbVars
        PROVE  TwapDecides'
    <3>1. call'[c] = x /\ \A d \in Calls : d # c => call'[d] = call[d]
      BY <2>1, <2>2
    <3> QED
      BY <2>2, <3>1 DEF dbVars
  <2>3. CASE NextSlot
    BY <2>3 DEF NextSlot, dbVars
  <2>4. CASE Change
    <3>1. version' \in Calls \/ UNCHANGED call
      <4>1. version < MaxVersion /\ version' = version + 1
        BY <2>4 DEF Change
      <4> QED
        BY <4>1, MarketAssumption DEF SlotInv, TypeOK, Versions
    <3> QED
      BY <2>2, <2>4, <3>1 DEF Change, dbVars
  <2>5. ASSUME NEW c \in Ticks, Tick(c)
        PROVE  TwapDecides'
    BY <2>2, <2>5 DEF Tick
  <2>6. ASSUME NEW c \in Calls, Fetch(c)
        PROVE  TwapDecides'
    BY <2>2, <2>6 DEF Fetch
  <2>7. ASSUME NEW c \in Calls, NEW pc, call' = [call EXCEPT ![c].pc = pc]
        PROVE  \A d \in Calls : /\ call'[d].slot = call[d].slot
                                /\ call'[d].version = call[d].version
                                /\ call'[d].pc = IF d = c THEN pc ELSE call[d].pc
    BY <2>1, <2>7 DEF CallType
  <2>8. ASSUME NEW c \in Calls, ReadMarket(c)
        PROVE  TwapDecides'
    <3>1. PICK pc : /\ call' = [call EXCEPT ![c].pc = pc]
                    /\ \/ pc = "twap" /\ Live(call[c].version)
                       \/ pc = "price" /\ ~Live(call[c].version)
      BY <2>8 DEF ReadMarket, Live
    <3>2. \A d \in Calls : Working(d) /\ Working(c) /\ call[d].slot = call[c].slot =>
                              call[d].version = call[c].version
      BY DEF SlotInv, CallsOfSlot
    <3>3. UNCHANGED dbVars /\ call[c].pc = "market"
      BY <2>8 DEF ReadMarket
    <3>4. \A d \in Calls : call[d].pc = "price" => Working(d) /\ Working(c)
      BY <3>3 DEF Working
    <3> QED
      BY <2>7, <3>1, <3>2, <3>3, <3>4 DEF dbVars
  <2>9. ASSUME NEW c \in Calls, InsertTwap(c)
        PROVE  TwapDecides'
    <3> DEFINE s == call[c].slot
    <3>1. /\ call[c].pc = "twap" /\ s \notin twaps /\ twaps' = twaps \cup {s}
          /\ prices' = prices /\ call' = [call EXCEPT ![c].pc = "price"]
      BY <2>9 DEF InsertTwap, TwapSlot
    <3>2. Live(call[c].version) /\ Working(c) /\ s \in Slots
      BY <2>1, <3>1 DEF Working
    <3>3. prices[s].rows = 0
      <4>1. prices[s].rows > 0 => call[c].version = prices[s].version
        BY <3>2 DEF SlotInv, PricesOfSlot
      <4>2. prices[s].rows \in 0..2
        BY <2>1, <3>2 DEF PriceType, Many
      <4> QED
        BY <3>1, <3>2, <4>1, <4>2
    <3>4. \A d \in Calls : call[d].pc = "price" => call[d].slot # s
      <4> SUFFICES ASSUME NEW d \in Calls, call[d].pc = "price", call[d].slot = s
                   PROVE  FALSE
        OBVIOUS
      <4>1. call[d].version = call[c].version
        BY <3>2 DEF SlotInv, CallsOfSlot, Working
      <4> QED
        BY <3>1, <3>2, <4>1
    <3> QED
      BY <2>1, <2>7, <3>1, <3>2, <3>3, <3>4
  <2>10. ASSUME NEW c \in Calls, TwapExists(c)
         PROVE  TwapDecides'
    BY <2>2, <2>10 DEF TwapExists, Return
  <2>11. ASSUME NEW c \in Calls, InsertPrice(c)
         PROVE  TwapDecides'
    <3> DEFINE s == call[c].slot
    <3>1. /\ call[c].pc = "price" /\ twaps' = twaps
          /\ call' = [call EXCEPT ![c] = Off]
      BY <2>11 DEF InsertPrice, Return
    <3>2. /\ prices'[s].version = call[c].version
          /\ prices[s].rows = 0 => prices'[s].rows = 1
          /\ \A t \in Slots : t # s => prices'[t] = prices[t]
      BY <2>1, <2>11 DEF InsertPrice, Many
    <3>3. \A d \in Calls : IF d = c THEN call'[d] = Off ELSE call'[d] = call[d]
      BY <2>1, <3>1
    <3>4. \A d \in Calls : call[d].pc = "price" /\ call[d].slot = s =>
                              call[d].version = call[c].version
      BY <3>1 DEF SlotInv, CallsOfSlot, Working
    <3> QED
      BY <2>1, <3>1, <3>2, <3>3, <3>4
  <2>12. CASE CallThrows
    BY <2>2, <2>12 DEF CallThrows, Return
  <2>13. CASE Restart
    BY <2>1, <2>13 DEF Restart, dbVars
  <2>14. CASE UNCHANGED vars
    BY <2>14 DEF vars, dbVars
  <2> QED
    BY <2>3, <2>4, <2>5, <2>6, <2>8, <2>9, <2>10, <2>11, <2>12, <2>13, <2>14 DEF Next, Step
<1> QED
  BY <1>1, <1>2, SlotInvariant, PTL DEF Spec

\* Of all calls that are given a slot, whatever their source and however they
\* overlap, at most one writes its price once the market has a TWAP.
THEOREM OnePricePerSlotCorrect == Spec => []OnePricePerSlot
<1>1. TypeOK /\ TwapDecides => OnePricePerSlot
  BY MarketAssumption DEF TypeOK, PriceType, Many, TwapDecides, OnePricePerSlot, Live,
     Versions
<1> QED
  BY <1>1, TypeCorrect, TwapInvariant, PTL

-------------------------------------------------------------------------------
\* There is no notice yet of a version to come.
NoEarlyNotice == \A v \in Versions : v > version => call[v].pc = "off"

LEMMA NoticeInvariant == Spec => []NoEarlyNotice
<1>1. Init => NoEarlyNotice
  BY MarketAssumption DEF Init, NoEarlyNotice, JustStarted, Calls, Off
<1>2. TypeOK /\ NoEarlyNotice /\ [Next]_vars => NoEarlyNotice'
  <2> SUFFICES ASSUME TypeOK, NoEarlyNotice, [Next]_vars
               PROVE  NoEarlyNotice'
    OBVIOUS
  <2> USE CallFacts DEF NoEarlyNotice
  <2>1. /\ call \in [Calls -> CallType] /\ version \in Int
        /\ \A v \in Versions : v \in Int /\ v # Start /\ v \notin Ticks
    BY MarketAssumption DEF TypeOK, Versions
  <2>2. CASE NextSlot
    BY <2>2 DEF NextSlot
  <2>3. CASE Change
    <3>1. version' = version + 1
      BY <2>3 DEF Change
    <3>2. \A v \in Versions : v # version' => call'[v] = call[v]
      BY <2>1, <2>3 DEF Change
    <3> QED
      BY <2>1, <3>1, <3>2
  <2>4. ASSUME NEW c \in Ticks, Tick(c)
        PROVE  NoEarlyNotice'
    BY <2>1, <2>4 DEF Tick
  <2>5. ASSUME NEW c \in Calls, Step(c)
        PROVE  NoEarlyNotice'
    <3>1. call[c].pc # "off" /\ version' = version
      BY <2>5 DEF Step, Fetch, ReadMarket, InsertTwap, TwapExists, InsertPrice
    <3>2. \A d \in Calls : d # c => call'[d] = call[d]
      BY <2>1, <2>5 DEF Step, Fetch, ReadMarket, InsertTwap, TwapExists, InsertPrice, Return
    <3> QED
      BY <2>1, <3>1, <3>2
  <2>6. CASE CallThrows
    <3>1. PICK c \in Calls : Return(c)
      BY <2>6 DEF CallThrows
    <3>2. \A d \in Calls : call'[d] = call[d] \/ call'[d] = Off
      BY <2>1, <3>1 DEF Return
    <3> QED
      BY <2>6, <3>2 DEF CallThrows
  <2>7. CASE Restart
    <3>1. \A v \in Versions : JustStarted[v] = Off
      BY <2>1 DEF JustStarted
    <3> QED
      BY <2>7, <3>1 DEF Restart
  <2>8. CASE UNCHANGED vars
    BY <2>8 DEF vars
  <2> QED
    BY <2>2, <2>3, <2>4, <2>5, <2>6, <2>7, <2>8 DEF Next
<1> QED
  BY <1>1, <1>2, TypeCorrect, PTL DEF Spec

\* A slot with a TWAP has a price, or a call that is about to write it, as long as
\* nothing cuts a call off.
THEOREM TwapGetsPriceCorrect == Spec => []TwapGetsPrice
<1>1. Init => TwapGetsPrice
  BY DEF Init, TwapGetsPrice
<1>2. TypeOK /\ NoEarlyNotice /\ TwapGetsPrice /\ [Next]_vars => TwapGetsPrice'
  <2> SUFFICES ASSUME TypeOK, NoEarlyNotice, TwapGetsPrice, [Next]_vars, faults' = 0, NEW s \in twaps'
               PROVE  \/ prices'[s].rows > 0
                      \/ \E c \in Calls : call'[c].pc = "price" /\ call'[c].slot = s
    BY DEF TwapGetsPrice
  <2> USE CallFacts DEF TypeOK
  <2>1. faults' = faults \/ faults' = faults + 1
    BY DEF Next, NextSlot, Change, Tick, Step, Fetch, ReadMarket, InsertTwap, TwapExists,
       InsertPrice, CallThrows, Restart, Fault, vars
  <2>2. faults = 0 /\ faults' = faults
    BY <2>1, MarketAssumption
  <2>3. s \in twaps => \/ prices[s].rows > 0
                       \/ \E c \in Calls : call[c].pc = "price" /\ call[c].slot = s
    BY <2>2 DEF TwapGetsPrice
  \* A step that leaves the rows alone disturbs no call that is about to write.
  <2>4. ASSUME UNCHANGED dbVars,
               \A d \in Calls : call[d].pc = "price" => call'[d] = call[d]
        PROVE  \/ prices'[s].rows > 0
               \/ \E c \in Calls : call'[c].pc = "price" /\ call'[c].slot = s
    BY <2>3, <2>4 DEF dbVars
  <2>5. CASE NextSlot
    BY <2>4, <2>5 DEF NextSlot
  <2>6. CASE Change
    <3>1. call[version'].pc = "off"
      <4>1. version < MaxVersion /\ version' = version + 1
        BY <2>6 DEF Change
      <4> QED
        BY <4>1, MarketAssumption DEF NoEarlyNotice, Versions
    <3> QED
      BY <2>4, <2>6, <3>1 DEF Change
  <2>7. ASSUME NEW c \in Ticks, Tick(c)
        PROVE  UNCHANGED dbVars /\ \A d \in Calls : call[d].pc = "price" => call'[d] = call[d]
    BY <2>7 DEF Tick
  <2>8. ASSUME NEW c \in Calls, Fetch(c) \/ ReadMarket(c) \/ TwapExists(c)
        PROVE  UNCHANGED dbVars /\ \A d \in Calls : call[d].pc = "price" => call'[d] = call[d]
    BY <2>8 DEF Fetch, ReadMarket, TwapExists, Return
  <2>9. ASSUME NEW c \in Calls, InsertTwap(c)
        PROVE  \/ prices'[s].rows > 0
               \/ \E d \in Calls : call'[d].pc = "price" /\ call'[d].slot = s
    <3>1. /\ call[c].pc = "twap" /\ twaps' = twaps \cup {call[c].slot} /\ prices' = prices
          /\ call' = [call EXCEPT ![c].pc = "price"]
      BY <2>9 DEF InsertTwap, TwapSlot
    <3>2. call'[c].pc = "price" /\ call'[c].slot = call[c].slot
      BY <3>1 DEF CallType
    <3>3. \A d \in Calls : d # c => call'[d] = call[d]
      BY <3>1
    <3> QED
      BY <2>3, <3>1, <3>2, <3>3
  <2>10. ASSUME NEW c \in Calls, InsertPrice(c)
         PROVE  \/ prices'[s].rows > 0
                \/ \E d \in Calls : call'[d].pc = "price" /\ call'[d].slot = s
    <3>1. call[c].slot \in Slots /\ prices[call[c].slot].rows \in 0..2
      BY DEF CallType, PriceType, Many
    <3>2. prices'[call[c].slot].rows > 0
      BY <2>10, <3>1 DEF InsertPrice, Many
    <3>3. \A t \in Slots : t # call[c].slot => prices'[t] = prices[t]
      BY <2>10 DEF InsertPrice
    <3>4. \A d \in Calls : d # c => call'[d] = call[d]
      BY <2>10 DEF InsertPrice, Return
    <3>5. twaps' = twaps /\ call[c].pc = "price"
      BY <2>10 DEF InsertPrice
    <3> QED
      BY <2>3, <3>1, <3>2, <3>3, <3>4, <3>5
  <2>11. CASE CallThrows \/ Restart
    <3>1. faults' = faults + 1
      BY <2>11 DEF CallThrows, Restart, Fault
    <3> QED
      BY <2>2, <3>1
  <2>12. CASE UNCHANGED vars
    BY <2>4, <2>12 DEF vars
  <2> QED
    BY <2>4, <2>5, <2>6, <2>7, <2>8, <2>9, <2>10, <2>11, <2>12 DEF Next, Step
<1> QED
  BY <1>1, <1>2, TypeCorrect, NoticeInvariant, PTL DEF Spec
===============================================================================
