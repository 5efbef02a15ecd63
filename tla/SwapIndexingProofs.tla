-------------------------- MODULE SwapIndexingProofs --------------------------
(***************************************************************************)
(* What TLAPS proves of SwapIndexing, for every chain, every set of        *)
(* accounts and every number of crashes.                                   *)
(***************************************************************************)
EXTENDS SwapIndexing, TLAPS

\* No two sources are the same.
LEMMA SourcesDiffer ==
  ASSUME NEW a \in Indexed, NEW b \in Indexed
  PROVE  /\ Queue(a) \in Sources /\ Replay(a) \in Sources /\ Logs \in Sources
         /\ Queue(a) # Replay(b) /\ Queue(a) # Logs /\ Replay(a) # Logs
         /\ Queue(a) = Queue(b) => a = b
         /\ Replay(a) = Replay(b) => a = b
<1>1. "queue" # "replay" /\ "queue" # "logs" /\ "replay" # "logs"
  OBVIOUS
<1>2. Queue(a)[1] = "queue" /\ Replay(b)[1] = "replay" /\ Replay(a)[1] = "replay" /\ Logs[1] = "logs"
  BY DEF Queue, Replay, Logs
<1>3. Queue(a)[2] = a /\ Queue(b)[2] = b /\ Replay(a)[2] = a /\ Replay(b)[2] = b
  BY DEF Queue, Replay
<1>4. Queue(a) \in Sources /\ Replay(a) \in Sources /\ Logs \in Sources
  BY DEF Sources
<1> QED
  BY <1>1, <1>2, <1>3, <1>4

\* Goto changes the stage of one source with one transaction.
LEMMA GotoStage ==
  ASSUME worker \in [Sources -> [Sigs -> Stages]],
         NEW s \in Sources, NEW i \in Sigs, NEW stage \in Stages, Goto(s, i, stage)
  PROVE  /\ worker' \in [Sources -> [Sigs -> Stages]]
         /\ worker'[s][i] = stage
         /\ \A t \in Sources, j \in Sigs :
              t # s \/ j # i => worker'[t][j] = worker[t][j]
<1>1. worker' = [worker EXCEPT ![s][i] = stage]
  BY DEF Goto
<1> QED
  BY <1>1

\* The stages that work goes to.
LEMMA StagesHold ==
  /\ {"none", "check", "build", "tx", "order", "take", "advance"} \subseteq Stages
  /\ \A s : Persisted(s) \in Stages
BY DEF Stages, Persisted

LEMMA NoWorkType ==
  /\ NoWork \in [Sources -> [Sigs -> Stages]]
  /\ \A s \in Sources, i \in Sigs : NoWork[s][i] = "none"
BY DEF NoWork, Stages

LEMMA NoReplayType ==
  /\ NoReplay \in [Indexed -> ReplayType]
  /\ \A a \in Indexed : NoReplay[a].todo = {}
<1>1. 0 \in Slots
  BY ChainAssumption DEF Slots
<1> QED
  BY <1>1 DEF NoReplay, ReplayType

-------------------------------------------------------------------------------
LEMMA InitTypeOK == Init => TypeOK
<1> SUFFICES ASSUME Init PROVE TypeOK
  OBVIOUS
<1>1. 0 \in 0..NumTxs /\ 0 \in Slots /\ 0 \in 0..MaxCrashes
  BY ChainAssumption DEF Slots
<1>2. watch \in [Accts -> WatchType]
  BY <1>1 DEF Init, WatchType
<1> QED
  BY <1>1, <1>2, NoWorkType, NoReplayType DEF Init, TypeOK

\* The actions of Work change one stage and keep the rest of the types.
LEMMA WorkType ==
  ASSUME TypeOK, NEW s \in Sources, NEW i \in Sigs, Work(s, i)
  PROVE  TypeOK'
<1> USE StagesHold
<1>t. worker \in [Sources -> [Sigs -> Stages]]
  BY DEF TypeOK
<1>s. SlotOf[i] \in Slots
  BY ChainAssumption
<1>1. CASE CheckOrder(s, i)
  <2>1. worker' \in [Sources -> [Sigs -> Stages]]
    BY <1>1, <1>t, GotoStage DEF CheckOrder
  <2> QED
    BY <1>1, <2>1 DEF CheckOrder, TypeOK, chainVars, swapVars
<1>2. CASE Build(s, i)
  <2>1. worker' \in [Sources -> [Sigs -> Stages]]
    BY <1>2, <1>t, GotoStage DEF Build
  <2> QED
    BY <1>2, <2>1 DEF Build, TypeOK, chainVars, swapVars
<1>3. CASE UpsertTx(s, i)
  <2>1. worker' \in [Sources -> [Sigs -> Stages]]
    BY <1>3, <1>t, GotoStage DEF UpsertTx
  <2> QED
    BY <1>3, <2>1 DEF UpsertTx, TypeOK, chainVars, swapVars
<1>4. CASE InsertOrder(s, i)
  <2>1. worker' \in [Sources -> [Sigs -> Stages]]
    BY <1>4, <1>t, GotoStage DEF InsertOrder
  <2> QED
    BY <1>4, <2>1 DEF InsertOrder, TypeOK, chainVars
<1>5. CASE PersistFails(s, i)
  <2>1. worker' \in [Sources -> [Sigs -> Stages]]
    BY <1>5, <1>t, GotoStage DEF PersistFails
  <2> QED
    BY <1>5, <2>1 DEF PersistFails, TypeOK, chainVars, swapVars
<1>6. CASE InsertTake(s, i)
  <2>1. worker' \in [Sources -> [Sigs -> Stages]]
    BY <1>6, <1>t, GotoStage DEF InsertTake
  <2> QED
    BY <1>6, <2>1 DEF InsertTake, TypeOK, chainVars
<1>7. CASE Advance(s, i)
  <2>1. worker' \in [Sources -> [Sigs -> Stages]]
    BY <1>7, <1>t, GotoStage DEF Advance
  <2> QED
    BY <1>7, <1>s, <2>1 DEF Advance, TypeOK, chainVars
<1> QED
  BY <1>1, <1>2, <1>3, <1>4, <1>5, <1>6, <1>7 DEF Work

LEMMA WatcherType ==
  ASSUME TypeOK, NEW a \in Accts, Watcher(a)
  PROVE  TypeOK'
<1>w. watch[a] \in WatchType /\ 0 \in 0..NumTxs
  BY ChainAssumption DEF TypeOK
<1>1. ASSUME NEW i \in Sigs, WatcherReads(a, i) PROVE TypeOK'
  <2>1. watch' \in [Accts -> WatchType]
    <3>1. i \in 0..NumTxs
      BY ChainAssumption DEF Sigs
    <3>2. [watch[a] EXCEPT !.seen = i] \in WatchType
      BY <3>1, <1>w DEF WatchType
    <3>3. [watch[a] EXCEPT !.pc = "upsert", !.cur = i] \in WatchType
      BY <3>1, <1>w DEF WatchType
    <3> QED
      BY <1>1, <3>2, <3>3 DEF WatcherReads, TypeOK
  <2>2. \A b \in Accts : watch'[b].pc # "idle" => watch'[b].cur \in Sigs
    BY <1>1, <1>w DEF WatcherReads, TypeOK, WatchType
  <2> QED
    BY <1>1, <2>1, <2>2 DEF WatcherReads, TypeOK, chainVars, swapVars
<1>2. CASE WatcherUpserts(a)
  <2>1. watch' \in [Accts -> WatchType] /\ watch[a].cur \in Sigs
    BY <1>2, <1>w DEF WatcherUpserts, TypeOK, WatchType
  <2>2. \A b \in Accts : watch'[b].pc # "idle" => watch'[b].cur \in Sigs
    BY <1>2, <2>1 DEF WatcherUpserts, TypeOK, WatchType
  <2> QED
    BY <1>2, <2>1, <2>2 DEF WatcherUpserts, TypeOK, chainVars, swapVars
<1>3. CASE WatcherLinks(a)
  <2>1. watch' \in [Accts -> WatchType] /\ watch[a].cur \in Sigs
    BY <1>3, <1>w DEF WatcherLinks, TypeOK, WatchType
  <2>2. \A b \in Accts : watch'[b].pc # "idle" => watch'[b].cur \in Sigs
    BY <1>3, <2>1 DEF WatcherLinks, TypeOK, WatchType
  <2> QED
    BY <1>3, <2>1, <2>2 DEF WatcherLinks, TypeOK, chainVars, swapVars
<1>4. CASE HandleNewTxs(a)
  <2>1. watch' \in [Accts -> WatchType] /\ watch[a].cur \in Sigs
    BY <1>4, <1>w DEF HandleNewTxs, TypeOK, WatchType, Sigs
  <2>2. \A b \in Accts : watch'[b].pc # "idle" => watch'[b].cur \in Sigs
    BY <1>4, <2>1 DEF HandleNewTxs, TypeOK, WatchType
  <2>3. worker' \in [Sources -> [Sigs -> Stages]]
    BY <1>4, <2>1, GotoStage, StagesHold, SourcesDiffer DEF HandleNewTxs, TypeOK
  <2> QED
    BY <1>4, <2>1, <2>2, <2>3 DEF HandleNewTxs, TypeOK, chainVars, swapVars
<1> QED
  BY <1>1, <1>2, <1>3, <1>4 DEF Watcher

LEMMA ReplayerType ==
  ASSUME TypeOK, NEW a \in Indexed, Replayer(a)
  PROVE  TypeOK'
<1>r. replay[a] \in ReplayType
  BY DEF TypeOK
<1>1. CASE QueryTransactions(a)
  <2>1. replay' \in [Indexed -> ReplayType]
    BY <1>1, <1>r DEF QueryTransactions, TypeOK, ReplayType
  <2> QED
    BY <1>1, <2>1 DEF QueryTransactions, TypeOK, chainVars, swapVars
<1>2. ASSUME NEW i \in Sigs, ReplayNext(a, i) PROVE TypeOK'
  <2>1. replay' \in [Indexed -> ReplayType]
    BY <1>2, <1>r DEF ReplayNext, TypeOK, ReplayType
  <2>2. worker' \in [Sources -> [Sigs -> Stages]]
    BY <1>2, GotoStage, StagesHold, SourcesDiffer DEF ReplayNext, TypeOK
  <2> QED
    BY <1>2, <2>1, <2>2 DEF ReplayNext, TypeOK, chainVars, swapVars
<1> QED
  BY <1>1, <1>2 DEF Replayer

LEMMA NextTypeOK == TypeOK /\ [Next]_vars => TypeOK'
<1> SUFFICES ASSUME TypeOK, [Next]_vars PROVE TypeOK'
  OBVIOUS
<1>1. CASE Confirm
  <2>1. confirmed + 1 \in Sigs /\ confirmed' \in 0..NumTxs
    BY <1>1, ChainAssumption DEF Confirm, TypeOK, Sigs
  <2>2. worker' \in [Sources -> [Sigs -> Stages]]
    BY <1>1, <2>1, GotoStage, StagesHold DEF Confirm, TypeOK, Sources
  <2> QED
    BY <1>1, <2>1, <2>2 DEF Confirm, TypeOK, swapVars
<1>2. CASE \E a \in Accts : Watcher(a)
  BY <1>2, WatcherType
<1>3. CASE ReadIndexers
  <2>1. replay' \in [Indexed -> ReplayType]
    BY <1>3 DEF ReadIndexers, TypeOK, ReplayType
  <2> QED
    BY <1>3, <2>1 DEF ReadIndexers, TypeOK, chainVars, swapVars
<1>4. CASE \E a \in Indexed : Replayer(a)
  BY <1>4, ReplayerType
<1>5. CASE \E s \in Sources, i \in Sigs : Work(s, i)
  BY <1>5, WorkType
<1>6. CASE Restart
  <2>0. crashes' \in 0..MaxCrashes
    <3>1. crashes \in 0..MaxCrashes /\ MaxCrashes \in Nat
      BY ChainAssumption DEF TypeOK
    <3>2. crashes < MaxCrashes /\ crashes' = crashes + 1
      BY <1>6 DEF Restart
    <3> QED
      BY <3>1, <3>2
  <2>1. ASSUME NEW b \in Accts
        PROVE  /\ [watch[b] EXCEPT !.pc = "idle", !.cur = 0] \in WatchType
               /\ [watch[b] EXCEPT !.pc = "idle", !.cur = 0].pc = "idle"
    <3>1. watch[b] \in WatchType /\ 0 \in 0..NumTxs
      BY ChainAssumption DEF TypeOK
    <3> QED
      BY <3>1 DEF WatchType
  <2>2. watch' \in [Accts -> WatchType] /\ \A b \in Accts : watch'[b].pc = "idle"
    BY <1>6, <2>1 DEF Restart
  <2> QED
    BY <1>6, <2>0, <2>2, NoWorkType, NoReplayType DEF Restart, TypeOK, swapVars
<1>7. CASE UNCHANGED vars
  BY <1>7 DEF vars, TypeOK, chainVars, swapVars
<1> QED
  BY <1>1, <1>2, <1>3, <1>4, <1>5, <1>6, <1>7 DEF Next

\* The tables, the watchers, the work of the sources and the replay keep their types,
\* for every chain and every fault.
THEOREM TypeCorrect == Spec => []TypeOK
BY InitTypeOK, NextTypeOK, PTL DEF Spec

-------------------------------------------------------------------------------
(* What the sources work on.                                               *)

\* Work changes the stage of one source, which was busy, and neither the chain nor
\* the watchers nor the replay.
LEMMA WorkBusy ==
  ASSUME TypeOK, NEW s \in Sources, NEW i \in Sigs, Work(s, i)
  PROVE  /\ worker[s][i] # "none"
         /\ worker' \in [Sources -> [Sigs -> Stages]]
         /\ \A t \in Sources, j \in Sigs : t # s \/ j # i => worker'[t][j] = worker[t][j]
         /\ UNCHANGED <<chainVars, links, watch, replay>>
         /\ txs \subseteq txs'
<1> USE StagesHold
<1>t. worker \in [Sources -> [Sigs -> Stages]]
  BY DEF TypeOK
<1>1. CASE CheckOrder(s, i)
  BY <1>1, <1>t, GotoStage DEF CheckOrder
<1>2. CASE Build(s, i)
  BY <1>2, <1>t, GotoStage DEF Build
<1>3. CASE UpsertTx(s, i)
  BY <1>3, <1>t, GotoStage DEF UpsertTx
<1>4. CASE InsertOrder(s, i)
  BY <1>4, <1>t, GotoStage DEF InsertOrder
<1>5. CASE PersistFails(s, i)
  <2>1. worker[s][i] # "none"
    BY <1>5 DEF PersistFails, Throwing
  <2> QED
    BY <1>5, <1>t, <2>1, GotoStage DEF PersistFails
<1>6. CASE InsertTake(s, i)
  BY <1>6, <1>t, GotoStage DEF InsertTake
<1>7. CASE Advance(s, i)
  BY <1>7, <1>t, GotoStage DEF Advance
<1> QED
  BY <1>1, <1>2, <1>3, <1>4, <1>5, <1>6, <1>7 DEF Work

\* Steps but those of watchers and a restart leave the watchers alone.
LEMMA HandStep == TypeOK /\ HandInv /\ [Next]_vars => HandInv'
<1> SUFFICES ASSUME TypeOK, HandInv, [Next]_vars PROVE HandInv'
  OBVIOUS
<1>1. ASSUME watch' = watch PROVE HandInv'
  BY <1>1 DEF HandInv
<1>2. ASSUME NEW a \in Accts, Watcher(a) PROVE HandInv'
  <2>w. watch \in [Accts -> WatchType]
    BY DEF TypeOK
  <2>1. ASSUME NEW i \in Sigs, WatcherReads(a, i) PROVE HandInv'
    <3>1. watch[a].seen < i /\ a \in Mentions[i] /\ watch[a].pc = "idle"
      BY <2>1, <2>w DEF WatcherReads, WatchType, Sigs, TypeOK
    <3> QED
      BY <2>1, <2>w, <3>1 DEF WatcherReads, HandInv, WatchType
  <2>2. CASE WatcherUpserts(a)
    BY <2>2, <2>w DEF WatcherUpserts, HandInv, WatchType
  <2>3. CASE WatcherLinks(a)
    BY <2>3, <2>w DEF WatcherLinks, HandInv, WatchType
  <2>4. CASE HandleNewTxs(a)
    BY <2>4, <2>w DEF HandleNewTxs, HandInv, WatchType
  <2> QED
    BY <1>2, <2>1, <2>2, <2>3, <2>4 DEF Watcher
<1>3. CASE Restart
  <2>1. \A b \in Accts : watch[b] \in WatchType
    BY DEF TypeOK
  <2> QED
    BY <1>3, <2>1 DEF Restart, HandInv, WatchType
<1>4. CASE Confirm
  BY <1>4, <1>1 DEF Confirm
<1>5. CASE ReadIndexers
  BY <1>5, <1>1 DEF ReadIndexers
<1>6. CASE \E a \in Indexed : Replayer(a)
  BY <1>6, <1>1 DEF Replayer, QueryTransactions, ReplayNext
<1>7. CASE \E s \in Sources, i \in Sigs : Work(s, i)
  BY <1>7, <1>1, WorkBusy
<1>8. CASE UNCHANGED vars
  BY <1>8, <1>1 DEF vars
<1> QED
  BY <1>2, <1>3, <1>4, <1>5, <1>6, <1>7, <1>8 DEF Next

\* What a watcher has seen never decreases.
LEMMA SeenGrows ==
  ASSUME TypeOK, HandInv, NEW a \in Accts, Watcher(a)
  PROVE  /\ \A b \in Accts : watch[b].seen <= watch'[b].seen
         /\ \A b \in Accts : watch'[b].seen \in Nat
<1>w. watch \in [Accts -> WatchType] /\ \A b \in Accts : watch[b].seen \in Nat
  BY ChainAssumption DEF TypeOK, WatchType
<1>1. ASSUME NEW i \in Sigs, WatcherReads(a, i)
      PROVE  \A b \in Accts : watch[b].seen <= watch'[b].seen /\ watch'[b].seen \in Nat
  <2>1. watch[a].seen < i /\ i \in Nat
    BY <1>1, <1>w, ChainAssumption DEF WatcherReads, Sigs, TypeOK
  <2> QED
    BY <1>1, <1>w, <2>1 DEF WatcherReads, WatchType
<1>2. CASE WatcherUpserts(a)
  BY <1>2, <1>w DEF WatcherUpserts, WatchType
<1>3. CASE WatcherLinks(a)
  BY <1>3, <1>w DEF WatcherLinks, WatchType
<1>4. CASE HandleNewTxs(a)
  <2>1. watch[a].seen < watch[a].cur /\ watch[a].cur \in Nat
    BY <1>4, <1>w, ChainAssumption DEF HandleNewTxs, HandInv, WatchType
  <2> QED
    BY <1>4, <1>w, <2>1 DEF HandleNewTxs, WatchType
<1> QED
  BY <1>1, <1>2, <1>3, <1>4 DEF Watcher

\* A step of a watcher adds at most the transaction in its hand to the queue.
LEMMA WatcherQueues ==
  ASSUME TypeOK, NEW a \in Accts, Watcher(a)
  PROVE  /\ \A t \in Sources, j \in Sigs : worker'[t][j] # worker[t][j] =>
              /\ HandleNewTxs(a) /\ a \in Indexed
              /\ t = Queue(a) /\ j = watch[a].cur /\ worker'[t][j] = "check"
         /\ UNCHANGED <<chainVars, swapVars, replay>>
         /\ txs \subseteq txs'
<1>1. ASSUME NEW i \in Sigs, WatcherReads(a, i)
      PROVE  UNCHANGED <<worker, chainVars, swapVars, replay, txs>>
  BY <1>1 DEF WatcherReads
<1>2. CASE WatcherUpserts(a)
  BY <1>2 DEF WatcherUpserts
<1>3. CASE WatcherLinks(a)
  BY <1>3 DEF WatcherLinks
<1>4. CASE HandleNewTxs(a)
  <2>1. watch[a].cur \in Sigs
    BY <1>4 DEF HandleNewTxs, TypeOK
  <2>2. CASE a \in Indexed /\ Goto(Queue(a), watch[a].cur, "check")
    BY <1>4, <2>1, <2>2, GotoStage, StagesHold, SourcesDiffer DEF HandleNewTxs, TypeOK
  <2>3. CASE UNCHANGED worker
    BY <1>4, <2>3 DEF HandleNewTxs
  <2> QED
    BY <1>4, <2>2, <2>3 DEF HandleNewTxs
<1> QED
  BY <1>1, <1>2, <1>3, <1>4 DEF Watcher

\* A confirmation gives work to the subscription alone, about the new transaction.
LEMMA ConfirmLogs ==
  ASSUME TypeOK, Confirm
  PROVE  /\ confirmed + 1 \in Sigs /\ confirmed' = confirmed + 1
         /\ \A t \in Sources, j \in Sigs : worker'[t][j] # worker[t][j] =>
              t = Logs /\ j = confirmed + 1
         /\ UNCHANGED <<crashes, txs, links, swapVars, watch, replay>>
<1>1. confirmed + 1 \in Sigs
  BY ChainAssumption DEF Confirm, TypeOK, Sigs
<1>2. Logs \in Sources
  BY DEF Sources
<1> QED
  BY <1>1, <1>2, GotoStage, StagesHold DEF Confirm, TypeOK

\* The replay of an account gives itself work, on a transaction it has to do.
LEMMA ReplayWorks ==
  ASSUME TypeOK, NEW a \in Indexed, Replayer(a)
  PROVE  /\ \A t \in Sources, j \in Sigs : worker'[t][j] # worker[t][j] =>
              /\ t = Replay(a) /\ j \in replay[a].todo
              /\ worker[t][j] = "none" /\ worker'[t][j] = "check"
         /\ \A b \in Indexed : replay'[b].todo \subseteq replay[b].todo \cup txs
         /\ UNCHANGED <<chainVars, txs, links, swapVars, watch>>
<1>1. CASE QueryTransactions(a)
  BY <1>1 DEF QueryTransactions, TypeOK, ReplayType
<1>2. ASSUME NEW i \in Sigs, ReplayNext(a, i)
      PROVE  /\ \A t \in Sources, j \in Sigs : worker'[t][j] # worker[t][j] =>
                  /\ t = Replay(a) /\ j = i /\ i \in replay[a].todo
                  /\ worker[t][j] = "none" /\ worker'[t][j] = "check"
             /\ \A b \in Indexed : replay'[b].todo \subseteq replay[b].todo
             /\ UNCHANGED <<chainVars, txs, links, swapVars, watch>>
  <2>1. /\ worker' \in [Sources -> [Sigs -> Stages]]
        /\ worker'[Replay(a)][i] = "check"
        /\ \A t \in Sources, j \in Sigs :
             t # Replay(a) \/ j # i => worker'[t][j] = worker[t][j]
    BY <1>2, GotoStage, StagesHold, SourcesDiffer DEF ReplayNext, TypeOK
  <2>2. \A b \in Indexed : replay'[b].todo \subseteq replay[b].todo
    BY <1>2 DEF ReplayNext, TypeOK, ReplayType
  <2> QED
    BY <1>2, <2>1, <2>2 DEF ReplayNext
<1> QED
  BY <1>1, <1>2 DEF Replayer

LEMMA RestartClears ==
  ASSUME Restart, TypeOK
  PROVE  /\ crashes' > 0
         /\ \A t \in Sources, j \in Sigs : worker'[t][j] = "none"
         /\ \A b \in Indexed : replay'[b].todo = {}
<1>1. crashes \in 0..MaxCrashes /\ MaxCrashes \in Nat
  BY ChainAssumption DEF TypeOK
<1>2. crashes' = crashes + 1 /\ worker' = NoWork /\ replay' = NoReplay
  BY DEF Restart
<1>3. crashes' > 0
  BY <1>1, <1>2
<1> QED
  BY <1>2, <1>3, NoWorkType, NoReplayType

\* The three facts about what the sources work on are inductive with HandInv.
LEMMA SourcesStep == SourcesInv /\ [Next]_vars => SourcesInv'
<1> SUFFICES ASSUME SourcesInv, [Next]_vars PROVE SourcesInv'
  OBVIOUS
<1>0. TypeOK /\ HandInv /\ QueueInv /\ LogsInv /\ ReplayInv
  BY DEF SourcesInv
<1>00. TypeOK' /\ HandInv'
  BY <1>0, NextTypeOK, HandStep
<1> SUFFICES QueueInv' /\ LogsInv' /\ ReplayInv'
  BY <1>00 DEF SourcesInv
<1>s. \A a \in Accts : watch[a].seen \in Nat
  BY <1>0, ChainAssumption DEF TypeOK, WatchType
<1>1. CASE Confirm
  <2>1. QueueInv'
    BY <1>0, <1>1, ConfirmLogs, SourcesDiffer DEF QueueInv
  <2>2. LogsInv'
    BY <1>0, <1>1, ConfirmLogs DEF LogsInv, TypeOK, Sigs, Sources
  <2>3. ReplayInv'
    BY <1>0, <1>1, ConfirmLogs, SourcesDiffer DEF ReplayInv
  <2> QED
    BY <2>1, <2>2, <2>3
<1>2. ASSUME NEW a \in Accts, Watcher(a) PROVE QueueInv' /\ LogsInv' /\ ReplayInv'
  <2>1. QueueInv'
    <3> SUFFICES ASSUME NEW b \in Indexed, NEW i \in Sigs, worker'[Queue(b)][i] # "none"
                 PROVE  i <= watch'[b].seen
      BY DEF QueueInv
    <3>1. b \in Accts /\ i \in Nat
      BY ChainAssumption DEF Sigs
    <3>2. CASE worker'[Queue(b)][i] = worker[Queue(b)][i]
      BY <1>0, <1>2, <1>s, <3>1, <3>2, SeenGrows DEF QueueInv
    <3>3. CASE worker'[Queue(b)][i] # worker[Queue(b)][i]
      <4>1. HandleNewTxs(a) /\ b = a /\ i = watch[a].cur
        BY <1>0, <1>2, <3>3, WatcherQueues, SourcesDiffer
      <4>2. watch'[a].seen = i
        BY <1>0, <4>1 DEF HandleNewTxs, TypeOK, WatchType
      <4> QED
        BY <4>1, <4>2, <3>1
    <3> QED
      BY <3>2, <3>3
  <2>2. LogsInv'
    BY <1>0, <1>2, WatcherQueues, SourcesDiffer DEF LogsInv, chainVars, Sources
  <2>3. ReplayInv'
    BY <1>0, <1>2, WatcherQueues, SourcesDiffer DEF ReplayInv
  <2> QED
    BY <2>1, <2>2, <2>3
<1>3. CASE ReadIndexers
  <2>1. \A b \in Indexed : replay'[b].todo = {}
    BY <1>3 DEF ReadIndexers
  <2> QED
    BY <1>0, <1>3, <2>1 DEF ReadIndexers, QueueInv, LogsInv, ReplayInv, chainVars
<1>4. ASSUME NEW a \in Indexed, Replayer(a) PROVE QueueInv' /\ LogsInv' /\ ReplayInv'
  <2>1. QueueInv'
    BY <1>0, <1>4, ReplayWorks, SourcesDiffer DEF QueueInv
  <2>2. LogsInv'
    BY <1>0, <1>4, ReplayWorks, SourcesDiffer DEF LogsInv, chainVars
  <2>3. ReplayInv'
    BY <1>0, <1>4, ReplayWorks, SourcesDiffer DEF ReplayInv
  <2> QED
    BY <2>1, <2>2, <2>3
<1>5. ASSUME NEW s \in Sources, NEW i \in Sigs, Work(s, i)
      PROVE  QueueInv' /\ LogsInv' /\ ReplayInv'
  <2>1. /\ \A t \in Sources, j \in Sigs : worker'[t][j] # "none" => worker[t][j] # "none"
        /\ UNCHANGED <<chainVars, watch, replay>> /\ txs \subseteq txs'
    BY <1>0, <1>5, WorkBusy
  <2>2. QueueInv'
    BY <1>0, <2>1, SourcesDiffer DEF QueueInv
  <2>3. LogsInv'
    BY <1>0, <2>1 DEF LogsInv, chainVars, Sources
  <2>4. ReplayInv'
    BY <1>0, <2>1, SourcesDiffer DEF ReplayInv
  <2> QED
    BY <2>2, <2>3, <2>4
<1>6. CASE Restart
  BY <1>0, <1>6, RestartClears, SourcesDiffer DEF QueueInv, LogsInv, ReplayInv, Sources
<1>7. CASE UNCHANGED vars
  BY <1>0, <1>7 DEF vars, chainVars, QueueInv, LogsInv, ReplayInv
<1> QED
  BY <1>1, <1>2, <1>3, <1>4, <1>5, <1>6, <1>7 DEF Next

LEMMA SourcesInit == Init => SourcesInv
<1> SUFFICES ASSUME Init PROVE SourcesInv
  OBVIOUS
<1>1. TypeOK
  BY InitTypeOK
<1>2. HandInv
  BY DEF Init, HandInv
<1>3. QueueInv /\ LogsInv /\ ReplayInv
  BY NoWorkType, NoReplayType, SourcesDiffer DEF Init, QueueInv, LogsInv, ReplayInv, Sources
<1> QED
  BY <1>1, <1>2, <1>3 DEF SourcesInv

-------------------------------------------------------------------------------
(* OrderGetsTake                                                           *)

\* Only the insert of an order leaves an order without its take.
LEMMA OrdersGrow ==
  ASSUME TypeOK, NEW s \in Sources, NEW i \in Sigs, Work(s, i), "dbError" \notin Faults
  PROVE  /\ takes \subseteq takes'
         /\ \A j \in orders' \ orders : j = i /\ worker'[s][i] = "take"
         /\ worker[s][i] = "take" => i \in takes'
<1> USE StagesHold
<1>t. worker \in [Sources -> [Sigs -> Stages]]
  BY DEF TypeOK
<1>1. CASE CheckOrder(s, i)
  BY <1>1 DEF CheckOrder, swapVars
<1>2. CASE Build(s, i)
  BY <1>2 DEF Build, swapVars
<1>3. CASE UpsertTx(s, i)
  BY <1>3 DEF UpsertTx, swapVars
<1>4. CASE InsertOrder(s, i)
  BY <1>4, <1>t, GotoStage DEF InsertOrder
<1>5. CASE PersistFails(s, i)
  <2>1. worker[s][i] = "order"
    BY <1>5 DEF PersistFails, Throwing
  <2> QED
    BY <1>5, <2>1 DEF PersistFails, swapVars
<1>6. CASE InsertTake(s, i)
  BY <1>6 DEF InsertTake
<1>7. CASE Advance(s, i)
  BY <1>7 DEF Advance
<1> QED
  BY <1>1, <1>2, <1>3, <1>4, <1>5, <1>6, <1>7 DEF Work

LEMMA OrderStep ==
  "dbError" \notin Faults /\ SourcesInv /\ OrderGetsTake /\ [Next]_vars => OrderGetsTake'
<1> SUFFICES ASSUME "dbError" \notin Faults, SourcesInv, OrderGetsTake, [Next]_vars,
                    crashes' = 0, NEW k \in orders' \ takes', TypeOK'
             PROVE  \E s \in Sources : worker'[s][k] = "take"
  BY NextTypeOK DEF OrderGetsTake, SourcesInv
<1>0. TypeOK /\ HandInv /\ QueueInv /\ LogsInv
  BY DEF SourcesInv
<1>k. k \in Sigs
  BY DEF TypeOK
<1>1. ASSUME UNCHANGED <<crashes, orders, takes>>,
             \A t \in Sources, j \in Sigs : worker[t][j] # "none" => worker'[t][j] = worker[t][j]
      PROVE  \E s \in Sources : worker'[s][k] = "take"
  <2>1. PICK s \in Sources : worker[s][k] = "take"
    BY <1>1 DEF OrderGetsTake
  <2> QED
    BY <1>1, <2>1, <1>k
<1>2. CASE Confirm
  <2>1. \A t \in Sources, j \in Sigs : worker'[t][j] # worker[t][j] =>
              t = Logs /\ j = confirmed + 1
    BY <1>0, <1>2, ConfirmLogs
  <2>2. confirmed + 1 \in Sigs => worker[Logs][confirmed + 1] = "none"
    BY <1>0 DEF LogsInv, TypeOK
  <2> QED
    BY <1>0, <1>1, <1>2, <2>1, <2>2, ConfirmLogs DEF swapVars
<1>3. ASSUME NEW a \in Accts, Watcher(a) PROVE \E s \in Sources : worker'[s][k] = "take"
  <2>1. \A t \in Sources, j \in Sigs : worker'[t][j] # worker[t][j] =>
              HandleNewTxs(a) /\ a \in Indexed /\ t = Queue(a) /\ j = watch[a].cur
    BY <1>0, <1>3, WatcherQueues
  <2>2. HandleNewTxs(a) /\ a \in Indexed /\ watch[a].cur \in Sigs
          => worker[Queue(a)][watch[a].cur] = "none"
    <3> SUFFICES ASSUME HandleNewTxs(a), a \in Indexed, watch[a].cur \in Sigs,
                        worker[Queue(a)][watch[a].cur] # "none"
                 PROVE  FALSE
      OBVIOUS
    <3>1. watch[a].cur <= watch[a].seen
      BY <1>0 DEF QueueInv
    <3>2. watch[a].seen < watch[a].cur
      BY <1>0 DEF HandInv, HandleNewTxs
    <3>3. watch[a].seen \in Nat /\ watch[a].cur \in Nat
      BY <1>0, ChainAssumption DEF TypeOK, WatchType
    <3> QED
      BY <3>1, <3>2, <3>3
  <2>3. UNCHANGED <<crashes, orders, takes>>
    BY <1>0, <1>3, WatcherQueues DEF chainVars, swapVars
  <2> QED
    BY <1>1, <2>1, <2>2, <2>3
<1>4. CASE ReadIndexers
  BY <1>1, <1>4 DEF ReadIndexers, chainVars, swapVars
<1>5. ASSUME NEW a \in Indexed, Replayer(a) PROVE \E s \in Sources : worker'[s][k] = "take"
  <2>1. \A t \in Sources, j \in Sigs : worker[t][j] # "none" => worker'[t][j] = worker[t][j]
    BY <1>0, <1>5, ReplayWorks
  <2>2. UNCHANGED <<crashes, orders, takes>>
    BY <1>0, <1>5, ReplayWorks DEF chainVars, swapVars
  <2> QED
    BY <1>1, <2>1, <2>2
<1>6. ASSUME NEW s \in Sources, NEW i \in Sigs, Work(s, i)
      PROVE  \E t \in Sources : worker'[t][k] = "take"
  <2>1. /\ takes \subseteq takes'
        /\ k \in orders' \ orders => k = i /\ worker'[s][i] = "take"
        /\ worker[s][i] = "take" => i \in takes'
    BY <1>0, <1>6, OrdersGrow
  <2>2. crashes = 0 /\ \A t \in Sources, j \in Sigs :
                          t # s \/ j # i => worker'[t][j] = worker[t][j]
    BY <1>0, <1>6, WorkBusy DEF chainVars
  <2>3. CASE k \in orders
    <3>1. PICK t \in Sources : worker[t][k] = "take"
      BY <2>1, <2>2, <2>3 DEF OrderGetsTake
    <3>2. t # s \/ k # i
      BY <2>1, <3>1
    <3> QED
      BY <1>k, <2>2, <3>1, <3>2
  <2> QED
    BY <2>1, <2>3
<1>7. CASE Restart
  BY <1>0, <1>7, RestartClears
<1>8. CASE UNCHANGED vars
  BY <1>1, <1>8 DEF vars, chainVars, swapVars
<1> QED
  BY <1>2, <1>3, <1>4, <1>5, <1>6, <1>7, <1>8 DEF Next

\* While the process lives, an order never stays without its take, whichever of the
\* sources race for it, if the database does not reject a statement of persist.
THEOREM OrderGetsTakeCorrect ==
  ASSUME "dbError" \notin Faults
  PROVE  Spec => []OrderGetsTake
<1>1. Init => SourcesInv /\ OrderGetsTake
  BY SourcesInit DEF Init, OrderGetsTake
<1>2. SourcesInv /\ OrderGetsTake /\ [Next]_vars => SourcesInv' /\ OrderGetsTake'
  BY SourcesStep, OrderStep
<1> QED
  BY <1>1, <1>2, PTL DEF Spec

-------------------------------------------------------------------------------
(* StoredIsCarried                                                         *)

\* Work that fails only for what is not indexable carries its swap to the order.
LEMMA WorkCarries ==
  ASSUME TypeOK, NEW s \in Sources, NEW i \in Sigs, Work(s, i), i \in Indexable,
         Faults \cap {"dbError", "buildError"} = {}
  PROVE  /\ orders \subseteq orders'
         /\ i \notin orders' =>
              /\ worker[s][i] \in {"check", "build", "tx", "order"} /\ s # Logs
                   => worker'[s][i] \in {"check", "build", "tx", "order"}
              /\ worker[s][i] # "order"
              /\ i \in txs' \ txs => worker'[s][i] = "order"
         /\ txs' \subseteq txs \cup {i}
<1> USE StagesHold
<1>t. worker \in [Sources -> [Sigs -> Stages]]
  BY DEF TypeOK
<1>i. i \in Swaps /\ i \notin Refused
  BY DEF Indexable
<1>1. CASE CheckOrder(s, i)
  BY <1>1, <1>t, GotoStage DEF CheckOrder, swapVars
<1>2. CASE Build(s, i)
  <2>1. MayFail(s) => s = Logs
    BY DEF MayFail
  <2>2. worker'[s][i] = "tx" \/ s = Logs
    BY <1>2, <1>i, <1>t, <2>1, GotoStage DEF Build
  <2>3. worker[s][i] = "build" /\ UNCHANGED <<orders, txs>>
    BY <1>2 DEF Build, swapVars
  <2> QED
    BY <2>2, <2>3
<1>3. CASE UpsertTx(s, i)
  BY <1>3, <1>t, GotoStage DEF UpsertTx, swapVars
<1>4. CASE InsertOrder(s, i)
  BY <1>4 DEF InsertOrder
<1>5. CASE PersistFails(s, i)
  BY <1>5, <1>i DEF PersistFails, Throwing
<1>6. CASE InsertTake(s, i)
  BY <1>6 DEF InsertTake
<1>7. CASE Advance(s, i)
  BY <1>7 DEF Advance
<1> QED
  BY <1>1, <1>2, <1>3, <1>4, <1>5, <1>6, <1>7 DEF Work

LEMMA StoredStep ==
  ASSUME Faults \cap {"dbError", "buildError"} = {}
  PROVE  SourcesInv /\ StoredIsCarried /\ [Next]_vars => StoredIsCarried'
<1> SUFFICES ASSUME SourcesInv, StoredIsCarried, [Next]_vars, crashes' = 0,
                    NEW k \in Indexable, k \in txs', k \notin orders'
             PROVE  Carried(k)'
  BY DEF StoredIsCarried
<1>0. TypeOK /\ HandInv /\ LogsInv /\ ReplayInv
  BY DEF SourcesInv
<1>k. /\ k \in Sigs /\ Mentions[k] \subseteq Indexed
      /\ crashes = 0 /\ k \in txs /\ k \notin orders => Carried(k)
  BY ChainAssumption DEF Indexable, StoredIsCarried
<1>1. ASSUME UNCHANGED <<crashes, txs, orders, watch>>,
             \A t \in Sources, j \in Sigs : worker[t][j] # "none" => worker'[t][j] = worker[t][j]
      PROVE  Carried(k)'
  BY <1>1, <1>k, SourcesDiffer DEF Carried, Sources
<1>2. CASE Confirm
  <2>1. \A t \in Sources, j \in Sigs : worker'[t][j] # worker[t][j] =>
              t = Logs /\ j = confirmed + 1
    BY <1>0, <1>2, ConfirmLogs
  <2>2. confirmed + 1 \in Sigs => worker[Logs][confirmed + 1] = "none"
    BY <1>0 DEF LogsInv, TypeOK
  <2> QED
    BY <1>0, <1>1, <1>2, <2>1, <2>2, ConfirmLogs DEF swapVars
<1>3. ASSUME NEW a \in Accts, Watcher(a) PROVE Carried(k)'
  <2>0. crashes = 0 /\ k \notin orders /\ watch[a] \in WatchType
    BY <1>0, <1>3, WatcherQueues DEF chainVars, swapVars, TypeOK
  <2>q. \A t \in Sources, j \in Sigs : worker'[t][j] # worker[t][j] =>
          t \in {Queue(b) : b \in Indexed} /\ worker'[t][j] = "check"
    BY <1>0, <1>3, WatcherQueues
  <2>1. CASE k \in txs /\ ~(a \in Indexed /\ watch[a].cur = k /\ watch[a].pc \in {"link", "queued"})
    <3>1. Carried(k)
      BY <1>k, <2>0, <2>1
    <3>2. \A b \in Accts : b # a => watch'[b] = watch[b]
      BY <1>0, <1>3 DEF Watcher, WatcherReads, WatcherUpserts, WatcherLinks, HandleNewTxs, TypeOK
    <3> QED
      BY <1>k, <2>1, <2>q, <3>1, <3>2, SourcesDiffer, ChainAssumption DEF Carried, Sources
  <2>2. CASE a \in Indexed /\ watch[a].cur = k /\ watch[a].pc \in {"link", "queued"}
    <3>1. CASE WatcherLinks(a)
      <4>1. watch'[a].cur = k /\ watch'[a].pc = "queued"
        BY <1>0, <2>0, <2>2, <3>1 DEF WatcherLinks, TypeOK, WatchType
      <4> QED
        BY <2>2, <4>1 DEF Carried
    <3>2. CASE HandleNewTxs(a)
      <4>1. worker'[Queue(a)][k] = "check"
        BY <1>0, <1>k, <2>2, <3>2, GotoStage, StagesHold, SourcesDiffer DEF HandleNewTxs, TypeOK
      <4> QED
        BY <2>2, <4>1 DEF Carried
    <3> QED
      BY <1>3, <2>2, <3>1, <3>2 DEF Watcher, WatcherReads, WatcherUpserts
  <2>3. CASE k \notin txs
    <3>1. WatcherUpserts(a) /\ watch[a].cur = k
      BY <1>3, <2>3 DEF Watcher, WatcherReads, WatcherUpserts, WatcherLinks, HandleNewTxs
    <3>2. a \in Indexed
      BY <1>0, <1>k, <3>1 DEF HandInv, WatcherUpserts
    <3>3. watch'[a].cur = k /\ watch'[a].pc = "link"
      BY <1>0, <2>0, <3>1 DEF WatcherUpserts, TypeOK, WatchType
    <3> QED
      BY <3>2, <3>3 DEF Carried
  <2> QED
    BY <2>1, <2>2, <2>3
<1>4. CASE ReadIndexers
  BY <1>1, <1>4 DEF ReadIndexers, chainVars, swapVars
<1>5. ASSUME NEW a \in Indexed, Replayer(a) PROVE Carried(k)'
  <2>1. \A t \in Sources, j \in Sigs : worker[t][j] # "none" => worker'[t][j] = worker[t][j]
    BY <1>0, <1>5, ReplayWorks
  <2>2. UNCHANGED <<crashes, txs, orders, watch>>
    BY <1>0, <1>5, ReplayWorks DEF chainVars, swapVars
  <2> QED
    BY <1>1, <2>1, <2>2
<1>6. ASSUME NEW s \in Sources, NEW i \in Sigs, Work(s, i) PROVE Carried(k)'
  <2>1. /\ UNCHANGED <<crashes, watch>>
        /\ worker[s][i] # "none"
        /\ \A t \in Sources, j \in Sigs : t # s \/ j # i => worker'[t][j] = worker[t][j]
    BY <1>0, <1>6, WorkBusy DEF chainVars
  <2>2. CASE i # k
    <3>1. k \in txs /\ k \notin orders
      BY <1>6, <2>2, <1>k DEF Work, CheckOrder, Build, UpsertTx, InsertOrder, PersistFails,
            InsertTake, Advance, swapVars
    <3> QED
      BY <1>k, <2>1, <2>2, <3>1, SourcesDiffer DEF Carried, Sources
  <2>3. CASE i = k
    <3>1. /\ k \notin orders
          /\ worker[s][k] \in {"check", "build", "tx", "order"} /\ s # Logs
               => worker'[s][k] \in {"check", "build", "tx", "order"}
          /\ worker[s][k] # "order"
          /\ k \notin txs => worker'[s][k] = "order"
      BY <1>0, <1>6, <2>3, WorkCarries
    <3>2. CASE k \in txs
      BY <1>k, <2>1, <2>3, <3>1, <3>2, SourcesDiffer DEF Carried, Sources
    <3>3. CASE k \notin txs
      <4>1. worker'[s][k] = "order"
        BY <3>1, <3>3
      <4>2. ASSUME NEW a \in Indexed PROVE s # Replay(a)
        BY <1>0, <2>1, <2>3, <3>3 DEF ReplayInv
      <4>3. s = Logs \/ \E a \in Indexed : s = Queue(a)
        BY <4>2 DEF Sources
      <4> QED
        BY <4>1, <4>3 DEF Carried
    <3> QED
      BY <3>2, <3>3
  <2> QED
    BY <2>2, <2>3
<1>7. CASE Restart
  BY <1>0, <1>7, RestartClears
<1>8. CASE UNCHANGED vars
  BY <1>1, <1>8 DEF vars, chainVars, swapVars
<1> QED
  BY <1>2, <1>3, <1>4, <1>5, <1>6, <1>7, <1>8 DEF Next

\* While the process lives and its calls succeed, a swap that is stored, be it by the
\* log subscription before its watcher comes, has an order or is carried to it.
THEOREM StoredIsCarriedCorrect ==
  ASSUME Faults \cap {"dbError", "buildError"} = {}
  PROVE  Spec => []StoredIsCarried
<1>1. Init => SourcesInv /\ StoredIsCarried
  BY SourcesInit DEF Init, StoredIsCarried
<1>2. SourcesInv /\ StoredIsCarried /\ [Next]_vars => SourcesInv' /\ StoredIsCarried'
  BY SourcesStep, StoredStep
<1> QED
  BY <1>1, <1>2, PTL DEF Spec
===============================================================================
