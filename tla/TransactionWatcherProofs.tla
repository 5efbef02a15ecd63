----------------------- MODULE TransactionWatcherProofs -----------------------
(***************************************************************************)
(* What TLAPS proves of TransactionWatcher, for every chain, every set of  *)
(* accounts and objects, and every bound.                                  *)
(***************************************************************************)
EXTENDS TransactionWatcher, TLAPS

\* The initial state has the declared types.
LEMMA InitTypeOK == Init => TypeOK
<1> SUFFICES ASSUME Init PROVE TypeOK
  OBVIOUS
<1> USE ChainAssumption, ProcessAssumption
<1>1. row \in [Accts -> RowType]
  BY DEF Init, RowType, Slots, Statuses
<1>2. mem \in [Insts -> MemType]
  BY DEF Init, MemType, BlankMem, Slots, Sigs
<1>3. mgr \in MgrType
  BY DEF Init, MgrType, IdleMgr, Progress, NoProgress, Slots
<1> QED
  BY <1>1, <1>2, <1>3 DEF Init, TypeOK, Slots, PCs, InTx, Sigs

\* Zero stands for `null' and for the slot before the first.
LEMMA ZeroType == 0 \in 0..NumTxs /\ 0 \in Slots
BY ChainAssumption DEF Slots

\* A record of fields is still one after its locals are dropped.
LEMMA SettleType ==
  ASSUME NEW m \in MemType PROVE Settle(m) \in MemType
BY ZeroType DEF Settle, MemType

\* A new object has the fields of one.
LEMMA BlankType == BlankMem \in MemType
BY ZeroType DEF BlankMem, MemType

\* getWatchers between two of its calls.
LEMMA IdleMgrType == IdleMgr \in MgrType
BY ZeroType DEF IdleMgr, MgrType, Progress, NoProgress

\* An object that moves from one await to the next keeps the types.
LEMMA MoveType ==
  ASSUME TypeOK, NEW w \in Insts, NEW p \in PCs, NEW n \in MemType,
         pc' = [pc EXCEPT ![w] = p], mem' = [mem EXCEPT ![w] = n],
         p \in InTx => n.cur \in Sigs
  PROVE  /\ pc' \in [Insts -> PCs]
         /\ mem' \in [Insts -> MemType]
         /\ \A v \in Insts : pc'[v] \in InTx => mem'[v].cur \in Sigs
<1>1. pc \in [Insts -> PCs] /\ mem \in [Insts -> MemType]
      /\ \A v \in Insts : pc[v] \in InTx => mem[v].cur \in Sigs
  BY DEF TypeOK
<1> QED
  BY <1>1

\* Leaving a backfill keeps the types of the objects.
LEMMA LeaveType ==
  ASSUME TypeOK, NEW w \in Insts, NEW m \in MemType, Leave(w, m)
  PROVE  /\ pc' \in [Insts -> PCs]
         /\ mem' \in [Insts -> MemType]
         /\ \A v \in Insts : pc'[v] \in InTx => mem'[v].cur \in Sigs
<1>1. Settle(m) \in MemType
  BY SettleType
<1>2. pc' \in [Insts -> PCs] /\ mem' \in [Insts -> MemType]
  BY <1>1, BlankType DEF Leave, Rest, TypeOK, PCs
<1>3. pc'[w] \notin InTx /\ \A v \in Insts \ {w} : pc'[v] = pc[v] /\ mem'[v] = mem[v]
  BY DEF Leave, Rest, TypeOK, InTx
<1> QED
  BY <1>2, <1>3 DEF TypeOK

\* Dropping a set of objects from the map does too.
LEMMA StoppedType ==
  ASSUME TypeOK, NEW S
  PROVE  /\ Dropped(S) \in [Insts -> PCs]
         /\ Stopped(S) \in [Insts -> MemType]
         /\ \A v \in Insts : Dropped(S)[v] \in InTx => Stopped(S)[v].cur \in Sigs
<1>1. \A w \in Insts : [mem[w] EXCEPT !.stopped = TRUE] \in MemType
  BY DEF TypeOK, MemType
<1>2. Dropped(S) \in [Insts -> PCs] /\ Stopped(S) \in [Insts -> MemType]
  BY <1>1, BlankType DEF Dropped, Stopped, TypeOK, PCs
<1>3. ASSUME NEW v \in Insts, Dropped(S)[v] \in InTx
      PROVE  Stopped(S)[v].cur \in Sigs
  <2>1. pc[v] \in InTx /\ pc[v] # "idle"
    BY <1>3 DEF Dropped, InTx
  <2>2. Stopped(S)[v] \in {mem[v], [mem[v] EXCEPT !.stopped = TRUE]}
    BY <2>1 DEF Stopped
  <2>3. Stopped(S)[v].cur = mem[v].cur
    BY <2>2 DEF TypeOK, MemType
  <2> QED
    BY <2>1, <2>3 DEF TypeOK
<1> QED
  BY <1>2, <1>3

-------------------------------------------------------------------------------
\* Every step of the objects keeps the types.
LEMMA BackfillType ==
  ASSUME TypeOK, NEW w \in Insts, Poll(w) \/ Backfill(w) \/ CallThrows(w)
  PROVE  TypeOK'
<1> USE ZeroType, ProcessAssumption DEF InTx
<1>w. AcctOf[w] \in Accts /\ mem[w] \in MemType /\ row[AcctOf[w]] \in RowType
  BY DEF TypeOK
<1>m. ASSUME NEW m \in MemType, Leave(w, m)
      PROVE  /\ pc' \in [Insts -> PCs]
             /\ mem' \in [Insts -> MemType]
             /\ \A v \in Insts : pc'[v] \in InTx => mem'[v].cur \in Sigs
  BY <1>m, LeaveType
<1>1. CASE Poll(w)
  BY <1>1, ZenonT(30) DEF Poll, TypeOK, envVars, dbVars, mgrVars, MemType, PCs
<1>2. CASE GetSlot(w)
  BY <1>2, SMTT(30) DEF GetSlot, TypeOK, envVars, dbVars, mgrVars, MemType, PCs
<1>3. ASSUME NEW h \in SUBSET History(w), FetchHistory(w, h)
      PROVE  TypeOK'
  <2>1. h \subseteq Sigs
    BY DEF History, Observable
  <2> QED
    BY <1>3, <2>1 DEF FetchHistory, TypeOK, envVars, dbVars, mgrVars, MemType, PCs
<1>4. CASE HistoryError(w)
  <2> DEFINE m == [mem[w] EXCEPT !.errorCount = mem[w].errorCount + 1]
  <2>1. m \in MemType
    BY <1>w DEF MemType
  <2>2. CASE m.errorCount <= MAX_RETRIES
    <3>1. Leave(w, m)
      BY <1>4, <2>2, <1>w DEF HistoryError, MemType
    <3> QED
      BY <1>4, <2>1, <3>1, <1>m DEF HistoryError, TypeOK, envVars, dbVars, mgrVars
  <2>3. CASE ~(m.errorCount <= MAX_RETRIES)
    <3>1. /\ pc' = [pc EXCEPT ![w] = "fail"]
          /\ mem' = [mem EXCEPT ![w].errorCount = mem[w].errorCount + 1,
                                ![w].backfilling = FALSE,
                                ![w].stopped = TRUE]
      BY <1>4, <2>3, <1>w DEF HistoryError, MemType
    <3> DEFINE n == [m EXCEPT !.backfilling = FALSE, !.stopped = TRUE]
    <3>2. n \in MemType
      BY <2>1 DEF MemType
    <3>3. mem' = [mem EXCEPT ![w] = n]
      BY <3>1 DEF TypeOK
    <3> QED
      BY <1>4, <3>1, <3>2, <3>3 DEF HistoryError, TypeOK, envVars, dbVars, mgrVars, PCs
  <2> QED
    BY <2>2, <2>3
<1>5. CASE MarkFailed(w)
  <2>1. row' \in [Accts -> RowType]
    BY <1>5, <1>w DEF MarkFailed, TypeOK, RowType, Statuses
  <2> QED
    BY <1>5, <1>w, <1>m, <2>1 DEF MarkFailed, TypeOK, envVars, mgrVars
<1>6. CASE SkipStopped(w)
  BY <1>6 DEF SkipStopped, TypeOK, envVars, dbVars, mgrVars, MemType
<1>7. ASSUME NEW i \in Sigs, ReadRow(w, i)
      PROVE  TypeOK'
  <2>1. i \in 0..NumTxs /\ row[AcctOf[w]].firstTxSig \in 0..NumTxs
    BY <1>w DEF Sigs, RowType
  <2> QED
    BY <1>7, <2>1 DEF ReadRow, TypeOK, envVars, dbVars, mgrVars, MemType, PCs
<1>8. CASE ReadTx(w) \/ GetTx(w) \/ Push(w)
  BY <1>8 DEF ReadTx, GetTx, Push, TypeOK, envVars, dbVars, mgrVars, PCs
<1>9. CASE ParseFails(w)
  <2> DEFINE n == [mem[w] EXCEPT !.stopped = TRUE, !.cur = 0, !.first = 0]
  <2>1. n \in MemType
    BY <1>w DEF MemType
  <2>2. mem' = [mem EXCEPT ![w] = n]
    BY <1>9 DEF ParseFails, TypeOK
  <2> QED
    BY <1>9, <2>1, <2>2 DEF ParseFails, TypeOK, envVars, dbVars, mgrVars, PCs
<1>10. CASE Upsert(w)
  BY <1>10 DEF Upsert, TypeOK, envVars, mgrVars, PCs
<1>11. CASE Link(w)
  BY <1>11 DEF Link, TypeOK, envVars, mgrVars, PCs
<1>12. CASE UpdateRow(w)
  <2> DEFINE checked == SlotAfterTx(mem[w].cur, mem[w].checkedUpToSlot, mem[w].checkedUpToSlot)
             n == [mem[w] EXCEPT !.checkedUpToSlot = checked, !.cur = 0, !.first = 0]
             r == [row[AcctOf[w]] EXCEPT
                     !.latestTxSig = mem[w].cur,
                     !.firstTxSig = IF mem[w].first = 0 THEN mem[w].cur ELSE mem[w].first,
                     !.version = codeVersion,
                     !.checkedUpToSlot = checked]
  <2>1. n \in MemType /\ r \in RowType
    BY <1>w DEF MemType, RowType, SlotAfterTx, TypeOK
  <2>2. mem' = [mem EXCEPT ![w] = n] /\ row' = [row EXCEPT ![AcctOf[w]] = r]
    BY <1>12, <1>w DEF UpdateRow, TypeOK
  <2>3. /\ pc' \in [Insts -> PCs]
        /\ mem' \in [Insts -> MemType]
        /\ \A v \in Insts : pc'[v] \in InTx => mem'[v].cur \in Sigs
    <3> HIDE DEF n
    <3>1. pc' = [pc EXCEPT ![w] = "tx"] /\ "tx" \in PCs /\ "tx" \notin InTx
      BY <1>12 DEF UpdateRow, PCs
    <3> QED
      BY <3>1, <2>1, <2>2, MoveType
  <2>4. row' \in [Accts -> RowType]
    <3> HIDE DEF r
    <3> QED
      BY <2>1, <2>2, <1>w DEF TypeOK
  <2> QED
    BY <1>12, <2>3, <2>4 DEF UpdateRow, TypeOK, envVars, mgrVars
<1>13. CASE EndBackfill(w)
  BY <1>13, <1>w, <1>m DEF EndBackfill, Later, TypeOK, envVars, mgrVars, MemType, RowType
<1>14. CASE CallThrows(w)
  BY <1>14, <1>w, <1>m DEF CallThrows, TypeOK, envVars, dbVars, mgrVars
<1> QED
  BY <1>1, <1>2, <1>3, <1>4, <1>5, <1>6, <1>7, <1>8, <1>9, <1>10, <1>11, <1>12,
     <1>13, <1>14 DEF Backfill

\* So does every step of getWatchers.
LEMMA GetWatchersType ==
  ASSUME TypeOK, GetWatchers \/ GetWatchersThrows
  PROVE  TypeOK'
<1> USE ZeroType, ProcessAssumption
<1>1. CASE SelectWatchers
  <2>1. mgr' \in MgrType
    <3>1. \A a \in Accts : mgr'.rows[a] \in Progress
      BY <1>1 DEF SelectWatchers, TypeOK, RowType, Progress, NoProgress
    <3> QED
      BY <1>1, <3>1 DEF SelectWatchers, MgrType
  <2> QED
    BY <1>1, <2>1 DEF SelectWatchers, TypeOK, envVars, dbVars, objVars
<1>2. ASSUME NEW a \in Accts, StopForReset(a)
      PROVE  TypeOK'
  <2> DEFINE S == {w \in watchers : AcctOf[w] = a}
  <2>1. mgr' \in MgrType
    BY <1>2 DEF StopForReset, TypeOK, MgrType
  <2>2. pc' = Dropped(S) /\ mem' = Stopped(S)
    BY <1>2 DEF StopForReset
  <2> QED
    <3>1. /\ pc' \in [Insts -> PCs]
          /\ mem' \in [Insts -> MemType]
          /\ \A v \in Insts : pc'[v] \in InTx => mem'[v].cur \in Sigs
      BY <2>2, StoppedType
    <3>2. watchers' \subseteq Insts /\ UNCHANGED <<envVars, dbVars>>
      BY <1>2 DEF StopForReset, TypeOK
    <3> QED
      BY <2>1, <3>1, <3>2 DEF TypeOK, envVars, dbVars
<1>3. ASSUME NEW a \in Accts, ResetRow(a)
      PROVE  TypeOK'
  <2>1. mgr' \in MgrType
    BY <1>3 DEF ResetRow, TypeOK, MgrType
  <2>2. row' \in [Accts -> RowType]
    <3> DEFINE r == [row[a] EXCEPT !.version = codeVersion, !.latestTxSig = 0,
                                   !.checkedUpToSlot = 0]
    <3>1. r \in RowType
      BY DEF TypeOK, RowType
    <3>2. row' = [row EXCEPT ![a] = r]
      BY <1>3 DEF ResetRow, TypeOK
    <3> HIDE DEF r
    <3> QED
      BY <3>1, <3>2 DEF TypeOK
  <2> QED
    BY <1>3, <2>1, <2>2 DEF ResetRow, TypeOK, envVars, objVars
<1>4. ASSUME NEW new \in SUBSET Insts, StartAndStop(new)
      PROVE  TypeOK'
  <2> DEFINE S == {w \in watchers : AcctOf[w] \notin mgr.active}
             Fresh(w) == [BlankMem EXCEPT
                            !.latestTxSig = mgr.rows[AcctOf[w]].latestTxSig,
                            !.checkedUpToSlot = mgr.rows[AcctOf[w]].checkedUpToSlot,
                            !.backfilling = TRUE]
  <2>1. \A w \in new : Fresh(w) \in MemType
    <3>1. \A w \in new : mgr.rows[AcctOf[w]] \in Progress
      BY DEF TypeOK, MgrType
    <3> QED
      BY <3>1, BlankType DEF Progress, MemType
  <2>2. /\ pc' = [w \in Insts |-> IF w \in new THEN "slot" ELSE Dropped(S)[w]]
        /\ mem' = [w \in Insts |-> IF w \in new THEN Fresh(w) ELSE Stopped(S)[w]]
    BY <1>4 DEF StartAndStop
  <2>3. pc' \in [Insts -> PCs] /\ mem' \in [Insts -> MemType]
    BY <2>1, <2>2, StoppedType DEF PCs
  <2>4. \A w \in Insts : pc'[w] \in InTx => mem'[w].cur \in Sigs
    BY <2>2, StoppedType DEF InTx
  <2>5. watchers' \subseteq Insts /\ mgr' \in MgrType /\ UNCHANGED <<envVars, dbVars>>
    BY <1>4, IdleMgrType DEF StartAndStop, TypeOK
  <2> QED
    BY <2>3, <2>4, <2>5 DEF TypeOK, envVars, dbVars
<1>5. CASE GetWatchersThrows
  <2>1. mgr' \in MgrType
    BY <1>5, IdleMgrType DEF GetWatchersThrows, MgrType
  <2> QED
    BY <1>5, <2>1 DEF GetWatchersThrows, TypeOK, envVars, dbVars, objVars
<1> QED
  BY <1>1, <1>2, <1>3, <1>4, <1>5 DEF GetWatchers

\* And so do the surroundings.
LEMMA SurroundingsType ==
  ASSUME TypeOK,
         \/ Confirm \/ Finalize \/ Restart
         \/ \E a \in Accts, status \in {"active", "disabled"} : SetStatus(a, status)
  PROVE  TypeOK'
<1> USE ChainAssumption, ProcessAssumption
<1>1. CASE Confirm \/ Finalize
  BY <1>1 DEF Confirm, Finalize, TypeOK, Slots, dbVars, objVars, mgrVars
<1>2. CASE Restart
  BY <1>2, BlankType, IdleMgrType DEF Restart, TypeOK, dbVars, PCs, InTx
<1>3. ASSUME NEW a \in Accts, NEW status \in {"active", "disabled"}, SetStatus(a, status)
      PROVE  TypeOK'
  BY <1>3 DEF SetStatus, TypeOK, RowType, Statuses, envVars, objVars, mgrVars
<1> QED
  BY <1>1, <1>2, <1>3

\* All steps together.
LEMMA TypeStep ==
  ASSUME TypeOK, [Next]_vars PROVE TypeOK'
<1>1. CASE Next
  BY <1>1, BackfillType, GetWatchersType, SurroundingsType DEF Next
<1>2. CASE UNCHANGED vars
  BY <1>2 DEF TypeOK, vars, envVars, dbVars, objVars, mgrVars
<1> QED
  BY <1>1, <1>2

\* The state of the watchers, of their rows and of getWatchers always has the
\* declared types, whatever fails.
THEOREM TypeCorrect == Spec => []TypeOK
<1>1. TypeOK /\ [Next]_vars => TypeOK'
  BY TypeStep
<1> QED
  BY <1>1, InitTypeOK, PTL DEF Spec

-------------------------------------------------------------------------------
(* LatestIsPrefix.                                                         *)

\* What is stored stays stored: nothing deletes from transactions.
LEMMA TxsKept ==
  ASSUME TypeOK, [Next]_vars
  PROVE  \A i \in Sigs : txs[i] > 0 => txs'[i] > 0
<1>1. ASSUME NEW w \in Insts, Upsert(w)
      PROVE  \A i \in Sigs : txs[i] > 0 => txs'[i] > 0
  BY <1>1 DEF Upsert, TypeOK
<1>2. CASE UNCHANGED txs
  BY <1>2
<1> QED
  BY <1>1, <1>2, ZenonT(30) DEF Next, vars, dbVars, Confirm, Finalize, Poll, Backfill, GetSlot,
     FetchHistory, HistoryError, MarkFailed, SkipStopped, ReadRow, ReadTx, GetTx,
     ParseFails, Link, Push, UpdateRow, EndBackfill, CallThrows, GetWatchers,
     SelectWatchers, StopForReset, ResetRow, StartAndStop, GetWatchersThrows, Restart,
     SetStatus

\* An object that does not move keeps its part of the invariant.
LEMMA ObjectPrefixFrame ==
  ASSUME NEW w \in Insts, ObjectPrefix(w), mem'[w] = mem[w], pc'[w] = pc[w],
         \A i \in Sigs : txs[i] > 0 => txs'[i] > 0, TypeOK
  PROVE  ObjectPrefix(w)'
BY DEF ObjectPrefix, StoredBelow, HistoryInv, InHandInv, TypeOK

\* Neither does an object without work need anything but its latestTxSig.
LEMMA ObjectPrefixRest ==
  ASSUME NEW w \in Insts, ObjectPrefix(w), pc'[w] \notin Loop,
         mem'[w].latestTxSig \in {0, mem[w].latestTxSig},
         \A i \in Sigs : txs[i] > 0 => txs'[i] > 0
  PROVE  ObjectPrefix(w)'
BY ChainAssumption DEF ObjectPrefix, StoredBelow, HistoryInv, InHandInv, Loop, Sigs

\* A step of an object keeps its own part of the invariant.
LEMMA ObjectPrefixStep ==
  ASSUME PrefixInv, "rpcLoss" \notin Faults, NEW w \in Insts,
         Poll(w) \/ Backfill(w) \/ CallThrows(w),
         \A i \in Sigs : txs[i] > 0 => txs'[i] > 0
  PROVE  ObjectPrefix(w)'
<1> USE DEF PrefixInv
<1>w. /\ mem[w] \in MemType /\ mem \in [Insts -> MemType] /\ pc \in [Insts -> PCs]
      /\ ObjectPrefix(w) /\ AcctOf[w] \in Accts
      /\ txs \in [Sigs -> 0..MaxVersion] /\ codeVersion \in 1..MaxVersion
  BY ProcessAssumption DEF TypeOK
<1>m. ASSUME NEW m \in MemType, Leave(w, m), m.latestTxSig = mem[w].latestTxSig
      PROVE  ObjectPrefix(w)'
  <2>1. pc'[w] \notin Loop
    BY <1>m, <1>w DEF Leave, Rest, Loop, InTx
  <2>2. mem'[w].latestTxSig \in {0, mem[w].latestTxSig}
    BY <1>m, <1>w DEF Leave, Settle, BlankMem, MemType
  <2> QED
    BY <2>1, <2>2, <1>w, ObjectPrefixRest
<1>1. CASE Poll(w) \/ GetSlot(w)
  <2>1. pc'[w] \notin Loop /\ mem'[w].latestTxSig = mem[w].latestTxSig
    BY <1>1, <1>w DEF Poll, GetSlot, Loop, InTx, MemType
  <2> QED
    BY <2>1, <1>w, ObjectPrefixRest
<1>2. ASSUME NEW h \in SUBSET History(w), FetchHistory(w, h)
      PROVE  ObjectPrefix(w)'
  <2>1. /\ pc'[w] = "tx" /\ mem'[w].todo = History(w) /\ UNCHANGED txs
        /\ mem'[w].latestTxSig = mem[w].latestTxSig
    BY <1>2, <1>w DEF FetchHistory, MemType, dbVars
  <2>2. ASSUME NEW j \in History(w), NEW i \in Sigs, AcctOf[w] \in Mentions[i], i < j
        PROVE  txs[i] > 0 \/ i \in History(w)
    <3>1. j \in Sigs /\ SlotOf[j] <= confirmedSlot
      BY DEF History, Observable
    <3>2. SlotOf[i] <= confirmedSlot
      BY <2>2, <3>1, ChainAssumption DEF TypeOK, Slots, Sigs
    <3>3. CASE i <= mem[w].latestTxSig
      BY <3>3, <2>2, <1>w DEF ObjectPrefix, StoredBelow
    <3>4. CASE i > mem[w].latestTxSig
      BY <3>2, <3>4, <2>2 DEF History, Observable
    <3> QED
      BY <3>3, <3>4, <1>w DEF MemType, Sigs
  <2>3. \A j \in History(w) : AcctOf[w] \in Mentions[j]
    BY DEF History, Observable
  <2> QED
    BY <2>1, <2>2, <2>3, <1>w DEF ObjectPrefix, StoredBelow, HistoryInv, InHandInv, InTx
<1>3. CASE HistoryError(w)
  <2>1. CASE Leave(w, [mem[w] EXCEPT !.errorCount = mem[w].errorCount + 1])
    BY <2>1, <1>m, <1>w DEF MemType
  <2>2. CASE pc' = [pc EXCEPT ![w] = "fail"] /\ mem'[w].latestTxSig = mem[w].latestTxSig
    BY <2>2, <1>w, ObjectPrefixRest DEF Loop, InTx
  <2> QED
    BY <1>3, <2>1, <2>2, <1>w DEF HistoryError, MemType
<1>4. CASE MarkFailed(w) \/ CallThrows(w)
  BY <1>4, <1>m, <1>w DEF MarkFailed, CallThrows
<1>5. CASE SkipStopped(w)
  <2>1. /\ pc'[w] = "tx" /\ mem'[w].todo = {} /\ UNCHANGED txs
        /\ mem'[w].latestTxSig = mem[w].latestTxSig
    BY <1>5, <1>w DEF SkipStopped, MemType, dbVars
  <2> QED
    BY <2>1, <1>w DEF ObjectPrefix, StoredBelow, HistoryInv, InHandInv, InTx
<1>6. ASSUME NEW i \in Sigs, ReadRow(w, i)
      PROVE  ObjectPrefix(w)'
  <2>1. /\ pc[w] = "tx" /\ pc'[w] = "readTx" /\ mem'[w].cur = i /\ UNCHANGED txs
        /\ mem'[w].todo = mem[w].todo \ {i} /\ i \in mem[w].todo
        /\ mem'[w].latestTxSig = mem[w].latestTxSig
        /\ ~mem[w].stopped /\ mem'[w].stopped = mem[w].stopped
        /\ \A j \in mem[w].todo : i <= j
    BY <1>6, <1>w DEF ReadRow, MemType, dbVars
  <2>2. \A k \in Sigs : AcctOf[w] \in Mentions[k] /\ k < i => txs[k] > 0
    BY <2>1, <1>w DEF ObjectPrefix, HistoryInv, Loop, InTx, MemType, Sigs
  <2>3. HistoryInv(w)'
    BY <2>1, <1>w DEF ObjectPrefix, HistoryInv, Loop, InTx, MemType
  <2> QED
    BY <2>1, <2>2, <2>3, <1>w DEF ObjectPrefix, StoredBelow, HistoryInv, InHandInv, Loop, InTx
<1>7. CASE ReadTx(w) \/ GetTx(w) \/ Push(w)
  <2>1. mem' = mem /\ UNCHANGED txs /\ pc[w] \in InTx /\ pc'[w] \in InTx
    BY <1>7, <1>w DEF ReadTx, GetTx, Push, InTx, dbVars
  <2>2. pc'[w] \in {"link", "push", "update"} => txs[mem[w].cur] > 0
    BY <1>7, <1>w DEF ReadTx, GetTx, Push, ObjectPrefix, InHandInv, InTx, TypeOK
  <2> QED
    BY <2>1, <2>2, <1>w DEF ObjectPrefix, StoredBelow, HistoryInv, InHandInv, Loop
<1>8. CASE ParseFails(w)
  <2>1. /\ pc[w] = "getTx" /\ pc'[w] = "tx" /\ mem'[w].stopped /\ UNCHANGED txs
        /\ mem'[w].todo = mem[w].todo /\ mem'[w].latestTxSig = mem[w].latestTxSig
    BY <1>8, <1>w DEF ParseFails, MemType, dbVars
  <2> QED
    BY <2>1, <1>w DEF ObjectPrefix, StoredBelow, HistoryInv, InHandInv, Loop, InTx
<1>9. CASE Upsert(w) \/ Link(w)
  <2>1. /\ mem' = mem /\ pc[w] \in InTx /\ pc'[w] \in InTx /\ mem[w].cur \in Sigs
        /\ txs'[mem[w].cur] > 0
    BY <1>9, <1>w DEF Upsert, Link, InTx, TypeOK, ObjectPrefix, InHandInv
  <2> QED
    BY <2>1, <1>w DEF ObjectPrefix, StoredBelow, HistoryInv, InHandInv, Loop, TypeOK
<1>10. CASE UpdateRow(w)
  <2>1. /\ pc[w] = "update" /\ pc'[w] = "tx" /\ UNCHANGED txs
        /\ mem'[w].stopped = mem[w].stopped
        /\ mem'[w].todo = mem[w].todo /\ mem'[w].latestTxSig = mem[w].latestTxSig
    BY <1>10, <1>w DEF UpdateRow, MemType
  <2> QED
    BY <2>1, <1>w DEF ObjectPrefix, StoredBelow, HistoryInv, InHandInv, Loop, InTx
<1>11. CASE EndBackfill(w)
  <2> DEFINE m == [mem[w] EXCEPT
                     !.checkedUpToSlot = Later(mem[w].checkedUpToSlot, mem[w].latestFinalizedSlot),
                     !.backfilling = FALSE]
  <2>1. Leave(w, m) /\ m \in MemType /\ m.latestTxSig = mem[w].latestTxSig
    BY <1>11, <1>w DEF EndBackfill, MemType, Later
  <2> QED
    BY <2>1, <1>m
<1> QED
  BY <1>1, <1>2, <1>3, <1>4, <1>5, <1>6, <1>7, <1>8, <1>9, <1>10, <1>11 DEF Backfill

\* A step of an object leaves the others as they are.
LEMMA OtherObjects ==
  ASSUME TypeOK, NEW w \in Insts, Poll(w) \/ Backfill(w) \/ CallThrows(w),
         NEW v \in Insts \ {w}
  PROVE  mem'[v] = mem[v] /\ pc'[v] = pc[v]
BY DEF TypeOK, Poll, Backfill, GetSlot, FetchHistory, HistoryError, MarkFailed, SkipStopped,
   ReadRow, ReadTx, GetTx, ParseFails, Upsert, Link, Push, UpdateRow, EndBackfill,
   CallThrows, Leave

\* A signature is written to a row only when everything up to it is stored.
LEMMA RowPrefixObjectStep ==
  ASSUME PrefixInv, NEW w \in Insts, Poll(w) \/ Backfill(w) \/ CallThrows(w),
         \A i \in Sigs : txs[i] > 0 => txs'[i] > 0, NEW a \in Accts
  PROVE  RowPrefix(a)'
<1>t. TypeOK /\ AcctOf[w] \in Accts /\ row \in [Accts -> RowType] /\ RowPrefix(a)
  BY ProcessAssumption DEF PrefixInv, TypeOK
<1>1. UNCHANGED mgr
  BY DEF Poll, Backfill, GetSlot, FetchHistory, HistoryError, MarkFailed, SkipStopped,
     ReadRow, ReadTx, GetTx, ParseFails, Upsert, Link, Push, UpdateRow, EndBackfill,
     CallThrows, mgrVars
<1>2. CASE UpdateRow(w) /\ a = AcctOf[w]
  <2>1. /\ pc[w] = "update" /\ UNCHANGED txs /\ row'[a].latestTxSig = mem[w].cur
    BY <1>2, <1>t DEF UpdateRow, RowType
  <2>2. InHandInv(w) /\ mem[w].cur \in Sigs
    BY <2>1 DEF PrefixInv, ObjectPrefix, TypeOK, InTx
  <2>3. StoredBelow(a, mem[w].cur)
    BY <2>1, <2>2, <1>2 DEF InHandInv, StoredBelow, Sigs, InTx
  <2> QED
    BY <2>1, <2>3, <1>1, <1>t DEF RowPrefix, StoredBelow
<1>3. CASE ~(UpdateRow(w) /\ a = AcctOf[w])
  <2>1. row'[a].latestTxSig = row[a].latestTxSig
    <3>1. CASE MarkFailed(w)
      BY <3>1, <1>t DEF MarkFailed, RowType
    <3>2. CASE UpdateRow(w)
      BY <3>2, <1>3, <1>t DEF UpdateRow
    <3>3. CASE EndBackfill(w)
      BY <3>3, <1>t DEF EndBackfill, RowType
    <3>4. CASE UNCHANGED row
      BY <3>4
    <3> QED
      BY <3>1, <3>2, <3>3, <3>4 DEF Poll, Backfill, GetSlot, FetchHistory, HistoryError,
         SkipStopped, ReadRow, ReadTx, GetTx, ParseFails, Upsert, Link, Push, CallThrows,
         dbVars
  <2> QED
    BY <2>1, <1>1, <1>t DEF RowPrefix, StoredBelow
<1> QED
  BY <1>2, <1>3

\* Nothing is before the first transaction.
LEMMA NothingBelowZero == \A a \in Accts : StoredBelow(a, 0)
BY ChainAssumption DEF StoredBelow, Sigs

\* stop() takes nothing from an object but its right to go on.
LEMMA StoppedPrefix ==
  ASSUME PrefixInv, NEW S, NEW w \in Insts, UNCHANGED txs,
         pc'[w] = Dropped(S)[w], mem'[w] = Stopped(S)[w]
  PROVE  ObjectPrefix(w)'
<1>w. mem[w] \in MemType /\ ObjectPrefix(w) /\ TypeOK
  BY DEF PrefixInv, TypeOK
<1>1. CASE w \notin S
  BY <1>1, <1>w, ObjectPrefixFrame DEF Dropped, Stopped
<1>2. CASE w \in S /\ pc[w] = "idle"
  <2>1. pc'[w] \notin Loop /\ mem'[w].latestTxSig = 0
    BY <1>2 DEF Dropped, Stopped, BlankMem, Loop, InTx
  <2> QED
    BY <2>1, <1>w, ObjectPrefixRest
<1>3. CASE w \in S /\ pc[w] # "idle"
  <2>1. pc'[w] = pc[w] /\ mem'[w] = [mem[w] EXCEPT !.stopped = TRUE]
    BY <1>3 DEF Dropped, Stopped
  <2>2. /\ mem'[w].latestTxSig = mem[w].latestTxSig /\ mem'[w].todo = mem[w].todo
        /\ mem'[w].cur = mem[w].cur /\ mem'[w].stopped
    BY <2>1, <1>w DEF MemType
  <2> QED
    BY <2>1, <2>2, <1>w DEF ObjectPrefix, StoredBelow, HistoryInv, InHandInv
<1> QED
  BY <1>1, <1>2, <1>3

\* getWatchers hands the latestTxSig of a row to the object it starts.
LEMMA PrefixGetWatchersStep ==
  ASSUME PrefixInv, GetWatchers \/ GetWatchersThrows
  PROVE  /\ \A a \in Accts : RowPrefix(a)'
         /\ \A w \in Insts : ObjectPrefix(w)'
<1> USE DEF PrefixInv
<1>i. \A a \in Accts : IdleMgr.rows[a].latestTxSig = 0
  BY DEF IdleMgr, NoProgress
<1>w. /\ mem \in [Insts -> MemType] /\ pc \in [Insts -> PCs]
      /\ row \in [Accts -> RowType] /\ mgr \in MgrType
      /\ \A w \in Insts : AcctOf[w] \in Accts
  BY ProcessAssumption DEF TypeOK
<1>1. CASE SelectWatchers
  <2>1. UNCHANGED <<txs, row, pc, mem>>
    BY <1>1 DEF SelectWatchers, dbVars, objVars
  <2>2. \A a \in Accts : mgr'.rows[a].latestTxSig \in {0, row[a].latestTxSig}
    BY <1>1 DEF SelectWatchers, NoProgress
  <2>3. \A a \in Accts : RowPrefix(a)'
    BY <2>1, <2>2, NothingBelowZero DEF RowPrefix, StoredBelow
  <2> QED
    BY <2>1, <2>3, ObjectPrefixFrame
<1>2. ASSUME NEW a \in Accts, StopForReset(a)
      PROVE  /\ \A b \in Accts : RowPrefix(b)'
             /\ \A w \in Insts : ObjectPrefix(w)'
  <2> DEFINE S == {w \in watchers : AcctOf[w] = a}
  <2>1. /\ UNCHANGED <<txs, row>> /\ mgr'.rows = mgr.rows
        /\ mem' = Stopped(S) /\ pc' = Dropped(S)
    BY <1>2, <1>w DEF StopForReset, dbVars, MgrType
  <2>2. \A b \in Accts : RowPrefix(b)'
    BY <2>1 DEF RowPrefix, StoredBelow
  <2> QED
    BY <2>1, <2>2, StoppedPrefix
<1>3. ASSUME NEW a \in Accts, ResetRow(a)
      PROVE  /\ \A b \in Accts : RowPrefix(b)'
             /\ \A w \in Insts : ObjectPrefix(w)'
  <2>1. /\ UNCHANGED <<txs, pc, mem>> /\ mgr'.rows = mgr.rows
        /\ \A b \in Accts : row'[b].latestTxSig \in {0, row[b].latestTxSig}
    BY <1>3, <1>w DEF ResetRow, objVars, MgrType, RowType
  <2>2. \A b \in Accts : RowPrefix(b)'
    BY <2>1, NothingBelowZero DEF RowPrefix, StoredBelow
  <2> QED
    BY <2>1, <2>2, ObjectPrefixFrame
<1>4. ASSUME NEW new \in SUBSET Insts, StartAndStop(new)
      PROVE  /\ \A a \in Accts : RowPrefix(a)'
             /\ \A w \in Insts : ObjectPrefix(w)'
  <2> DEFINE S == {w \in watchers : AcctOf[w] \notin mgr.active}
  <2>1. UNCHANGED <<txs, row>> /\ mgr' = IdleMgr
    BY <1>4 DEF StartAndStop, dbVars
  <2>2. \A a \in Accts : RowPrefix(a)'
    BY <2>1, <1>i, NothingBelowZero DEF RowPrefix, StoredBelow
  <2>3. ASSUME NEW w \in new PROVE ObjectPrefix(w)'
    <3>1. /\ pc'[w] = "slot"
          /\ mem'[w].latestTxSig = mgr.rows[AcctOf[w]].latestTxSig
      BY <1>4 DEF StartAndStop, BlankMem
    <3>2. StoredBelow(AcctOf[w], mgr.rows[AcctOf[w]].latestTxSig)
      BY <1>w DEF RowPrefix
    <3> QED
      BY <3>1, <3>2, <2>1 DEF ObjectPrefix, StoredBelow, HistoryInv, InHandInv, Loop, InTx
  <2>4. ASSUME NEW w \in Insts \ new PROVE ObjectPrefix(w)'
    <3>1. pc'[w] = Dropped(S)[w] /\ mem'[w] = Stopped(S)[w]
      BY <1>4 DEF StartAndStop
    <3> QED
      BY <3>1, <2>1, StoppedPrefix
  <2> QED
    BY <2>2, <2>3, <2>4
<1>5. CASE GetWatchersThrows
  <2>1. UNCHANGED <<txs, row, pc, mem>> /\ mgr'.rows = IdleMgr.rows
    BY <1>5 DEF GetWatchersThrows, dbVars, objVars, IdleMgr
  <2>2. \A a \in Accts : RowPrefix(a)'
    BY <2>1, <1>i, NothingBelowZero DEF RowPrefix, StoredBelow
  <2> QED
    BY <2>1, <2>2, ObjectPrefixFrame
<1> QED
  BY <1>1, <1>2, <1>3, <1>4, <1>5 DEF GetWatchers

\* A restart forgets the objects, not the rows.
LEMMA PrefixSurroundingsStep ==
  ASSUME PrefixInv,
         \/ Confirm \/ Finalize \/ Restart
         \/ \E a \in Accts, status \in {"active", "disabled"} : SetStatus(a, status)
  PROVE  /\ \A a \in Accts : RowPrefix(a)'
         /\ \A w \in Insts : ObjectPrefix(w)'
<1> USE DEF PrefixInv
<1>1. CASE Confirm \/ Finalize
  <2>1. UNCHANGED <<txs, row, pc, mem, mgr>>
    BY <1>1 DEF Confirm, Finalize, dbVars, objVars, mgrVars
  <2> QED
    BY <2>1, ObjectPrefixFrame DEF RowPrefix, StoredBelow
<1>2. CASE Restart
  <2>1. UNCHANGED <<txs, row>> /\ mgr' = IdleMgr
    BY <1>2 DEF Restart, dbVars
  <2>2. \A w \in Insts : pc'[w] = "free" /\ mem'[w].latestTxSig = 0
    BY <1>2 DEF Restart, BlankMem
  <2>3. \A a \in Accts : IdleMgr.rows[a].latestTxSig = 0
    BY DEF IdleMgr, NoProgress
  <2>4. \A a \in Accts : RowPrefix(a)'
    BY <2>1, <2>3, NothingBelowZero DEF RowPrefix, StoredBelow
  <2>5. \A w \in Insts : ObjectPrefix(w)'
    BY <2>1, <2>2, ObjectPrefixRest DEF Loop, InTx
  <2> QED
    BY <2>4, <2>5
<1>3. ASSUME NEW b \in Accts, NEW status, SetStatus(b, status)
      PROVE  /\ \A a \in Accts : RowPrefix(a)'
             /\ \A w \in Insts : ObjectPrefix(w)'
  <2>1. UNCHANGED <<txs, pc, mem, mgr>> /\ \A a \in Accts : row'[a].latestTxSig = row[a].latestTxSig
    BY <1>3 DEF SetStatus, objVars, mgrVars, TypeOK, RowType
  <2> QED
    BY <2>1, ObjectPrefixFrame DEF RowPrefix, StoredBelow
<1> QED
  BY <1>1, <1>2, <1>3

\* The rows, the objects and what getWatchers read of the rows never point past a
\* transaction that is missing.
THEOREM PrefixInvariant ==
  ASSUME "rpcLoss" \notin Faults
  PROVE  Spec => []PrefixInv
<1>1. Init => PrefixInv
  <2> SUFFICES ASSUME Init PROVE PrefixInv
    OBVIOUS
  <2>1. TypeOK
    BY InitTypeOK
  <2>2. \A a \in Accts : row[a].latestTxSig = 0 /\ mgr.rows[a].latestTxSig = 0
    BY DEF Init, IdleMgr, NoProgress
  <2>3. \A w \in Insts : pc[w] = "free" /\ mem[w].latestTxSig = 0 /\ AcctOf[w] \in Accts
    BY ProcessAssumption DEF Init, BlankMem
  <2> QED
    BY <2>1, <2>2, <2>3, NothingBelowZero
       DEF PrefixInv, RowPrefix, ObjectPrefix, HistoryInv, InHandInv, Loop, InTx
<1>2. PrefixInv /\ [Next]_vars => PrefixInv'
  <2> SUFFICES ASSUME PrefixInv, [Next]_vars PROVE PrefixInv'
    OBVIOUS
  <2>1. TypeOK /\ TypeOK' /\ \A i \in Sigs : txs[i] > 0 => txs'[i] > 0
    BY TypeStep, TxsKept DEF PrefixInv
  <2>2. ASSUME NEW w \in Insts, Poll(w) \/ Backfill(w) \/ CallThrows(w)
        PROVE  PrefixInv'
    <3>1. ObjectPrefix(w)'
      BY <2>1, <2>2, ObjectPrefixStep
    <3>2. \A v \in Insts \ {w} : ObjectPrefix(v)'
      BY <2>1, <2>2, OtherObjects, ObjectPrefixFrame DEF PrefixInv
    <3>3. \A a \in Accts : RowPrefix(a)'
      BY <2>1, <2>2, RowPrefixObjectStep
    <3> QED
      BY <2>1, <3>1, <3>2, <3>3 DEF PrefixInv
  <2>3. CASE GetWatchers \/ GetWatchersThrows
    BY <2>1, <2>3, PrefixGetWatchersStep DEF PrefixInv
  <2>4. CASE \/ Confirm \/ Finalize \/ Restart
             \/ \E a \in Accts, status \in {"active", "disabled"} : SetStatus(a, status)
    BY <2>1, <2>4, PrefixSurroundingsStep DEF PrefixInv
  <2>5. CASE UNCHANGED vars
    <3>1. UNCHANGED <<txs, row, pc, mem, mgr>>
      BY <2>5 DEF vars, dbVars, objVars, mgrVars
    <3> QED
      BY <3>1, <2>1, ObjectPrefixFrame DEF PrefixInv, RowPrefix, StoredBelow
  <2> QED
    BY <2>2, <2>3, <2>4, <2>5 DEF Next
<1> QED
  BY <1>1, <1>2, PTL DEF Spec

\* Whatever rejects, crashes, fails to parse, is disabled or is upgraded, a restart
\* never resumes past a transaction that is not stored - as long as the RPC node
\* leaves nothing out of the histories it returns.
THEOREM LatestIsPrefixCorrect ==
  ASSUME "rpcLoss" \notin Faults
  PROVE  Spec => []LatestIsPrefix
<1>1. PrefixInv => LatestIsPrefix
  BY DEF PrefixInv, RowPrefix, StoredBelow, LatestIsPrefix
<1> QED
  BY <1>1, PrefixInvariant, PTL

-------------------------------------------------------------------------------
(* FirstIsEarliest.                                                        *)

\* A firstTxSig that is written is never set back, not even by a reset.
LEMMA FirstKept ==
  ASSUME TypeOK, [Next]_vars, NEW a \in Accts, row'[a].firstTxSig = 0
  PROVE  row[a].firstTxSig = 0
<1>t. /\ row \in [Accts -> RowType] /\ mem \in [Insts -> MemType]
      /\ \A w \in Insts : pc[w] = "update" => mem[w].cur # 0
  BY ChainAssumption DEF TypeOK, InTx, Sigs
<1>1. ASSUME NEW w \in Insts, UpdateRow(w) PROVE row[a].firstTxSig = 0
  <2>1. CASE a = AcctOf[w]
    <3>1. row'[a].firstTxSig = (IF mem[w].first = 0 THEN mem[w].cur ELSE mem[w].first)
      BY <1>1, <2>1, <1>t DEF UpdateRow, RowType
    <3> QED
      BY <1>1, <1>t, <3>1 DEF UpdateRow
  <2>2. CASE a # AcctOf[w]
    BY <1>1, <2>2, <1>t DEF UpdateRow
  <2> QED
    BY <2>1, <2>2
<1>2. ASSUME NEW w \in Insts, MarkFailed(w) \/ EndBackfill(w) PROVE row[a].firstTxSig = 0
  BY <1>2, <1>t DEF MarkFailed, EndBackfill, RowType
<1>3. ASSUME NEW b \in Accts, NEW status, ResetRow(b) \/ SetStatus(b, status)
      PROVE  row[a].firstTxSig = 0
  BY <1>3, <1>t DEF ResetRow, SetStatus, RowType
<1>4. CASE UNCHANGED row
  BY <1>4
<1> QED
  BY <1>1, <1>2, <1>3, <1>4 DEF Next, vars, dbVars, Confirm, Finalize, Poll, Backfill, GetSlot,
     FetchHistory, HistoryError, SkipStopped, ReadRow, ReadTx, GetTx, ParseFails, Upsert,
     Link, Push, CallThrows, GetWatchers, SelectWatchers, StopForReset, StartAndStop,
     GetWatchersThrows, Restart

\* An object that does not move keeps its part, whatever another one writes to the
\* row of their account.
LEMMA ObjectFirstFrame ==
  ASSUME NEW w \in Insts, ObjectFirst(w), mem'[w] = mem[w], pc'[w] = pc[w],
         row'[AcctOf[w]].firstTxSig = 0 => row[AcctOf[w]].firstTxSig = 0
  PROVE  ObjectFirst(w)'
BY DEF ObjectFirst, TodoFromFirst, FirstInHand, Earliest

\* An object outside the loop over the history only has to start at the beginning.
LEMMA ObjectFirstRest ==
  ASSUME NEW w \in Insts, ObjectFirst(w), pc'[w] \notin Loop,
         mem'[w].latestTxSig \in {0, mem[w].latestTxSig},
         row'[AcctOf[w]].firstTxSig = 0 => row[AcctOf[w]].firstTxSig = 0
  PROVE  ObjectFirst(w)'
BY DEF ObjectFirst, TodoFromFirst, Loop

\* An object that reads its row finds a firstTxSig, or has the first transaction of
\* the account in hand.
LEMMA ReadRowFirst ==
  ASSUME FirstInv, NEW w \in Insts, NEW i \in Sigs, ReadRow(w, i)
  PROVE  Earliest(AcctOf[w], FirstInHand(w)')
<1>w. /\ mem[w] \in MemType /\ mem \in [Insts -> MemType] /\ AcctOf[w] \in Accts
      /\ RowFirst(AcctOf[w]) /\ ObjectFirst(w) /\ row[AcctOf[w]] \in RowType
  BY ProcessAssumption DEF FirstInv, TypeOK
<1>1. /\ mem'[w].cur = i /\ mem'[w].first = row[AcctOf[w]].firstTxSig
      /\ pc[w] = "tx" /\ ~mem[w].stopped /\ i \in mem[w].todo
      /\ \A j \in mem[w].todo : i <= j
  BY <1>w DEF ReadRow, MemType
<1>2. CASE row[AcctOf[w]].firstTxSig = 0
  <2>1. TodoFromFirst(w)
    BY <1>2, <1>w DEF ObjectFirst
  <2>2. AcctOf[w] \in Mentions[i]
    BY <1>1, <2>1 DEF TodoFromFirst
  <2>3. ASSUME NEW j \in Sigs, AcctOf[w] \in Mentions[j] PROVE i <= j
    BY <1>1, <2>1, <2>3 DEF TodoFromFirst, Sigs
  <2> QED
    BY <1>1, <1>2, <2>2, <2>3 DEF Earliest, FirstInHand
<1>3. CASE row[AcctOf[w]].firstTxSig # 0
  BY <1>1, <1>3, <1>w DEF RowFirst, FirstInHand
<1> QED
  BY <1>2, <1>3

\* A step of an object keeps its own part of the invariant.
LEMMA ObjectFirstStep ==
  ASSUME FirstInv, "rpcLoss" \notin Faults, NEW w \in Insts,
         Poll(w) \/ Backfill(w) \/ CallThrows(w),
         row'[AcctOf[w]].firstTxSig = 0 => row[AcctOf[w]].firstTxSig = 0
  PROVE  ObjectFirst(w)'
<1>w. /\ mem[w] \in MemType /\ mem \in [Insts -> MemType] /\ pc \in [Insts -> PCs]
      /\ ObjectFirst(w) /\ AcctOf[w] \in Accts /\ row \in [Accts -> RowType]
      /\ pc[w] \in InTx => mem[w].cur \in Sigs
  BY ProcessAssumption DEF FirstInv, TypeOK
<1>m. ASSUME NEW m \in MemType, Leave(w, m), m.latestTxSig = mem[w].latestTxSig
      PROVE  ObjectFirst(w)'
  <2>1. pc'[w] \notin Loop
    BY <1>m, <1>w DEF Leave, Rest, Loop, InTx
  <2>2. mem'[w].latestTxSig \in {0, mem[w].latestTxSig}
    BY <1>m, <1>w DEF Leave, Settle, BlankMem, MemType
  <2> QED
    BY <2>1, <2>2, <1>w, ObjectFirstRest
<1>1. CASE Poll(w) \/ GetSlot(w)
  <2>1. pc'[w] \notin Loop /\ mem'[w].latestTxSig = mem[w].latestTxSig
    BY <1>1, <1>w DEF Poll, GetSlot, Loop, InTx, MemType
  <2> QED
    BY <2>1, <1>w, ObjectFirstRest
<1>2. ASSUME NEW h \in SUBSET History(w), FetchHistory(w, h)
      PROVE  ObjectFirst(w)'
  <2>1. /\ pc'[w] = "tx" /\ mem'[w].todo = History(w) /\ UNCHANGED row
        /\ mem'[w].latestTxSig = mem[w].latestTxSig
    BY <1>2, <1>w DEF FetchHistory, MemType, dbVars
  <2>2. ASSUME NEW j \in History(w), NEW i \in Sigs, AcctOf[w] \in Mentions[i], i < j,
               mem[w].latestTxSig = 0
        PROVE  i \in History(w)
    <3>1. j \in Sigs /\ SlotOf[j] <= confirmedSlot
      BY DEF History, Observable
    <3>2. SlotOf[i] <= confirmedSlot /\ i > 0
      BY <2>2, <3>1, ChainAssumption DEF FirstInv, TypeOK, Slots, Sigs
    <3> QED
      BY <3>2, <2>2 DEF History, Observable
  <2>3. \A j \in History(w) : AcctOf[w] \in Mentions[j]
    BY DEF History, Observable
  <2> QED
    BY <2>1, <2>2, <2>3, <1>w DEF ObjectFirst, TodoFromFirst, InTx
<1>3. CASE HistoryError(w)
  <2>1. CASE Leave(w, [mem[w] EXCEPT !.errorCount = mem[w].errorCount + 1])
    BY <2>1, <1>m, <1>w DEF MemType
  <2>2. CASE pc' = [pc EXCEPT ![w] = "fail"] /\ mem'[w].latestTxSig = mem[w].latestTxSig
    BY <2>2, <1>w, ObjectFirstRest DEF Loop, InTx
  <2> QED
    BY <1>3, <2>1, <2>2, <1>w DEF HistoryError, MemType
<1>4. CASE MarkFailed(w) \/ CallThrows(w)
  BY <1>4, <1>m, <1>w DEF MarkFailed, CallThrows
<1>5. CASE SkipStopped(w)
  <2>1. /\ pc'[w] = "tx" /\ mem'[w].todo = {} /\ UNCHANGED row
        /\ mem'[w].latestTxSig = mem[w].latestTxSig
    BY <1>5, <1>w DEF SkipStopped, MemType, dbVars
  <2> QED
    BY <2>1, <1>w DEF ObjectFirst, TodoFromFirst, InTx
<1>6. ASSUME NEW i \in Sigs, ReadRow(w, i)
      PROVE  ObjectFirst(w)'
  <2>1. /\ pc'[w] = "readTx" /\ UNCHANGED row
        /\ mem'[w].latestTxSig = mem[w].latestTxSig
    BY <1>6, <1>w DEF ReadRow, MemType, dbVars
  <2> QED
    BY <1>6, <2>1, <1>w, ReadRowFirst DEF ObjectFirst, TodoFromFirst
<1>7. CASE ReadTx(w) \/ GetTx(w) \/ Push(w) \/ Upsert(w) \/ Link(w)
  <2>1. mem' = mem /\ UNCHANGED row /\ pc[w] \in InTx /\ pc'[w] # "tx"
    BY <1>7, <1>w DEF ReadTx, GetTx, Push, Upsert, Link, InTx, dbVars
  <2> QED
    BY <2>1, <1>w DEF ObjectFirst, TodoFromFirst, FirstInHand, Earliest
<1>8. CASE ParseFails(w)
  <2>1. /\ pc'[w] = "tx" /\ mem'[w].stopped /\ UNCHANGED row
        /\ mem'[w].latestTxSig = mem[w].latestTxSig
    BY <1>8, <1>w DEF ParseFails, MemType, dbVars
  <2> QED
    BY <2>1, <1>w DEF ObjectFirst, TodoFromFirst, InTx
<1>9. CASE UpdateRow(w)
  <2>1. pc[w] = "update" /\ pc'[w] = "tx"
    BY <1>9, <1>w DEF UpdateRow
  <2>2. row'[AcctOf[w]].firstTxSig # 0
    BY <1>9, <1>w, ChainAssumption DEF UpdateRow, RowType, InTx, Sigs
  <2> QED
    BY <2>1, <2>2 DEF ObjectFirst, InTx
<1>10. CASE EndBackfill(w)
  <2> DEFINE m == [mem[w] EXCEPT
                     !.checkedUpToSlot = Later(mem[w].checkedUpToSlot, mem[w].latestFinalizedSlot),
                     !.backfilling = FALSE]
  <2>1. Leave(w, m) /\ m \in MemType /\ m.latestTxSig = mem[w].latestTxSig
    BY <1>10, <1>w DEF EndBackfill, MemType, Later
  <2> QED
    BY <2>1, <1>m
<1> QED
  BY <1>1, <1>2, <1>3, <1>4, <1>5, <1>6, <1>7, <1>8, <1>9, <1>10 DEF Backfill

\* What an object writes to firstTxSig is the first transaction of its account,
\* however long ago it read the row.
LEMMA RowFirstObjectStep ==
  ASSUME FirstInv, NEW w \in Insts, Poll(w) \/ Backfill(w) \/ CallThrows(w), NEW a \in Accts
  PROVE  RowFirst(a)'
<1>t. /\ TypeOK /\ AcctOf[w] \in Accts /\ row \in [Accts -> RowType] /\ RowFirst(a)
      /\ ObjectFirst(w)
  BY ProcessAssumption DEF FirstInv, TypeOK
<1>1. UNCHANGED mgr
  BY DEF Poll, Backfill, GetSlot, FetchHistory, HistoryError, MarkFailed, SkipStopped,
     ReadRow, ReadTx, GetTx, ParseFails, Upsert, Link, Push, UpdateRow, EndBackfill,
     CallThrows, mgrVars
<1>2. CASE UpdateRow(w) /\ a = AcctOf[w]
  <2>1. pc[w] = "update" /\ row'[a].firstTxSig = FirstInHand(w)
    BY <1>2, <1>t DEF UpdateRow, RowType, FirstInHand
  <2>2. Earliest(a, FirstInHand(w))
    BY <2>1, <1>2, <1>t DEF ObjectFirst, InTx
  <2>3. FirstInHand(w) # 0
    BY <2>2, ChainAssumption DEF Earliest, Sigs
  <2> QED
    BY <2>1, <2>2, <2>3 DEF RowFirst, Earliest
<1>3. CASE ~(UpdateRow(w) /\ a = AcctOf[w])
  <2>1. /\ row'[a].latestTxSig = row[a].latestTxSig
        /\ row'[a].firstTxSig = row[a].firstTxSig
    <3>1. CASE MarkFailed(w)
      BY <3>1, <1>t DEF MarkFailed, RowType
    <3>2. CASE UpdateRow(w)
      BY <3>2, <1>3, <1>t DEF UpdateRow
    <3>3. CASE EndBackfill(w)
      BY <3>3, <1>t DEF EndBackfill, RowType
    <3>4. CASE UNCHANGED row
      BY <3>4
    <3> QED
      BY <3>1, <3>2, <3>3, <3>4 DEF Poll, Backfill, GetSlot, FetchHistory, HistoryError,
         SkipStopped, ReadRow, ReadTx, GetTx, ParseFails, Upsert, Link, Push, CallThrows,
         dbVars
  <2> QED
    BY <2>1, <1>1, <1>t DEF RowFirst, Earliest
<1> QED
  BY <1>2, <1>3

\* stop() does not move an object on.
LEMMA StoppedFirst ==
  ASSUME FirstInv, NEW S, NEW w \in Insts, UNCHANGED row,
         pc'[w] = Dropped(S)[w], mem'[w] = Stopped(S)[w]
  PROVE  ObjectFirst(w)'
<1>w. mem[w] \in MemType /\ ObjectFirst(w)
  BY DEF FirstInv, TypeOK
<1>1. CASE w \notin S
  BY <1>1, <1>w, ObjectFirstFrame DEF Dropped, Stopped
<1>2. CASE w \in S /\ pc[w] = "idle"
  <2>1. pc'[w] \notin Loop /\ mem'[w].latestTxSig = 0
    BY <1>2 DEF Dropped, Stopped, BlankMem, Loop, InTx
  <2> QED
    BY <2>1, <1>w, ObjectFirstRest
<1>3. CASE w \in S /\ pc[w] # "idle"
  <2>1. pc'[w] = pc[w] /\ mem'[w] = [mem[w] EXCEPT !.stopped = TRUE]
    BY <1>3 DEF Dropped, Stopped
  <2>2. /\ mem'[w].latestTxSig = mem[w].latestTxSig /\ mem'[w].stopped
        /\ mem'[w].cur = mem[w].cur /\ mem'[w].first = mem[w].first
    BY <2>1, <1>w DEF MemType
  <2> QED
    BY <2>1, <2>2, <1>w DEF ObjectFirst, TodoFromFirst, FirstInHand, Earliest
<1> QED
  BY <1>1, <1>2, <1>3

\* getWatchers starts no object in the middle of an account that has no firstTxSig.
LEMMA FirstGetWatchersStep ==
  ASSUME FirstInv, GetWatchers \/ GetWatchersThrows
  PROVE  /\ \A a \in Accts : RowFirst(a)'
         /\ \A w \in Insts : ObjectFirst(w)'
<1>i. \A a \in Accts : IdleMgr.rows[a].latestTxSig = 0
  BY DEF IdleMgr, NoProgress
<1>w. /\ mem \in [Insts -> MemType] /\ pc \in [Insts -> PCs]
      /\ row \in [Accts -> RowType] /\ mgr \in MgrType
      /\ \A w \in Insts : AcctOf[w] \in Accts /\ ObjectFirst(w)
      /\ \A a \in Accts : RowFirst(a)
  BY ProcessAssumption DEF FirstInv, TypeOK
<1>1. CASE SelectWatchers
  <2>1. UNCHANGED <<row, pc, mem>>
    BY <1>1 DEF SelectWatchers, dbVars, objVars
  <2>2. \A a \in Accts : mgr'.rows[a].latestTxSig \in {0, row[a].latestTxSig}
    BY <1>1 DEF SelectWatchers, NoProgress
  <2>3. \A a \in Accts : RowFirst(a)'
    BY <2>1, <2>2, <1>w DEF RowFirst, Earliest
  <2> QED
    BY <2>1, <2>3, <1>w, ObjectFirstFrame
<1>2. ASSUME NEW a \in Accts, StopForReset(a)
      PROVE  /\ \A b \in Accts : RowFirst(b)'
             /\ \A w \in Insts : ObjectFirst(w)'
  <2> DEFINE S == {w \in watchers : AcctOf[w] = a}
  <2>1. /\ UNCHANGED row /\ mgr'.rows = mgr.rows
        /\ mem' = Stopped(S) /\ pc' = Dropped(S)
    BY <1>2, <1>w DEF StopForReset, dbVars, MgrType
  <2>2. \A b \in Accts : RowFirst(b)'
    BY <2>1, <1>w DEF RowFirst, Earliest
  <2> QED
    BY <2>1, <2>2, StoppedFirst
<1>3. ASSUME NEW a \in Accts, ResetRow(a)
      PROVE  /\ \A b \in Accts : RowFirst(b)'
             /\ \A w \in Insts : ObjectFirst(w)'
  <2>1. /\ UNCHANGED <<pc, mem>> /\ mgr'.rows = mgr.rows
        /\ \A b \in Accts : /\ row'[b].latestTxSig \in {0, row[b].latestTxSig}
                            /\ row'[b].firstTxSig = row[b].firstTxSig
    BY <1>3, <1>w DEF ResetRow, objVars, MgrType, RowType
  <2>2. \A b \in Accts : RowFirst(b)'
    BY <2>1, <1>w DEF RowFirst, Earliest
  <2> QED
    BY <2>1, <2>2, <1>w, ObjectFirstFrame
<1>4. ASSUME NEW new \in SUBSET Insts, StartAndStop(new)
      PROVE  /\ \A a \in Accts : RowFirst(a)'
             /\ \A w \in Insts : ObjectFirst(w)'
  <2> DEFINE S == {w \in watchers : AcctOf[w] \notin mgr.active}
  <2>1. UNCHANGED row /\ mgr' = IdleMgr
    BY <1>4 DEF StartAndStop, dbVars
  <2>2. \A a \in Accts : RowFirst(a)'
    BY <2>1, <1>i, <1>w DEF RowFirst, Earliest
  <2>3. ASSUME NEW w \in new PROVE ObjectFirst(w)'
    <3>1. /\ pc'[w] = "slot"
          /\ mem'[w].latestTxSig = mgr.rows[AcctOf[w]].latestTxSig
      BY <1>4 DEF StartAndStop, BlankMem
    <3>2. row[AcctOf[w]].firstTxSig = 0 => mgr.rows[AcctOf[w]].latestTxSig = 0
      BY <1>w DEF RowFirst
    <3> QED
      BY <3>1, <3>2, <2>1 DEF ObjectFirst, TodoFromFirst, InTx
  <2>4. ASSUME NEW w \in Insts \ new PROVE ObjectFirst(w)'
    <3>1. pc'[w] = Dropped(S)[w] /\ mem'[w] = Stopped(S)[w]
      BY <1>4 DEF StartAndStop
    <3> QED
      BY <3>1, <2>1, StoppedFirst
  <2> QED
    BY <2>2, <2>3, <2>4
<1>5. CASE GetWatchersThrows
  <2>1. UNCHANGED <<row, pc, mem>> /\ mgr'.rows = IdleMgr.rows
    BY <1>5 DEF GetWatchersThrows, dbVars, objVars, IdleMgr
  <2>2. \A a \in Accts : RowFirst(a)'
    BY <2>1, <1>i, <1>w DEF RowFirst, Earliest
  <2> QED
    BY <2>1, <2>2, <1>w, ObjectFirstFrame
<1> QED
  BY <1>1, <1>2, <1>3, <1>4, <1>5 DEF GetWatchers

\* Neither does a restart, nor the operator.
LEMMA FirstSurroundingsStep ==
  ASSUME FirstInv,
         \/ Confirm \/ Finalize \/ Restart
         \/ \E a \in Accts, status \in {"active", "disabled"} : SetStatus(a, status)
  PROVE  /\ \A a \in Accts : RowFirst(a)'
         /\ \A w \in Insts : ObjectFirst(w)'
<1>w. /\ row \in [Accts -> RowType]
      /\ \A w \in Insts : AcctOf[w] \in Accts /\ ObjectFirst(w)
      /\ \A a \in Accts : RowFirst(a)
  BY ProcessAssumption DEF FirstInv, TypeOK
<1>1. CASE Confirm \/ Finalize
  <2>1. UNCHANGED <<row, pc, mem, mgr>>
    BY <1>1 DEF Confirm, Finalize, dbVars, objVars, mgrVars
  <2> QED
    BY <2>1, <1>w, ObjectFirstFrame DEF RowFirst, Earliest
<1>2. CASE Restart
  <2>1. UNCHANGED row /\ mgr' = IdleMgr
    BY <1>2 DEF Restart, dbVars
  <2>2. \A w \in Insts : pc'[w] = "free" /\ mem'[w].latestTxSig = 0
    BY <1>2 DEF Restart, BlankMem
  <2>3. \A a \in Accts : IdleMgr.rows[a].latestTxSig = 0
    BY DEF IdleMgr, NoProgress
  <2>4. \A a \in Accts : RowFirst(a)'
    BY <2>1, <2>3, <1>w DEF RowFirst, Earliest
  <2>5. \A w \in Insts : ObjectFirst(w)'
    BY <2>1, <2>2, <1>w, ObjectFirstRest DEF Loop, InTx
  <2> QED
    BY <2>4, <2>5
<1>3. ASSUME NEW b \in Accts, NEW status, SetStatus(b, status)
      PROVE  /\ \A a \in Accts : RowFirst(a)'
             /\ \A w \in Insts : ObjectFirst(w)'
  <2>1. /\ UNCHANGED <<pc, mem, mgr>>
        /\ \A a \in Accts : /\ row'[a].latestTxSig = row[a].latestTxSig
                            /\ row'[a].firstTxSig = row[a].firstTxSig
    BY <1>3, <1>w DEF SetStatus, objVars, mgrVars, RowType
  <2> QED
    BY <2>1, <1>w, ObjectFirstFrame DEF RowFirst, Earliest
<1> QED
  BY <1>1, <1>2, <1>3

\* As long as a row has no firstTxSig, it, what getWatchers read of it and the
\* objects of its account start at the first transaction.
THEOREM FirstInvariant ==
  ASSUME "rpcLoss" \notin Faults
  PROVE  Spec => []FirstInv
<1>1. Init => FirstInv
  <2> SUFFICES ASSUME Init PROVE FirstInv
    OBVIOUS
  <2>1. TypeOK
    BY InitTypeOK
  <2>2. \A a \in Accts : /\ row[a].latestTxSig = 0 /\ row[a].firstTxSig = 0
                         /\ mgr.rows[a].latestTxSig = 0
    BY DEF Init, IdleMgr, NoProgress
  <2>3. \A w \in Insts : pc[w] = "free" /\ mem[w].latestTxSig = 0
    BY DEF Init, BlankMem
  <2> QED
    BY <2>1, <2>2, <2>3 DEF FirstInv, RowFirst, ObjectFirst, TodoFromFirst, InTx
<1>2. FirstInv /\ [Next]_vars => FirstInv'
  <2> SUFFICES ASSUME FirstInv, [Next]_vars PROVE FirstInv'
    OBVIOUS
  <2>1. /\ TypeOK /\ TypeOK' /\ \A w \in Insts : AcctOf[w] \in Accts /\ ObjectFirst(w)
        /\ \A a \in Accts : row'[a].firstTxSig = 0 => row[a].firstTxSig = 0
    BY TypeStep, FirstKept, ProcessAssumption DEF FirstInv
  <2>2. ASSUME NEW w \in Insts, Poll(w) \/ Backfill(w) \/ CallThrows(w)
        PROVE  FirstInv'
    <3>1. ObjectFirst(w)'
      BY <2>1, <2>2, ObjectFirstStep
    <3>2. \A v \in Insts \ {w} : ObjectFirst(v)'
      BY <2>1, <2>2, OtherObjects, ObjectFirstFrame
    <3>3. \A a \in Accts : RowFirst(a)'
      BY <2>1, <2>2, RowFirstObjectStep
    <3> QED
      BY <2>1, <3>1, <3>2, <3>3 DEF FirstInv
  <2>3. CASE GetWatchers \/ GetWatchersThrows
    BY <2>1, <2>3, FirstGetWatchersStep DEF FirstInv
  <2>4. CASE \/ Confirm \/ Finalize \/ Restart
             \/ \E a \in Accts, status \in {"active", "disabled"} : SetStatus(a, status)
    BY <2>1, <2>4, FirstSurroundingsStep DEF FirstInv
  <2>5. CASE UNCHANGED vars
    <3>1. UNCHANGED <<row, pc, mem, mgr>>
      BY <2>5 DEF vars, dbVars, objVars, mgrVars
    <3> QED
      BY <3>1, <2>1, ObjectFirstFrame DEF FirstInv, RowFirst, Earliest
  <2> QED
    BY <2>2, <2>3, <2>4, <2>5 DEF Next
<1> QED
  BY <1>1, <1>2, PTL DEF Spec

\* firstTxSig is the first transaction of the account, although each update writes it
\* from a row that was read several awaits before and objects of one account overlap
\* - as long as the RPC node leaves nothing out of the histories it returns.
THEOREM FirstIsEarliestCorrect ==
  ASSUME "rpcLoss" \notin Faults
  PROVE  Spec => []FirstIsEarliest
<1>1. FirstInv => FirstIsEarliest
  BY DEF FirstInv, RowFirst, Earliest, FirstIsEarliest
<1> QED
  BY <1>1, FirstInvariant, PTL

-------------------------------------------------------------------------------
(* BackedUpInOrder.  Of all the steps only the write of a transaction and  *)
(* those of latestTxSig and firstTxSig are seen in the abstraction.        *)

\* What every other step leaves alone.
Unseen == UNCHANGED txs /\ \A a \in Accts : /\ row'[a].latestTxSig = row[a].latestTxSig
                                            /\ row'[a].firstTxSig = row[a].firstTxSig

\* What the abstraction says of an account that has been backed up to a transaction.
LEMMA ReachedSig ==
  ASSUME NEW a \in Accts, NEW i \in Sigs, a \in Mentions[i],
         \A j \in Sigs : a \in Mentions[j] /\ j < i => txs[j] > 0
  PROVE  Abstract!Reached(a, i)
BY DEF Abstract!Reached, Abstract!Of, Sigs

\* Nothing is backed up at first.
LEMMA InitAbstract == Init => Abstract!Init
<1> SUFFICES ASSUME Init PROVE Abstract!Init
  OBVIOUS
<1>1. \A i \in Sigs : ~(txs[i] > 0)
  BY DEF Init
<1>2. \A a \in Accts : row[a].latestTxSig = 0 /\ row[a].firstTxSig = 0
  BY DEF Init
<1> QED
  BY <1>1, <1>2 DEF Abstract!Init

\* What the abstraction does not see is a stutter of it.
LEMMA UnseenStutters == ASSUME Unseen PROVE UNCHANGED Abstract!vars
<1>1. {i \in Sigs : txs'[i] > 0} = {i \in Sigs : txs[i] > 0}
  BY DEF Unseen
<1>2. [a \in Accts |-> row'[a].latestTxSig] = [a \in Accts |-> row[a].latestTxSig]
  BY DEF Unseen
<1>3. [a \in Accts |-> row'[a].firstTxSig] = [a \in Accts |-> row[a].firstTxSig]
  BY DEF Unseen
<1> QED
  BY <1>1, <1>2, <1>3 DEF Abstract!vars

\* A transaction is written when all before it of the object's account are stored.
LEMMA UpsertStores ==
  ASSUME PrefixInv, NEW w \in Insts, Upsert(w)
  PROVE  Abstract!Next
<1>1. /\ pc[w] = "upsert" /\ mem[w].cur \in Sigs /\ codeVersion > 0
      /\ AcctOf[w] \in Accts /\ txs \in [Sigs -> 0..MaxVersion]
  <2>1. pc[w] = "upsert" /\ AcctOf[w] \in Accts
    BY ProcessAssumption DEF Upsert
  <2>2. mem[w].cur \in Sigs /\ txs \in [Sigs -> 0..MaxVersion]
    BY <2>1 DEF PrefixInv, TypeOK, InTx
  <2>3. codeVersion > 0
    BY ProcessAssumption DEF PrefixInv, TypeOK
  <2> QED
    BY <2>1, <2>2, <2>3
<1>2. PICK i \in Sigs : i = mem[w].cur
  BY <1>1
<1>3. /\ AcctOf[w] \in Mentions[i]
      /\ \A j \in Sigs : AcctOf[w] \in Mentions[j] /\ j < i => txs[j] > 0
  BY <1>1, <1>2 DEF PrefixInv, ObjectPrefix, InHandInv, InTx
<1>4. txs' = [txs EXCEPT ![i] = codeVersion] /\ row' = row
  BY <1>2 DEF Upsert
<1>5. Abstract!Reached(AcctOf[w], i)
  BY <1>1, <1>3, ReachedSig
<1>6. {j \in Sigs : txs'[j] > 0} = {j \in Sigs : txs[j] > 0} \cup {i}
  BY <1>1, <1>4
<1>7. Abstract!Store(i)
  BY <1>1, <1>4, <1>5, <1>6 DEF Abstract!Store
<1> QED
  BY <1>7 DEF Abstract!Next, Sigs

\* The row of an object moves to the stored transaction in hand, behind which nothing
\* is missing, and has the first transaction of the account from then on.
LEMMA UpdateRowAdvances ==
  ASSUME PrefixInv, FirstInv', NEW w \in Insts, UpdateRow(w)
  PROVE  Abstract!Next
<1> DEFINE a == AcctOf[w]
           e == row'[a].firstTxSig
<1>1. /\ pc[w] = "update" /\ mem[w].cur \in Sigs /\ a \in Accts
      /\ row \in [Accts -> RowType] /\ mem[w].first \in 0..NumTxs
  BY ProcessAssumption DEF UpdateRow, PrefixInv, TypeOK, InTx, MemType
<1>2. PICK i \in Sigs : i = mem[w].cur
  BY <1>1
<1>3. /\ a \in Mentions[i] /\ txs[i] > 0
      /\ \A j \in Sigs : a \in Mentions[j] /\ j < i => txs[j] > 0
  BY <1>1, <1>2 DEF PrefixInv, ObjectPrefix, InHandInv, InTx
<1>4. /\ txs' = txs /\ row'[a].latestTxSig = i
      /\ e = IF mem[w].first = 0 THEN i ELSE mem[w].first
      /\ \A b \in Accts \ {a} : row'[b] = row[b]
  BY <1>1, <1>2 DEF UpdateRow, RowType
<1>5. e # 0
  BY <1>1, <1>4, ChainAssumption DEF Sigs
<1>6. Earliest(a, e)
  BY <1>1, <1>5 DEF FirstInv, RowFirst, Earliest
<1> HIDE DEF a, e
<1>7. e \in Abstract!Of(a) /\ \A j \in Abstract!Of(a) : e <= j
  BY <1>6 DEF Earliest, Abstract!Of, Sigs
<1>8. [b \in Accts |-> row'[b].latestTxSig]
        = [[b \in Accts |-> row[b].latestTxSig] EXCEPT ![a] = i]
  BY <1>1, <1>4
<1>9. [b \in Accts |-> row'[b].firstTxSig]
        = [[b \in Accts |-> row[b].firstTxSig] EXCEPT ![a] = e]
  BY <1>1, <1>4 DEF e
<1>10. Abstract!Reached(a, i)
  BY <1>1, <1>3, ReachedSig
<1>11. i \in {j \in Sigs : txs[j] > 0}
       /\ {j \in Sigs : txs'[j] > 0} = {j \in Sigs : txs[j] > 0}
  BY <1>3, <1>4
<1>12. Abstract!Advance(a, i)
  BY <1>7, <1>8, <1>9, <1>10, <1>11 DEF Abstract!Advance
<1> QED
  BY <1>1, <1>12 DEF Abstract!Next, Sigs

\* A reset of getWatchers starts the account over, and takes no transaction away.
LEMMA ResetRowResets ==
  ASSUME TypeOK, NEW a \in Accts, ResetRow(a)
  PROVE  Abstract!Next
<1>1. /\ txs' = txs /\ row'[a].latestTxSig = 0 /\ row'[a].firstTxSig = row[a].firstTxSig
      /\ \A b \in Accts \ {a} : row'[b] = row[b]
  BY DEF ResetRow, TypeOK, RowType
<1>2. [b \in Accts |-> row'[b].latestTxSig]
        = [[b \in Accts |-> row[b].latestTxSig] EXCEPT ![a] = 0]
  BY <1>1
<1>3. [b \in Accts |-> row'[b].firstTxSig] = [b \in Accts |-> row[b].firstTxSig]
  BY <1>1
<1>4. Abstract!Reset(a)
  BY <1>1, <1>2, <1>3 DEF Abstract!Reset
<1> QED
  BY <1>4 DEF Abstract!Next

\* Every step is one of AccountBackup, or changes nothing that it speaks of.
LEMMA StepBacksUp ==
  ASSUME PrefixInv, FirstInv', [Next]_vars
  PROVE  [Abstract!Next]_(Abstract!vars)
<1>t. TypeOK /\ row \in [Accts -> RowType] /\ \A w \in Insts : AcctOf[w] \in Accts
  BY ProcessAssumption DEF PrefixInv, TypeOK
<1>1. ASSUME NEW w \in Insts, Poll(w) \/ Backfill(w) \/ CallThrows(w)
      PROVE  [Abstract!Next]_(Abstract!vars)
  <2>1. CASE Upsert(w)
    BY <2>1, UpsertStores
  <2>2. CASE UpdateRow(w)
    BY <2>2, UpdateRowAdvances
  <2>3. CASE MarkFailed(w) \/ EndBackfill(w)
    <3>1. Unseen
      BY <1>t, <2>3 DEF Unseen, MarkFailed, EndBackfill, RowType
    <3> QED
      BY <3>1, UnseenStutters
  <2>4. CASE UNCHANGED <<txs, row>>
    <3>1. Unseen
      BY <2>4 DEF Unseen
    <3> QED
      BY <3>1, UnseenStutters
  <2> QED
    BY <1>1, <2>1, <2>2, <2>3, <2>4 DEF Backfill, Poll, GetSlot, FetchHistory, HistoryError,
       SkipStopped, ReadRow, ReadTx, GetTx, ParseFails, Link, Push, CallThrows, dbVars
<1>2. ASSUME NEW a \in Accts, ResetRow(a) PROVE [Abstract!Next]_(Abstract!vars)
  BY <1>t, <1>2, ResetRowResets
<1>3. ASSUME NEW a \in Accts, NEW status, SetStatus(a, status)
      PROVE  [Abstract!Next]_(Abstract!vars)
  <2>1. Unseen
    BY <1>t, <1>3 DEF Unseen, SetStatus, RowType
  <2> QED
    BY <2>1, UnseenStutters
<1>4. CASE UNCHANGED <<txs, row>>
  <2>1. Unseen
    BY <1>4 DEF Unseen
  <2> QED
    BY <2>1, UnseenStutters
<1> QED
  BY <1>1, <1>2, <1>3, <1>4 DEF Next, vars, dbVars, Confirm, Finalize, GetWatchers,
     SelectWatchers, StopForReset, StartAndStop, GetWatchersThrows, Restart

\* The watchers implement AccountBackup: whatever crashes, rejects, fails to parse, is
\* disabled or is upgraded, and however many objects of one or of several accounts work
\* side by side, a transaction is stored after those before it of an account that it
\* names, and each write of a row points behind nothing that is missing - as long as
\* the RPC node leaves nothing out of the histories it returns.
THEOREM BackedUpInOrderCorrect ==
  ASSUME "rpcLoss" \notin Faults
  PROVE  Spec => BackedUpInOrder
<1>1. PrefixInv /\ FirstInv' /\ [Next]_vars => [Abstract!Next]_(Abstract!vars)
  BY StepBacksUp
<1> QED
  BY <1>1, InitAbstract, PrefixInvariant, FirstInvariant, PTL
     DEF Spec, BackedUpInOrder, Abstract!Spec
===============================================================================
