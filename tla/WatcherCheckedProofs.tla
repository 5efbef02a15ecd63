-------------------------- MODULE WatcherCheckedProofs --------------------------
(***************************************************************************)
(* What TLAPS proves of checkedUpToSlot, for every chain and every set of  *)
(* accounts and objects, in a process that loses no signatures, parses     *)
(* what it fetches, and runs one logic version with its rows left alone.   *)
(***************************************************************************)
EXTENDS TransactionWatcherProofs

\* What the object steps leave alone, beside their own account.
LEMMA ObjectStepFrame ==
  ASSUME TypeOK, NEW w \in Insts, Poll(w) \/ Backfill(w) \/ CallThrows(w)
  PROVE  /\ UNCHANGED <<watchers, mgr, codeVersion, confirmedSlot, finalizedSlot>>
         /\ pc[w] # "free"
         /\ \A b \in Accts \ {AcctOf[w]} : row'[b] = row[b]
BY DEF TypeOK, Poll, Backfill, GetSlot, FetchHistory, HistoryError, MarkFailed, SkipStopped,
   ReadRow, ReadTx, GetTx, ParseFails, Upsert, Link, Push, UpdateRow, EndBackfill,
   CallThrows, envVars, dbVars, mgrVars

\* An object that runs has an active row, and every step but the update to failed
\* keeps the two copies of checkedUpToSlot equal.
LEMMA OwnControlStep ==
  ASSUME TypeOK, ControlInv, Faults \subseteq CheckedFaults, NEW w \in Insts,
         Poll(w) \/ Backfill(w) \/ CallThrows(w)
  PROVE  /\ ObjectControl(w)'
         /\ row'[AcctOf[w]].version = codeVersion
         /\ row[AcctOf[w]].status = "active"
         /\ row'[AcctOf[w]].checkedUpToSlot >= row[AcctOf[w]].checkedUpToSlot
<1> DEFINE a == AcctOf[w]
<1>w. /\ mem[w] \in MemType /\ mem \in [Insts -> MemType] /\ pc \in [Insts -> PCs]
      /\ row \in [Accts -> RowType] /\ row[a] \in RowType /\ a \in Accts
  BY ProcessAssumption DEF TypeOK
<1>n. mem[w].checkedUpToSlot \in Nat /\ mem[w].latestFinalizedSlot \in Nat
  BY <1>w DEF MemType, Slots
<1>f. /\ UNCHANGED <<watchers, codeVersion>> /\ w \in watchers
      /\ mem[w].checkedUpToSlot = row[a].checkedUpToSlot
      /\ row[a].version = codeVersion /\ ObjectControl(w)
  BY ObjectStepFrame, <1>w DEF ControlInv, ObjectControl
<1>s. row[a].status = "active"
  BY <1>f DEF ObjectControl, Poll, Backfill, GetSlot, FetchHistory, HistoryError,
     MarkFailed, SkipStopped, ReadRow, ReadTx, GetTx, ParseFails, Upsert, Link, Push,
     UpdateRow, EndBackfill, CallThrows
<1> HIDE DEF a
<1> DEFINE Goal == /\ ObjectControl(w)'
                   /\ row'[a].version = codeVersion
                   /\ row'[a].checkedUpToSlot >= row[a].checkedUpToSlot
<1> SUFFICES Goal
  BY <1>s DEF a
<1>m. ASSUME NEW m \in MemType, Leave(w, m), UNCHANGED row, m.stopped = mem[w].stopped,
             m.checkedUpToSlot = mem[w].checkedUpToSlot
      PROVE  Goal
  <2>1. /\ pc'[w] = "idle" /\ mem'[w].stopped = mem[w].stopped
        /\ mem'[w].checkedUpToSlot = mem[w].checkedUpToSlot
    BY <1>m, <1>w, <1>f DEF Leave, Rest, Settle, MemType
  <2> QED
    BY <2>1, <1>m, <1>f, <1>s, <1>n DEF ObjectControl, a
<1>r. ASSUME UNCHANGED row, pc'[w] \in PCs \ {"free", "idle", "fail"}, ~mem'[w].stopped,
             mem'[w].checkedUpToSlot = mem[w].checkedUpToSlot
      PROVE  Goal
  BY <1>r, <1>f, <1>s, <1>n DEF ObjectControl, a
<1>1. CASE Poll(w) \/ GetSlot(w)
  <2>1. /\ pc'[w] \in {"slot", "history"} /\ mem'[w].stopped = mem[w].stopped
        /\ mem'[w].checkedUpToSlot = mem[w].checkedUpToSlot /\ UNCHANGED row
        /\ ~mem[w].stopped
    BY <1>1, <1>w, <1>f DEF Poll, GetSlot, MemType, dbVars, ObjectControl
  <2> QED
    BY <2>1, <1>r DEF PCs
<1>2. ASSUME NEW h \in SUBSET History(w), FetchHistory(w, h)
      PROVE  Goal
  <2>1. /\ pc'[w] = "tx" /\ mem'[w].stopped = mem[w].stopped
        /\ mem'[w].checkedUpToSlot = mem[w].checkedUpToSlot /\ UNCHANGED row
        /\ ~mem[w].stopped
    BY <1>2, <1>w, <1>f DEF FetchHistory, MemType, dbVars, ObjectControl
  <2> QED
    BY <2>1, <1>r DEF PCs
<1>3. CASE HistoryError(w)
  <2> DEFINE m == [mem[w] EXCEPT !.errorCount = mem[w].errorCount + 1]
  <2>1. m \in MemType /\ m.stopped = mem[w].stopped
        /\ m.checkedUpToSlot = mem[w].checkedUpToSlot
    BY <1>w DEF MemType
  <2>2. UNCHANGED row
    BY <1>3 DEF HistoryError, dbVars
  <2>3. CASE Leave(w, m)
    BY <2>1, <2>2, <2>3, <1>m
  <2>4. CASE /\ pc' = [pc EXCEPT ![w] = "fail"]
             /\ mem' = [mem EXCEPT ![w].errorCount = mem[w].errorCount + 1,
                                   ![w].backfilling = FALSE, ![w].stopped = TRUE]
    <3>1. /\ pc'[w] = "fail" /\ mem'[w].stopped
          /\ mem'[w].checkedUpToSlot = mem[w].checkedUpToSlot
      BY <2>4, <1>w DEF MemType
    <3> QED
      BY <3>1, <2>2, <1>f, <1>s, <1>n DEF ObjectControl, a
  <2> QED
    BY <1>3, <2>3, <2>4 DEF HistoryError
<1>4. CASE MarkFailed(w)
  <2>1. /\ pc'[w] = "idle" /\ mem'[w].stopped
        /\ mem'[w].checkedUpToSlot = mem[w].checkedUpToSlot
        /\ row'[a].checkedUpToSlot = row[a].checkedUpToSlot
        /\ row'[a].version = row[a].version
    BY <1>4, <1>w, <1>f DEF MarkFailed, Leave, Rest, Settle, MemType, RowType, a, ObjectControl
  <2> QED
    BY <2>1, <1>f, <1>n DEF ObjectControl, a
<1>5. CASE CallThrows(w)
  BY <1>5, <1>m, <1>w DEF CallThrows, dbVars
<1>6. CASE SkipStopped(w) \/ ParseFails(w)
  BY <1>6, <1>f DEF SkipStopped, ParseFails, ObjectControl, CheckedFaults
<1>7. ASSUME NEW i \in Sigs, ReadRow(w, i)
      PROVE  Goal
  <2>1. /\ pc'[w] = "readTx" /\ mem'[w].stopped = mem[w].stopped
        /\ mem'[w].checkedUpToSlot = mem[w].checkedUpToSlot /\ UNCHANGED row
        /\ ~mem[w].stopped
    BY <1>7, <1>w DEF ReadRow, MemType, dbVars
  <2> QED
    BY <2>1, <1>r DEF PCs
<1>8. CASE ReadTx(w) \/ GetTx(w) \/ Upsert(w) \/ Link(w) \/ Push(w)
  <2>1. /\ pc'[w] \in {"getTx", "update", "upsert", "link", "push"} /\ UNCHANGED <<mem, row>>
        /\ ~mem[w].stopped
    BY <1>8, <1>w, <1>f DEF ReadTx, GetTx, Upsert, Link, Push, dbVars, ObjectControl
  <2> QED
    BY <2>1, <1>r DEF PCs
<1>9. CASE UpdateRow(w)
  <2>1. SlotAfterTx(mem[w].cur, mem[w].checkedUpToSlot, mem[w].checkedUpToSlot)
          = mem[w].checkedUpToSlot
    BY DEF SlotAfterTx
  <2>2. /\ pc'[w] = "tx" /\ mem'[w].stopped = mem[w].stopped /\ ~mem[w].stopped
        /\ mem'[w].checkedUpToSlot = mem[w].checkedUpToSlot
    BY <1>9, <2>1, <1>w, <1>f DEF UpdateRow, MemType, ObjectControl
  <2>3. /\ row'[a].checkedUpToSlot = mem[w].checkedUpToSlot
        /\ row'[a].version = codeVersion /\ row'[a].status = row[a].status
    BY <1>9, <2>1, <1>w DEF UpdateRow, RowType, a
  <2> QED
    BY <2>2, <2>3, <1>f, <1>s, <1>n DEF ObjectControl, a
<1>10. CASE EndBackfill(w)
  <2> DEFINE checked == Later(mem[w].checkedUpToSlot, mem[w].latestFinalizedSlot)
             m == [mem[w] EXCEPT !.checkedUpToSlot = checked, !.backfilling = FALSE]
  <2>1. checked >= mem[w].checkedUpToSlot
    BY <1>n DEF Later
  <2>2. /\ pc'[w] = "idle" /\ mem'[w].stopped = mem[w].stopped /\ ~mem[w].stopped
        /\ mem'[w].checkedUpToSlot = checked
    <3>1. Leave(w, m) /\ pc[w] = "tx"
      BY <1>10 DEF EndBackfill
    <3>2. m.checkedUpToSlot = checked /\ m.stopped = mem[w].stopped
      BY <1>w DEF MemType
    <3>3. Settle(m).checkedUpToSlot = m.checkedUpToSlot /\ Settle(m).stopped = m.stopped
      BY <1>w DEF Settle, MemType
    <3>4. pc'[w] = "idle" /\ mem'[w] = Settle(m)
      BY <3>1, <1>w, <1>f DEF Leave, Rest
    <3> QED
      BY <3>1, <3>2, <3>3, <3>4, <1>f DEF ObjectControl
  <2>3. /\ row'[a].checkedUpToSlot = checked
        /\ row'[a].version = row[a].version /\ row'[a].status = row[a].status
    BY <1>10, <1>w DEF EndBackfill, RowType, a
  <2> QED
    BY <2>1, <2>2, <2>3, <1>f, <1>s, <1>n DEF ObjectControl, a
<1> QED
  BY <1>1, <1>2, <1>3, <1>4, <1>5, <1>6, <1>7, <1>8, <1>9, <1>10 DEF Backfill

\* A step of an object keeps every part of the control invariant.
LEMMA ControlObjectStep ==
  ASSUME TypeOK, ControlInv, Faults \subseteq CheckedFaults, NEW w \in Insts,
         Poll(w) \/ Backfill(w) \/ CallThrows(w)
  PROVE  ControlInv'
<1>f. /\ UNCHANGED <<watchers, mgr, codeVersion>> /\ pc[w] # "free"
      /\ \A b \in Accts \ {AcctOf[w]} : row'[b] = row[b]
      /\ \A v \in Insts \ {w} : mem'[v] = mem[v] /\ pc'[v] = pc[v]
  BY ObjectStepFrame, OtherObjects
<1>o. /\ ObjectControl(w)' /\ row'[AcctOf[w]].version = codeVersion
      /\ row[AcctOf[w]].status = "active"
  BY OwnControlStep
<1>w. w \in watchers /\ watchers \subseteq Insts /\ \A v \in Insts : AcctOf[v] \in Accts
  BY <1>f, ProcessAssumption DEF ControlInv, ObjectControl, TypeOK
<1>1. ASSUME NEW v \in Insts \ {w} PROVE ObjectControl(v)'
  <2>1. CASE v \in watchers
    <3>1. AcctOf[v] # AcctOf[w] /\ ObjectControl(v)
      BY <2>1, <1>w DEF ControlInv
    <3>2. row'[AcctOf[v]] = row[AcctOf[v]]
      BY <3>1, <1>f, <1>w
    <3> QED
      BY <3>1, <3>2, <1>f DEF ObjectControl
  <2>2. CASE v \notin watchers
    BY <2>2, <1>f DEF ControlInv, ObjectControl
  <2> QED
    BY <2>1, <2>2
<1>2. ASSUME NEW a \in Accts PROVE MgrControl(a)' /\ row'[a].version = codeVersion
  <2>1. MgrControl(a) /\ row[a].version = codeVersion
    BY DEF ControlInv
  <2>2. CASE a = AcctOf[w]
    <3>1. a \in Watched
      BY <2>2, <1>w DEF Watched
    <3> QED
      BY <2>1, <2>2, <3>1, <1>o, <1>f DEF MgrControl, Watched
  <2>3. CASE a # AcctOf[w]
    BY <2>1, <2>3, <1>f DEF MgrControl, Watched
  <2> QED
    BY <2>2, <2>3
<1> QED
  BY <1>1, <1>2, <1>o, <1>f DEF ControlInv

\* getWatchers starts an object only for an account that has none.
LEMMA ControlGetWatchersStep ==
  ASSUME TypeOK, ControlInv, GetWatchers \/ GetWatchersThrows
  PROVE  ControlInv'
<1>w. /\ watchers \subseteq Insts /\ \A v \in Insts : AcctOf[v] \in Accts
      /\ pc \in [Insts -> PCs] /\ mem \in [Insts -> MemType]
  BY ProcessAssumption DEF TypeOK
<1>1. CASE SelectWatchers
  <2>1. UNCHANGED <<row, pc, mem, watchers, codeVersion>>
    BY <1>1 DEF SelectWatchers, envVars, dbVars, objVars
  <2>2. mgr'.toReset = {} /\ mgr'.resetting = {}
    BY <1>1 DEF SelectWatchers, ControlInv
  <2>3. ASSUME NEW a \in Accts PROVE MgrControl(a)'
    <3>1. /\ mgr'.active = {b \in Accts : row[b].status = "active"}
          /\ mgr'.toStart = mgr'.active \ Watched
          /\ a \in mgr'.toStart => mgr'.rows[a].checkedUpToSlot = row[a].checkedUpToSlot
      BY <1>1 DEF SelectWatchers
    <3> QED
      BY <2>1, <3>1 DEF MgrControl, Watched
  <2> QED
    BY <2>1, <2>2, <2>3 DEF ControlInv, ObjectControl
<1>2. ASSUME NEW a \in Accts, StopForReset(a) \/ ResetRow(a) PROVE FALSE
  BY <1>2 DEF StopForReset, ResetRow, ControlInv
<1>3. ASSUME NEW new \in SUBSET Insts, StartAndStop(new)
      PROVE  ControlInv'
  <2> DEFINE S == {w \in watchers : AcctOf[w] \notin mgr.active}
  <2>1. /\ UNCHANGED <<row, codeVersion>> /\ mgr' = IdleMgr /\ mgr.pc = "busy"
        /\ watchers' = (watchers \ S) \cup new
        /\ \A w \in new : pc[w] = "free" /\ AcctOf[w] \in mgr.toStart
        /\ \A v, w \in new : AcctOf[v] = AcctOf[w] => v = w
    BY <1>3 DEF StartAndStop, envVars, dbVars
  <2>2. ASSUME NEW w \in new
        PROVE  /\ AcctOf[w] \notin Watched /\ row[AcctOf[w]].status = "active"
               /\ mgr.rows[AcctOf[w]].checkedUpToSlot = row[AcctOf[w]].checkedUpToSlot
    BY <2>1, <1>w DEF ControlInv, MgrControl
  <2>3. ASSUME NEW w \in new PROVE ObjectControl(w)'
    <3>1. /\ pc'[w] = "slot" /\ ~mem'[w].stopped
          /\ mem'[w].checkedUpToSlot = mgr.rows[AcctOf[w]].checkedUpToSlot
      BY <1>3 DEF StartAndStop, BlankMem
    <3> QED
      BY <3>1, <2>1, <2>2 DEF ObjectControl
  <2>4. ASSUME NEW w \in Insts \ new PROVE ObjectControl(w)'
    <3>1. pc'[w] = Dropped(S)[w] /\ mem'[w] = Stopped(S)[w]
      BY <1>3 DEF StartAndStop
    <3>2. ObjectControl(w)
      BY DEF ControlInv
    <3>3. CASE w \in S
      <4>1. row[AcctOf[w]].status # "active"
        BY <3>3, <2>1, <1>w DEF ControlInv, MgrControl
      <4>2. pc'[w] = "free" /\ w \notin watchers'
        BY <4>1, <3>1, <3>2, <3>3, <2>1 DEF ObjectControl, Dropped
      <4> QED
        BY <4>2 DEF ObjectControl
    <3>4. CASE w \notin S
      <4>1. pc'[w] = pc[w] /\ mem'[w] = mem[w] /\ (w \in watchers' <=> w \in watchers)
        BY <3>1, <3>4, <2>1 DEF Dropped, Stopped
      <4> QED
        BY <4>1, <3>2, <2>1 DEF ObjectControl
    <3> QED
      BY <3>3, <3>4
  <2>5. \A v, w \in watchers' : AcctOf[v] = AcctOf[w] => v = w
    <3>1. ASSUME NEW v \in new, NEW w \in watchers PROVE AcctOf[v] # AcctOf[w]
      BY <2>2 DEF Watched
    <3>2. \A v, w \in watchers : AcctOf[v] = AcctOf[w] => v = w
      BY DEF ControlInv
    <3> QED
      BY <3>1, <3>2, <2>1
  <2>6. mgr'.pc = "idle" /\ mgr'.toReset = {} /\ mgr'.resetting = {}
    BY <2>1 DEF IdleMgr
  <2>7. \A a \in Accts : MgrControl(a)' /\ row'[a].version = codeVersion'
    BY <2>1, <2>6 DEF MgrControl, ControlInv
  <2> QED
    BY <2>3, <2>4, <2>5, <2>6, <2>7 DEF ControlInv
<1>4. CASE GetWatchersThrows
  <2>1. UNCHANGED <<row, pc, mem, watchers, codeVersion>>
    BY <1>4 DEF GetWatchersThrows, envVars, dbVars, objVars
  <2>2. mgr'.pc = "stuck" /\ mgr'.toReset = {} /\ mgr'.resetting = {}
    BY <1>4 DEF GetWatchersThrows, IdleMgr
  <2> QED
    BY <2>1, <2>2 DEF ControlInv, ObjectControl, MgrControl
<1> QED
  BY <1>1, <1>2, <1>3, <1>4 DEF GetWatchers

\* The surroundings: after a restart there is nothing left to control.
LEMMA ControlSurroundingsStep ==
  ASSUME TypeOK, ControlInv, Faults \subseteq CheckedFaults,
         \/ Confirm \/ Finalize \/ Restart
         \/ \E a \in Accts, status \in {"active", "disabled"} : SetStatus(a, status)
  PROVE  ControlInv'
<1>1. CASE Confirm \/ Finalize
  <2>1. UNCHANGED <<row, pc, mem, watchers, mgr, codeVersion>>
    BY <1>1 DEF Confirm, Finalize, dbVars, objVars, mgrVars
  <2> QED
    BY <2>1 DEF ControlInv, ObjectControl, MgrControl, Watched
<1>2. CASE Restart
  <2>1. UNCHANGED <<row, codeVersion>> /\ watchers' = {} /\ mgr' = IdleMgr
        /\ \A w \in Insts : pc'[w] = "free"
    BY <1>2 DEF Restart, dbVars, CheckedFaults
  <2>2. mgr'.pc = "idle" /\ mgr'.toReset = {} /\ mgr'.resetting = {}
    BY <2>1 DEF IdleMgr
  <2> QED
    BY <2>1, <2>2 DEF ControlInv, ObjectControl, MgrControl
<1>3. ASSUME NEW a, NEW status, SetStatus(a, status) PROVE FALSE
  BY <1>3 DEF SetStatus, CheckedFaults
<1> QED
  BY <1>1, <1>2, <1>3

-------------------------------------------------------------------------------
\* What is below the slot that was finalized when a backfill began is stored, left
\* or in hand, whatever the object does next.
LEMMA LoopCoversStep ==
  ASSUME TypeOK, PrefixInv, ControlInv, CheckedInv, Faults \subseteq CheckedFaults,
         NEW w \in Insts, Poll(w) \/ Backfill(w) \/ CallThrows(w),
         \A i \in Sigs : txs[i] > 0 => txs'[i] > 0
  PROVE  mem'[w].latestFinalizedSlot <= confirmedSlot /\ LoopCovers(w)'
<1>w. /\ mem[w] \in MemType /\ mem \in [Insts -> MemType] /\ pc \in [Insts -> PCs]
      /\ AcctOf[w] \in Accts /\ confirmedSlot \in Nat
      /\ finalizedSlot \in Nat /\ finalizedSlot <= confirmedSlot
      /\ mem[w].latestFinalizedSlot \in Nat /\ mem[w].latestFinalizedSlot <= confirmedSlot
      /\ LoopCovers(w) /\ ObjectPrefix(w) /\ ObjectControl(w)
  BY ProcessAssumption DEF TypeOK, MemType, Slots, CheckedInv, PrefixInv, ControlInv
<1> DEFINE Goal == mem'[w].latestFinalizedSlot <= confirmedSlot /\ LoopCovers(w)'
<1> SUFFICES Goal
  OBVIOUS
<1>m. ASSUME NEW m \in MemType, Leave(w, m)
      PROVE  Goal
  <2>1. pc'[w] \notin Loop /\ mem'[w].latestFinalizedSlot = 0
    BY <1>m, <1>w DEF Leave, Rest, Settle, BlankMem, MemType, Loop, InTx
  <2> QED
    BY <2>1, <1>w DEF LoopCovers
<1>r. ASSUME pc'[w] \notin Loop, mem'[w].latestFinalizedSlot = mem[w].latestFinalizedSlot
      PROVE  Goal
  BY <1>r, <1>w DEF LoopCovers
<1>1. CASE Poll(w)
  BY <1>1, <1>r, <1>w DEF Poll, MemType, Loop, InTx
<1>2. CASE GetSlot(w)
  <2>1. pc'[w] \notin Loop /\ mem'[w].latestFinalizedSlot = finalizedSlot
    BY <1>2, <1>w DEF GetSlot, MemType, Loop, InTx
  <2> QED
    BY <2>1, <1>w DEF LoopCovers
<1>3. ASSUME NEW h \in SUBSET History(w), FetchHistory(w, h)
      PROVE  Goal
  <2>1. /\ mem'[w].todo = History(w) /\ UNCHANGED txs
        /\ mem'[w].latestFinalizedSlot = mem[w].latestFinalizedSlot
    BY <1>3, <1>w DEF FetchHistory, MemType, dbVars, CheckedFaults
  <2>2. ASSUME NEW i \in Sigs, AcctOf[w] \in Mentions[i],
               SlotOf[i] <= mem[w].latestFinalizedSlot
        PROVE  txs[i] > 0 \/ i \in History(w)
    <3>1. SlotOf[i] <= confirmedSlot
      BY <2>2, <1>w, ChainAssumption
    <3>2. CASE i <= mem[w].latestTxSig
      BY <3>2, <2>2, <1>w DEF ObjectPrefix, StoredBelow
    <3>3. CASE i > mem[w].latestTxSig
      BY <3>1, <3>3, <2>2 DEF History, Observable
    <3> QED
      BY <3>2, <3>3, <1>w DEF MemType, Sigs
  <2> QED
    BY <2>1, <2>2, <1>w DEF LoopCovers
<1>4. CASE HistoryError(w)
  <2> DEFINE m == [mem[w] EXCEPT !.errorCount = mem[w].errorCount + 1]
  <2>1. m \in MemType
    BY <1>w DEF MemType
  <2>2. CASE Leave(w, m)
    BY <2>1, <2>2, <1>m
  <2>3. CASE /\ pc' = [pc EXCEPT ![w] = "fail"]
             /\ mem' = [mem EXCEPT ![w].errorCount = mem[w].errorCount + 1,
                                   ![w].backfilling = FALSE, ![w].stopped = TRUE]
    <3>1. pc'[w] \notin Loop /\ mem'[w].latestFinalizedSlot = mem[w].latestFinalizedSlot
      BY <2>3, <1>w DEF MemType, Loop, InTx
    <3> QED
      BY <3>1, <1>r
  <2> QED
    BY <1>4, <2>2, <2>3 DEF HistoryError
<1>5. CASE MarkFailed(w) \/ CallThrows(w)
  BY <1>5, <1>m, <1>w DEF MarkFailed, CallThrows
<1>6. CASE SkipStopped(w) \/ ParseFails(w)
  BY <1>6, <1>w DEF SkipStopped, ParseFails, ObjectControl, CheckedFaults
<1>7. ASSUME NEW i \in Sigs, ReadRow(w, i)
      PROVE  Goal
  <2>1. /\ pc[w] = "tx" /\ pc'[w] = "readTx" /\ mem'[w].cur = i /\ UNCHANGED txs
        /\ mem'[w].todo = mem[w].todo \ {i}
        /\ mem'[w].latestFinalizedSlot = mem[w].latestFinalizedSlot
    BY <1>7, <1>w DEF ReadRow, MemType, dbVars
  <2> QED
    BY <2>1, <1>w DEF LoopCovers, Loop, InTx
<1>8. CASE ReadTx(w) \/ GetTx(w) \/ Upsert(w) \/ Link(w) \/ Push(w)
  <2>1. UNCHANGED mem /\ pc[w] \in InTx /\ pc'[w] \in InTx
    BY <1>8, <1>w DEF ReadTx, GetTx, Upsert, Link, Push, InTx
  <2> QED
    BY <2>1, <1>w DEF LoopCovers, Loop
<1>9. CASE UpdateRow(w)
  <2>1. /\ pc[w] = "update" /\ mem'[w].todo = mem[w].todo
        /\ mem'[w].latestFinalizedSlot = mem[w].latestFinalizedSlot
    BY <1>9, <1>w DEF UpdateRow, MemType
  <2>2. txs[mem[w].cur] > 0 /\ mem[w].cur \in Sigs
    BY <2>1, <1>w DEF ObjectPrefix, InHandInv, InTx, TypeOK
  <2> QED
    BY <2>1, <2>2, <1>w DEF LoopCovers, Loop, InTx
<1>10. CASE EndBackfill(w)
  <2> DEFINE m == [mem[w] EXCEPT
                     !.checkedUpToSlot = Later(mem[w].checkedUpToSlot, mem[w].latestFinalizedSlot),
                     !.backfilling = FALSE]
  <2>1. Leave(w, m) /\ m \in MemType
    BY <1>10, <1>w DEF EndBackfill, MemType, Later
  <2> QED
    BY <2>1, <1>m
<1> QED
  BY <1>1, <1>2, <1>3, <1>4, <1>5, <1>6, <1>7, <1>8, <1>9, <1>10 DEF Backfill

\* checkedUpToSlot moves only at the end of a backfill, to the slot that was
\* finalized when it began, and then nothing up to that slot is left.
LEMMA SlotStoredStep ==
  ASSUME TypeOK, ControlInv, CheckedInv, NEW w \in Insts,
         Poll(w) \/ Backfill(w) \/ CallThrows(w), NEW a \in Accts,
         \A i \in Sigs : txs[i] > 0 => txs'[i] > 0
  PROVE  SlotStored(a, row[a].checkedUpToSlot)'
<1>w. /\ mem[w] \in MemType /\ row \in [Accts -> RowType] /\ AcctOf[w] \in Accts
      /\ SlotStored(a, row[a].checkedUpToSlot) /\ LoopCovers(w)
  BY ProcessAssumption DEF TypeOK, CheckedInv
<1>1. CASE EndBackfill(w) /\ a = AcctOf[w]
  <2>1. /\ pc[w] = "tx" /\ mem[w].todo = {} /\ UNCHANGED txs
        /\ row'[a].checkedUpToSlot = Later(mem[w].checkedUpToSlot, mem[w].latestFinalizedSlot)
    BY <1>1, <1>w DEF EndBackfill, RowType
  <2>2. mem[w].checkedUpToSlot = row[a].checkedUpToSlot
    BY <2>1, <1>1 DEF ControlInv, ObjectControl
  <2>3. SlotStored(a, mem[w].latestFinalizedSlot)
    BY <2>1, <1>1, <1>w DEF LoopCovers, SlotStored, Loop, InTx
  <2>4. CASE row'[a].checkedUpToSlot = mem[w].latestFinalizedSlot
    BY <2>1, <2>3, <2>4 DEF SlotStored
  <2>5. CASE row'[a].checkedUpToSlot = row[a].checkedUpToSlot
    BY <2>1, <2>5, <1>w DEF SlotStored
  <2> QED
    BY <2>1, <2>2, <2>4, <2>5 DEF Later
<1>2. CASE ~(EndBackfill(w) /\ a = AcctOf[w])
  <2>1. row'[a].checkedUpToSlot = row[a].checkedUpToSlot
    <3>1. CASE MarkFailed(w)
      BY <3>1, <1>w DEF MarkFailed, RowType
    <3>2. CASE UpdateRow(w)
      <4>1. mem[w].checkedUpToSlot = row[AcctOf[w]].checkedUpToSlot
        BY <3>2 DEF UpdateRow, ControlInv, ObjectControl
      <4>2. \/ row'[a] = row[a]
            \/ a = AcctOf[w] /\ row'[a].checkedUpToSlot = mem[w].checkedUpToSlot
        BY <3>2, <1>w DEF UpdateRow, RowType, SlotAfterTx
      <4> QED
        BY <4>1, <4>2
    <3>3. CASE EndBackfill(w)
      BY <3>3, <1>2, <1>w DEF EndBackfill
    <3>4. CASE UNCHANGED row
      BY <3>4
    <3> QED
      BY <3>1, <3>2, <3>3, <3>4 DEF Poll, Backfill, GetSlot, FetchHistory, HistoryError,
         SkipStopped, ReadRow, ReadTx, GetTx, ParseFails, Upsert, Link, Push, CallThrows,
         dbVars
  <2> QED
    BY <2>1, <1>w DEF SlotStored
<1> QED
  BY <1>1, <1>2

\* An object that does not move still covers what it covered.
LEMMA LoopCoversFrame ==
  ASSUME NEW w \in Insts, LoopCovers(w), mem'[w] = mem[w], pc'[w] = pc[w],
         \A i \in Sigs : txs[i] > 0 => txs'[i] > 0
  PROVE  LoopCovers(w)'
BY DEF LoopCovers

\* getWatchers starts objects with an empty loop and drops only idle ones.
LEMMA CheckedGetWatchersStep ==
  ASSUME TypeOK, ControlInv, CheckedInv, GetWatchers \/ GetWatchersThrows
  PROVE  CheckedInv'
<1>f. UNCHANGED <<txs, row, finalizedSlot, confirmedSlot>>
  <2>1. \A a \in Accts : ~StopForReset(a) /\ ~ResetRow(a)
    BY DEF ControlInv, StopForReset, ResetRow
  <2> QED
    BY <2>1 DEF GetWatchers, GetWatchersThrows, SelectWatchers, StartAndStop, envVars, dbVars
<1>w. confirmedSlot \in Nat /\ mem \in [Insts -> MemType]
  BY DEF TypeOK, Slots
<1>1. CASE UNCHANGED <<pc, mem>>
  BY <1>1, <1>f, LoopCoversFrame DEF CheckedInv, SlotStored
<1>2. ASSUME NEW new \in SUBSET Insts, StartAndStop(new)
      PROVE  CheckedInv'
  <2> DEFINE S == {w \in watchers : AcctOf[w] \notin mgr.active}
  <2>1. ASSUME NEW w \in new
        PROVE  mem'[w].latestFinalizedSlot <= confirmedSlot /\ LoopCovers(w)'
    <3>1. pc'[w] = "slot" /\ mem'[w].latestFinalizedSlot = 0
      BY <1>2 DEF StartAndStop, BlankMem
    <3> QED
      BY <3>1, <1>w DEF LoopCovers, Loop, InTx
  <2>2. ASSUME NEW w \in Insts \ new
        PROVE  mem'[w].latestFinalizedSlot <= confirmedSlot /\ LoopCovers(w)'
    <3>0. mem[w].latestFinalizedSlot <= confirmedSlot /\ LoopCovers(w) /\ mem[w] \in MemType
      BY <1>w DEF CheckedInv
    <3>1. pc'[w] = Dropped(S)[w] /\ mem'[w] = Stopped(S)[w]
      BY <1>2 DEF StartAndStop
    <3>2. CASE w \notin S
      BY <3>0, <3>1, <3>2, <1>f, LoopCoversFrame DEF Dropped, Stopped
    <3>3. CASE w \in S
      <4>1. pc[w] = "idle"
        <5>1. mgr.pc = "busy" /\ AcctOf[w] \in Accts
          BY <1>2, ProcessAssumption DEF StartAndStop
        <5>2. MgrControl(AcctOf[w]) /\ ObjectControl(w)
          BY <5>1 DEF ControlInv
        <5> QED
          BY <3>3, <5>1, <5>2 DEF MgrControl, ObjectControl
      <4>2. pc'[w] = "free" /\ mem'[w].latestFinalizedSlot = 0
        BY <4>1, <3>1, <3>3 DEF Dropped, Stopped, BlankMem
      <4> QED
        BY <4>2, <1>w DEF LoopCovers, Loop, InTx
    <3> QED
      BY <3>2, <3>3
  <2>3. \A a \in Accts : SlotStored(a, row[a].checkedUpToSlot)'
    BY <1>f DEF CheckedInv, SlotStored
  <2> QED
    BY <2>1, <2>2, <2>3, <1>f DEF CheckedInv
<1> QED
  <2>1. \A a \in Accts : ~StopForReset(a) /\ ~ResetRow(a)
    BY DEF ControlInv, StopForReset, ResetRow
  <2> QED
    BY <2>1, <1>1, <1>2 DEF GetWatchers, GetWatchersThrows, SelectWatchers, objVars

\* The surroundings, too, leave what is stored alone.
LEMMA CheckedSurroundingsStep ==
  ASSUME TypeOK, CheckedInv, Faults \subseteq CheckedFaults,
         \/ Confirm \/ Finalize \/ Restart
         \/ \E a \in Accts, status \in {"active", "disabled"} : SetStatus(a, status)
  PROVE  CheckedInv'
<1>w. /\ confirmedSlot \in Nat /\ finalizedSlot \in Nat
      /\ \A w \in Insts : mem[w].latestFinalizedSlot \in Nat
  BY DEF TypeOK, Slots, MemType
<1>1. CASE Confirm \/ Finalize
  <2>1. /\ UNCHANGED <<txs, row, pc, mem>>
        /\ confirmedSlot' >= confirmedSlot /\ finalizedSlot' <= confirmedSlot'
    BY <1>1, <1>w DEF Confirm, Finalize, dbVars, objVars, CheckedInv
  <2>2. confirmedSlot' \in Nat
    BY <1>1, <1>w DEF Confirm, Finalize
  <2>3. \A w \in Insts : mem'[w].latestFinalizedSlot <= confirmedSlot'
    BY <2>1, <2>2, <1>w DEF CheckedInv
  <2> QED
    BY <2>1, <2>3 DEF CheckedInv, SlotStored, LoopCovers
<1>2. CASE Restart
  <2>1. UNCHANGED <<txs, row, confirmedSlot, finalizedSlot>>
    BY <1>2 DEF Restart, dbVars
  <2>2. \A w \in Insts : pc'[w] \notin Loop /\ mem'[w].latestFinalizedSlot = 0
    BY <1>2 DEF Restart, BlankMem, Loop, InTx
  <2> QED
    BY <2>1, <2>2, <1>w DEF CheckedInv, SlotStored, LoopCovers
<1>3. ASSUME NEW a, NEW status, SetStatus(a, status) PROVE FALSE
  BY <1>3 DEF SetStatus, CheckedFaults
<1> QED
  BY <1>1, <1>2, <1>3

\* Both invariants hold in every state, and no step sets a checkedUpToSlot back.
LEMMA CheckedInvariant ==
  ASSUME Faults \subseteq CheckedFaults
  PROVE  Spec => /\ [](TypeOK /\ ControlInv /\ CheckedInv)
                 /\ CheckedNeverMovesBack
<1> DEFINE Inv == ControlInv /\ CheckedInv
           Step == \A a \in Accts : row'[a].checkedUpToSlot >= row[a].checkedUpToSlot
<1>1. Init => Inv
  <2> SUFFICES ASSUME Init PROVE Inv
    OBVIOUS
  <2>1. /\ \A w \in Insts : pc[w] = "free" /\ mem[w].latestFinalizedSlot = 0
        /\ watchers = {} /\ confirmedSlot = 0 /\ finalizedSlot = 0
    BY DEF Init, BlankMem
  <2>2. mgr.pc = "idle" /\ mgr.toReset = {} /\ mgr.resetting = {}
    BY DEF Init, IdleMgr
  <2>3. \A a \in Accts : row[a].version = codeVersion /\ row[a].checkedUpToSlot = 0
    BY DEF Init
  <2>4. ControlInv
    BY <2>1, <2>2, <2>3 DEF ControlInv, ObjectControl, MgrControl
  <2>5. \A i \in Sigs : ~(SlotOf[i] <= 0)
    BY ChainAssumption
  <2> QED
    BY <2>1, <2>3, <2>4, <2>5 DEF CheckedInv, SlotStored, LoopCovers, Loop, InTx
<1>2. TypeOK /\ PrefixInv /\ Inv /\ [Next]_vars => Inv' /\ Step
  <2> SUFFICES ASSUME TypeOK, PrefixInv, ControlInv, CheckedInv, [Next]_vars
               PROVE  ControlInv' /\ CheckedInv' /\ Step
    OBVIOUS
  <2>t. /\ \A i \in Sigs : txs[i] > 0 => txs'[i] > 0
        /\ \A a \in Accts : row[a].checkedUpToSlot \in Nat
    BY TxsKept DEF TypeOK, RowType, Slots
  <2>1. ASSUME NEW w \in Insts, Poll(w) \/ Backfill(w) \/ CallThrows(w)
        PROVE  ControlInv' /\ CheckedInv' /\ Step
    <3>1. ControlInv'
      BY <2>1, ControlObjectStep
    <3>2. /\ UNCHANGED <<confirmedSlot, finalizedSlot>>
          /\ \A b \in Accts \ {AcctOf[w]} : row'[b] = row[b]
          /\ \A v \in Insts \ {w} : mem'[v] = mem[v] /\ pc'[v] = pc[v]
      BY <2>1, ObjectStepFrame, OtherObjects
    <3>3. mem'[w].latestFinalizedSlot <= confirmedSlot /\ LoopCovers(w)'
      BY <2>1, <2>t, LoopCoversStep
    <3>4. \A v \in Insts \ {w} :
            mem'[v].latestFinalizedSlot <= confirmedSlot /\ LoopCovers(v)'
      BY <2>t, <3>2, LoopCoversFrame DEF CheckedInv
    <3>5. \A a \in Accts : SlotStored(a, row[a].checkedUpToSlot)'
      BY <2>1, <2>t, SlotStoredStep
    <3>6. CheckedInv'
      BY <3>2, <3>3, <3>4, <3>5 DEF CheckedInv
    <3>7. row'[AcctOf[w]].checkedUpToSlot >= row[AcctOf[w]].checkedUpToSlot
      BY <2>1, OwnControlStep
    <3>8. ASSUME NEW a \in Accts
          PROVE  row'[a].checkedUpToSlot >= row[a].checkedUpToSlot
      <4>1. CASE a = AcctOf[w]
        BY <4>1, <3>7
      <4>2. CASE a # AcctOf[w]
        BY <4>2, <3>2, <2>t
      <4> QED
        BY <4>1, <4>2
    <3> QED
      BY <3>1, <3>6, <3>8
  <2>2. CASE GetWatchers \/ GetWatchersThrows
    <3>1. UNCHANGED row
      <4>1. \A a \in Accts : ~StopForReset(a) /\ ~ResetRow(a)
        BY DEF ControlInv, StopForReset, ResetRow
      <4> QED
        BY <4>1, <2>2 DEF GetWatchers, GetWatchersThrows, SelectWatchers, StartAndStop, dbVars
    <3> QED
      BY <2>2, <2>t, <3>1, ControlGetWatchersStep, CheckedGetWatchersStep
  <2>3. CASE \/ Confirm \/ Finalize \/ Restart
             \/ \E a \in Accts, status \in {"active", "disabled"} : SetStatus(a, status)
    <3>1. UNCHANGED row
      BY <2>3 DEF Confirm, Finalize, Restart, SetStatus, dbVars, CheckedFaults
    <3> QED
      BY <2>3, <2>t, <3>1, ControlSurroundingsStep, CheckedSurroundingsStep
  <2>4. CASE UNCHANGED vars
    <3>1. UNCHANGED <<confirmedSlot, finalizedSlot, codeVersion, txs, row, pc, mem, watchers, mgr>>
      BY <2>4 DEF vars, envVars, dbVars, objVars, mgrVars
    <3>2. ControlInv'
      BY <3>1 DEF ControlInv, ObjectControl, MgrControl, Watched
    <3>3. CheckedInv'
      BY <3>1 DEF CheckedInv, SlotStored, LoopCovers
    <3> QED
      BY <2>t, <3>1, <3>2, <3>3
  <2> QED
    BY <2>1, <2>2, <2>3, <2>4 DEF Next
<1>3. [Next]_vars /\ Step => [Step]_vars
  OBVIOUS
<1>4. "rpcLoss" \notin Faults
  BY DEF CheckedFaults
<1>5. Spec => []TypeOK /\ []PrefixInv
  BY <1>4, TypeCorrect, PrefixInvariant
<1> HIDE DEF Inv, Step
<1>6. Spec => []Inv
  BY <1>1, <1>2, <1>5, PTL DEF Spec
<1>7. Spec => [][Step]_vars
  BY <1>2, <1>5, <1>6, PTL DEF Spec
<1> QED
  BY <1>5, <1>6, <1>7, PTL DEF Inv, Step, CheckedNeverMovesBack

\* checkedUpToSlot of a row never promises a transaction that is not in the
\* database, however backfills, restarts, rejected calls and failing histories
\* interleave.
THEOREM CheckedImpliesStoredCorrect ==
  ASSUME Faults \subseteq CheckedFaults
  PROVE  Spec => []CheckedImpliesStored
<1>1. CheckedInv => CheckedImpliesStored
  BY DEF CheckedInv, SlotStored, CheckedImpliesStored
<1> QED
  BY <1>1, CheckedInvariant, PTL

\* Nor does it ever move back: no object writes a copy older than the row's.
THEOREM CheckedNeverMovesBackCorrect ==
  ASSUME Faults \subseteq CheckedFaults
  PROVE  Spec => CheckedNeverMovesBack
BY CheckedInvariant
===============================================================================
