-------------------------- MODULE IntervalFetchProofs --------------------------
(***************************************************************************)
(* Theorems about IntervalFetch, for every set of rows, every Retries and  *)
(* maxResets and any overlap of runs.                                      *)
(***************************************************************************)
EXTENDS IntervalFetch, TLAPS

\* The counters stay natural numbers and resets never passes maxResets: the
\* comparison with equality in the code is enough.
THEOREM TypeCorrect == Spec => []TypeOK
<1> USE DepsAssumption
<1>1. Init => TypeOK
  BY SMT DEF Init, TypeOK, JobType, WaitsType, Statuses, NewJob, NoWaits
<1>2. TypeOK /\ [Next]_vars => TypeOK'
  <2> SUFFICES ASSUME TypeOK, [Next]_vars
               PROVE  TypeOK'
    OBVIOUS
  <2> USE DEF TypeOK, JobType, WaitsType, Statuses
  <2>1. ASSUME NEW d \in Jobs, Tick(d)
        PROVE  TypeOK'
    BY <2>1 DEF Tick
  <2>2. ASSUME NEW d \in Jobs, RunSucceeds(d)
        PROVE  TypeOK'
    BY <2>2, SMTT(30) DEF RunSucceeds
  <2>3. ASSUME NEW d \in Jobs, RunThrows(d)
        PROVE  TypeOK'
    BY <2>3, SMTT(30) DEF RunThrows
  <2>4. ASSUME NEW d \in Jobs, FinalFailure(d)
        PROVE  TypeOK'
    <3>1. job' \in [Deps -> JobType]
      <4>1. job[d].runs - 1 \in Nat /\ job[d].errorCount + 1 \in Nat
        BY <2>4 DEF FinalFailure
      <4> QED
        BY <2>4, <4>1 DEF FinalFailure
    <3>2. waits' \in [Deps -> WaitsType]
      BY <2>4, SMTT(30) DEF FinalFailure
    <3> QED
      BY <2>4, <3>1, <3>2 DEF FinalFailure
  <2>5. ASSUME NEW d \in Jobs, Failure(d)
        PROVE  TypeOK'
    <3>1. job' \in [Deps -> JobType]
      BY <2>5, SMTT(30) DEF Failure
    <3>2. waits' \in [Deps -> WaitsType]
      <4>1. waits[d].pausing + 1 \in Nat
        OBVIOUS
      <4> QED
        BY <2>5, <4>1 DEF Failure
    <3> QED
      BY <2>5, <3>1, <3>2 DEF Failure
  <2>6. ASSUME NEW d \in Jobs, CountedFailure(d)
        PROVE  TypeOK'
    BY <2>6 DEF CountedFailure
  <2>7. ASSUME NEW d \in Jobs, PauseWritten(d)
        PROVE  TypeOK'
    BY <2>7 DEF PauseWritten
  <2>8. ASSUME NEW d \in Jobs, Resume(d)
        PROVE  TypeOK'
    <3>1. job' \in [Deps -> JobType]
      BY <2>8 DEF Resume
    <3>2. waits' \in [Deps -> WaitsType]
      <4>1. waits[d].sleeping - 1 \in Nat /\ waits[d].waking + 1 \in Nat
        BY <2>8 DEF Resume
      <4> QED
        BY <2>8, <4>1 DEF Resume
    <3> QED
      BY <2>8, <3>1, <3>2 DEF Resume
  <2>9. ASSUME NEW d \in Jobs, ActiveWritten(d)
        PROVE  TypeOK'
    BY <2>9 DEF ActiveWritten
  <2>10. ASSUME NEW d \in Jobs, DisabledWritten(d)
         PROVE  TypeOK'
    BY <2>10, SMTT(30) DEF DisabledWritten
  <2>11. ASSUME NEW d \in Jobs, UpdateThrows(d)
         PROVE  TypeOK'
    <3>1. waits' \in [Deps -> WaitsType]
      <4>1. CASE waits[d].pausing > 0 /\ waits' = [waits EXCEPT ![d] = [waits[d] EXCEPT !.pausing = @ - 1, !.lost = TRUE]]
        <5>1. waits[d] \in WaitsType /\ waits[d].pausing - 1 \in Nat
          BY <4>1
        <5>2. [waits[d] EXCEPT !.pausing = @ - 1, !.lost = TRUE] \in WaitsType
          BY <5>1
        <5> HIDE DEF WaitsType
        <5>3. PICK v \in WaitsType : waits' = [waits EXCEPT ![d] = v]
          BY <4>1, <5>2, Zenon
        <5>4. Jobs \subseteq Deps /\ waits \in [Deps -> WaitsType]
          OBVIOUS
        <5> QED
          BY <5>3, <5>4
      <4>2. CASE waits[d].waking > 0 /\ waits' = [waits EXCEPT ![d].waking = @ - 1]
        BY <4>2
      <4>3. CASE waits[d].disabling > 0 /\ waits' = [waits EXCEPT ![d].disabling = @ - 1]
        BY <4>3
      <4> QED
        BY <2>11, <4>1, <4>2, <4>3 DEF UpdateThrows
    <3> QED
      BY <2>11, <3>1 DEF UpdateThrows
  <2>12. CASE Restart
    BY <2>12 DEF Restart, NewJob, NoWaits
  <2>13. CASE UNCHANGED vars
    BY <2>13 DEF vars
  <2> QED
    BY <2>1, <2>2, <2>3, <2>4, <2>5, <2>6, <2>7, <2>8, <2>9, <2>10, <2>11,
       <2>12, <2>13 DEF Next, RunFails, Updates
<1> QED
  BY <1>1, <1>2, PTL DEF Spec

-------------------------------------------------------------------------------
\* A paused job has something outstanding that resumes it, or the update of its pause
\* was rejected.  The property is inductive with the types: a pause sets the flag and
\* starts the chain, a rejection is noted, and only the end of the chain clears the flag.
THEOREM PausedWillResumeCorrect == Spec => []PausedWillResume
<1> USE DepsAssumption
<1>1. Init => PausedWillResume
  BY DEF Init, PausedWillResume, NewJob
<1>2. TypeOK /\ PausedWillResume /\ [Next]_vars => PausedWillResume'
  <2> SUFFICES ASSUME TypeOK, PausedWillResume, [Next]_vars
               PROVE  PausedWillResume'
    OBVIOUS
  <2> USE DEF TypeOK, JobType, WaitsType, PausedWillResume
  <2>1. ASSUME NEW d \in Jobs, Tick(d)
        PROVE  PausedWillResume'
    BY <2>1 DEF Tick
  <2>2. ASSUME NEW d \in Jobs, RunSucceeds(d)
        PROVE  PausedWillResume'
    BY <2>2 DEF RunSucceeds
  <2>3. ASSUME NEW d \in Jobs, RunThrows(d) \/ UpdateThrows(d)
        PROVE  PausedWillResume'
    <3>1. CASE RunThrows(d)
      BY <3>1 DEF RunThrows
    <3>2. CASE waits[d].pausing > 0 /\ waits' = [waits EXCEPT ![d] = [waits[d] EXCEPT !.pausing = @ - 1, !.lost = TRUE]]
               /\ job' = job
      BY <3>2
    <3>3. CASE waits' = [waits EXCEPT ![d].waking = @ - 1] /\ job' = job
      BY <3>3
    <3>4. CASE waits' = [waits EXCEPT ![d].disabling = @ - 1] /\ job' = job
      BY <3>4
    <3> QED
      BY <2>3, <3>1, <3>2, <3>3, <3>4 DEF UpdateThrows
  <2>4. ASSUME NEW d \in Jobs, FinalFailure(d)
        PROVE  PausedWillResume'
    BY <2>4 DEF FinalFailure
  <2>5. ASSUME NEW d \in Jobs, Failure(d)
        PROVE  PausedWillResume'
    BY <2>5 DEF Failure
  <2>6. ASSUME NEW d \in Jobs, CountedFailure(d)
        PROVE  PausedWillResume'
    BY <2>6 DEF CountedFailure
  <2>7. ASSUME NEW d \in Jobs, PauseWritten(d)
        PROVE  PausedWillResume'
    BY <2>7 DEF PauseWritten
  <2>8. ASSUME NEW d \in Jobs, Resume(d)
        PROVE  PausedWillResume'
    <3>1. job' \in [Deps -> JobType]
      BY <2>8 DEF Resume
    <3>2. waits' \in [Deps -> WaitsType]
      <4>1. waits[d].sleeping - 1 \in Nat /\ waits[d].waking + 1 \in Nat
        BY <2>8 DEF Resume
      <4> QED
        BY <2>8, <4>1 DEF Resume
    <3> QED
      BY <2>8, <3>1, <3>2 DEF Resume
  <2>9. ASSUME NEW d \in Jobs, ActiveWritten(d) \/ DisabledWritten(d)
        PROVE  PausedWillResume'
    <3>1. /\ job' = job
          /\ \A e \in Jobs : /\ waits'[e].pausing = waits[e].pausing
                             /\ waits'[e].sleeping = waits[e].sleeping
                             /\ waits'[e].lost = waits[e].lost
      <4>1. CASE ActiveWritten(d)
        BY <4>1 DEF ActiveWritten
      <4>2. CASE DisabledWritten(d)
        BY <4>2 DEF DisabledWritten
      <4> QED
        BY <2>9, <4>1, <4>2
    <3> QED
      BY <3>1
  <2>10. CASE Restart
    BY <2>10 DEF Restart, NewJob
  <2>11. CASE UNCHANGED vars
    BY <2>11 DEF vars
  <2> QED
    BY <2>1, <2>2, <2>3, <2>4, <2>5, <2>6, <2>7, <2>8, <2>9, <2>10, <2>11
       DEF Next, RunFails, Updates
<1> QED
  BY <1>1, <1>2, TypeCorrect, PTL DEF Spec

-------------------------------------------------------------------------------
\* The row alone does not say why it is disabled: the update that disables it is
\* outstanding only once a job of the account is stopped.
DisabledInv ==
    /\ DisabledByFinalFailure
    /\ \A d \in Jobs : waits[d].disabling > 0 => job[d].killed

\* A step after which every row that says disabled said so before, every stopped job
\* stays stopped, and no job is started, keeps the first part.
LEMMA NoNewDisabled ==
    ASSUME DisabledByFinalFailure,
           \A d \in Deps : status'[d] = "disabled" => status[d] = "disabled",
           \A d \in Deps : job'[d].started => job[d].started,
           \A d \in Jobs : job[d].killed => job'[d].killed
    PROVE  DisabledByFinalFailure'
BY DEF DisabledByFinalFailure

\* A row of this process says disabled only since a job of its account was stopped
\* for good, whichever rows share the account.
THEOREM DisabledByFinalFailureCorrect == Spec => []DisabledByFinalFailure
<1> USE DepsAssumption
<1>1. Init => DisabledInv
  <2> SUFFICES ASSUME Init
               PROVE  DisabledInv
    OBVIOUS
  <2>1. DisabledByFinalFailure
    BY DEF Init, DisabledByFinalFailure
  <2>2. \A d \in Jobs : waits[d] = NoWaits
    BY DEF Init
  <2> QED
    BY <2>1, <2>2 DEF DisabledInv, NoWaits
<1>2. TypeOK /\ DisabledInv /\ [Next]_vars => DisabledInv'
  <2> SUFFICES ASSUME TypeOK, DisabledInv, [Next]_vars
               PROVE  DisabledInv'
    OBVIOUS
  <2> USE DEF TypeOK, JobType, WaitsType
  \* The second part: the update is outstanding since the job was stopped.
  <2>1. ASSUME NEW d \in Jobs, NEW e \in Jobs,
               \/ Tick(d) \/ RunSucceeds(d) \/ RunThrows(d)
               \/ FinalFailure(d) \/ Failure(d) \/ CountedFailure(d)
               \/ PauseWritten(d) \/ Resume(d) \/ ActiveWritten(d) \/ DisabledWritten(d)
               \/ UpdateThrows(d)
        PROVE  /\ job[e].killed => job'[e].killed
               /\ waits'[e].disabling > 0 => job'[e].killed
    <3>1. waits[e].disabling > 0 => job[e].killed
      BY DEF DisabledInv
    <3>2. CASE Tick(d)
      BY <3>1, <3>2 DEF Tick
    <3>3. CASE RunSucceeds(d)
      BY <3>1, <3>3 DEF RunSucceeds
    <3>4. CASE RunThrows(d)
      BY <3>1, <3>4 DEF RunThrows
    <3>5. CASE FinalFailure(d)
      BY <3>1, <3>5 DEF FinalFailure
    <3>6. CASE Failure(d)
      BY <3>1, <3>6 DEF Failure
    <3>7. CASE CountedFailure(d)
      BY <3>1, <3>7 DEF CountedFailure
    <3>8. CASE PauseWritten(d)
      BY <3>1, <3>8 DEF PauseWritten
    <3>9. CASE ActiveWritten(d)
      BY <3>1, <3>9 DEF ActiveWritten
    <3>10. CASE Resume(d)
      BY <3>1, <3>10 DEF Resume
    <3>11. CASE DisabledWritten(d)
      BY <3>1, <3>11 DEF DisabledWritten
    <3>12. CASE UpdateThrows(d)
      <4>1. job' = job
        BY <3>12 DEF UpdateThrows
      <4>2. waits'[e].disabling > 0 => waits[e].disabling > 0
        <5>1. CASE waits[d].pausing > 0 /\ waits' = [waits EXCEPT ![d] = [waits[d] EXCEPT !.pausing = @ - 1, !.lost = TRUE]]
          BY <5>1
        <5>2. CASE waits[d].waking > 0 /\ waits' = [waits EXCEPT ![d].waking = @ - 1]
          BY <5>2
        <5>3. CASE waits[d].disabling > 0 /\ waits' = [waits EXCEPT ![d].disabling = @ - 1]
          BY <5>3
        <5> QED
          BY <3>12, <5>1, <5>2, <5>3 DEF UpdateThrows
      <4> QED
        BY <3>1, <4>1, <4>2
    <3> QED
      BY <2>1, <3>2, <3>3, <3>4, <3>5, <3>6, <3>7,
         <3>8, <3>9, <3>10, <3>11, <3>12
  \* No step of a job starts one.
  <2>2. ASSUME NEW d \in Jobs, NEW e \in Deps,
               \/ Tick(d) \/ RunSucceeds(d) \/ RunThrows(d)
               \/ FinalFailure(d) \/ Failure(d) \/ CountedFailure(d)
               \/ PauseWritten(d) \/ Resume(d) \/ ActiveWritten(d)
               \/ UpdateThrows(d)
        PROVE  /\ job'[e].started => job[e].started
               /\ status'[e] = "disabled" => status[e] = "disabled"
    <3>1. CASE Tick(d)
      BY <3>1 DEF Tick
    <3>2. CASE RunSucceeds(d)
      BY <3>2 DEF RunSucceeds
    <3>3. CASE RunThrows(d)
      BY <3>3 DEF RunThrows
    <3>4. CASE FinalFailure(d)
      BY <3>4 DEF FinalFailure
    <3>5. CASE Failure(d)
      BY <3>5 DEF Failure
    <3>6. CASE CountedFailure(d)
      BY <3>6 DEF CountedFailure
    <3>7. CASE PauseWritten(d)
      BY <3>7 DEF PauseWritten
    <3>8. CASE Resume(d)
      BY <3>8 DEF Resume
    <3>9. CASE ActiveWritten(d)
      BY <3>9 DEF ActiveWritten
    <3>10. CASE UpdateThrows(d)
      BY <3>10 DEF UpdateThrows
    <3> QED
      BY <2>2, <3>1, <3>2, <3>3, <3>4, <3>5, <3>6,
         <3>7, <3>8, <3>9, <3>10
  <2>3. ASSUME NEW d \in Jobs,
               \/ Tick(d) \/ RunSucceeds(d) \/ RunThrows(d) \/ RunFails(d)
               \/ PauseWritten(d) \/ Resume(d) \/ ActiveWritten(d)
               \/ UpdateThrows(d)
        PROVE  DisabledInv'
    BY <2>1, <2>2, <2>3, NoNewDisabled DEF DisabledInv, RunFails
  <2>4. ASSUME NEW d \in Jobs, DisabledWritten(d)
        PROVE  DisabledInv'
    <3>1. job[d].killed /\ job' = job
      BY <2>4 DEF DisabledInv, DisabledWritten
    <3>2. ASSUME NEW e \in Deps, job[e].started, status'[e] = "disabled"
          PROVE  \E f \in Jobs : AcctOf[f] = AcctOf[e] /\ job[f].killed
      <4>1. CASE AcctOf[e] = AcctOf[d]
        BY <3>1, <4>1
      <4>2. CASE AcctOf[e] # AcctOf[d]
        <5>1. status'[e] = status[e]
          BY <2>4, <4>2 DEF DisabledWritten
        <5> QED
          BY <3>2, <5>1 DEF DisabledInv, DisabledByFinalFailure
      <4> QED
        BY <4>1, <4>2
    <3> QED
      BY <2>1, <2>4, <3>1, <3>2 DEF DisabledInv, DisabledByFinalFailure
  <2>5. CASE Restart
    <3>1. \A d \in Deps : job'[d].started => status'[d] = "active"
      BY <2>5 DEF Restart, NewJob
    <3>2. \A d \in Jobs : ~(waits'[d].disabling > 0)
      BY <2>5 DEF Restart, NoWaits
    <3> QED
      BY <3>1, <3>2 DEF DisabledInv, DisabledByFinalFailure
  <2>6. CASE UNCHANGED vars
    BY <2>6 DEF vars, DisabledInv, DisabledByFinalFailure
  <2> QED
    BY <2>3, <2>4, <2>5, <2>6 DEF Next, Updates
<1>3. DisabledInv => DisabledByFinalFailure
  BY DEF DisabledInv
<1> QED
  BY <1>1, <1>2, <1>3, TypeCorrect, PTL DEF Spec
===============================================================================
