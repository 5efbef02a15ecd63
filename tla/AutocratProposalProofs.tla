------------------------- MODULE AutocratProposalProofs -------------------------
(***************************************************************************)
(* Theorems about AutocratProposal and ProposalJob, for every number of    *)
(* proposals, DAOs, overlapping runs and inserts, and any faults.          *)
(***************************************************************************)
EXTENDS ProposalJob, FiniteSetTheorems, TLAPS

\* A set of numbers up to n has a least member: the proposal that the loop takes
\* next exists.  (The sets of members below each one are ordered by inclusion,
\* which is well-founded on the subsets of a finite set.)
LEMMA MinIsLeast ==
    ASSUME NEW n \in Nat, NEW S \in SUBSET (1..n), S # {}
    PROVE  Min(S) \in S /\ \A y \in S : Min(S) <= y
<1> DEFINE Below(x) == {y \in S : y <= x}
           Family == {Below(x) : x \in S}
           N == 1..n
<1>1. IsWellFoundedOn(StrictSubsetOrdering(N), SUBSET N)
  <2>1. IsFiniteSet(N)
    BY FS_Interval
  <2> HIDE DEF N
  <2>2. FiniteSubsetsOf(N) = SUBSET N
    BY <2>1, FS_FiniteSubsetsOfFinite
  <2>3. IsWellFoundedOn(StrictSubsetOrdering(N), FiniteSubsetsOf(N))
    BY FS_StrictSubsetOrderingWellFounded
  <2> QED
    BY <2>2, <2>3
<1>2. Family \subseteq SUBSET N /\ Family # {}
  OBVIOUS
<1>3. PICK A \in Family : \A B \in Family : <<B, A>> \notin StrictSubsetOrdering(N)
  <2> HIDE DEF Family, N
  <2> QED
    BY <1>1, <1>2, WFMin
<1>4. PICK x \in S : A = Below(x)
  BY <1>3
<1>5. \A y \in S : x <= y
  <2> SUFFICES ASSUME NEW y \in S, y < x
               PROVE  FALSE
    OBVIOUS
  <2>1. Below(y) \subseteq Below(x) /\ Below(y) # Below(x)
    <3>1. x \in Below(x) /\ x \notin Below(y)
      OBVIOUS
    <3>2. \A z \in S : z <= y => z <= x
      OBVIOUS
    <3> QED
      BY <3>1, <3>2
  <2>2. <<Below(y), Below(x)>> \in StrictSubsetOrdering(N)
    BY <2>1, <1>2 DEF StrictSubsetOrdering
  <2> QED
    BY <2>2, <1>3, <1>4
<1> QED
  BY <1>5 DEF Min

-------------------------------------------------------------------------------
(* The inductive invariant.                                                *)

\* What is true of run r: it has a proposal and a time once it is past the
\* snapshot, what the snapshot says to be over is over on the chain, and vaults
\* are settled for such a proposal only.
GoodRun(x) ==
    /\ x \in RunType
    /\ x.pc \notin {"off", "known"} => x.time > 0
    /\ x.pc \notin {"off", "known", "chain"} => x.cur \in Proposals
    /\ \A p \in Proposals : x.snap[p] \in Final => chain[p] = x.snap[p]
    /\ x.pc \in {"base", "quote"} => x.snap[x.cur] \in Final

IInv ==
    /\ TypeOK
    /\ \A r \in Runs : GoodRun(run[r])
    /\ OutcomesAgree

\* Stages of the inserts, whose sequences the proofs do not look into otherwise.
LEMMA StageFacts ==
    /\ \A k \in DOMAIN Assoc : Assoc[k] \in AssocStages
    /\ \A k \in DOMAIN Insert : Insert[k] \in InsertStages
    /\ "newVaults" \in InsertStages
    /\ \A k \in DOMAIN Assoc : k < Len(Assoc) => k + 1 \in DOMAIN Assoc
    /\ 1 \in DOMAIN Assoc
    /\ AssocStages \cap {"off", "known", "chain", "base", "quote"} = {}
<1>1. DOMAIN Assoc = 1..4 /\ Len(Assoc) = 4
  BY DEF Assoc
<1>2. AssocStages = {Assoc[i] : i \in DOMAIN Assoc}
  BY DEF AssocStages, ToSet
<1>3. InsertStages = {Insert[i] : i \in DOMAIN Insert}
  BY DEF InsertStages, ToSet
<1>4. \A k \in DOMAIN Assoc : Assoc[k] \notin {"off", "known", "chain", "base", "quote"}
  BY <1>1 DEF Assoc
<1>5. 1 \in DOMAIN Insert /\ Insert[1] = "newVaults"
  BY DEF Insert, Assoc
<1> QED
  BY <1>1, <1>2, <1>3, <1>4, <1>5

\* A run between two ticks of cron.
LEMMA IdleIsGood ==
    /\ GoodRun(Idle)
    /\ Idle.pc = "off"
BY ProposalAssumption DEF GoodRun, RunType, Idle, RunPCs, Statuses, Times, Markets, Final

\* The next state of the loop: the run ends, or goes on with a later proposal of
\* what is left of the snapshot.
LEMMA FollowingIsGood ==
    ASSUME IInv,
           NEW r \in Runs, run[r].time > 0,
           NEW snap \in [Proposals -> Statuses],
           \A p \in Proposals : snap[p] \in Final => chain[p] = snap[p],
           NEW p \in 0..NumProposals
    PROVE  \E x : GoodRun(x) /\ Following(r, snap, p) = [run EXCEPT ![r] = x]
<1> DEFINE left == {q \in Proposals : q > p /\ snap[q] # "none"}
           rest == [q \in Proposals |-> IF q > p THEN snap[q] ELSE "none"]
           next == [Idle EXCEPT !.pc = "head", !.time = run[r].time, !.cur = Min(left),
                                !.snap = rest]
<1>1. GoodRun(Idle)
  BY IdleIsGood
<1>2. CASE left = {}
  BY <1>1, <1>2 DEF Following
<1>3. CASE left # {}
  <2>1. Min(left) \in Proposals
    <3>1. left \in SUBSET (1..NumProposals)
      BY DEF Proposals
    <3> QED
      BY <3>1, <1>3, MinIsLeast, ProposalAssumption DEF Proposals
  <2>2. /\ run[r].time \in Times
        /\ Min(left) \in 0..NumProposals
        /\ rest \in [Proposals -> Statuses]
        /\ "head" \in RunPCs
    BY <2>1, ProposalAssumption DEF IInv, GoodRun, RunType, Proposals, Statuses, RunPCs
  <2>3. GoodRun(next)
    <3>1. Idle \in RunType
      BY IdleIsGood DEF GoodRun
    <3>2. \A q \in Proposals : rest[q] \in Final => chain[q] = rest[q]
      BY DEF Final
    <3> HIDE DEF left, rest
    <3>3. next \in RunType
      BY <2>2, <3>1 DEF RunType
    <3>4. /\ next.pc = "head" /\ next.time = run[r].time
          /\ next.cur = Min(left) /\ next.snap = rest
      BY <3>1 DEF RunType
    <3> QED
      BY <2>1, <3>2, <3>3, <3>4 DEF GoodRun
  <2>4. Following(r, snap, p) = [run EXCEPT ![r] = next]
    BY <1>3 DEF Following
  <2> QED
    BY <2>3, <2>4
<1> QED
  BY <1>2, <1>3

\* The runs and their types after run r became x.
RunsGood ==
    /\ run' \in [Runs -> RunType]
    /\ \A r \in Runs : GoodRun(run[r])'

\* One run goes to another state that is good.
LEMMA RunBecomes ==
    ASSUME IInv, NEW r \in Runs, NEW x, GoodRun(x),
           run' = [run EXCEPT ![r] = x], UNCHANGED chain
    PROVE  RunsGood
<1>1. run \in [Runs -> RunType] /\ x \in RunType
  BY DEF IInv, TypeOK, GoodRun
<1>2. run' \in [Runs -> RunType]
  BY <1>1
<1>3. ASSUME NEW q \in Runs
      PROVE  GoodRun(run[q])'
  <2>1. GoodRun(run[q])
    BY DEF IInv
  <2>2. run'[q] = run[q] \/ run'[q] = x
    BY <1>1
  <2> QED
    BY <2>1, <2>2 DEF GoodRun
<1> QED
  BY <1>2, <1>3 DEF RunsGood

\* A step of the loop from one statement to the next.
LEMMA GotoIsGood ==
    ASSUME IInv, NEW r \in Runs, NEW pc \in RunPCs, Goto(r, pc), UNCHANGED chain,
           run[r].pc \notin {"off", "known", "chain"},
           pc \in {"base", "quote"} => run[r].snap[run[r].cur] \in Final
    PROVE  RunsGood
<1> DEFINE x == [run[r] EXCEPT !.pc = pc]
<1>1. GoodRun(run[r]) /\ run \in [Runs -> RunType]
  BY DEF IInv, TypeOK
<1>2. /\ x \in RunType
      /\ x.pc = pc /\ x.time = run[r].time /\ x.cur = run[r].cur /\ x.snap = run[r].snap
  BY <1>1 DEF RunType
<1>3. run' = [run EXCEPT ![r] = x]
  BY DEF Goto
<1> HIDE DEF x
<1>4. GoodRun(x)
  BY <1>1, <1>2 DEF GoodRun
<1> QED
  BY <1>3, <1>4, RunBecomes

\* A run that goes on with what is left of its snapshot after proposal p.
LEMMA FollowingKeeps ==
    ASSUME IInv, NEW r \in Runs, run[r].time > 0, UNCHANGED chain,
           NEW snap \in [Proposals -> Statuses],
           \A p \in Proposals : snap[p] \in Final => chain[p] = snap[p],
           NEW p \in 0..NumProposals,
           run' = Following(r, snap, p)
    PROVE  RunsGood
BY FollowingIsGood, RunBecomes

\* The types of the rows and what they say of the chain after a step.
RowsGood ==
    /\ row' \in [Proposals -> RowType]
    /\ vault' \in [Proposals -> [VaultSides -> VaultStatuses]]
    /\ markets' \in SUBSET Proposals
    /\ OutcomesAgree'

\* Rows that no statement writes keep agreeing with the chain.
LEMMA RowsStay ==
    ASSUME IInv, UNCHANGED <<chain, row, vault, markets>>
    PROVE  RowsGood
BY DEF IInv, TypeOK, RowsGood, OutcomesAgree

\* So does the row of a proposal that is completed as the chain decided, or not completed.
LEMMA RowChanges ==
    ASSUME IInv, NEW p \in Proposals, NEW new \in RowType,
           row' = [row EXCEPT ![p] = new],
           new.completedAt # 0 => chain[p] \in Final /\ new.status = chain[p],
           UNCHANGED <<chain, vault, markets>>
    PROVE  RowsGood
BY DEF IInv, TypeOK, RowsGood, OutcomesAgree

\* An insert adds rows and replaces none: a row that is over stays as it is.
LEMMA WriteIsGood ==
    ASSUME IInv, NEW p \in Proposals, NEW s, Write(p, s), UNCHANGED chain
    PROVE  RowsGood
<1> USE DEF IInv, TypeOK
<1>1. row' \in [Proposals -> RowType]
  BY DEF Write, RowType, Statuses
<1>2. vault' \in [Proposals -> [VaultSides -> VaultStatuses]]
  BY DEF Write, NewVaults, VaultStatuses
<1>3. markets' \in SUBSET Proposals
  BY DEF Write
<1>4. ASSUME NEW q \in Proposals, row'[q].completedAt # 0
      PROVE  chain[q] \in Final /\ row'[q].status = chain[q]
  <2>1. row'[q].completedAt = row[q].completedAt
    BY DEF Write, RowType
  <2>2. row[q].status # "none"
    BY <1>4, <2>1 DEF OutcomesAgree, Final
  <2>3. row'[q] = row[q]
    BY <2>2 DEF Write
  <2> QED
    BY <1>4, <2>3 DEF OutcomesAgree
<1>5. ASSUME NEW q \in Proposals, NEW v \in VaultSides,
             vault'[q][v] \in {"finalized", "reverted"}
      PROVE  chain[q] \in Final /\ vault'[q][v] = SettledVault(chain[q])
  <2>1. vault'[q][v] = vault[q][v]
    BY <1>5 DEF Write, NewVaults
  <2> QED
    BY <1>5, <2>1 DEF OutcomesAgree
<1> QED
  BY <1>1, <1>2, <1>3, <1>4, <1>5 DEF RowsGood, OutcomesAgree, SettledVault

\* The rest of the state.
OthersGood ==
    /\ chain' \in [Proposals -> Statuses]
    /\ now' \in Times
    /\ faults' \in 0..MaxFaults
    /\ dao' \in [Daos -> {"none", "token", "row"}]
    /\ DOMAIN orders' = Proposals /\ \A p \in Proposals : orders'[p] \subseteq Book[p]
    /\ DOMAIN perf' = Proposals
    /\ inserts' \in [Proposals -> [InsertStages -> Nat]]
    /\ DOMAIN found' = Runs

\* The parts of the invariant together.
LEMMA AllGood ==
    ASSUME RunsGood, RowsGood, OthersGood
    PROVE  IInv'
BY DEF RunsGood, RowsGood, OthersGood, IInv, TypeOK, GoodRun

\* The variables that no part but TypeOK speaks of.
LEMMA OthersStay ==
    ASSUME IInv,
           UNCHANGED <<chain, now, faults, dao, orders, perf, inserts, found>>
    PROVE  OthersGood
BY DEF IInv, TypeOK, OthersGood

\* The chain moves towards an end: what a snapshot or a row says to be over is not
\* what moves.
LEMMA ChainMoves ==
    ASSUME IInv, NEW p \in Proposals, NEW s \in Statuses,
           chain' = [chain EXCEPT ![p] = s], chain[p] \notin Final,
           UNCHANGED <<now, faults, dbVars, runVars, inserts>>
    PROVE  IInv'
<1> USE DEF dbVars, runVars, IInv
<1>1. \A q \in Proposals : chain[q] \in Final => chain'[q] = chain[q]
  BY DEF TypeOK
<1>2. RunsGood
  <2>1. run' = run /\ run' \in [Runs -> RunType]
    BY DEF TypeOK
  <2>2. ASSUME NEW r \in Runs
        PROVE  GoodRun(run[r])'
    BY <1>1, <2>1 DEF GoodRun
  <2> QED
    BY <2>1, <2>2 DEF RunsGood
<1>3. RowsGood
  BY <1>1 DEF RowsGood, OutcomesAgree, TypeOK
<1>4. OthersGood
  BY DEF OthersGood, TypeOK
<1> QED
  BY <1>2, <1>3, <1>4, AllGood

\* The surroundings change neither runs nor rows.
LEMMA SurroundingsMove ==
    ASSUME IInv, UNCHANGED <<chain, row, vault, markets, run>>, OthersGood
    PROVE  IInv'
<1>1. RowsGood
  BY RowsStay
<1>2. RunsGood
  <2>1. run' \in [Runs -> RunType]
    BY DEF IInv, TypeOK
  <2>2. ASSUME NEW r \in Runs
        PROVE  GoodRun(run[r])'
    BY DEF IInv, GoodRun
  <2> QED
    BY <2>1, <2>2 DEF RunsGood
<1> QED
  BY <1>1, <1>2, AllGood

\* A step of a run that leaves the rows as they are, with a fault or without.
LEMMA RunMovesOrFails ==
    ASSUME IInv, RunsGood, faults' \in 0..MaxFaults,
           UNCHANGED <<chain, now, dao, row, vault, markets, orders, inserts>>,
           DOMAIN perf' = Proposals, DOMAIN found' = Runs
    PROVE  IInv'
<1>1. RowsGood
  BY RowsStay
<1>2. OthersGood
  BY DEF IInv, TypeOK, OthersGood
<1> QED
  BY <1>1, <1>2, AllGood

LEMMA RunMoves ==
    ASSUME IInv, RunsGood,
           UNCHANGED <<chain, now, faults, dao, row, vault, markets, orders, inserts>>,
           DOMAIN perf' = Proposals, DOMAIN found' = Runs
    PROVE  IInv'
BY RunMovesOrFails DEF IInv, TypeOK

\* A fault is counted, and the chain does not hear of it.
LEMMA FaultIsCounted ==
    ASSUME IInv, NEW kind, Faulty(kind)
    PROVE  faults' \in 0..MaxFaults /\ UNCHANGED <<chain, now>>
BY ProposalAssumption DEF Faulty, IInv, TypeOK

\* There are no rows and no runs at first.
LEMMA InitGood == Init => IInv
<1> SUFFICES ASSUME Init
             PROVE  IInv
  OBVIOUS
<1> USE DEF Init
<1>1. \A r \in Runs : run[r] = Idle
  OBVIOUS
<1>2. \A r \in Runs : GoodRun(run[r])
  BY <1>1, IdleIsGood
<1>3. OutcomesAgree
  BY DEF OutcomesAgree, NoRow
<1>4. run \in [Runs -> RunType]
  BY IdleIsGood DEF GoodRun
<1>5. inserts \in [Proposals -> [InsertStages -> Nat]]
  OBVIOUS
<1>6. row \in [Proposals -> RowType]
  BY ProposalAssumption DEF RowType, NoRow, Statuses, Times
<1>7. TypeOK
  BY <1>1, <1>4, <1>5, <1>6, IdleIsGood, ProposalAssumption
     DEF TypeOK, Statuses, VaultStatuses, Times
<1> QED
  BY <1>2, <1>3, <1>7 DEF IInv

\* The statements of the inserts that nothing awaits.
LEMMA InsertsGood ==
    ASSUME IInv, NEW p \in Proposals, InsertStep(p)
    PROVE  IInv'
<1>1. RunsGood
  BY DEF InsertStep, InsertGoesOn, InsertEnds, IInv, TypeOK, RunsGood, GoodRun,
         envVars, runVars
<1>2. CASE \E k \in DOMAIN Insert : InsertGoesOn(p, k)
  <2> PICK k \in DOMAIN Insert : InsertGoesOn(p, k)
    BY <1>2
  <2>1. RowsGood
    BY WriteIsGood DEF InsertGoesOn, envVars
  <2>2. inserts' \in [Proposals -> [InsertStages -> Nat]]
    BY StageFacts DEF InsertGoesOn, IInv, TypeOK
  <2>3. OthersGood
    BY <2>2 DEF InsertGoesOn, IInv, TypeOK, OthersGood, envVars, runVars
  <2> QED
    BY <1>1, <2>1, <2>3, AllGood
<1>3. CASE \E s \in InsertStages : InsertEnds(p, s)
  <2> PICK s \in InsertStages : InsertEnds(p, s)
    BY <1>3
  <2>1. RowsGood
    BY RowsStay DEF InsertEnds, envVars, dbVars
  <2>2. inserts' \in [Proposals -> [InsertStages -> Nat]]
    BY DEF InsertEnds, IInv, TypeOK
  <2>3. OthersGood
    BY <2>2 DEF InsertEnds, IInv, TypeOK, OthersGood, envVars, dbVars, runVars
  <2> QED
    BY <1>1, <2>1, <2>3, AllGood
<1> QED
  BY <1>2, <1>3 DEF InsertStep

-------------------------------------------------------------------------------
(* The steps of a run.                                                     *)

\* Cron starts a run, with the latest price as its clock, if there is one.
LEMMA StartGood ==
    ASSUME IInv, NEW r \in Runs, Start(r)
    PROVE  IInv'
<1> DEFINE x == [run[r] EXCEPT !.pc = "known", !.time = now]
<1>1. GoodRun(run[r]) /\ run \in [Runs -> RunType] /\ now \in Times
  BY DEF IInv, TypeOK, Start
<1>2. /\ x \in RunType
      /\ x.pc = "known" /\ x.time = now /\ x.snap = run[r].snap
  BY <1>1 DEF RunType, RunPCs
<1>3. run' = [run EXCEPT ![r] = x]
  BY DEF Start
<1> HIDE DEF x
<1>4. GoodRun(x)
  BY <1>1, <1>2 DEF GoodRun
<1> QED
  BY <1>3, <1>4, RunBecomes, RunMoves DEF Start, envVars, dbVars, IInv, TypeOK

\* A run reads which proposals have rows.
LEMMA ReadProposalsGood ==
    ASSUME IInv, NEW r \in Runs, ReadProposals(r)
    PROVE  IInv'
<1> DEFINE K == {p \in Proposals : row[p].status # "none"}
           x == [run[r] EXCEPT !.pc = "chain", !.known = K]
<1>1. /\ GoodRun(run[r]) /\ run \in [Runs -> RunType]
      /\ run[r].pc = "known" /\ run[r].time > 0
  BY DEF IInv, TypeOK, ReadProposals
<1>2. /\ x \in RunType
      /\ x.pc = "chain" /\ x.time = run[r].time /\ x.snap = run[r].snap
  <2>1. K \in SUBSET Proposals
    OBVIOUS
  <2> HIDE DEF K
  <2> QED
    BY <1>1, <2>1 DEF RunType, RunPCs
<1>3. run' = [run EXCEPT ![r] = x]
  BY DEF ReadProposals
<1> HIDE DEF x
<1>4. GoodRun(x)
  BY <1>1, <1>2 DEF GoodRun
<1> QED
  BY <1>3, <1>4, RunBecomes, RunMoves DEF ReadProposals, envVars, dbVars, IInv, TypeOK

\* The snapshot of a run is of the chain, and starts the inserts.
LEMMA FetchProposalsGood ==
    ASSUME IInv, NEW r \in Runs, FetchProposals(r)
    PROVE  IInv'
<1> DEFINE new == {p \in Proposals : chain[p] # "none"} \ run[r].known
<1>1. GoodRun(run[r]) /\ run[r].time > 0 /\ chain \in [Proposals -> Statuses]
  BY DEF IInv, TypeOK, FetchProposals, GoodRun
<1>2. RunsGood
  <2>1. 0 \in 0..NumProposals
    BY ProposalAssumption
  <2>2. run' = Following(r, chain, 0) /\ UNCHANGED chain
    BY DEF FetchProposals, envVars
  <2> QED
    BY <1>1, <2>1, <2>2, FollowingKeeps
<1>3. RowsGood
  BY RowsStay DEF FetchProposals, envVars, dbVars
<1>4. inserts' \in [Proposals -> [InsertStages -> Nat]]
  <2>1. inserts' = [p \in Proposals |->
                      IF p \in new THEN [inserts[p] EXCEPT !["newVaults"] = @ + 1]
                      ELSE inserts[p]]
    BY DEF FetchProposals
  <2> HIDE DEF new
  <2>2. \A p \in Proposals :
          [inserts[p] EXCEPT !["newVaults"] = @ + 1] \in [InsertStages -> Nat]
    <3> TAKE p \in Proposals
    <3>1. inserts[p] \in [InsertStages -> Nat]
      BY DEF IInv, TypeOK
    <3>2. inserts[p]["newVaults"] + 1 \in Nat
      BY <3>1, StageFacts
    <3> QED
      BY <3>1, <3>2
  <2> QED
    BY <2>1, <2>2 DEF IInv, TypeOK
<1>5. OthersGood
  BY <1>4 DEF FetchProposals, IInv, TypeOK, OthersGood, envVars, dbVars
<1> QED
  BY <1>2, <1>3, <1>5, AllGood

\* The DAO is read for a proposal that is pending.
LEMMA ReadDaoGood ==
    ASSUME IInv, NEW r \in Runs, ReadDao(r)
    PROVE  IInv'
<1>1. RunsGood
  BY GotoIsGood DEF ReadDao, envVars, RunPCs
<1> QED
  BY <1>1, RunMoves DEF ReadDao, envVars, dbVars, IInv, TypeOK

\* The update of a pending proposal leaves completed ones alone.
LEMMA UpdatePendingGood ==
    ASSUME IInv, NEW r \in Runs, UpdatePending(r)
    PROVE  IInv'
<1> DEFINE p == run[r].cur
<1>1. RunsGood
  BY GotoIsGood DEF UpdatePending, envVars, RunPCs
<1>2. RowsGood
  <2>1. p \in Proposals
    BY DEF UpdatePending, IInv, GoodRun
  <2>2. CASE row' = row
    BY <2>2, RowsStay DEF UpdatePending, envVars
  <2>3. CASE row[p].completedAt = 0 /\ row' = [row EXCEPT ![p].status = "pending"]
    <3> DEFINE new == [row[p] EXCEPT !.status = "pending"]
    <3>1. new \in RowType /\ new.completedAt = 0 /\ row' = [row EXCEPT ![p] = new]
      BY <2>1, <2>3 DEF IInv, TypeOK, RowType, Statuses
    <3> HIDE DEF new
    <3> QED
      BY <2>1, <3>1, RowChanges DEF UpdatePending, envVars
  <2> QED
    BY <2>2, <2>3 DEF UpdatePending
<1>3. OthersGood
  BY OthersStay DEF UpdatePending, envVars
<1> QED
  BY <1>1, <1>2, <1>3, AllGood

\* A proposal is completed with what the snapshot, and so the chain, says of it.
LEMMA CompleteGood ==
    ASSUME IInv, NEW r \in Runs, Complete(r)
    PROVE  IInv'
<1> DEFINE p == run[r].cur
<1>1. /\ p \in Proposals /\ run[r].snap[p] \in Final
      /\ run[r].snap[p] = chain[p] /\ run[r].time \in Times
  BY DEF Complete, IInv, GoodRun, RunType
<1>2. RunsGood
  BY <1>1, GotoIsGood DEF Complete, envVars, RunPCs
<1>3. RowsGood
  <2>1. CASE row' = row
    BY <2>1, RowsStay DEF Complete, envVars
  <2>2. CASE row' = [row EXCEPT ![p] = [status |-> run[r].snap[p],
                                        completedAt |-> run[r].time]]
    <3> DEFINE new == [status |-> run[r].snap[p], completedAt |-> run[r].time]
    <3>1. new \in RowType /\ new.status = chain[p]
      BY <1>1 DEF RowType, Statuses
    <3> HIDE DEF new
    <3>2. row' = [row EXCEPT ![p] = new]
      BY <2>2 DEF new
    <3> QED
      BY <1>1, <3>1, <3>2, RowChanges DEF Complete, envVars
  <2> QED
    BY <2>1, <2>2 DEF Complete
<1>4. OthersGood
  BY OthersStay DEF Complete, envVars
<1> QED
  BY <1>2, <1>3, <1>4, AllGood

\* Its vaults are settled by the same snapshot.
LEMMA SettleVaultGood ==
    ASSUME IInv, NEW r \in Runs, NEW side \in VaultSides, NEW next \in {"quote", "perfRow"},
           SettleVault(r, side, next)
    PROVE  IInv'
<1> DEFINE p == run[r].cur
<1>1. /\ p \in Proposals /\ run[r].snap[p] \in Final /\ run[r].snap[p] = chain[p]
  BY DEF SettleVault, IInv, GoodRun, VaultSides
<1>2. RunsGood
  BY <1>1, GotoIsGood DEF SettleVault, envVars, RunPCs, VaultSides
<1>3. RowsGood
  <2>1. CASE vault' = vault
    BY <2>1, RowsStay DEF SettleVault, envVars
  <2>2. CASE vault' = [vault EXCEPT ![p][side] = SettledVault(run[r].snap[p])]
    <3>1. SettledVault(run[r].snap[p]) \in VaultStatuses
      BY DEF SettledVault, VaultStatuses
    <3>2. vault' \in [Proposals -> [VaultSides -> VaultStatuses]]
      BY <2>2, <3>1 DEF IInv, TypeOK
    <3>3. \A q \in Proposals, s \in VaultSides :
            \/ vault'[q][s] = vault[q][s]
            \/ q = p /\ vault'[q][s] = SettledVault(chain[q])
      BY <1>1, <2>2 DEF IInv, TypeOK
    <3>4. UNCHANGED <<chain, row, markets>>
      BY DEF SettleVault, envVars
    <3> QED
      BY <1>1, <3>2, <3>3, <3>4 DEF RowsGood, OutcomesAgree, SettledVault, IInv, TypeOK
  <2> QED
    BY <2>1, <2>2 DEF SettleVault
<1>4. OthersGood
  BY OthersStay DEF SettleVault, envVars
<1> QED
  BY <1>2, <1>3, <1>4, AllGood

\* The performance of users is no part of the invariant but for the stage of the run.
LEMMA PerformanceGood ==
    ASSUME IInv, NEW r \in Runs,
           ReadPerfRow(r) \/ ReadOrders(r) \/ WritePerf(r)
    PROVE  IInv'
<1> DEFINE p == run[r].cur
<1>1. GoodRun(run[r]) /\ run \in [Runs -> RunType]
  BY DEF IInv, TypeOK
<1>2. CASE ReadPerfRow(r)
  <2> DEFINE res == IF row[p].status = "passed" THEN "pass" ELSE "fail"
             x == [run[r] EXCEPT !.pc = "perfRead", !.resolving = res,
                                 !.completedAt = row[p].completedAt]
  <2>1. p \in Proposals /\ row[p].completedAt \in Times /\ res \in Markets
    BY <1>1, <1>2 DEF ReadPerfRow, GoodRun, IInv, TypeOK, RowType, Markets
  <2>2. run' = [run EXCEPT ![r] = x]
    BY <1>2 DEF ReadPerfRow
  <2> HIDE DEF p, res
  <2>3. /\ x \in RunType /\ x.pc = "perfRead" /\ x.time = run[r].time
        /\ x.cur = run[r].cur /\ x.snap = run[r].snap
    BY <1>1, <2>1 DEF RunType, RunPCs
  <2> HIDE DEF x
  <2>4. GoodRun(x)
    BY <1>1, <1>2, <2>3 DEF GoodRun, ReadPerfRow
  <2> QED
    BY <1>2, <2>2, <2>4, RunBecomes, RunMoves
       DEF ReadPerfRow, envVars, dbVars, IInv, TypeOK
<1>3. CASE ReadOrders(r)
  <2>1. RunsGood
    BY <1>3, GotoIsGood DEF ReadOrders, envVars, RunPCs
  <2>2. DOMAIN found' = Runs
    BY <1>3 DEF ReadOrders, IInv, TypeOK
  <2> QED
    BY <1>3, <2>1, <2>2, RunMoves DEF ReadOrders, envVars, dbVars, IInv, TypeOK
<1>4. ASSUME NEW rows, PerfWritten(r, rows), UNCHANGED chain
      PROVE  RunsGood /\ DOMAIN found' = Runs /\ DOMAIN perf' = Proposals
  <2>1. RunsGood
    BY <1>4, GotoIsGood DEF PerfWritten, RunPCs
  <2>2. DOMAIN found' = Runs /\ DOMAIN perf' = Proposals
    BY <1>4 DEF PerfWritten, IInv, TypeOK
  <2> QED
    BY <2>1, <2>2
<1>5. CASE WritePerf(r)
  <2>1. PICK lost \in SUBSET DOMAIN found[r] :
          /\ PerfWritten(r, Restrict(found[r], DOMAIN found[r] \ lost))
          /\ IF lost = {} THEN UNCHANGED envVars ELSE Faulty("throw")
    BY <1>5 DEF WritePerf
  <2>2. faults' \in 0..MaxFaults /\ UNCHANGED <<chain, now>>
    BY <2>1, FaultIsCounted DEF envVars, IInv, TypeOK
  <2> QED
    BY <1>4, <2>1, <2>2, RunMovesOrFails DEF PerfWritten
<1> QED
  BY <1>2, <1>3, <1>5

\* A proposal with its markets is done with, another has its rows inserted.
LEMMA ReadMarketsGood ==
    ASSUME IInv, NEW r \in Runs, ReadMarkets(r)
    PROVE  IInv'
<1> DEFINE p == run[r].cur
<1>1. /\ GoodRun(run[r]) /\ run[r].pc = "markets" /\ run[r].time > 0
      /\ p \in 0..NumProposals /\ run[r].snap \in [Proposals -> Statuses]
  BY DEF IInv, GoodRun, ReadMarkets, RunType
<1>2. RunsGood
  <2>1. CASE run' = Following(r, run[r].snap, p)
    BY <1>1, <2>1, FollowingKeeps DEF ReadMarkets, envVars, GoodRun
  <2>2. CASE Goto(r, Assoc[1])
    <3>1. Assoc[1] \in RunPCs /\ Assoc[1] \notin {"base", "quote"}
      BY StageFacts DEF RunPCs
    <3> QED
      BY <1>1, <2>2, <3>1, GotoIsGood DEF ReadMarkets, envVars
  <2> QED
    BY <2>1, <2>2 DEF ReadMarkets, Goto
<1> QED
  BY <1>2, RunMoves DEF ReadMarkets, envVars, dbVars, IInv, TypeOK

\* The statements of insertAssociatedAccountsDataForProposal, awaited.
LEMMA InsertAssociatedGood ==
    ASSUME IInv, NEW r \in Runs, NEW k \in DOMAIN Assoc, InsertAssociated(r, k)
    PROVE  IInv'
<1> DEFINE p == run[r].cur
<1>1. run[r].pc = Assoc[k] /\ run[r].pc \notin {"off", "known", "chain"}
  BY StageFacts DEF InsertAssociated
<1>2. /\ GoodRun(run[r]) /\ run[r].time > 0
      /\ p \in Proposals /\ p \in 0..NumProposals
      /\ run[r].snap \in [Proposals -> Statuses]
  BY <1>1 DEF IInv, GoodRun, RunType
<1>3. RunsGood
  <2>1. CASE run' = Following(r, run[r].snap, p)
    BY <1>2, <2>1, FollowingKeeps DEF InsertAssociated, envVars, GoodRun
  <2>2. CASE k < Len(Assoc) /\ Goto(r, Assoc[k + 1])
    <3>1. Assoc[k + 1] \in RunPCs /\ Assoc[k + 1] \notin {"base", "quote"}
      BY <2>2, StageFacts DEF RunPCs
    <3> QED
      BY <1>1, <2>2, <3>1, GotoIsGood DEF InsertAssociated, envVars
  <2> QED
    BY <2>1, <2>2 DEF InsertAssociated, Goto
<1>4. RowsGood
  BY <1>2, WriteIsGood DEF InsertAssociated, envVars
<1>5. OthersGood
  BY OthersStay DEF InsertAssociated, envVars
<1> QED
  BY <1>3, <1>4, <1>5, AllGood

\* A run that ends, in an exception or not.
LEMMA RunStops ==
    ASSUME IInv, NEW r \in Runs, run' = [run EXCEPT ![r] = Idle], UNCHANGED chain
    PROVE  RunsGood
BY IdleIsGood, RunBecomes

\* A rejected call and a restart leave the rows as they are.
LEMMA RunThrowsGood ==
    ASSUME IInv, NEW r \in Runs, RunThrows(r)
    PROVE  IInv'
<1>1. faults' \in 0..MaxFaults /\ UNCHANGED <<chain, now>>
  BY FaultIsCounted DEF RunThrows
<1>2. RunsGood
  BY <1>1, RunStops DEF RunThrows
<1>3. DOMAIN found' = Runs
  BY DEF RunThrows, IInv, TypeOK
<1> QED
  BY <1>1, <1>2, <1>3, RunMovesOrFails DEF RunThrows, dbVars, IInv, TypeOK

LEMMA InsertThrowsGood ==
    ASSUME IInv, NEW p \in Proposals, NEW s \in InsertStages, InsertThrows(p, s)
    PROVE  IInv'
<1>1. faults' \in 0..MaxFaults /\ UNCHANGED <<chain, now>>
  BY FaultIsCounted DEF InsertThrows
<1>2. inserts' \in [Proposals -> [InsertStages -> Nat]]
  BY DEF InsertThrows, IInv, TypeOK
<1>3. OthersGood
  BY <1>1, <1>2 DEF InsertThrows, dbVars, runVars, IInv, TypeOK, OthersGood
<1> QED
  BY <1>1, <1>3, SurroundingsMove DEF InsertThrows, dbVars, runVars

LEMMA RestartGood ==
    ASSUME IInv, Restart
    PROVE  IInv'
<1>1. faults' \in 0..MaxFaults /\ UNCHANGED <<chain, now>>
  BY FaultIsCounted DEF Restart
<1>2. RunsGood
  <2>1. \A r \in Runs : run'[r] = Idle
    BY DEF Restart
  <2>2. run' \in [Runs -> RunType]
    BY IdleIsGood DEF Restart, GoodRun
  <2>3. ASSUME NEW r \in Runs
        PROVE  GoodRun(run[r])'
    BY <1>1, <2>1, IdleIsGood DEF GoodRun
  <2> QED
    BY <2>2, <2>3 DEF RunsGood
<1>3. RowsGood
  BY <1>1, RowsStay DEF Restart, dbVars
<1>4. OthersGood
  <2>1. inserts' \in [Proposals -> [InsertStages -> Nat]] /\ DOMAIN found' = Runs
    BY DEF Restart
  <2> QED
    BY <1>1, <2>1 DEF Restart, IInv, TypeOK, OthersGood, dbVars
<1> QED
  BY <1>2, <1>3, <1>4, AllGood

\* What the chain, the traders and the other jobs do.
LEMMA SurroundingsGood ==
    ASSUME IInv, Surroundings
    PROVE  IInv'
<1>1. ASSUME NEW p \in Proposals, Enqueue(p)
      PROVE  IInv'
  BY <1>1, ChainMoves DEF Enqueue, Statuses, Final
<1>2. ASSUME NEW p \in Proposals, NEW outcome \in Final, Finalize(p, outcome)
      PROVE  IInv'
  BY <1>2, ChainMoves DEF Finalize, Statuses, Final
<1>3. ASSUME NEW p \in Proposals, NEW o \in Book[p], IndexOrder(p, o)
      PROVE  IInv'
  <2>1. OthersGood
    BY <1>3 DEF IndexOrder, envVars, runVars, IInv, TypeOK, OthersGood
  <2> QED
    BY <1>3, <2>1, SurroundingsMove DEF IndexOrder, envVars, runVars
<1>4. ASSUME NEW d \in Daos, DaoToken(d)
      PROVE  IInv'
  <2>1. OthersGood
    BY <1>4 DEF DaoToken, envVars, runVars, IInv, TypeOK, OthersGood
  <2> QED
    BY <1>4, <2>1, SurroundingsMove DEF DaoToken, envVars, runVars
<1>5. ASSUME NEW d \in Daos, DaoRow(d)
      PROVE  IInv'
  <2>1. OthersGood
    BY <1>5 DEF DaoRow, envVars, runVars, IInv, TypeOK, OthersGood
  <2> QED
    BY <1>5, <2>1, SurroundingsMove DEF DaoRow, envVars, runVars
<1>6. CASE RecordPrice
  <2>1. OthersGood
    BY <1>6, ProposalAssumption
       DEF RecordPrice, dbVars, runVars, IInv, TypeOK, OthersGood, Times
  <2> QED
    BY <1>6, <2>1, SurroundingsMove DEF RecordPrice, dbVars, runVars
<1> QED
  BY <1>1, <1>2, <1>3, <1>4, <1>5, <1>6 DEF Surroundings

\* The steps of a run together.
RunStep(r) ==
    Start(r) \/ RunGoesOn(r) \/ RunFails(r) \/ RunThrows(r)

LEMMA RunStepGood ==
    ASSUME IInv, NEW r \in Runs, RunStep(r)
    PROVE  IInv'
<1>1. CASE RunFails(r)
  BY <1>1, RunStops, RunMoves DEF RunFails, envVars, dbVars, IInv, TypeOK
<1>2. CASE \E k \in DOMAIN Assoc : InsertAssociated(r, k)
  BY <1>2, InsertAssociatedGood
<1>3. CASE SettleVault(r, "base", "quote") \/ SettleVault(r, "quote", "perfRow")
  BY <1>3, SettleVaultGood DEF VaultSides
<1> QED
  BY <1>1, <1>2, <1>3, StartGood, ReadProposalsGood, FetchProposalsGood, ReadDaoGood,
     UpdatePendingGood, CompleteGood, PerformanceGood, ReadMarketsGood, RunThrowsGood
     DEF RunStep, RunGoesOn

\* Every step keeps the invariant.
LEMMA StepGood == IInv /\ [Next]_vars => IInv'
<1> SUFFICES ASSUME IInv, [Next]_vars
             PROVE  IInv'
  OBVIOUS
<1>1. CASE UNCHANGED vars
  <2>1. OthersGood
    BY <1>1, OthersStay DEF vars, envVars, dbVars, runVars
  <2> QED
    BY <1>1, <2>1, SurroundingsMove DEF vars, envVars, dbVars, runVars
<1>2. ASSUME NEW r \in Runs, RunStep(r)
      PROVE  IInv'
  BY <1>2, RunStepGood
<1>3. ASSUME NEW p \in Proposals, InsertStep(p)
      PROVE  IInv'
  BY <1>3, InsertsGood
<1>4. ASSUME NEW p \in Proposals, NEW s \in InsertStages, InsertThrows(p, s)
      PROVE  IInv'
  BY <1>4, InsertThrowsGood
<1> QED
  BY <1>1, <1>2, <1>3, <1>4, RestartGood, SurroundingsGood DEF Next, RunStep

\* The invariant on which everything below rests.
LEMMA Invariant == Spec => []IInv
BY InitGood, StepGood, PTL DEF Spec

-------------------------------------------------------------------------------
\* Every variable keeps its type: in particular the loop of a run always has a
\* proposal to work on, and never works before there was a price.
THEOREM TypeCorrect == Spec => []TypeOK
<1>1. IInv => TypeOK
  BY DEF IInv
<1> QED
  BY <1>1, Invariant, PTL

\* The rows of a proposal that is over say what the chain decided, whatever runs
\* and inserts overlap: a snapshot may be old, but what it says to be over is over.
THEOREM OutcomesAgreeCorrect == Spec => []OutcomesAgree
<1>1. IInv => OutcomesAgree
  BY DEF IInv
<1> QED
  BY <1>1, Invariant, PTL

\* Only Write, UpdatePending and Complete touch the rows of proposals.
LEMMA CompletedStep ==
    ASSUME IInv, Next, NEW p \in Proposals, row[p].completedAt # 0
    PROVE  row'[p] = row[p]
<1>1. row[p].status # "none"
  BY DEF IInv, OutcomesAgree, Final
<1>2. ASSUME NEW q \in Proposals, NEW s, Write(q, s)
      PROVE  row'[p] = row[p]
  BY <1>1, <1>2 DEF Write, IInv, TypeOK
<1>3. ASSUME NEW r \in Runs, UpdatePending(r) \/ Complete(r)
      PROVE  row'[p] = row[p]
  BY <1>3 DEF UpdatePending, Complete, IInv, TypeOK
<1>4. ASSUME NEW q \in Proposals, InsertStep(q)
      PROVE  row'[p] = row[p]
  BY <1>2, <1>4 DEF InsertStep, InsertGoesOn, InsertEnds, dbVars
<1>5. ASSUME NEW r \in Runs, NEW k \in DOMAIN Assoc, InsertAssociated(r, k)
      PROVE  row'[p] = row[p]
  <2>1. run[r].cur \in Proposals
    <3>1. run[r].pc \notin {"off", "known", "chain"}
      BY <1>5, StageFacts DEF InsertAssociated
    <3> QED
      BY <3>1 DEF IInv, GoodRun
  <2> QED
    BY <1>2, <1>5, <2>1 DEF InsertAssociated
<1>6. ASSUME NEW r \in Runs, RunStep(r)
      PROVE  row'[p] = row[p]
  BY <1>3, <1>5, <1>6
     DEF RunStep, RunGoesOn, Start, ReadProposals, FetchProposals, ReadDao, SettleVault,
         ReadPerfRow, ReadOrders, WritePerf, PerfWritten, ReadMarkets,
         RunFails, RunThrows, dbVars
<1> QED
  BY <1>4, <1>6 DEF Next, RunStep, Surroundings, Enqueue, Finalize, IndexOrder, DaoToken,
                    DaoRow, RecordPrice, InsertThrows, Restart, dbVars

\* A completed proposal is left as it is: neither a run that read its snapshot
\* before, nor an insert that began before, sets it back or completes it again.
THEOREM CompletedOnceCorrect == Spec => CompletedOnce
<1>1. IInv /\ [Next]_vars
        => [\A p \in Proposals : row[p].completedAt # 0 => row'[p] = row[p]]_vars
  BY CompletedStep
<1> QED
  BY <1>1, Invariant, PTL DEF Spec, CompletedOnce

\* A settled vault already is what SettleVault makes of it, and Write leaves it.
LEMMA SettledStep ==
    ASSUME IInv, Next, NEW p \in Proposals, NEW s \in VaultSides,
           vault[p][s] \in {"finalized", "reverted"}
    PROVE  vault'[p][s] = vault[p][s]
<1>1. chain[p] \in Final /\ vault[p][s] = SettledVault(chain[p])
  BY DEF IInv, OutcomesAgree
<1>2. ASSUME NEW q \in Proposals, NEW st, Write(q, st)
      PROVE  vault'[p][s] = vault[p][s]
  BY <1>2 DEF Write, NewVaults, IInv, TypeOK
<1>3. ASSUME NEW r \in Runs, NEW side \in VaultSides, NEW next, SettleVault(r, side, next)
      PROVE  vault'[p][s] = vault[p][s]
  <2>1. /\ run[r].cur \in Proposals
        /\ run[r].snap[run[r].cur] = chain[run[r].cur]
    BY <1>3 DEF SettleVault, IInv, GoodRun, VaultSides
  <2> QED
    BY <1>1, <1>3, <2>1 DEF SettleVault, IInv, TypeOK
<1>4. ASSUME NEW q \in Proposals, InsertStep(q)
      PROVE  vault'[p][s] = vault[p][s]
  BY <1>2, <1>4 DEF InsertStep, InsertGoesOn, InsertEnds, dbVars
<1>5. ASSUME NEW r \in Runs, NEW k \in DOMAIN Assoc, InsertAssociated(r, k)
      PROVE  vault'[p][s] = vault[p][s]
  <2>1. run[r].cur \in Proposals
    <3>1. run[r].pc \notin {"off", "known", "chain"}
      BY <1>5, StageFacts DEF InsertAssociated
    <3> QED
      BY <3>1 DEF IInv, GoodRun
  <2> QED
    BY <1>2, <1>5, <2>1 DEF InsertAssociated
<1>6. ASSUME NEW r \in Runs, RunStep(r)
      PROVE  vault'[p][s] = vault[p][s]
  BY <1>3, <1>5, <1>6
     DEF RunStep, RunGoesOn, Start, ReadProposals, FetchProposals, ReadDao, UpdatePending,
         Complete, ReadPerfRow, ReadOrders, WritePerf, PerfWritten, ReadMarkets,
         RunFails, RunThrows, dbVars, VaultSides
<1> QED
  BY <1>4, <1>6 DEF Next, RunStep, Surroundings, Enqueue, Finalize, IndexOrder, DaoToken,
                    DaoRow, RecordPrice, InsertThrows, Restart, dbVars

\* A settled vault stays as it is: an insert that began before writes its row only
\* if there is none, and two runs that both settle it agree on the outcome.
THEOREM SettledVaultStaysCorrect == Spec => SettledVaultStays
<1>1. IInv /\ [Next]_vars
        => [\A p \in Proposals : \A s \in VaultSides :
              vault[p][s] \in {"finalized", "reverted"} => vault'[p][s] = vault[p][s]]_vars
  BY SettledStep
<1> QED
  BY <1>1, Invariant, PTL DEF Spec, SettledVaultStays

-------------------------------------------------------------------------------
(* The indexer under its job.                                              *)

\* A step of the two together is one of the indexer, or none.
LEMMA JobStepsAreSteps == [JobNext]_allVars => [Next]_vars
<1> SUFFICES ASSUME [JobNext]_allVars
             PROVE  [Next]_vars
  OBVIOUS
<1>1. CASE UNCHANGED allVars
  BY <1>1 DEF allVars
<1>2. ASSUME NEW r \in Runs,
             StartRun(r) \/ RunProceeds(r) \/ RunEnds(r) \/ RunIsCounted(r)
      PROVE  Next
  BY <1>2 DEF StartRun, RunProceeds, RunEnds, RunIsCounted, Next
<1>3. CASE JobMoves
  BY <1>3 DEF JobMoves
<1>4. CASE JobUpdateThrows
  BY <1>4 DEF JobUpdateThrows
<1>5. CASE JobRestart
  BY <1>5 DEF JobRestart, Next
<1> QED
  BY <1>1, <1>2, <1>3, <1>4, <1>5 DEF JobNext, Next

\* It is also one of the interval job, or none: a run of the indexer is one of the
\* job's, and no result of a run is lost on the job.
LEMMA JobStepsAreJobSteps == [JobNext]_allVars => [Job!Next]_(Job!vars)
<1> SUFFICES ASSUME [JobNext]_allVars
             PROVE  [Job!Next]_(Job!vars)
  OBVIOUS
<1>1. CASE UNCHANGED jobVars
  BY <1>1 DEF jobVars, Job!vars
<1>2. ASSUME NEW r \in Runs, StartRun(r) \/ RunEnds(r) \/ RunIsCounted(r)
      PROVE  Job!Next
  BY <1>2 DEF StartRun, RunEnds, RunIsCounted, Job!Next
<1>3. CASE JobMoves
  BY <1>3 DEF JobMoves, Job!Next
<1>4. CASE JobUpdateThrows
  BY <1>4 DEF JobUpdateThrows, Job!Next
<1>5. CASE JobRestart
  BY <1>5 DEF JobRestart, Job!Next
<1> QED
  BY <1>1, <1>2, <1>3, <1>4, <1>5 DEF JobNext, RunProceeds, allVars

\* Under its job the proposal indexer does what AutocratProposal says of it, and its
\* job what IntervalFetch says: what is proved of either holds of the two together.
THEOREM JobRefines == JobSpec => Spec /\ Job!Spec
<1>1. JobInit => Init /\ Job!Init
  BY DEF JobInit
<1> QED
  BY <1>1, JobStepsAreSteps, JobStepsAreJobSteps, PTL DEF JobSpec, Spec, Job!Spec
===============================================================================
