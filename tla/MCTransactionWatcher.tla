------------------------ MODULE MCTransactionWatcher ------------------------
(***************************************************************************)
(* Small instances of TransactionWatcher.  Transactions 1 and 2 share a    *)
(* slot; the account "amm" is named by all of them, "dao" by some.         *)
(***************************************************************************)
EXTENDS TransactionWatcher, TLC

OneAcct == {"amm"}
TwoAccts == {"amm", "dao"}

\* Three transactions in two slots, of one account or shared by two.
SharedSlot == <<1, 1, 2>>
AmmOnly == <<{"amm"}, {"amm"}, {"amm"}>>
DaoInSecond == <<{"amm"}, {"amm", "dao"}, {"amm"}>>

\* One transaction.
OneTx == <<1>>
JustAmm == <<{"amm"}>>

\* One object per account, or two so that a stopped one can outlive its
\* successor's start.
OneEach == 1 :> "amm" @@ 2 :> "dao"
AmmObject == 1 :> "amm"
AmmObjects == [w \in Insts |-> "amm"]

\* Objects of one account are interchangeable.
ObjectSymmetry == Permutations(Insts)

\* Slots that only end up in checkedUpToSlot, and the link rows, guard nothing: the
\* two properties of latestTxSig and firstTxSig do not tell their values apart.
OrderView ==
    << confirmedSlot, codeVersion, crashes, txs, pc, watchers,
       [a \in Accts |-> <<row[a].latestTxSig, row[a].firstTxSig, row[a].version, row[a].status>>],
       [w \in Insts |-> <<mem[w].latestTxSig, mem[w].stopped, mem[w].backfilling,
                          mem[w].errorCount, mem[w].todo, mem[w].cur, mem[w].first>>],
       [mgr EXCEPT !.rows = [a \in Accts |-> mgr.rows[a].latestTxSig]] >>
=============================================================================
