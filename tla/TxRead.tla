-------------------------------- MODULE TxRead --------------------------------
(***************************************************************************)
(* How a watcher reads an account: its history, then each transaction of   *)
(* it, earliest first (backfillFromLatest of transaction/watcher.ts).      *)
(* TxHistory and Serializer composed.                                      *)
(***************************************************************************)
EXTENDS TxHistory, Serializer

CONSTANT
    Responses \* Responses[i]: what the node may answer for transaction i

ASSUME ResponsesAssumption ==
    /\ DOMAIN Responses = Sigs
    /\ None \notin Seq(Sigs)
    /\ \A i \in Sigs : \A r \in Responses[i] :
         /\ r # None /\ getTransaction(r) # None
         /\ r.keys \in Nat
         /\ {r.pre, r.post} \subseteq Seq([index : Nat, amount : Nat])
         /\ IsSeq(r.outer) /\ \A ix \in ToSet(r.outer) : IsSeq(ix.accounts)
         /\ IsSeq(r.inner) /\ \A g \in ToSet(r.inner) : IsSeq(g.instructions)

VARIABLES
    txs,      \* transactions: those that have a row
    response, \* the node's answer for the transaction at hand, or None
    read      \* what getTransaction made of it, or None

vars == <<historyVars, txs, response, read>>

\* The one type invariant of the module.
TypeOK ==
    /\ HistoryTypeOK
    /\ txs \subseteq 1..confirmed
    /\ response = None <=> read = None
    /\ read # None => answer \notin {None, <<>>}

Init ==
    /\ HistoryInit
    /\ txs = {}
    /\ response = None
    /\ read = None

AtHand == Head(answer)

\* The node answers getTransaction for one that is not stored.
ReadTransaction ==
    /\ answer \notin {None, <<>>}
    /\ AtHand \notin txs
    /\ response = None
    /\ \E r \in Responses[AtHand] : response' = r /\ read' = getTransaction(r)
    /\ UNCHANGED <<historyVars, txs>>

\* handleNewTransaction.
Store ==
    /\ response # None
    /\ read.success
    /\ txs' = txs \cup {AtHand}
    /\ response' = None
    /\ read' = None
    /\ UNCHANGED historyVars

\* An error of getTransaction stops the watcher, which skips the rest; an exception
\* leaves it in its backfill.
ReadFails ==
    /\ response # None
    /\ ~read.success
    /\ Drop(FALSE)
    /\ response' = None
    /\ read' = None
    /\ UNCHANGED <<faults, txs>>

\* A stored transaction: the row of the watcher is updated.
UpdateRow ==
    /\ answer \notin {None, <<>>}
    /\ AtHand \in txs
    /\ Advance
    /\ UNCHANGED <<faults, txs, response, read>>

\* All are stored: the next poll asks again.
EndBackfill ==
    /\ answer = <<>>
    /\ Drop(TRUE)
    /\ UNCHANGED <<faults, txs, response, read>>

Restart ==
    /\ Fault("crash")
    /\ Reconstruct
    /\ response' = None
    /\ read' = None
    /\ UNCHANGED txs

History ==
    /\ Confirm \/ FetchSteps \/ RequestThrows \/ PageOutOfOrder
    /\ UNCHANGED <<txs, response, read>>

Backfill == ReadTransaction \/ Store \/ ReadFails \/ UpdateRow \/ EndBackfill

Next == History \/ Backfill \/ Restart

Spec == Init /\ [][Next]_vars

\* The node answers, and what it answered is stored.
Fairness ==
    /\ WF_vars(FetchSteps /\ UNCHANGED <<txs, response, read>>)
    /\ WF_vars(Backfill)

FairSpec == Spec /\ Fairness

-------------------------------------------------------------------------------
(* Properties                                                              *)

\* The watcher's reading as the promise that its indexers build on.
Abstract == INSTANCE HistoryAnswer WITH stored <- txs

\* An answer has no gap and covers what was confirmed when the fetch began, although
\* transactions are confirmed between the pages and attempts fail half way; and a
\* transaction is stored after those before it, although some cannot be read and the
\* process is started again between the row of a transaction and the watcher's.
AnswersInFull == Abstract!Spec

Stored == read # None /\ read.success

\* Of the instructions from `first' on and before `next', the first is the outer one
\* and the others are the ones of its group, if there is one.
Called(ixs, first, next, outer, groups) ==
    /\ first < next
    /\ ixs[first].stackHeight = 1 /\ ixs[first].program = outer.program
    /\ groups = {} => next = first + 1
    /\ \A g \in groups :
         /\ next = first + 1 + Len(g.instructions)
         /\ \A k \in DOMAIN g.instructions :
              /\ ixs[first + k].stackHeight # 1
              /\ ixs[first + k].program = g.instructions[k].program

\* Instructions are outer ones, in their order, each with those of its group.
CallsOf(ixs, outer, inner) ==
    \E start \in [1..(Len(outer) + 1) -> 1..(Len(ixs) + 1)] :
        /\ start[1] = 1 /\ start[Len(outer) + 1] = Len(ixs) + 1
        /\ \A o \in DOMAIN outer :
             Called(ixs, start[o], start[o + 1], outer[o],
                    {g \in ToSet(inner) : g.index = o - 1})

\* The instructions of a stored transaction are the calls of the response: with the
\* heights alone, the outer instructions and what each of them called come back in
\* their order.
CallsKept ==
    Stored => CallsOf(read.ok.instructions, response.outer, response.inner)

\* No balance of the response is lost or taken for another account's.
BalancesKept ==
    Stored =>
      /\ \A b \in ToSet(response.pre) : read.ok.accounts[b.index + 1].pre = <<b.amount>>
      /\ \A b \in ToSet(response.post) : read.ok.accounts[b.index + 1].post = <<b.amount>>

\* The accounts of an instruction are told apart by their names: those of nested
\* groups have the path of the group, those beyond the IDL a number.
NamesApart ==
    Stored =>
      \A n \in DOMAIN read.ok.instructions :
        LET data == read.ok.instructions[n].accountsWithData
        IN  \A i, j \in DOMAIN data : data[i].name = data[j].name => i = j

-------------------------------------------------------------------------------
(* The inductive invariant behind AnswersInFull.  That an answer has no    *)
(* gap is decided while the pages are read: those read so far go from a    *)
(* transaction that was there when the fetch began back to `before'        *)
(* without a gap, and have not met `after'.                                *)

\* The transactions after one and up to another, earliest first.
Run(from, to) == [i \in 1..(to - from) |-> from + i]

Done(last) == 1..last \subseteq txs

FetchInv ==
    fetch.attempt > 0 =>
      /\ after <= asked
      /\ fetch.kept = <<>> \/ \E last \in asked..confirmed : fetch.kept = Run(after, last)
      /\ fetch.before > 0 =>
           /\ after < fetch.before
           /\ \E last \in asked..confirmed :
                fetch.before <= last /\ fetch.history = Back(last, fetch.before)

\* What is left of an answer follows what is done.
AnswerInv ==
    answer # None =>
      \E last \in 0..confirmed : \E done \in 0..last : Done(done) /\ answer = Run(done, last)

\* What was read is of a transaction that has no row.
HandInv == read # None => AtHand \notin txs

ReadInv ==
    /\ TypeOK
    /\ HandInv
    /\ FetchInv
    /\ AnswerInv
    /\ Done(latest)
    /\ Done(after)

-------------------------------------------------------------------------------
\* What was read is what getTransaction makes of an answer of the node: with it, the
\* inductive invariant behind BalancesKept.
ReadOfResponse ==
    response # None =>
      /\ \E i \in Sigs : response \in Responses[i]
      /\ read = getTransaction(response)
===============================================================================
