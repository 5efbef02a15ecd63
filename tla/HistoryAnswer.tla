----------------------------- MODULE HistoryAnswer -----------------------------
(***************************************************************************)
(* What is promised of the backup of an account's transactions: the answer *)
(* to a request for its history is the run of transactions after the last  *)
(* one that the watcher was constructed with, without a gap, at least up   *)
(* to what was confirmed when it asked; and a transaction is stored after  *)
(* all those before it.                                                    *)
(***************************************************************************)
EXTENDS Integers, Sequences

CONSTANTS
    NumTxs, \* the transactions of the account are 1..NumTxs
    None    \* there is no answer

VARIABLES
    confirmed, \* the transactions that the node serves
    stored,    \* the transactions that have a row
    after,     \* the transaction after which the watcher asks
    asked,     \* those that were confirmed when it asked, -1 if it did not
    answer     \* the transactions of the answer that are not done yet, or None

vars == <<confirmed, stored, after, asked, answer>>

\* A transaction that follows none but stored ones, up to which the account is done.
Done(last) == 1..last \subseteq stored

Init ==
    /\ confirmed = 0
    /\ stored = {}
    /\ after = 0
    /\ asked = -1
    /\ answer = None

Confirm ==
    /\ confirmed < NumTxs
    /\ confirmed' = confirmed + 1
    /\ UNCHANGED <<stored, after, asked, answer>>

Ask ==
    /\ asked = -1
    /\ answer = None
    /\ asked' = confirmed
    /\ UNCHANGED <<confirmed, stored, after, answer>>

Answer ==
    /\ asked # -1
    /\ \E last \in asked..confirmed : answer' = [i \in 1..(last - after) |-> after + i]
    /\ asked' = -1
    /\ UNCHANGED <<confirmed, stored, after>>

Fail ==
    /\ asked # -1
    /\ asked' = -1
    /\ UNCHANGED <<confirmed, stored, after, answer>>

Store ==
    /\ answer \notin {None, <<>>}
    /\ Done(Head(answer) - 1)
    /\ stored' = stored \cup {Head(answer)}
    /\ UNCHANGED <<confirmed, after, asked, answer>>

Take ==
    /\ answer \notin {None, <<>>}
    /\ Done(Head(answer))
    /\ answer' = Tail(answer)
    /\ UNCHANGED <<confirmed, stored, after, asked>>

\* The watcher is done with the answer, or gives it up.
Drop ==
    /\ answer # None
    /\ answer' = None
    /\ UNCHANGED <<confirmed, stored, after, asked>>

\* A new watcher resumes where nothing is missing behind it.
Resume ==
    /\ \E last \in 0..confirmed : Done(last) /\ after' = last
    /\ asked' = -1
    /\ answer' = None
    /\ UNCHANGED <<confirmed, stored>>

Next == Confirm \/ Ask \/ Answer \/ Fail \/ Store \/ Take \/ Drop \/ Resume

Spec == Init /\ [][Next]_vars
===============================================================================
