---------------------------- MODULE AccountBackup ----------------------------
(***************************************************************************)
(* What is promised of the backup of several accounts, whose transactions  *)
(* may name more than one of them: a transaction is stored after all those *)
(* before it of some account that it names, nothing stored is taken away,  *)
(* and what is written of an account tells where its backup can go on.     *)
(***************************************************************************)
EXTENDS Integers

CONSTANTS
    Accts,   \* the accounts
    NumTxs,  \* the transactions are 1..NumTxs, in their order
    Mentions \* Mentions[i]: the accounts that transaction i names

VARIABLES
    stored, \* the transactions that have a row
    resume, \* resume[a]: the transaction after which the backup of a goes on, or 0
    first   \* first[a]: the first transaction of a, or 0 before one is known

vars == <<stored, resume, first>>

Of(a) == {i \in 1..NumTxs : a \in Mentions[i]}

\* All those of an account before a transaction are stored.
Reached(a, i) == i \in Of(a) /\ \A j \in Of(a) : j < i => j \in stored

Init ==
    /\ stored = {}
    /\ resume = [a \in Accts |-> 0]
    /\ first = [a \in Accts |-> 0]

Store(i) ==
    /\ \E a \in Accts : Reached(a, i)
    /\ stored' = stored \cup {i}
    /\ UNCHANGED <<resume, first>>

\* The backup of an account is at a stored transaction; its first one is noted with
\* the earliest of these and stays.
Advance(a, i) ==
    /\ i \in stored
    /\ Reached(a, i)
    /\ resume' = [resume EXCEPT ![a] = i]
    /\ \E e \in Of(a) :
         /\ \A j \in Of(a) : e <= j
         /\ first' = [first EXCEPT ![a] = e]
    /\ UNCHANGED stored

\* All of an account is to be read again.
Reset(a) ==
    /\ resume' = [resume EXCEPT ![a] = 0]
    /\ UNCHANGED <<stored, first>>

Next ==
    \/ \E i \in 1..NumTxs : Store(i)
    \/ \E a \in Accts : Reset(a) \/ \E i \in 1..NumTxs : Advance(a, i)

Spec == Init /\ [][Next]_vars
==============================================================================
