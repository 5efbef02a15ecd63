----------------------------- MODULE MCProposalJob -----------------------------
(***************************************************************************)
(* Instances of ProposalJob for TLC.                                       *)
(***************************************************************************)
EXTENDS ProposalJob

\* One proposal, or two, the DAO of the second of which has no token keys.
OneDao == [p \in Proposals |-> "meta"]
OwnDaos == [p \in Proposals |-> IF p = 1 THEN "meta" ELSE "drift"]
SixDecimals == [d \in Daos |-> 6]
EndsAtFirst == [p \in Proposals |-> 1]
RisingSpot == [t \in Times |-> 3 * t]

\* Ann buys in the pass market and sells in the fail market; Bob sells in the former.
AnnBuys == [id |-> 1, actor |-> "ann", market |-> "pass", side |-> "BID", filled |-> 3, price |-> 2]
AnnSells == [id |-> 2, actor |-> "ann", market |-> "fail", side |-> "ASK", filled |-> 2, price |-> 1]
BobSells == [id |-> 3, actor |-> "bob", market |-> "pass", side |-> "ASK", filled |-> 1, price |-> 4]
NoTrades == [p \in Proposals |-> {}]
MoreTrades == [p \in Proposals |-> {AnnBuys, AnnSells, BobSells}]

CONSTANT r1
===============================================================================
