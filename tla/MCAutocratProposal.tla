--------------------------- MODULE MCAutocratProposal ---------------------------
(***************************************************************************)
(* Instances of AutocratProposal for TLC.                                  *)
(***************************************************************************)
EXTENDS AutocratProposal

\* One proposal, which ends in slot 1 and is of a DAO that becomes known.
OneDao == [p \in Proposals |-> "meta"]
SixDecimals == [d \in Daos |-> 6]
EndsAtFirst == [p \in Proposals |-> 1]
RisingSpot == [t \in Times |-> 3 * t]

NoTrades == [p \in Proposals |-> {}]

CONSTANTS r1, r2
RunSymmetry == Permutations({r1, r2})
===============================================================================
