------------------------ MODULE MCDependencyDiscovery ------------------------
(***************************************************************************)
(* An instance of DependencyDiscovery for TLC.                             *)
(***************************************************************************)
EXTENDS DependencyDiscovery

\* The rows of every token and market.
AllDeps == {MintDep(t) : t \in Tokens} \cup UNION {AmmDeps(a) : a \in Amms}
           \cup {OpenbookDep(o) : o \in Openbooks}
           \cup {QuoteDep(t) : t \in Spot} \cup {BirdeyeDep(t) : t \in Spot}

\* Two of the three rows of an AMM market are followed, which one statement inserts.
TwoOfThree == {<<name, a>> : name \in {"amm-market-accounts", "amm-market-accounts-fetch"},
                             a \in Amms}
===============================================================================
