---------------------------- MODULE MCSwapIndexing ----------------------------
(***************************************************************************)
(* Small instances of SwapIndexing.  "amm" is the program the instruction  *)
(* indexer depends on, "dao" an account without one.                       *)
(***************************************************************************)
EXTENDS SwapIndexing

AmmAndDao == {"amm", "dao"}
JustAmm == {"amm"}

\* A swap, then in the same slot one that is refused and that the dao names too.
SameSlot == <<1, 1>>
DaoInSecond == <<{"amm"}, {"amm", "dao"}>>
===============================================================================
