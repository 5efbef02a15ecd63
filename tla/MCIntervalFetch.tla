--------------------------- MODULE MCIntervalFetch ---------------------------
(***************************************************************************)
(* Small instances of IntervalFetch.  The discovery gives the mint of a    *)
(* token two rows with a job each, and the account of a market rows of     *)
(* other kinds, of which "logs" is one.                                    *)
(***************************************************************************)
EXTENDS IntervalFetch, TLC

MintJobs == {"mint", "quote"}
MintAndMarket == MintJobs \cup {"logs"}
AcctsOfRows == "mint" :> "meta" @@ "quote" :> "meta" @@ "logs" :> "amm"

OnlyQuoteRetries == [d \in Jobs |-> IF d = "quote" THEN 1 ELSE 0]
=============================================================================
