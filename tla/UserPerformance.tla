---------------------------- MODULE UserPerformance ----------------------------
(***************************************************************************)
(* What calculateUserPerformance computes from the orders of the two       *)
(* markets of a proposal (packages/indexer/src/indexers/autocrat/          *)
(* autocrat-proposal-indexer.ts).  Sizes are in atoms of the base token:   *)
(* the code divides each by 10^decimals, a common factor of all the sums.  *)
(***************************************************************************)
EXTENDS Integers, FiniteSets, SequencesExt

Markets == {"pass", "fail"}
Sides == {"BID", "ASK"}

\* What the orders of one side add up to: in both markets, and in the one that
\* decides the proposal.
NoTotals == [side \in Sides |->
               [tokens |-> 0, volume |-> 0, count |-> 0,
                tokensResolving |-> 0, volumeResolving |-> 0]]

\* One step of the reduction over the orders, for the actor of the order.
AddToTotals(totals, order, resolving) ==
    LET size == order.filled
        here == IF order.market = resolving THEN 1 ELSE 0
    IN  [totals EXCEPT ![order.side] =
           [tokens |-> @.tokens + size,
            volume |-> @.volume + size * order.price,
            count |-> @.count + 1,
            tokensResolving |-> @.tokensResolving + here * size,
            volumeResolving |-> @.volumeResolving + here * size * order.price]]

\* The map from actors to totals, over the rows in the order they are returned.
\* Without decimals of the base token (0 is falsy too) it stays empty.
ActorTotals(rows, resolving, decimals) ==
    LET Step(current, order) ==
          IF decimals = 0 THEN current
          ELSE LET a == order.actor
                   totals == IF a \in DOMAIN current THEN current[a] ELSE NoTotals
                   added == AddToTotals(totals, order, resolving)
               IN  [b \in DOMAIN current \cup {a} |->
                      IF b = a THEN added ELSE current[b]]
    IN  FoldLeft(Step, [a \in {} |-> NoTotals], rows)

\* The last leg: what is left of the position in the resolving market is closed
\* at the spot price.
LastLeg(totals, spot) ==
    LET bought == totals["BID"].tokensResolving
        sold == totals["ASK"].tokensResolving
    IN  IF bought > sold
        THEN [totals EXCEPT !["ASK"].volumeResolving = @ + (bought - sold) * spot]
        ELSE [totals EXCEPT !["BID"].volumeResolving = @ + (sold - bought) * spot]

\* The user_performance rows, by actor.
Performance(rows, resolving, decimals, spot) ==
    LET actors == ActorTotals(rows, resolving, decimals)
    IN  [a \in DOMAIN actors |-> LastLeg(actors[a], spot)]

-------------------------------------------------------------------------------
(* A reference: the result of a trader in the resolving market is what the *)
(* orders paid, plus the position at the spot price.                       *)

Signed(order) == IF order.side = "ASK" THEN order.price * order.filled
                 ELSE -order.price * order.filled
Position(order) == IF order.side = "BID" THEN order.filled ELSE -order.filled

Profit(orders, actor, resolving, spot) ==
    LET mine == {o \in orders : o.actor = actor /\ o.market = resolving}
    IN  MapThenSumSet(Signed, mine) + spot * MapThenSumSet(Position, mine)

ProfitOf(totals) == totals["ASK"].volumeResolving - totals["BID"].volumeResolving
===============================================================================
