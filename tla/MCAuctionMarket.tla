--------------------------- MODULE MCAuctionMarket ---------------------------
(***************************************************************************)
(* Values of AuctionMarket's constants for the runs.                       *)
(***************************************************************************)
EXTENDS MarketRefinement

CONSTANTS alice, bob, carol, usdt, gem, ring, eth_feed, usdt_feed, nft

MCContractOf == [x \in Items |-> nft]
MCInitialOwner == [x \in Items |-> alice]

MCFeedUnit == [f \in Feeds |-> 1]

Rich == [t \in Tokens |-> [a \in Accounts |-> IF a = alice THEN 0 ELSE 2]]

List(t, unit, enabled) ==
  [token |-> t, feed |-> usdt_feed, unit |-> unit, enabled |-> enabled]
ListUsdt == {List(usdt, 1, TRUE)}
ListBoth == {List(usdt, 1, TRUE), List(Native, 1, TRUE)}
Relist == {List(usdt, 2, TRUE), List(usdt, 2, FALSE), List(Native, 1, TRUE)}

Good == [answer |-> 1, updatedAt |-> 1]
High == [answer |-> 2, updatedAt |-> 1]
Negative == [answer |-> -1, updatedAt |-> 1]
NoRound == [answer |-> 1, updatedAt |-> 0]

OnePrice == {Good}
TwoPrices == {Good, High}
AllRounds == {Good, High, Negative, NoRound}
=============================================================================
