--------------------------- MODULE MCMarketClient ---------------------------
(***************************************************************************)
(* Values of MarketClient's constants for the run.                         *)
(***************************************************************************)
EXTENDS MarketClient

CONSTANTS alice, bob, carol, usdt, nft, feed

MCContractOf == [x \in Items |-> nft]
MCFeedUnit == [f \in Feeds |-> 1]
MCFunding ==
  [t \in Tokens |-> [a \in Accounts |-> IF a \in WalletAccounts THEN 2 ELSE 0]]
MCInitialOwner == [x \in Items |-> IF x = 0 THEN carol ELSE alice]
MCRounds == {[answer |-> 1, updatedAt |-> 1]}
=============================================================================
