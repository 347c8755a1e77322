-------------------------- MODULE MarketRefinement --------------------------
(***************************************************************************)
(* The market implements the English auction.  A lot is an entry of the    *)
(* auctions array, Worth counts escrowed bids as still the bidder's, and   *)
(* a fee that goes to no account (the market itself, or address(0)) is     *)
(* taken by NoOne.                                                         *)
(***************************************************************************)
EXTENDS AuctionMarket

Phase(id) ==
  IF IsOpen(id) THEN "open"
  ELSE IF auctions[id].highestBidder = Zero THEN "returned" ELSE "sold"

Lot(id) ==
  [seller |-> auctions[id].seller, item |-> auctions[id].item,
   phase |-> Phase(id), leader |-> auctions[id].highestBidder,
   token |-> auctions[id].paymentToken, amount |-> auctions[id].highestBid,
   price |-> auctions[id].highestBidUsd]

English == INSTANCE EnglishAuction WITH
  NoOne <- Zero,
  lots <- [id \in AuctionIds |-> Lot(id)],
  keeper <- nftOwner,
  worth <- [a \in Accounts |-> [t \in Tokens |-> Worth(a, t)]]

(* Every behaviour of the market, across upgrades, fee changes, refunds,   *)
(* cancellations and relistings, is one of the English auction: an NFT     *)
(* leaves only to the last leader or back to its seller, and money moves   *)
(* only when a lot closes, from the leader to the seller and the platform. *)
ImplementsEnglishAuction == English!Spec
=============================================================================
