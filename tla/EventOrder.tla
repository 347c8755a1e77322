----------------------------- MODULE EventOrder -----------------------------
(***************************************************************************)
(* What the market's events promise to whoever makes tables of them, shared *)
(* by the market, which emits them, and by the indexer.  An event has the  *)
(* abi it is read with, its name and its arguments.                        *)
(***************************************************************************)
EXTENDS Integers

(* The market's events that the tables are made of.                        *)
AuctionEvents ==
  {"AuctionCreatedV3", "BidPlaced", "AuctionEnded", "AuctionCancelled"}

OfAuction(e) == e.abi = "auction_market_v3" /\ e.name \in AuctionEvents

(* The arguments are of the right sort, and no bid is of 0 USD.            *)
ArgsSound(e, ids, accounts, items) ==
  OfAuction(e) =>
    /\ e.args.auctionId \in ids
    /\ e.name = "AuctionCreatedV3" =>
         e.args.seller \in accounts /\ e.args.tokenId \in items
    /\ e.name = "BidPlaced" =>
         /\ "amountUsd" \in DOMAIN e.args
         /\ e.args.bidder \in accounts /\ e.args.amountUsd \in Nat \ {0}

(* Of an auction of AuctionMarketV3 the creation comes first, each bid is  *)
(* above the one before it, and nothing comes after the end.               *)
InOrder(events) ==
  \A c, i, j \in DOMAIN events :
    /\ i < j
    /\ OfAuction(events[c]) /\ events[c].name = "AuctionCreatedV3"
    /\ \A k \in {i, j} :
         /\ OfAuction(events[k])
         /\ events[k].args.auctionId = events[c].args.auctionId
    => /\ events[i].name \notin {"AuctionEnded", "AuctionCancelled"}
       /\ events[j].name # "AuctionCreatedV3"
       /\ events[i].name = "BidPlaced" /\ events[j].name = "BidPlaced" =>
            events[i].args.amountUsd < events[j].args.amountUsd
=============================================================================
