---------------------------- MODULE MCMarketIndex ----------------------------
(***************************************************************************)
(* Values of MarketIndex's constants for the runs: auction 1 under V3, with *)
(* bids and a settlement or with none and a cancellation, and auction 0    *)
(* from before V3.  Source 1 is the market, source 2 AuctionNFT, source 3  *)
(* the payment token.                                                      *)
(***************************************************************************)
EXTENDS MarketIndex, TLC

CONSTANTS upgraded, opened0, bid0, escrowed, opened1, low1, high1, taken,
          ended1, returned, cancelled1, fees, funded,
          alice, bob, house, eth, nftContract, gem

MCSourceOf ==
  [l \in Logs |-> CASE l \in {escrowed, taken, returned} -> 2
                     [] l = funded -> 3
                     [] OTHER -> 1]
MCStartBlock == [s \in Sources |-> 1]
MCAbi == SubSeq(<<"auction_market_v3", "auction_nft", "erc20">>, 1, NumSources)

Ev(name, args) == [name |-> name, args |-> args]

BidOn(id, who, usd) ==
  Ev("BidPlaced", [auctionId |-> id, bidder |-> who, paymentToken |-> eth,
                   amount |-> usd, amountUsd |-> usd])
MoveTo(from, to) == Ev("Transfer", [from |-> from, to |-> to, tokenId |-> gem])

AllEvents ==
  (upgraded :> Ev("Upgraded", [implementation |-> house])) @@
  (opened0 :> Ev("AuctionCreated", [auctionId |-> 0, seller |-> bob,
                                    nft |-> nftContract, tokenId |-> gem])) @@
  (bid0 :> BidOn(0, alice, 1)) @@
  (escrowed :> MoveTo(alice, house)) @@
  (opened1 :> Ev("AuctionCreatedV3",
                 [auctionId |-> 1, seller |-> alice, tokenId |-> gem,
                  startTime |-> 0, endTime |-> 1, startingPriceUsd |-> 1])) @@
  (low1 :> BidOn(1, alice, 1)) @@
  (high1 :> BidOn(1, bob, 2)) @@
  (taken :> MoveTo(house, bob)) @@
  (ended1 :> Ev("AuctionEnded", [auctionId |-> 1, winner |-> bob,
                                 paymentToken |-> eth, amount |-> 2])) @@
  (returned :> MoveTo(house, alice)) @@
  (cancelled1 :> Ev("AuctionCancelled", [auctionId |-> 1, seller |-> alice,
                                         tokenId |-> gem])) @@
  (fees :> Ev("FeeConfigUpdated", [feeRecipient |-> bob,
                                   platformFeeBps |-> 1])) @@
  (funded :> Ev("Transfer", [from |-> house, to |-> alice, value |-> 2]))

MCEmitted == [l \in Logs |-> AllEvents[l]]

MCHistories ==
  {<<escrowed, opened1, low1, high1, taken, ended1>>,
   <<escrowed, opened1, returned, cancelled1>>,
   <<upgraded, opened0, bid0, fees>>,
   <<funded>>}
=============================================================================
