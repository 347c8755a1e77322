---------------------------- MODULE MarketEvents ----------------------------
(***************************************************************************)
(* The market with its events as a history variable: those the tables of   *)
(* the back end are made of, with the arguments that are in a row.  Events *)
(* that fill no table (AuctionCreated among them) are left out.            *)
(***************************************************************************)
EXTENDS AuctionMarket, EventOrder, Sequences

VARIABLE log      \* history: the proxy's events so far

eventVars == <<vars, log>>

EventInit == Init /\ log = <<>>

Emit(name, args) ==
  log' = Append(log, [abi |-> "auction_market_v3", name |-> name,
                      args |-> args])

CreateEmits(sender) ==
  \/ /\ \E x \in Items, d \in Durations : CreateAuction(sender, x, d)
     /\ UNCHANGED log
  \/ \E x \in Items, s \in StartTimes, e \in EndTimes, p \in StartingPrices :
       /\ CreateAuctionV3(sender, x, s, e, p)
       /\ Emit("AuctionCreatedV3", [auctionId |-> auctionCount,
                                    seller |-> sender, tokenId |-> x])

BidEmits(sender) ==
  \E id \in AuctionIds, amount \in Amounts, round \in Rounds :
    /\ \/ BidWithEth(sender, id, amount, round)
       \/ \E t \in Erc20s : BidWithToken(sender, id, t, amount, round)
    /\ Emit("BidPlaced", [auctionId |-> id, bidder |-> sender,
                          amountUsd |-> auctions'[id].highestBidUsd])

CancelEmits(sender) ==
  \E id \in AuctionIds :
    /\ CancelAuction(sender, id)
    /\ Emit("AuctionCancelled", [auctionId |-> id])

EndEmits ==
  \E id \in AuctionIds :
    EndAuction(id) /\ Emit("AuctionEnded", [auctionId |-> id])

EventNext ==
  \/ \E sender \in Accounts :
       \/ CreateEmits(sender) \/ BidEmits(sender) \/ CancelEmits(sender)
       \/ (OwnerCall(sender) \/ HolderCall(sender)) /\ UNCHANGED log
  \/ EndEmits
  \/ Tick /\ UNCHANGED log

EventSpec == EventInit /\ [][EventNext]_eventVars
-----------------------------------------------------------------------------
(* The events tell each auction's story in order, and with the arguments   *)
(* its rows need, across upgrades and relistings of an item: this is what  *)
(* the handlers of the indexer rely on and never check.                    *)
EventsInOrder ==
  /\ \A i \in DOMAIN log : ArgsSound(log[i], AuctionIds, Accounts, Items)
  /\ InOrder(log)
=============================================================================
