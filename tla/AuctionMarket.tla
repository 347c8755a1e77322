---------------------------- MODULE AuctionMarket ----------------------------
(***************************************************************************)
(* The auction market contract behind its UUPS proxy, from AuctionMarket   *)
(* (V1) through AuctionMarketV2 (platform fee) to AuctionMarketV3          *)
(* (scheduled start, starting price, cancellation, one NFT contract).      *)
(*                                                                         *)
(* A transaction is atomic: an action is one external call with every      *)
(* call it makes, and a revert is an action that is not enabled.  NFT and  *)
(* ERC20 approvals are a gate their owner can open just before a call, so  *)
(* they are left out here.  The price feed is the environment: each bid is *)
(* quoted at whatever round the feed of its token then reports.            *)
(***************************************************************************)
EXTENDS Totals

CONSTANTS
  Accounts,         \* externally owned accounts and contracts that call
  Market,           \* the proxy's own address
  Zero,             \* address(0)
  Native,           \* NATIVE_TOKEN, ETH
  Erc20s,           \* the payment tokens, standard ERC20s
  Items,            \* the NFTs: one element stands for (nft, tokenId)
  ContractOf,       \* the ERC721 contract of an item
  Feeds,            \* Chainlink price feeds
  FeedUnit,         \* 10 ** feed.decimals() of a feed
  UsdUnit,          \* 10 ** USD_DECIMALS
  BpsDenominator,   \* BPS_DENOMINATOR
  EthReceivers,     \* the accounts whose receive() accepts ETH
  NftReceivers,     \* the accounts onERC721Received accepts an NFT for
  Funding,          \* what each account holds of each token at first
  InitialOwner,     \* who holds each item at first, Zero if not minted
  InitialImpls,     \* implementations the proxy may be deployed with
  Deployers,        \* the initial owners of the market
  \* the arguments calls are made with, and who calls renounceOwnership
  Listings, FeeRecipients, FeeRates, NewOwners, Renouncers, Durations,
  StartTimes, EndTimes, StartingPrices, Amounts, Rounds, NftRecipients, Gifts,
  \* bounds
  MaxAuctions, MaxTime

Tokens == {Native} \cup Erc20s
Holders == Accounts \cup {Market, Zero}
NftContracts == {ContractOf[x] : x \in Items}

ASSUME AddressAssumption ==
  /\ Market \notin Accounts
  /\ Zero \notin Accounts \cup {Market} \cup NftContracts \cup Feeds
  /\ Native \notin Erc20s
  /\ EthReceivers \subseteq Accounts
  /\ NftReceivers \subseteq Accounts

ASSUME NumberAssumption ==
  /\ FeedUnit \in [Feeds -> Nat \ {0}]
  /\ UsdUnit \in Nat \ {0}
  /\ BpsDenominator \in Nat \ {0}
  /\ Amounts \cup Gifts \subseteq Nat
  /\ Rounds \subseteq [answer : Int, updatedAt : Nat]
  /\ Durations \cup StartTimes \cup EndTimes \subseteq Nat
  /\ StartingPrices \cup FeeRates \subseteq Nat
  /\ MaxAuctions \in Nat
  /\ MaxTime \in Nat \ {0}

PaymentConfig ==
  [feed : Feeds \cup {Zero}, unit : Nat \ {0}, enabled : BOOLEAN]

ASSUME ChoiceAssumption ==
  /\ Listings \subseteq [token : Tokens, feed : Feeds \cup {Zero},
                         unit : Nat \ {0}, enabled : BOOLEAN]
  /\ FeeRecipients \subseteq Holders
  /\ NewOwners \subseteq Accounts
  /\ NftRecipients \subseteq Accounts \cup {Market}

ASSUME InitialAssumption ==
  /\ Deployers \subseteq Accounts
  /\ Funding \in [Tokens -> [Accounts -> Nat]]
  /\ InitialOwner \in [Items -> Accounts \cup {Zero}]
  /\ InitialImpls \subseteq 1 .. 3

VARIABLES
  impl,            \* the version of the implementation behind the proxy
  owner,           \* owner() of the market, Zero once renounced
  paymentTokens,   \* the whitelist of payment tokens
  auctionCount,    \* auctions.length
  auctions,        \* the auctions array, auctionId is the index
  extras,          \* auctionV3Extras, all zero for a legacy auction
  active,          \* nftToActiveAuctionIdPlusOne
  auctionNft,      \* the one NFT contract V3 auctions
  feeRecipient,    \* Zero means owner()
  platformFeeBps,
  nftOwner,        \* ERC721 ownership
  balance,         \* ETH and ERC20 balances
  stray,           \* history: units the market holds that no auction owes
  now              \* block.timestamp

vars == <<impl, owner, paymentTokens, auctionCount, auctions, extras, active,
          auctionNft, feeRecipient, platformFeeBps, nftOwner, balance, stray,
          now>>

admin == <<impl, owner, paymentTokens, auctionNft, feeRecipient,
           platformFeeBps>>
book == <<auctionCount, auctions, extras, active>>
purse == <<balance, stray>>

AuctionIds == 0 .. auctionCount - 1

Auction ==
  [seller : Accounts, item : Items, endTime : Nat, ended : BOOLEAN,
   highestBidder : Accounts \cup {Zero}, paymentToken : Tokens,
   highestBid : Nat, highestBidUsd : Nat]

Extra ==
  [startTime : Nat, startingPriceUsd : Nat, cancelled : BOOLEAN,
   v3Created : BOOLEAN]

LegacyExtra ==
  [startTime |-> 0, startingPriceUsd |-> 0, cancelled |-> FALSE,
   v3Created |-> FALSE]

EmptyArray == [id \in {} |-> 0]

TypeOK ==
  /\ impl \in 1 .. 3
  /\ owner \in Accounts \cup {Zero}
  /\ paymentTokens \in [Tokens -> PaymentConfig]
  /\ \A t \in Tokens : paymentTokens[t].enabled => paymentTokens[t].feed # Zero
  /\ auctionCount \in Nat
  /\ auctions \in [AuctionIds -> Auction]
  /\ extras \in [AuctionIds -> Extra]
  /\ active \in [Items -> Nat]
  /\ auctionNft \in NftContracts \cup {Zero}
  /\ feeRecipient \in Holders
  /\ platformFeeBps \in 0 .. BpsDenominator
  /\ nftOwner \in [Items -> Holders]
  /\ balance \in [Tokens -> [Holders -> Nat]]
  /\ stray \in [Tokens -> Nat]
  /\ now \in Nat
-----------------------------------------------------------------------------
(* Transfers.                                                              *)

Move(bal, t, from, to, amount) ==
  LET debited == [bal EXCEPT ![t][from] = @ - amount]
  IN  [debited EXCEPT ![t][to] = @ + amount]

(* The market itself has no receive(); an ERC20 rejects address(0).        *)
CanReceive(t, h) ==
  IF t = Native THEN h \in EthReceivers \cup {Zero} ELSE h # Zero

CanPayMutant(bal, t, to, amount) ==   \* no shortcut for an amount of 0
  bal[t][Market] >= amount /\ CanReceive(t, to)

(* _payout, _payoutV2 and _refund: what makes sending amount revert.       *)
CanPay(bal, t, to, amount) ==
  amount = 0 \/ (bal[t][Market] >= amount /\ CanReceive(t, to))

(* quoteBidUsd; round is what latestRoundData of the token's feed returns. *)
Quotable(t, round) ==
  /\ paymentTokens[t].enabled
  /\ round.answer > 0
  /\ round.updatedAt # 0

QuoteBidUsd(t, amount, round) ==
  ((amount * round.answer * UsdUnit) \div paymentTokens[t].unit)
    \div FeedUnit[paymentTokens[t].feed]

(* calculateSellerNetProceeds; the rate is 0 until V2 lets it be set.      *)
FeeAmount(gross) == (gross * platformFeeBps) \div BpsDenominator

EffectiveFeeRecipient == IF feeRecipient = Zero THEN owner ELSE feeRecipient
-----------------------------------------------------------------------------
Init ==
  /\ impl \in InitialImpls
  /\ owner \in Deployers
  /\ paymentTokens = [t \in Tokens |->
                        [feed |-> Zero, unit |-> 1, enabled |-> FALSE]]
  /\ auctionCount = 0
  /\ auctions = EmptyArray
  /\ extras = EmptyArray
  /\ active = [x \in Items |-> 0]
  /\ auctionNft = Zero
  /\ feeRecipient = Zero
  /\ platformFeeBps = 0
  /\ nftOwner = InitialOwner
  /\ balance = [t \in Tokens |-> [h \in Holders |->
                  IF h \in Accounts THEN Funding[t][h] ELSE 0]]
  /\ stray = [t \in Tokens |-> 0]
  /\ now = 1
-----------------------------------------------------------------------------
(* The owner's calls.                                                      *)

OnlyOwner(sender) == sender = owner

SetPaymentToken(sender, t, feed, unit, enabled) ==
  /\ OnlyOwner(sender)
  /\ feed # Zero
  /\ paymentTokens' = [paymentTokens EXCEPT ![t] =
                         [feed |-> feed, unit |-> unit, enabled |-> enabled]]
  /\ UNCHANGED <<impl, owner, auctionNft, feeRecipient, platformFeeBps,
                 book, nftOwner, purse, now>>

SetFeeConfigMutant(sender, recipient, bps) ==   \* any rate
  /\ impl >= 2
  /\ OnlyOwner(sender)
  /\ feeRecipient' = recipient
  /\ platformFeeBps' = bps
  /\ UNCHANGED <<impl, owner, paymentTokens, auctionNft, book, nftOwner,
                 purse, now>>

SetFeeConfig(sender, recipient, bps) ==
  /\ impl >= 2
  /\ OnlyOwner(sender)
  /\ bps <= BpsDenominator
  /\ feeRecipient' = recipient
  /\ platformFeeBps' = bps
  /\ UNCHANGED <<impl, owner, paymentTokens, auctionNft, book, nftOwner,
                 purse, now>>

InitializeV3(sender, contract) ==
  /\ impl = 3
  /\ OnlyOwner(sender)
  /\ auctionNft = Zero
  /\ auctionNft' = contract
  /\ UNCHANGED <<impl, owner, paymentTokens, feeRecipient, platformFeeBps,
                 book, nftOwner, purse, now>>

(* upgradeToAndCall as the scripts run it: V2 with no call, V3 with        *)
(* initializeV3 in the same transaction and from either version.  That the *)
(* V2 script is not run on a V3 market is an assumption about the owner:   *)
(* no code prevents it (see Deployment).                                   *)
UpgradeToV2(sender) ==
  /\ OnlyOwner(sender)
  /\ impl = 1
  /\ impl' = 2
  /\ UNCHANGED <<owner, paymentTokens, auctionNft, feeRecipient,
                 platformFeeBps, book, nftOwner, purse, now>>

UpgradeToV3(sender, contract) ==
  /\ OnlyOwner(sender)
  /\ impl < 3
  /\ auctionNft = Zero
  /\ impl' = 3
  /\ auctionNft' = contract
  /\ UNCHANGED <<owner, paymentTokens, feeRecipient, platformFeeBps, book,
                 nftOwner, purse, now>>

TransferOwnership(sender, newOwner) ==
  /\ OnlyOwner(sender)
  /\ newOwner # owner
  /\ owner' = newOwner
  /\ UNCHANGED <<impl, paymentTokens, auctionNft, feeRecipient,
                 platformFeeBps, book, nftOwner, purse, now>>

RenounceOwnership(sender) ==
  /\ OnlyOwner(sender)
  /\ owner' = Zero
  /\ UNCHANGED <<impl, paymentTokens, auctionNft, feeRecipient,
                 platformFeeBps, book, nftOwner, purse, now>>
-----------------------------------------------------------------------------
(* auctions.push, with the extra the version writes beside it.             *)
PushAuction(sender, item, endTime, extra) ==
  /\ auctionCount < MaxAuctions
  /\ auctionCount' = auctionCount + 1
  /\ auctions' = [id \in 0 .. auctionCount |->
                    IF id < auctionCount THEN auctions[id]
                    ELSE [seller |-> sender, item |-> item,
                          endTime |-> endTime, ended |-> FALSE,
                          highestBidder |-> Zero, paymentToken |-> Native,
                          highestBid |-> 0, highestBidUsd |-> 0]]
  /\ extras' = [id \in 0 .. auctionCount |->
                  IF id < auctionCount THEN extras[id] ELSE extra]

EscrowMutant(sender, item) ==   \* the transfer is forgotten
  nftOwner[item] = sender /\ UNCHANGED nftOwner

(* safeTransferFrom(msg.sender, market, tokenId)                           *)
Escrow(sender, item) ==
  /\ nftOwner[item] = sender
  /\ nftOwner' = [nftOwner EXCEPT ![item] = Market]

CreateAuction(sender, item, duration) ==
  /\ impl < 3
  /\ duration # 0
  /\ PushAuction(sender, item, now + duration, LegacyExtra)
  /\ Escrow(sender, item)
  /\ UNCHANGED <<admin, active, purse, now>>

CreateAuctionV3(sender, item, startTime, endTime, startingPriceUsd) ==
  /\ impl = 3
  /\ auctionNft = ContractOf[item]
  /\ startTime < endTime
  /\ endTime > now
  /\ active[item] = 0
  /\ PushAuction(sender, item, endTime,
                 [startTime |-> startTime,
                  startingPriceUsd |-> startingPriceUsd,
                  cancelled |-> FALSE, v3Created |-> TRUE])
  /\ active' = [active EXCEPT ![item] = auctionCount + 1]
  /\ Escrow(sender, item)
  /\ UNCHANGED <<admin, purse, now>>

OutbidsMutant(id, amountUsd) ==   \* not strictly
  amountUsd >= auctions[id].highestBidUsd

Outbids(id, amountUsd) == amountUsd > auctions[id].highestBidUsd

(* _refund of the standing bid of id, if it has one, in its own token.     *)
CanRefund(bal, id) ==
  LET old == auctions[id]
  IN  old.highestBidder # Zero =>
        CanPay(bal, old.paymentToken, old.highestBidder, old.highestBid)

RefundMutant(bal, id) ==   \* always in ETH
  LET old == auctions[id]
  IN  IF old.highestBidder = Zero THEN bal
      ELSE Move(bal, Native, Market, old.highestBidder, old.highestBid)

Refund(bal, id) ==
  LET old == auctions[id]
  IN  IF old.highestBidder = Zero THEN bal
      ELSE Move(bal, old.paymentToken, Market, old.highestBidder,
                old.highestBid)

(* What AuctionMarketV3._placeBid asks first.  Before V3 every extra is    *)
(* LegacyExtra, so it asks nothing there.                                  *)
BiddableV3(id, amountUsd) ==
  extras[id].v3Created => /\ ~extras[id].cancelled
                          /\ now >= extras[id].startTime
                          /\ amountUsd >= extras[id].startingPriceUsd

(* _placeBid, with the transfer of the amount into the market before it.   *)
PlaceBid(sender, id, t, amount, round) ==
  LET auction == auctions[id]
      amountUsd == QuoteBidUsd(t, amount, round)
      paid == Move(balance, t, sender, Market, amount)
  IN  /\ ~auction.ended
      /\ now < auction.endTime
      /\ Quotable(t, round)
      /\ BiddableV3(id, amountUsd)
      /\ Outbids(id, amountUsd)
      /\ balance[t][sender] >= amount
      /\ auctions' = [auctions EXCEPT ![id] =
                        [@ EXCEPT !.highestBidder = sender,
                                  !.paymentToken = t,
                                  !.highestBid = amount,
                                  !.highestBidUsd = amountUsd]]
      /\ CanRefund(paid, id)
      /\ balance' = Refund(paid, id)
      /\ UNCHANGED <<admin, auctionCount, extras, active, nftOwner, stray,
                     now>>

BidWithEth(sender, id, amount, round) ==
  /\ ~extras[id].v3Created
  /\ amount # 0
  /\ PlaceBid(sender, id, Native, amount, round)

BidWithToken(sender, id, t, amount, round) ==
  /\ t # Native
  /\ amount # 0
  /\ PlaceBid(sender, id, t, amount, round)

CloseMutant(id) ==   \* ended is not set
  /\ auctions' = auctions
  /\ active' = IF extras[id].v3Created
               THEN [active EXCEPT ![auctions[id].item] = 0]
               ELSE active

CloseIndexMutant(id) ==   \* the item is not freed
  /\ auctions' = [auctions EXCEPT ![id] = [@ EXCEPT !.ended = TRUE]]
  /\ active' = active

(* The tail of every settlement: flag the auction and, for a V3 auction,   *)
(* free its item for another one.                                          *)
CloseAuction(id) ==
  /\ auctions' = [auctions EXCEPT ![id] = [@ EXCEPT !.ended = TRUE]]
  /\ active' = IF extras[id].v3Created
               THEN [active EXCEPT ![auctions[id].item] = 0]
               ELSE active

(* safeTransferFrom(market, to, tokenId)                                   *)
CanRelease(item, to) == nftOwner[item] = Market /\ to \in NftReceivers

Release(item, to) ==
  /\ CanRelease(item, to)
  /\ nftOwner' = [nftOwner EXCEPT ![item] = to]

CanSettleLegacyMutant(id) ==   \* refuses the auctions made before V3
  /\ extras[id].v3Created /\ ~extras[id].cancelled
  /\ ~auctions[id].ended
  /\ now >= auctions[id].endTime

CanSettleEarlyMutant(id) ==   \* before the end time
  /\ extras[id].v3Created => ~extras[id].cancelled
  /\ ~auctions[id].ended

CanSettle(id) ==
  /\ extras[id].v3Created => ~extras[id].cancelled
  /\ ~auctions[id].ended
  /\ now >= auctions[id].endTime

CanEndUnsold(id) ==
  /\ CanSettle(id)
  /\ auctions[id].highestBidder = Zero
  /\ CanRelease(auctions[id].item, auctions[id].seller)

EndUnsold(id) ==
  /\ CanEndUnsold(id)
  /\ CloseAuction(id)
  /\ Release(auctions[id].item, auctions[id].seller)
  /\ UNCHANGED <<admin, auctionCount, extras, purse, now>>

(* The balances once the seller has got what the fee leaves.               *)
Net(id) == auctions[id].highestBid - FeeAmount(auctions[id].highestBid)
SellerPaid(id) ==
  Move(balance, auctions[id].paymentToken, Market, auctions[id].seller, Net(id))

CanEndSold(id) ==
  LET auction == auctions[id]
      t == auction.paymentToken
  IN  /\ CanSettle(id)
      /\ auction.highestBidder # Zero
      /\ CanRelease(auction.item, auction.highestBidder)
      /\ CanPay(balance, t, auction.seller, Net(id))
      /\ CanPay(SellerPaid(id), t, EffectiveFeeRecipient,
                FeeAmount(auction.highestBid))

EndSold(id) ==
  LET auction == auctions[id]
      t == auction.paymentToken
      fee == FeeAmount(auction.highestBid)
      recipient == EffectiveFeeRecipient
  IN  /\ CanEndSold(id)
      /\ CloseAuction(id)
      /\ Release(auction.item, auction.highestBidder)
      /\ balance' = Move(SellerPaid(id), t, Market, recipient, fee)
      /\ stray' = IF recipient = Market
                  THEN [stray EXCEPT ![t] = @ + fee] ELSE stray
      /\ UNCHANGED <<admin, auctionCount, extras, now>>

EndAuction(id) == EndUnsold(id) \/ EndSold(id)

CanCancelMutant(sender, id) ==   \* a settled auction, too
  /\ extras[id].v3Created
  /\ auctions[id].seller = sender
  /\ ~extras[id].cancelled
  /\ auctions[id].highestBidder = Zero

CanCancel(sender, id) ==
  /\ extras[id].v3Created
  /\ auctions[id].seller = sender
  /\ ~auctions[id].ended
  /\ ~extras[id].cancelled
  /\ auctions[id].highestBidder = Zero

CancelAuction(sender, id) ==
  /\ CanCancel(sender, id)
  /\ extras' = [extras EXCEPT ![id] = [@ EXCEPT !.cancelled = TRUE]]
  /\ CloseAuction(id)
  /\ Release(auctions[id].item, sender)
  /\ UNCHANGED <<admin, auctionCount, purse, now>>
-----------------------------------------------------------------------------
(* What the tokens let their holders do without the market: the market is  *)
(* an ERC721Holder and any ERC20 can be sent to any address.               *)

SendNft(sender, item, to) ==
  /\ nftOwner[item] = sender
  /\ to # sender
  /\ nftOwner' = [nftOwner EXCEPT ![item] = to]
  /\ UNCHANGED <<admin, book, purse, now>>

SendToken(sender, t, amount) ==
  /\ t # Native
  /\ amount # 0
  /\ balance[t][sender] >= amount
  /\ balance' = Move(balance, t, sender, Market, amount)
  /\ stray' = [stray EXCEPT ![t] = @ + amount]
  /\ UNCHANGED <<admin, book, nftOwner, now>>

Tick ==
  /\ now < MaxTime
  /\ now' = now + 1
  /\ UNCHANGED <<admin, book, nftOwner, purse>>
-----------------------------------------------------------------------------
OwnerCall(sender) ==
  \/ \E l \in Listings :
       SetPaymentToken(sender, l.token, l.feed, l.unit, l.enabled)
  \/ \E recipient \in FeeRecipients, bps \in FeeRates :
       SetFeeConfig(sender, recipient, bps)
  \/ \E c \in NftContracts : InitializeV3(sender, c) \/ UpgradeToV3(sender, c)
  \/ UpgradeToV2(sender)
  \/ \E a \in NewOwners : TransferOwnership(sender, a)
  \/ sender \in Renouncers /\ RenounceOwnership(sender)

SellerCall(sender) ==
  \/ \E x \in Items, d \in Durations : CreateAuction(sender, x, d)
  \/ \E x \in Items, s \in StartTimes, e \in EndTimes,
        p \in StartingPrices :
       CreateAuctionV3(sender, x, s, e, p)
  \/ \E id \in AuctionIds : CancelAuction(sender, id)

BidderCall(sender) ==
  \E id \in AuctionIds, amount \in Amounts, round \in Rounds :
    \/ BidWithEth(sender, id, amount, round)
    \/ \E t \in Erc20s : BidWithToken(sender, id, t, amount, round)

HolderCall(sender) ==
  \/ \E x \in Items, to \in NftRecipients : SendNft(sender, x, to)
  \/ \E t \in Erc20s, amount \in Gifts : SendToken(sender, t, amount)

Next ==
  \/ \E sender \in Accounts :
       OwnerCall(sender) \/ SellerCall(sender) \/ BidderCall(sender)
         \/ HolderCall(sender)
  \/ \E id \in AuctionIds : EndAuction(id)
  \/ Tick

Spec == Init /\ [][Next]_vars
-----------------------------------------------------------------------------
IsOpen(id) == ~auctions[id].ended

(* What the market owes the standing bidder of each auction in token t.    *)
Owed(t) ==
  [id \in AuctionIds |->
     IF IsOpen(id) /\ auctions[id].paymentToken = t
     THEN auctions[id].highestBid ELSE 0]

OwedTo(a, t) ==
  [id \in AuctionIds |->
     IF auctions[id].highestBidder = a THEN Owed(t)[id] ELSE 0]

(* What account a has of token t: its balance and its standing bids, which *)
(* it gets back when it is outbid.                                         *)
Worth(a, t) == balance[t][a] + Total(OwedTo(a, t), auctionCount)

(* The market holds, of every payment asset, exactly the standing bids of  *)
(* its unsettled auctions and what was sent to it for nothing: every       *)
(* deposit, refund, seller payout and fee of bidWithEth, bidWithToken,     *)
(* _refund, _payout and _payoutV2 adds up over all auctions at once.       *)
EscrowExact ==
  \A t \in Tokens :
    balance[t][Market] = Total(Owed(t), auctionCount) + stray[t]

(* The NFT of an unsettled auction is in the market's custody, and no      *)
(* other unsettled auction sells it: createAuction has no check of its own *)
(* for this and relies on the transfer, across upgrades too.               *)
Custody ==
  \A id \in AuctionIds : IsOpen(id) =>
    /\ nftOwner[auctions[id].item] = Market
    /\ \A other \in AuctionIds :
         IsOpen(other) /\ auctions[other].item = auctions[id].item
           => other = id

(* nftToActiveAuctionIdPlusOne names the one unsettled V3 auction of an    *)
(* item, and is 0 exactly when there is none: createAuctionV3,             *)
(* cancelAuction and endAuction keep it in step with the auctions array.   *)
ActiveIndexExact ==
  \A x \in Items :
    /\ active[x] <= auctionCount
    /\ \A id \in AuctionIds :
         active[x] = id + 1 <=> /\ extras[id].v3Created
                                /\ IsOpen(id)
                                /\ auctions[id].item = x

(* The fields of an auction agree with each other and with its V3 extra:   *)
(* a standing bid has a bidder, an amount and a USD value at or above the  *)
(* starting price; a cancelled auction is a settled V3 auction that nobody *)
(* bid on; any other auction settles only once its end time has passed.    *)
LotsConsistent ==
  \A id \in AuctionIds :
    LET auction == auctions[id]
        extra == extras[id]
    IN  /\ auction.highestBidder = Zero <=> auction.highestBid = 0
        /\ auction.highestBidder = Zero <=> auction.highestBidUsd = 0
        /\ extra.v3Created /\ auction.highestBidder # Zero
             => /\ auction.highestBidUsd >= extra.startingPriceUsd
                /\ auction.paymentToken # Native
                /\ extra.startTime <= now
        /\ extra.cancelled
             => /\ extra.v3Created
                /\ auction.ended
                /\ auction.highestBidder = Zero
        /\ auction.ended /\ ~extra.cancelled => now >= auction.endTime

(* Settlement never wedges on the market's own books: once an auction has  *)
(* expired, endAuction goes through whenever the parties can receive what  *)
(* is theirs, and the seller of a V3 auction without a bid can cancel it.  *)
(* Nothing the market did before (other auctions, refunds, fee changes,    *)
(* upgrades) can have used up the money or the NFT.  The guards are all    *)
(* that these actions ask: the rest of them assigns each variable once.    *)
NothingStuck ==
  \A id \in AuctionIds : IsOpen(id) =>
    LET auction == auctions[id]
        t == auction.paymentToken
        sold == auction.highestBidder # Zero
    IN  /\ /\ now >= auction.endTime
           /\ (IF sold THEN auction.highestBidder ELSE auction.seller)
                \in NftReceivers
           /\ sold =>
                /\ CanReceive(t, auction.seller)
                /\ \/ FeeAmount(auction.highestBid) = 0
                   \/ CanReceive(t, EffectiveFeeRecipient)
           => CanEndUnsold(id) \/ CanEndSold(id)
        /\ extras[id].v3Created /\ ~sold /\ auction.seller \in NftReceivers
           => /\ CanCancel(auction.seller, id)
              /\ CanRelease(auction.item, auction.seller)

(* A settled or cancelled auction is closed for good: no later bid,        *)
(* cancellation, second settlement, relisting or upgrade changes a field.  *)
EndedIsFinal ==
  [][\A id \in AuctionIds : auctions[id].ended =>
       auctions'[id] = auctions[id] /\ extras'[id] = extras[id]]_vars

(* A bid costs nobody anything until the auction settles: while no auction *)
(* closes and nothing is given away, what every account has, counting the  *)
(* standing bids it would get back, stays the same.  Outbid bidders are    *)
(* refunded in full in their own token, the one outbidding themselves too. *)
BidsKeepWorth ==
  [][/\ \A id \in AuctionIds : auctions'[id].ended = auctions[id].ended
     /\ stray' = stray
     => \A a \in Accounts, t \in Tokens : Worth(a, t)' = Worth(a, t)]_vars
=============================================================================
