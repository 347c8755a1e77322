------------------------- MODULE MarketClientProofs -------------------------
(***************************************************************************)
(* Theorems about MarketClient, for any accounts, tokens, flows and bounds:*)
(* what the front end's flows keep true of themselves, of the wallet and   *)
(* of the allowances they leave behind, while the books of the market stay *)
(* what AuctionMarketProofs says of them.                                   *)
(***************************************************************************)
EXTENDS MarketClient, AuctionMarketProofs

(* What the code of a flow relies on where it is: the accounts it got from *)
(* the wallet, the function it runs, the arguments of its click, and for a *)
(* mint the check it passed and the id it read.                            *)
Sound(flow, next, count) ==
  /\ flow.pc \in {"idle", "connect", "signer"} => flow.signer = Zero
  /\ flow.pc \notin {"idle", "connect", "done"}
       => flow.wallet \in WalletAccounts
  /\ flow.pc \notin {"idle", "connect", "signer", "done"}
       => flow.signer \in WalletAccounts
  /\ flow.pc \in {"approveNft", "createTx"} => flow.kind = "submit"
  /\ flow.pc \in {"readAllowance", "approveToken", "bidTx"}
       => flow.kind = "bid"
  /\ flow.pc = "cancelTx" => flow.kind = "cancel"
  /\ flow.pc = "endTx" => flow.kind = "end"
  /\ flow.kind = "submit" => flow.form \in Items
  /\ flow.kind \in {"bid", "cancel", "end"} /\ flow.pc # "done"
       => flow.id \in 0 .. count - 1
  /\ flow.kind = "bid" /\ flow.pc # "done" => flow.amount \in Amounts \ {0}
  /\ flow.pc \in {"readNext", "mintTx"} => flow.wallet = NftAdmin
  /\ flow.pc = "mintTx" => flow.token <= next
  /\ flow.pc = "minted" => flow.token < next

FlowsSound ==
  /\ flows \in [Flows -> Flow]
  /\ \A f \in Flows : Sound(flows[f], nextTokenId, auctionCount)

(* The books of the market.                                                *)
MarketInv ==
  TypeOK /\ LotsConsistent /\ Custody /\ ActiveIndexExact /\ EscrowExact

(* Tokens are numbered without gaps, and every auction sells one of them.  *)
TokensInv ==
  /\ nextTokenId \in Nat
  /\ 0 .. nextTokenId - 1 \subseteq Items
  /\ \A x \in Items : nftOwner[x] = Zero <=> x >= nextTokenId
  /\ \A id \in AuctionIds : nftOwner[auctions[id].item] # Zero

ViewInv ==
  /\ page \in {"create", "detail"}
  /\ chosen \in Items \cup {NoToken}
  /\ chosen # NoToken => chosen < nextTokenId
  /\ switches \in 0 .. MaxSwitches

(* The wallet's answer is there while the network is being checked.        *)
WalletInv ==
  /\ selected \in WalletAccounts /\ granted \in WalletAccounts \cup {Zero}
  /\ slot \in {"none", "asking", "checking"}
  /\ slot = "checking" => granted \in WalletAccounts
  /\ OneRequest

AllowInv ==
  /\ approved \in [Items -> {Market, Zero}]
  /\ allowance \in [WalletAccounts -> Nat]
  /\ overtaken \subseteq Flows
  /\ AllowanceBounded
  /\ BidBacked

ClientInv ==
  /\ MarketInv /\ TokensInv /\ ViewInv /\ FlowsSound
  /\ WalletInv /\ AllowInv
-----------------------------------------------------------------------------
LEMMA ClientAccounts ==
  /\ WalletAccounts \subseteq Accounts /\ Outsiders \subseteq Accounts
  /\ Zero \notin Accounts /\ Market \notin Accounts /\ Zero # Market
  /\ Zero \notin WalletAccounts /\ Market \notin WalletAccounts
  /\ NftReceivers \subseteq Accounts /\ NftAdmin \in Accounts
  /\ PaymentToken \in Erc20s /\ 0 \in Items /\ Items \subseteq Nat
  /\ NoToken \notin Items
BY ClientAssumption, AddressAssumption

LEMMA ClientMarketInit == ClientInit => MarketInv
<1> SUFFICES ASSUME ClientInit PROVE MarketInv
  OBVIOUS
<1> USE ClientAccounts
<1>1. /\ auctionCount = 1 /\ AuctionIds = {0} /\ now = 1
      /\ MaxTime \in Nat \ {0}
  BY NumberAssumption DEF ClientInit, AuctionIds
<1>2. PICK s \in Outsiders :
        auctions = [id \in {0} |->
          [seller |-> s, item |-> 0, endTime |-> MaxTime, ended |-> FALSE,
           highestBidder |-> Zero, paymentToken |-> Native, highestBid |-> 0,
           highestBidUsd |-> 0]]
  BY DEF ClientInit
<1>3. /\ auctions[0].seller = s /\ auctions[0].item = 0
      /\ auctions[0].ended = FALSE /\ auctions[0].highestBidder = Zero
      /\ auctions[0].paymentToken = Native /\ auctions[0].highestBid = 0
      /\ auctions[0].highestBidUsd = 0
  BY <1>2
<1>4. /\ extras = [id \in {0} |->
           [startTime |-> 1, startingPriceUsd |-> 0, cancelled |-> FALSE,
            v3Created |-> TRUE]]
      /\ extras[0].cancelled = FALSE /\ extras[0].v3Created = TRUE
  BY DEF ClientInit
<1>5. TypeOK
  <2>1. auctions[0] \in Auction
    BY <1>1, <1>2, Addresses DEF Auction
  <2>2. auctions \in [AuctionIds -> Auction]
    BY <1>1, <1>2, <2>1
  <2>3. extras \in [AuctionIds -> Extra] /\ active \in [Items -> Nat]
    BY <1>1, <1>4 DEF Extra, ClientInit
  <2>4. /\ paymentTokens \in [Tokens -> PaymentConfig]
        /\ \A t \in Tokens : paymentTokens[t].enabled
                               => paymentTokens[t].feed # Zero
    <3>1. PICK f \in Feeds :
            paymentTokens =
              [t \in Tokens |-> [feed |-> IF t = PaymentToken THEN f ELSE Zero,
                                 unit |-> 1, enabled |-> t = PaymentToken]]
      BY DEF ClientInit
    <3>2. f # Zero
      BY AddressAssumption
    <3>3. ASSUME NEW t \in Tokens
          PROVE  /\ paymentTokens[t] \in PaymentConfig
                 /\ paymentTokens[t].enabled => paymentTokens[t].feed # Zero
      <4>1. CASE t = PaymentToken
        <5>1. paymentTokens[t] = [feed |-> f, unit |-> 1, enabled |-> TRUE]
          BY <3>1, <4>1, Zenon
        <5>2. QED
          BY <3>2, <5>1 DEF PaymentConfig
      <4>2. CASE t # PaymentToken
        <5>1. paymentTokens[t] = [feed |-> Zero, unit |-> 1, enabled |-> FALSE]
          BY <3>1, <4>2, Zenon
        <5>2. QED
          BY <5>1 DEF PaymentConfig
      <4>3. QED
        BY <4>1, <4>2
    <3>4. DOMAIN paymentTokens = Tokens
          /\ paymentTokens = [t \in Tokens |-> paymentTokens[t]]
      BY <3>1
    <3>5. QED
      BY <3>3, <3>4
  <2>5. nftOwner \in [Items -> Holders]
    BY DEF ClientInit, Holders
  <2>6. balance \in [Tokens -> [Holders -> Nat]] /\ stray \in [Tokens -> Nat]
    BY InitialAssumption DEF ClientInit, Holders
  <2>7. /\ impl \in 1 .. 3 /\ owner \in Accounts \cup {Zero}
        /\ feeRecipient \in Holders /\ platformFeeBps \in 0 .. BpsDenominator
        /\ auctionNft \in NftContracts \cup {Zero}
    BY InitialAssumption, NumberAssumption DEF ClientInit, Holders
  <2>8. QED
    BY <1>1, <2>2, <2>3, <2>4, <2>5, <2>6, <2>7 DEF TypeOK
<1>6. LotsConsistent
  BY <1>1, <1>3, <1>4 DEF LotsConsistent
<1>7. Custody
  <2>1. nftOwner[0] = Market
    BY DEF ClientInit
  <2>2. QED
    BY <1>1, <1>3, <2>1 DEF Custody
<1>8. ActiveIndexExact
  <2>1. active = [x \in Items |-> IF x = 0 THEN 1 ELSE 0]
    BY DEF ClientInit
  <2>2. QED
    BY <1>1, <1>3, <1>4, <2>1 DEF ActiveIndexExact, IsOpen
<1>9. EscrowExact
  <2> SUFFICES ASSUME NEW t \in Tokens
               PROVE  balance[t][Market]
                        = Total(Owed(t), auctionCount) + stray[t]
    BY DEF EscrowExact
  <2>1. balance[t][Market] = 0 /\ stray[t] = 0
    BY DEF ClientInit, Holders
  <2>2. Owed(t) = [id \in {0} |-> 0]
    BY <1>1, <1>3 DEF Owed
  <2>3. Total([id \in {0} |-> 0], 1) = 0
    <3> DEFINE g == [id \in {0} |-> 0]
    <3>1. Total(g, 0 + 1) = Total(g, 0) + g[0]
      BY TotalAppend
    <3>2. Total(g, 0) = 0
      BY TotalEmpty
    <3>3. QED
      BY <3>1, <3>2
  <2>4. QED
    BY <1>1, <2>1, <2>2, <2>3
<1>10. QED
  BY <1>5, <1>6, <1>7, <1>8, <1>9 DEF MarketInv

LEMMA NoFlowSound ==
  /\ NoFlow \in Flow
  /\ \A next, count : Sound(NoFlow, next, count)
BY ClientAccounts DEF NoFlow, Flow, Kinds, Flag, Pcs, Sound

LEMMA ClientInvInit == ClientInit => ClientInv
<1> SUFFICES ASSUME ClientInit PROVE ClientInv
  OBVIOUS
<1> USE ClientAccounts
<1>1. MarketInv
  BY ClientMarketInit
<1>2. TokensInv
  <2>1. /\ nextTokenId = Minted /\ Minted \in Nat \ {0}
        /\ 0 .. Minted - 1 \subseteq Items
    BY ClientAssumption DEF ClientInit
  <2>2. \A x \in Items : nftOwner[x] = Zero <=> x >= Minted
    BY <2>1 DEF ClientInit
  <2>3. \A id \in AuctionIds : nftOwner[auctions[id].item] # Zero
    BY DEF ClientInit, AuctionIds
  <2>4. QED
    BY <2>1, <2>2, <2>3 DEF TokensInv
<1>3. ViewInv
  BY ClientAssumption DEF ClientInit, ViewInv
<1>4. FlowsSound
  BY NoFlowSound DEF ClientInit, FlowsSound
<1>5. WalletInv
  <2>1. Waiting = {}
    BY DEF ClientInit, Waiting, At, NoFlow
  <2>2. QED
    BY <2>1 DEF ClientInit, WalletInv, OneRequest
<1>6. AllowInv
  BY DEF ClientInit, AllowInv, AllowanceBounded, BidBacked, At, NoFlow
<1>7. QED
  BY <1>1, <1>2, <1>3, <1>4, <1>5, <1>6 DEF ClientInv
-----------------------------------------------------------------------------
(* What a step does to the chain: a transaction of AuctionMarket, or a new *)
(* token, for its administrator or for somebody else's wallet.             *)
MarketStep == [Next]_vars /\ nextTokenId' = nextTokenId
Minting ==
  \E sender \in Accounts, to \in Outsiders \cup {NftAdmin} :
    SafeMint(sender, to)

LEMMA ChainSteps ==
  ASSUME ClientInv, [ClientNext]_clientVars
  PROVE  MarketStep \/ Minting
<1> USE ClientAccounts
<1>1. ASSUME UNCHANGED chainVars PROVE MarketStep
  BY <1>1 DEF chainVars, MarketStep
<1>2. ASSUME UNCHANGED <<vars, nextTokenId>> PROVE MarketStep
  BY <1>2 DEF MarketStep
<1>3. ASSUME NEW f \in Flows, Clicks(f) PROVE MarketStep
  BY <1>1, <1>3 DEF Clicks, Click
<1>4. ASSUME NEW f \in Flows, FlowStep(f) PROVE MarketStep \/ Minting
  <2>1. Sound(flows[f], nextTokenId, auctionCount) /\ flows[f] \in Flow
    BY <1>4 DEF ClientInv, FlowsSound
  <2>2. CASE MintTx(f)
    <3>1. flows[f].signer \in Accounts /\ flows[f].wallet = NftAdmin
      BY <2>1, <2>2 DEF MintTx, At, Sound
    <3>2. QED
      BY <2>2, <3>1 DEF MintTx, Minting
  <2>3. CASE CreateTx(f)
    <3>1. flows[f].signer \in Accounts /\ flows[f].form \in Items
      BY <2>1, <2>3 DEF CreateTx, At, Sound
    <3>2. SellerCall(flows[f].signer) /\ nextTokenId' = nextTokenId
      BY <2>3, <3>1 DEF CreateTx, SellerCall
    <3>3. QED
      BY <3>1, <3>2 DEF MarketStep, Next
  <2>4. CASE BidTx(f)
    <3>1. /\ flows[f].signer \in Accounts /\ flows[f].id \in AuctionIds
          /\ flows[f].amount \in Amounts
      BY <2>1, <2>4 DEF BidTx, At, Sound, AuctionIds
    <3>2. BidderCall(flows[f].signer) /\ nextTokenId' = nextTokenId
      BY <2>4, <3>1 DEF BidTx, BidderCall
    <3>3. QED
      BY <3>1, <3>2 DEF MarketStep, Next
  <2>5. CASE CloseTx(f)
    <3>1. flows[f].id \in AuctionIds /\ flows[f].signer \in Accounts
      BY <2>1, <2>5 DEF CloseTx, At, Sound, AuctionIds
    <3>2. /\ \/ SellerCall(flows[f].signer)
             \/ EndAuction(flows[f].id)
          /\ nextTokenId' = nextTokenId
      BY <2>5, <3>1 DEF CloseTx, SellerCall
    <3>3. QED
      BY <3>1, <3>2 DEF MarketStep, Next
  <2>6. CASE ~(MintTx(f) \/ CreateTx(f) \/ BidTx(f) \/ CloseTx(f))
    <3>1. UNCHANGED chainVars \/ UNCHANGED <<vars, nextTokenId>>
      BY <1>4, <2>6 DEF FlowStep, GetSigner, CheckOwner, ReadNext, ShowMinted,
         Load, ApproveNft, ReadAllowance, ApproveToken, Fails, chainVars
    <3>2. QED
      BY <1>1, <1>2, <3>1
  <2>7. QED
    BY <2>2, <2>3, <2>4, <2>5, <2>6
<1>5. CASE Answer \/ CheckNetwork \/ SwitchAccount \/ Navigate \/ Select
  BY <1>1, <1>5 DEF Answer, CheckNetwork, SwitchAccount, Navigate, Select
<1>6. CASE OthersMint
  BY <1>6 DEF OthersMint, Minting
<1>7. CASE OthersTransact
  BY <1>7 DEF OthersTransact, MarketStep, Next
<1>8. CASE UNCHANGED clientVars
  BY <1>1, <1>8 DEF clientVars
<1>9. QED
  BY <1>3, <1>4, <1>5, <1>6, <1>7, <1>8 DEF ClientNext

(* A transaction of the market mints nothing, burns nothing and lists only *)
(* what there is.                                                          *)
LEMMA MarketKeepsTokens ==
  ASSUME TypeOK, TypeOK', [Next]_vars
  PROVE  /\ \A x \in Items : nftOwner'[x] = Zero <=> nftOwner[x] = Zero
         /\ auctionCount <= auctionCount'
         /\ \A id \in AuctionIds' :
              \/ id \in AuctionIds /\ auctions'[id].item = auctions[id].item
              \/ nftOwner[auctions'[id].item] # Zero
<1> USE ClientAccounts
<1>1. /\ nftOwner \in [Items -> Holders] /\ auctionCount \in Nat
      /\ auctions \in [AuctionIds -> Auction]
      /\ \A id \in AuctionIds : auctions[id].item \in Items
  BY DEF TypeOK, Auction
<1>2. ASSUME book' = book
      PROVE  /\ auctionCount <= auctionCount'
             /\ \A id \in AuctionIds' :
                  id \in AuctionIds /\ auctions'[id].item = auctions[id].item
  BY <1>1, <1>2 DEF book, AuctionIds
<1>3. ASSUME NEW id \in AuctionIds, CloseAuction(id),
             auctionCount' = auctionCount
      PROVE  /\ auctionCount <= auctionCount'
             /\ \A i \in AuctionIds' :
                  i \in AuctionIds /\ auctions'[i].item = auctions[i].item
  BY <1>1, <1>3 DEF CloseAuction, AuctionIds, Auction
<1>4. ASSUME NEW item \in Items, NEW to, Release(item, to)
      PROVE  \A x \in Items : nftOwner'[x] = Zero <=> nftOwner[x] = Zero
  BY <1>1, <1>4 DEF Release, CanRelease
<1>5. CASE Idles
  BY <1>2, <1>5 DEF Idles
<1>6. ASSUME NEW s \in Accounts, NEW x \in Items, NEW e \in Nat,
             NEW extra \in Extra, Creates(s, x, e, extra)
      PROVE  /\ \A y \in Items : nftOwner'[y] = Zero <=> nftOwner[y] = Zero
             /\ auctionCount <= auctionCount'
             /\ \A id \in AuctionIds' :
                  \/ id \in AuctionIds
                     /\ auctions'[id].item = auctions[id].item
                  \/ nftOwner[auctions'[id].item] # Zero
  <2>1. nftOwner[x] = s /\ nftOwner' = [nftOwner EXCEPT ![x] = Market]
    BY <1>6 DEF Creates, Escrow
  <2>2. PushAuction(s, x, e, extra) /\ auctionCount' = auctionCount + 1
    BY <1>6 DEF Creates, PushAuction
  <2>3. /\ AuctionIds' = AuctionIds \cup {auctionCount}
        /\ \A id \in AuctionIds : auctions'[id] = auctions[id]
        /\ auctions'[auctionCount].item = x
    <3>1. /\ AuctionIds' = AuctionIds \cup {auctionCount}
          /\ \A id \in AuctionIds : auctions'[id] = auctions[id]
          /\ auctions'[auctionCount] =
               [seller |-> s, item |-> x, endTime |-> e, ended |-> FALSE,
                highestBidder |-> Zero, paymentToken |-> Native,
                highestBid |-> 0, highestBidUsd |-> 0]
      BY <2>2, Appended
    <3>2. QED
      BY <3>1
  <2>4. QED
    BY <1>1, <2>1, <2>2, <2>3
<1>7. ASSUME NEW s \in Accounts, NEW id \in AuctionIds, NEW t \in Tokens,
             NEW m \in Nat, NEW r \in Rounds, Bidding(s, id, t, m, r)
      PROVE  /\ nftOwner' = nftOwner /\ auctionCount <= auctionCount'
             /\ \A i \in AuctionIds' :
                  i \in AuctionIds /\ auctions'[i].item = auctions[i].item
  <2>1. PlaceBid(s, id, t, m, r)
    BY <1>7 DEF Bidding
  <2>2. auctionCount' = auctionCount /\ nftOwner' = nftOwner
    BY <2>1 DEF PlaceBid
  <2>3. \A i \in AuctionIds : auctions'[i].item = auctions[i].item
    BY <1>1, <2>1 DEF PlaceBid, Auction
  <2>4. QED
    BY <1>1, <2>2, <2>3 DEF AuctionIds
<1>8. ASSUME NEW id \in AuctionIds, EndUnsold(id) \/ EndSold(id)
      PROVE  /\ CloseAuction(id) /\ auctionCount' = auctionCount
             /\ \A x \in Items : nftOwner'[x] = Zero <=> nftOwner[x] = Zero
  BY <1>1, <1>4, <1>8 DEF EndUnsold, EndSold
<1>9. ASSUME NEW s \in Accounts, NEW id \in AuctionIds, CancelAuction(s, id)
      PROVE  /\ CloseAuction(id) /\ auctionCount' = auctionCount
             /\ \A x \in Items : nftOwner'[x] = Zero <=> nftOwner[x] = Zero
  BY <1>1, <1>4, <1>9 DEF CancelAuction
<1>10. ASSUME NEW s \in Accounts, NEW x \in Items, NEW to \in NftRecipients,
              SendNft(s, x, to)
       PROVE  /\ book' = book
              /\ \A y \in Items : nftOwner'[y] = Zero <=> nftOwner[y] = Zero
  BY <1>1, <1>10, ChoiceAssumption DEF SendNft
<1>11. ASSUME NEW s \in Accounts, NEW t \in Erc20s, NEW m \in Nat,
              SendToken(s, t, m)
       PROVE  book' = book /\ nftOwner' = nftOwner
  BY <1>11 DEF SendToken
<1>12. QED
  BY <1>2, <1>3, <1>5, <1>6, <1>7, <1>8, <1>9, <1>10, <1>11, Steps

(* A new token is nobody's before, so no auction sells it.                 *)
LEMMA MintingEffect ==
  ASSUME ClientInv, Minting
  PROVE  /\ MarketInv' /\ nextTokenId' = nextTokenId + 1
         /\ nextTokenId \in Items
         /\ \A x \in Items : x # nextTokenId => nftOwner'[x] = nftOwner[x]
         /\ nftOwner'[nextTokenId] \in Outsiders \cup {NftAdmin}
         /\ auctionCount' = auctionCount /\ auctions' = auctions
<1> USE ClientAccounts
<1>1. PICK sender \in Accounts, to \in Outsiders \cup {NftAdmin} :
        SafeMint(sender, to)
  BY DEF Minting
<1>2. /\ nextTokenId' = nextTokenId + 1 /\ nextTokenId \in Items
      /\ nftOwner' = [nftOwner EXCEPT ![nextTokenId] = to]
      /\ UNCHANGED <<admin, book, purse, now>>
  BY <1>1 DEF SafeMint
<1>3. TypeOK /\ nextTokenId \in Nat
  BY DEF ClientInv, MarketInv, TokensInv
<1>4. /\ nftOwner'[nextTokenId] = to
      /\ \A x \in Items : x # nextTokenId => nftOwner'[x] = nftOwner[x]
      /\ nftOwner' \in [Items -> Holders]
  BY <1>2, <1>3, Addresses DEF TypeOK
<1>5. /\ AuctionIds' = AuctionIds /\ auctions' = auctions
      /\ extras' = extras /\ active' = active /\ now' = now
      /\ auctionCount' = auctionCount /\ balance' = balance /\ stray' = stray
  BY <1>2 DEF AuctionIds, book, purse
<1>6. TypeOK'
  BY <1>2, <1>3, <1>4, <1>5 DEF TypeOK, admin
<1>7. LotsConsistent' /\ ActiveIndexExact'
  BY <1>5 DEF ClientInv, MarketInv, LotsConsistent, ActiveIndexExact, IsOpen
<1>8. EscrowExact'
  BY <1>2, <1>3, <1>5, <1>6, EscrowUntouched DEF ClientInv, MarketInv
<1>9. Custody'
  <2>1. nftOwner[nextTokenId] = Zero
    BY <1>2, <1>3 DEF ClientInv, TokensInv
  <2>2. ASSUME NEW id \in AuctionIds, IsOpen(id)
        PROVE  nftOwner'[auctions[id].item] = Market
    <3>1. nftOwner[auctions[id].item] = Market /\ auctions[id].item \in Items
      BY <1>3, <2>2 DEF ClientInv, MarketInv, Custody, TypeOK, Auction
    <3>2. QED
      BY <1>4, <2>1, <3>1
  <2>3. QED
    BY <1>5, <2>2 DEF ClientInv, MarketInv, Custody, IsOpen
<1>10. QED
  BY <1>2, <1>4, <1>5, <1>6, <1>7, <1>8, <1>9 DEF MarketInv

(* The chain under the front end: the books stay right, and there are only *)
(* ever more tokens and auctions.                                          *)
Forward ==
  /\ MarketInv' /\ TokensInv'
  /\ nextTokenId <= nextTokenId' /\ auctionCount <= auctionCount'

LEMMA ChainForward ==
  ASSUME ClientInv, [ClientNext]_clientVars
  PROVE  Forward
<1> USE ClientAccounts
<1>1. /\ TypeOK /\ LotsConsistent /\ Custody /\ ActiveIndexExact
      /\ EscrowExact /\ TokensInv /\ nextTokenId \in Nat
      /\ auctionCount \in Nat
  BY DEF ClientInv, MarketInv, TokensInv, TypeOK
<1>2. CASE MarketStep
  <2>1. [Next]_vars /\ nextTokenId' = nextTokenId
    BY <1>2 DEF MarketStep
  <2>2. MarketInv'
    BY <1>1, <2>1, TypeNext, LotsNext, CustodyNext, IndexNext, EscrowNext
    DEF MarketInv
  <2>3. TypeOK'
    BY <2>2 DEF MarketInv
  <2>4. /\ \A x \in Items : nftOwner'[x] = Zero <=> nftOwner[x] = Zero
        /\ auctionCount <= auctionCount'
        /\ \A id \in AuctionIds' :
             \/ id \in AuctionIds /\ auctions'[id].item = auctions[id].item
             \/ nftOwner[auctions'[id].item] # Zero
    BY <1>1, <2>1, <2>3, MarketKeepsTokens
  <2>5. \A id \in AuctionIds' : auctions'[id].item \in Items
    BY <2>3 DEF TypeOK, Auction
  <2>6. TokensInv'
    BY <1>1, <2>1, <2>4, <2>5 DEF TokensInv
  <2>7. QED
    BY <1>1, <2>1, <2>2, <2>4, <2>6 DEF Forward
<1>3. CASE Minting
  <2>1. /\ MarketInv' /\ nextTokenId' = nextTokenId + 1
        /\ nextTokenId \in Items
        /\ \A x \in Items : x # nextTokenId => nftOwner'[x] = nftOwner[x]
        /\ nftOwner'[nextTokenId] \in Outsiders \cup {NftAdmin}
        /\ auctionCount' = auctionCount /\ auctions' = auctions
    BY <1>3, MintingEffect
  <2>2. \A x \in Items : nftOwner'[x] = Zero <=> x >= nextTokenId + 1
    <3>1. \A x \in Items : x \in Nat /\ (nftOwner[x] = Zero <=> x >= nextTokenId)
      BY <1>1 DEF TokensInv
    <3>2. QED
      BY <1>1, <2>1, <3>1
  <2>3. 0 .. (nextTokenId + 1) - 1 \subseteq Items
    <3>1. 0 .. nextTokenId - 1 \subseteq Items
      BY <1>1 DEF TokensInv
    <3>2. QED
      BY <1>1, <2>1, <3>1
  <2>4. \A id \in AuctionIds : auctions[id].item \in Items
    BY <1>1 DEF TypeOK, Auction
  <2>5. \A id \in AuctionIds' : nftOwner'[auctions'[id].item] # Zero
    <3>1. nftOwner'[nextTokenId] # Zero
      BY <2>1
    <3>2. AuctionIds' = AuctionIds
      BY <2>1 DEF AuctionIds
    <3>3. ASSUME NEW id \in AuctionIds
          PROVE  nftOwner'[auctions[id].item] # Zero
      <4>1. auctions[id].item \in Items /\ nftOwner[auctions[id].item] # Zero
        BY <1>1, <2>4 DEF TokensInv
      <4>2. PICK x \in Items : x = auctions[id].item
        BY <4>1
      <4>3. nftOwner'[x] # Zero
        BY <2>1, <3>1, <4>1, <4>2
      <4>4. QED
        BY <4>2, <4>3
    <3>4. QED
      BY <2>1, <3>2, <3>3
  <2>6. TokensInv'
    <3>1. nextTokenId' \in Nat
      BY <1>1, <2>1
    <3>2. 0 .. nextTokenId' - 1 \subseteq Items
      BY <2>1, <2>3
    <3>3. \A x \in Items : nftOwner'[x] = Zero <=> x >= nextTokenId'
      BY <2>1, <2>2
    <3>4. QED
      BY <2>5, <3>1, <3>2, <3>3 DEF TokensInv
  <2>7. QED
    BY <1>1, <2>1, <2>6 DEF Forward
<1>4. QED
  BY <1>2, <1>3, ChainSteps
-----------------------------------------------------------------------------
(* The flows.                                                              *)

LEMMA KindSteps ==
  /\ Kinds = {"connect", "mint", "submit", "bid", "cancel", "end"}
  /\ FirstStep["connect"] = "load" /\ FirstStep["mint"] = "checkOwner"
  /\ FirstStep["submit"] = "approveNft" /\ FirstStep["bid"] = "readAllowance"
  /\ FirstStep["cancel"] = "cancelTx" /\ FirstStep["end"] = "endTx"
BY DEF Kinds, Flag, FirstStep

LEMMA SoundGrows ==
  ASSUME NEW flow \in Flow, NEW n \in Nat, NEW m \in Nat, n <= m,
         NEW c \in Nat, NEW d \in Nat, c <= d, Sound(flow, n, c)
  PROVE  Sound(flow, m, d)
<1>1. flow.token \in Nat /\ flow.id \in Nat
  BY DEF Flow
<1>2. 0 .. c - 1 \subseteq 0 .. d - 1
  OBVIOUS
<1>3. (flow.token <= n => flow.token <= m) /\ (flow.token < n => flow.token < m)
  BY <1>1
<1>4. QED
  BY <1>1, <1>2, <1>3 DEF Sound

(* A flow that has returned keeps of a bid its account and amount.         *)
LEMMA ReturnedFlow ==
  ASSUME NEW flow \in Flow, NEW n, NEW c
  PROVE  /\ Returned(flow) \in Flow /\ Returned(flow).pc = "done"
         /\ Sound(Returned(flow), n, c)
         /\ flow.kind = "bid" => /\ Returned(flow).kind = "bid"
                                 /\ Returned(flow).signer = flow.signer
                                 /\ Returned(flow).amount = flow.amount
<1>1. /\ NoFlow \in Flow /\ NoFlow.kind = "connect"
  BY NoFlowSound DEF NoFlow
<1>2. /\ Returned(flow) \in Flow /\ Returned(flow).pc = "done"
      /\ Returned(flow).kind \in {"bid", "connect"}
      /\ flow.kind = "bid" => /\ Returned(flow).kind = "bid"
                              /\ Returned(flow).signer = flow.signer
                              /\ Returned(flow).amount = flow.amount
  <2>1. CASE flow.kind = "bid"
    <3>1. Returned(flow) = [NoFlow EXCEPT !.pc = "done", !.kind = "bid",
                                          !.signer = flow.signer,
                                          !.amount = flow.amount]
      BY <2>1 DEF Returned
    <3>2. /\ flow.signer \in Accounts \cup {Zero} /\ flow.amount \in Nat
          /\ "done" \in Pcs /\ "bid" \in Kinds
      BY KindSteps DEF Flow, Pcs
    <3>3. Returned(flow) \in Flow
      BY <1>1, <3>1, <3>2 DEF Flow
    <3>4. /\ Returned(flow).pc = "done" /\ Returned(flow).kind = "bid"
          /\ Returned(flow).signer = flow.signer
          /\ Returned(flow).amount = flow.amount
      BY <1>1, <3>1, <3>2 DEF Flow
    <3>5. QED
      BY <3>3, <3>4
  <2>2. CASE flow.kind # "bid"
    <3>1. Returned(flow) = [NoFlow EXCEPT !.pc = "done"] /\ "done" \in Pcs
      BY <2>2 DEF Returned, Pcs
    <3>2. QED
      BY <1>1, <2>2, <3>1 DEF Flow
  <2>3. QED
    BY <2>1, <2>2
<1> HIDE DEF Returned
<1>3. QED
  BY <1>2 DEF Sound

(* What a step of a flow, old before and new after it, never takes from    *)
(* the other bids of its account.                                          *)
Keeps(old, new) ==
  old.kind = "bid" /\ old.signer \in WalletAccounts =>
    /\ new.kind = "bid" /\ new.signer = old.signer /\ new.amount = old.amount
    /\ old.pc \in {"bidTx", "done"} => new.pc \in {"bidTx", "done"}

Moves(f, new) ==
  /\ flows' = [flows EXCEPT ![f] = new]
  /\ new \in Flow /\ Sound(new, nextTokenId', auctionCount')
  /\ Keeps(flows[f], new)
  /\ flows[f].pc # "connect" /\ new.pc # "connect"
  /\ new.pc = "bidTx" => ReadAllowance(f) \/ ApproveToken(f)

LEMMA MovesBack ==
  ASSUME ClientInv, NEW f \in Flows, flows[f].pc # "connect", Return(f)
  PROVE  \E new : Moves(f, new)
<1> DEFINE new == Returned(flows[f])
<1>1. flows[f] \in Flow
  BY DEF ClientInv, FlowsSound
<1>2. flows' = [flows EXCEPT ![f] = new]
  BY DEF Return
<1>3. /\ new \in Flow /\ new.pc = "done"
      /\ Sound(new, nextTokenId', auctionCount')
      /\ flows[f].kind = "bid" => /\ new.kind = "bid"
                                  /\ new.signer = flows[f].signer
                                  /\ new.amount = flows[f].amount
  BY <1>1, ReturnedFlow
<1> HIDE DEF new
<1>4. Moves(f, new)
  BY <1>2, <1>3 DEF Moves, Keeps
<1>5. QED
  BY <1>4

(* A step to another pc with everything else as it was.                    *)
LEMMA MovesTo ==
  ASSUME ClientInv, Forward, NEW f \in Flows, NEW pc \in Pcs, Goto(f, pc),
         flows[f].pc # "connect", pc # "connect",
         flows[f].pc \notin {"bidTx", "done"},
         pc = "bidTx" => ReadAllowance(f) \/ ApproveToken(f),
         Sound([flows[f] EXCEPT !.pc = pc], nextTokenId', auctionCount')
  PROVE  \E new : Moves(f, new)
<1> DEFINE new == [flows[f] EXCEPT !.pc = pc]
<1>1. flows[f] \in Flow
  BY DEF ClientInv, FlowsSound
<1>2. flows' = [flows EXCEPT ![f] = new]
  BY <1>1 DEF Goto, ClientInv, FlowsSound
<1>3. /\ new \in Flow /\ new.pc = pc /\ new.kind = flows[f].kind
      /\ new.signer = flows[f].signer /\ new.amount = flows[f].amount
  BY <1>1 DEF Flow
<1>4. Sound(new, nextTokenId', auctionCount')
  OBVIOUS
<1> HIDE DEF new
<1>5. Moves(f, new)
  BY <1>2, <1>3, <1>4 DEF Moves, Keeps
<1>6. QED
  BY <1>5

LEMMA FlowMoves ==
  ASSUME ClientInv, Forward, NEW f \in Flows, FlowStep(f)
  PROVE  \E new : Moves(f, new)
<1> USE ClientAccounts
<1> DEFINE old == flows[f]
           to(pc) == [old EXCEPT !.pc = pc]
<1>1. /\ old \in Flow /\ flows \in [Flows -> Flow]
      /\ Sound(old, nextTokenId, auctionCount)
      /\ selected \in WalletAccounts /\ nextTokenId \in Nat
  BY DEF ClientInv, FlowsSound, WalletInv, TokensInv
<1>2. Sound(old, nextTokenId', auctionCount')
  <2>1. /\ nextTokenId' \in Nat /\ nextTokenId <= nextTokenId'
        /\ auctionCount \in Nat /\ auctionCount' \in Nat
        /\ auctionCount <= auctionCount'
    BY DEF ClientInv, Forward, MarketInv, TokensInv, TypeOK
  <2>2. QED
    BY <1>1, <2>1, SoundGrows
<1>3. ASSUME NEW pc \in Pcs
      PROVE  /\ to(pc).pc = pc /\ to(pc).kind = old.kind
             /\ to(pc).wallet = old.wallet /\ to(pc).signer = old.signer
             /\ to(pc).form = old.form /\ to(pc).token = old.token
             /\ to(pc).id = old.id /\ to(pc).amount = old.amount
  BY <1>1 DEF Flow
<1>4. Pcs = {"idle", "connect", "signer", "load", "checkOwner", "readNext",
             "mintTx", "minted", "approveNft", "createTx", "readAllowance",
             "approveToken", "bidTx", "cancelTx", "endTx", "done"}
  BY DEF Pcs
<1>5. CASE Return(f) /\ old.pc # "connect"
  BY <1>5, MovesBack
<1>6. CASE GetSigner(f)
  <2> DEFINE new == [old EXCEPT !.signer = selected,
                                !.pc = FirstStep[old.kind]]
  <2>1. flows' = [flows EXCEPT ![f] = new] /\ old.pc = "signer"
    BY <1>6 DEF GetSigner, At
  <2>2. FirstStep[old.kind] \in Pcs /\ old.kind \in Kinds
        /\ selected \in Accounts
    BY <1>1, <1>4, KindSteps DEF Flow
  <2>3. /\ new \in Flow /\ new.pc = FirstStep[old.kind]
        /\ new.kind = old.kind /\ new.wallet = old.wallet
        /\ new.signer = selected /\ new.form = old.form
        /\ new.token = old.token /\ new.id = old.id /\ new.amount = old.amount
    BY <1>1, <2>2 DEF Flow
  <2>4. old.signer = Zero
    BY <1>1, <2>1 DEF Sound
  <2> HIDE DEF new
  <2>5. Sound(new, nextTokenId', auctionCount')
    BY <1>1, <1>2, <2>1, <2>2, <2>3, KindSteps DEF Sound
  <2>6. new.pc # "connect" /\ new.pc # "bidTx"
    BY <2>2, <2>3, KindSteps
  <2>7. Moves(f, new)
    BY <2>1, <2>3, <2>4, <2>5, <2>6 DEF Moves, Keeps
  <2>8. QED
    BY <2>7
<1>7. CASE ReadNext(f)
  <2> DEFINE new == [old EXCEPT !.token = nextTokenId, !.pc = "mintTx"]
  <2>1. flows' = [flows EXCEPT ![f] = new] /\ old.pc = "readNext"
        /\ nextTokenId' = nextTokenId
    BY <1>1, <1>7 DEF ReadNext, At, chainVars
  <2>2. /\ new \in Flow /\ new.pc = "mintTx"
        /\ new.kind = old.kind /\ new.wallet = old.wallet
        /\ new.signer = old.signer /\ new.form = old.form
        /\ new.token = nextTokenId /\ new.id = old.id
        /\ new.amount = old.amount
    BY <1>1, <1>4 DEF Flow
  <2> HIDE DEF new
  <2>3. Sound(new, nextTokenId', auctionCount')
    BY <1>1, <1>2, <2>1, <2>2 DEF Sound
  <2>4. Moves(f, new)
    BY <2>1, <2>2, <2>3 DEF Moves, Keeps
  <2>5. QED
    BY <2>4
<1>8. ASSUME NEW pc \in Pcs, Goto(f, pc), pc # "connect",
             old.pc \notin {"connect", "bidTx", "done"},
             pc = "bidTx" => ReadAllowance(f) \/ ApproveToken(f),
             Sound(to(pc), nextTokenId', auctionCount')
      PROVE  \E new : Moves(f, new)
  BY <1>8, MovesTo
<1>9. CASE CheckOwner(f)
  <2>1. CASE old.wallet = NftAdmin
    <3>1. Goto(f, "readNext") /\ old.pc = "checkOwner" /\ "readNext" \in Pcs
      BY <1>4, <1>9, <2>1 DEF CheckOwner, At
    <3>2. Sound(to("readNext"), nextTokenId', auctionCount')
      BY <1>2, <1>3, <2>1, <3>1 DEF Sound
    <3>3. QED
      BY <1>8, <3>1, <3>2
  <2>2. CASE old.wallet # NftAdmin
    BY <1>5, <1>9, <2>2 DEF CheckOwner, At
  <2>3. QED
    BY <2>1, <2>2
<1>10. CASE MintTx(f)
  <2>1. /\ Goto(f, "minted") /\ old.pc = "mintTx" /\ "minted" \in Pcs
        /\ nextTokenId' = nextTokenId + 1
    BY <1>4, <1>10 DEF MintTx, At, SafeMint
  <2>2. old.token < nextTokenId'
    BY <1>1, <2>1 DEF Sound, Flow
  <2>3. Sound(to("minted"), nextTokenId', auctionCount')
    BY <1>2, <1>3, <2>1, <2>2 DEF Sound
  <2>4. QED
    BY <1>8, <2>1, <2>3
<1>11. CASE ShowMinted(f)
  <2>1. Goto(f, "load") /\ old.pc = "minted" /\ "load" \in Pcs
    BY <1>4, <1>11 DEF ShowMinted, At
  <2>2. Sound(to("load"), nextTokenId', auctionCount')
    BY <1>2, <1>3, <2>1 DEF Sound
  <2>3. QED
    BY <1>8, <2>1, <2>2
<1>12. CASE ApproveNft(f)
  <2>1. Goto(f, "createTx") /\ old.pc = "approveNft" /\ "createTx" \in Pcs
    BY <1>4, <1>12 DEF ApproveNft, At
  <2>2. Sound(to("createTx"), nextTokenId', auctionCount')
    BY <1>2, <1>3, <2>1 DEF Sound
  <2>3. QED
    BY <1>8, <2>1, <2>2
<1>13. CASE ReadAllowance(f)
  <2>1. PICK pc \in {"approveToken", "bidTx"} : Goto(f, pc)
    BY <1>13 DEF ReadAllowance
  <2>2. old.pc = "readAllowance" /\ pc \in Pcs
    BY <1>4, <1>13 DEF ReadAllowance, At
  <2>3. Sound(to(pc), nextTokenId', auctionCount')
    BY <1>2, <1>3, <2>1, <2>2 DEF Sound
  <2>4. QED
    BY <1>8, <1>13, <2>1, <2>2, <2>3
<1>14. CASE ApproveToken(f)
  <2>1. Goto(f, "bidTx") /\ old.pc = "approveToken" /\ "bidTx" \in Pcs
    BY <1>4, <1>14 DEF ApproveToken, At
  <2>2. Sound(to("bidTx"), nextTokenId', auctionCount')
    BY <1>2, <1>3, <2>1 DEF Sound
  <2>3. QED
    BY <1>8, <1>14, <2>1, <2>2
<1>15. CASE Load(f) \/ CreateTx(f) \/ BidTx(f) \/ CloseTx(f) \/ Fails(f)
  BY <1>5, <1>15 DEF Load, CreateTx, BidTx, CloseTx, Fails, At
<1>16. QED
  BY <1>6, <1>7, <1>9, <1>10, <1>11, <1>12, <1>13, <1>14, <1>15 DEF FlowStep

(* What every step, of a flow or not, leaves of the flows.                 *)
FlowsKept ==
  /\ FlowsSound'
  /\ \A f \in Flows : Keeps(flows[f], flows'[f])
  /\ \A f \in Flows :
       flows'[f].pc = "bidTx" =>
         flows[f].pc = "bidTx" \/ ReadAllowance(f) \/ ApproveToken(f)

LEMMA MovesKept ==
  ASSUME ClientInv, Forward, NEW f \in Flows, NEW new, Moves(f, new)
  PROVE  FlowsKept /\ Waiting' = Waiting
<1>1. /\ nextTokenId \in Nat /\ nextTokenId' \in Nat
      /\ nextTokenId <= nextTokenId'
      /\ auctionCount \in Nat /\ auctionCount' \in Nat
      /\ auctionCount <= auctionCount'
  BY DEF ClientInv, Forward, MarketInv, TokensInv, TypeOK
<1>2. /\ flows \in [Flows -> Flow] /\ flows' = [flows EXCEPT ![f] = new]
      /\ new \in Flow
      /\ \A g \in Flows : Sound(flows[g], nextTokenId, auctionCount)
  BY DEF ClientInv, FlowsSound, Moves
<1>3. /\ flows' \in [Flows -> Flow]
      /\ \A g \in Flows : flows'[g] = IF g = f THEN new ELSE flows[g]
  BY <1>2
<1>4. \A g \in Flows : Sound(flows'[g], nextTokenId', auctionCount')
  BY <1>1, <1>2, <1>3, SoundGrows DEF Moves
<1>5. \A g \in Flows : Keeps(flows[g], flows'[g])
  BY <1>3 DEF Moves, Keeps
<1>6. \A g \in Flows : flows'[g].pc = "bidTx" =>
        flows[g].pc = "bidTx" \/ ReadAllowance(g) \/ ApproveToken(g)
  BY <1>3 DEF Moves
<1>7. Waiting' = Waiting
  BY <1>3 DEF Moves, Waiting, At
<1>8. QED
  BY <1>3, <1>4, <1>5, <1>6, <1>7 DEF FlowsKept, FlowsSound
-----------------------------------------------------------------------------
(* The other steps, and the wallet's one request.                          *)

LEMMA StillKept ==
  ASSUME ClientInv, Forward, flows' = flows
  PROVE  FlowsKept /\ Waiting' = Waiting
<1>1. /\ nextTokenId \in Nat /\ nextTokenId' \in Nat
      /\ nextTokenId <= nextTokenId'
      /\ auctionCount \in Nat /\ auctionCount' \in Nat
      /\ auctionCount <= auctionCount'
  BY DEF ClientInv, Forward, MarketInv, TokensInv, TypeOK
<1>2. \A g \in Flows : Sound(flows[g], nextTokenId', auctionCount')
  BY <1>1, SoundGrows DEF ClientInv, FlowsSound
<1>3. QED
  BY <1>2 DEF ClientInv, FlowsSound, FlowsKept, Keeps, Waiting, At

LEMMA ClickKept ==
  ASSUME ClientInv, Forward, NEW f \in Flows, Clicks(f)
  PROVE  FlowsKept /\ WalletInv'
<1> USE ClientAccounts
<1>1. PICK kind \in Kinds, id \in Nat, amount \in Nat :
        /\ Click(f, kind, id, amount)
        /\ kind \in {"bid", "cancel", "end"} => id \in AuctionIds
        /\ kind = "bid" => amount \in Amounts \ {0}
  <2>1. AuctionIds \subseteq Nat /\ Amounts \subseteq Nat
    BY NumberAssumption DEF AuctionIds
  <2>2. QED
    BY <2>1, KindSteps DEF Clicks
<1>2. PICK e \in BOOLEAN : e = (chosen = NoToken)
  OBVIOUS
<1> DEFINE old == flows[f]
           form == IF kind = "submit" THEN chosen ELSE NoToken
           new == [old EXCEPT !.kind = kind, !.pc = "connect", !.empty = e,
                              !.form = form, !.id = id, !.amount = amount,
                              !.mounted = TRUE]
<1>3. /\ old.pc = "idle" /\ flows' = [flows EXCEPT ![f] = new]
      /\ kind = "submit" => chosen # NoToken
      /\ IF slot = "none" THEN slot' = "asking" /\ prompts' = prompts + 1
         ELSE slot' = slot /\ prompts' = prompts
      /\ UNCHANGED <<chainVars, selected, granted, switches, view>>
  BY <1>1, <1>2 DEF Click, At, ConnectWallet
<1>4. /\ flows \in [Flows -> Flow] /\ old \in Flow
      /\ \A g \in Flows : Sound(flows[g], nextTokenId, auctionCount)
      /\ form \in Items \cup {NoToken}
      /\ kind = "submit" => form \in Items
  BY <1>3 DEF ClientInv, FlowsSound, ViewInv
<1>5. old.signer = Zero
  BY <1>3, <1>4 DEF Sound
<1>6. nextTokenId' = nextTokenId /\ auctionCount' = auctionCount
  BY <1>3 DEF chainVars, vars
<1>7. "connect" \in Pcs
  BY DEF Pcs
<1> HIDE DEF form
<1>8. new \in Flow
  BY <1>4, <1>7 DEF Flow
<1>9. /\ new.kind = kind /\ new.pc = "connect" /\ new.signer = Zero
      /\ new.form = form /\ new.id = id /\ new.amount = amount
  BY <1>4, <1>5 DEF Flow
<1> HIDE DEF new
<1>10. Sound(new, nextTokenId', auctionCount')
  BY <1>1, <1>4, <1>6, <1>9 DEF Sound, AuctionIds
<1>11. /\ flows' \in [Flows -> Flow]
       /\ \A g \in Flows : flows'[g] = IF g = f THEN new ELSE flows[g]
  BY <1>3, <1>4, <1>8
<1>12. FlowsKept
  <2>1. \A g \in Flows : Sound(flows'[g], nextTokenId', auctionCount')
    BY <1>4, <1>6, <1>10, <1>11
  <2>2. \A g \in Flows : Keeps(flows[g], flows'[g])
    BY <1>5, <1>11 DEF Keeps
  <2>3. QED
    BY <1>9, <1>11, <2>1, <2>2 DEF FlowsKept, FlowsSound
<1>13. Waiting' = Waiting \cup {f}
  BY <1>9, <1>11 DEF Waiting, At
<1>14. WalletInv'
  <2>1. /\ selected' = selected /\ granted' = granted
        /\ prompts = IF slot = "asking" THEN 1 ELSE 0
        /\ slot \in {"none", "asking", "checking"}
    BY <1>3 DEF ClientInv, WalletInv, OneRequest
  <2>2. slot' # "none" /\ Waiting' # {}
    BY <1>3, <1>13
  <2>3. QED
    BY <1>3, <2>1, <2>2 DEF ClientInv, WalletInv, OneRequest
<1>15. QED
  BY <1>12, <1>14

(* The promise settles for all who wait for it.                            *)
LEMMA SettleKept ==
  ASSUME ClientInv, Forward, NEW next, Settle(next), chainVars' = chainVars,
         \A f \in Waiting :
           /\ next[f] \in Flow /\ next[f].pc \in {"signer", "done"}
           /\ Sound(next[f], nextTokenId, auctionCount)
  PROVE  FlowsKept /\ Waiting' = {} /\ slot' = "none" /\ granted' = Zero
<1> USE ClientAccounts
<1>1. /\ flows \in [Flows -> Flow]
      /\ \A g \in Flows : Sound(flows[g], nextTokenId, auctionCount)
      /\ nextTokenId' = nextTokenId /\ auctionCount' = auctionCount
  BY DEF ClientInv, FlowsSound, chainVars, vars
<1>2. /\ slot' = "none" /\ granted' = Zero
      /\ flows' = [f \in Flows |-> IF f \in Waiting THEN next[f] ELSE flows[f]]
  BY DEF Settle
<1>3. \A g \in Flows : g \in Waiting <=> flows[g].pc = "connect"
  BY DEF Waiting, At
<1>4. flows' \in [Flows -> Flow]
  BY <1>1, <1>2
<1>5. \A g \in Flows : Sound(flows'[g], nextTokenId', auctionCount')
  BY <1>1, <1>2
<1>6. \A g \in Flows : g \in Waiting => flows[g].signer = Zero
  BY <1>1, <1>3 DEF Sound
<1>7. \A g \in Flows : Keeps(flows[g], flows'[g])
  BY <1>2, <1>6 DEF Keeps
<1>8. \A g \in Flows : flows'[g].pc = "bidTx" => flows[g].pc = "bidTx"
  BY <1>2
<1>9. Waiting' = {}
  BY <1>2, <1>3 DEF Waiting, At
<1>10. QED
  BY <1>2, <1>4, <1>5, <1>7, <1>8, <1>9 DEF FlowsKept, FlowsSound

LEMMA ConnectKept ==
  ASSUME ClientInv, Forward, Answer \/ CheckNetwork
  PROVE  FlowsKept /\ WalletInv'
<1> USE ClientAccounts
<1>1. /\ chainVars' = chainVars /\ selected' = selected
      /\ selected \in WalletAccounts /\ flows \in [Flows -> Flow]
      /\ \A g \in Flows : Sound(flows[g], nextTokenId, auctionCount)
      /\ prompts = IF slot = "asking" THEN 1 ELSE 0
      /\ slot # "none" <=> Waiting # {}
      /\ slot = "checking" => granted \in WalletAccounts
  BY DEF Answer, CheckNetwork, ClientInv, WalletInv, FlowsSound, OneRequest
<1>2. ASSUME Refused
      PROVE  FlowsKept /\ Waiting' = {} /\ slot' = "none" /\ granted' = Zero
  <2> DEFINE next == [f \in Waiting |-> Returned(flows[f])]
  <2>1. \A f \in Waiting :
          /\ next[f] \in Flow /\ next[f].pc = "done"
          /\ Sound(next[f], nextTokenId, auctionCount)
    BY <1>1, ReturnedFlow DEF Waiting
  <2>2. Settle(next)
    BY <1>2 DEF Refused
  <2> HIDE DEF next
  <2>3. QED
    BY <1>1, <2>1, <2>2, SettleKept
<1>3. ASSUME Connected, slot = "checking"
      PROVE  FlowsKept /\ Waiting' = {} /\ slot' = "none" /\ granted' = Zero
  <2> DEFINE next == [f \in Waiting |->
                        [flows[f] EXCEPT !.pc = "signer", !.wallet = granted]]
  <2>1. ASSUME NEW f \in Waiting
        PROVE  /\ next[f] \in Flow /\ next[f].pc = "signer"
               /\ Sound(next[f], nextTokenId, auctionCount)
    <3> DEFINE new == [flows[f] EXCEPT !.pc = "signer", !.wallet = granted]
    <3>1. /\ flows[f] \in Flow /\ flows[f].pc = "connect"
          /\ Sound(flows[f], nextTokenId, auctionCount)
      BY <1>1 DEF Waiting, At
    <3>2. "signer" \in Pcs /\ granted \in Accounts
      BY <1>1, <1>3 DEF Pcs
    <3>3. /\ new \in Flow /\ new.pc = "signer" /\ new.wallet = granted
          /\ new.kind = flows[f].kind /\ new.signer = flows[f].signer
          /\ new.form = flows[f].form /\ new.token = flows[f].token
          /\ new.id = flows[f].id /\ new.amount = flows[f].amount
      BY <3>1, <3>2 DEF Flow
    <3> HIDE DEF new
    <3>4. Sound(new, nextTokenId, auctionCount)
      BY <1>1, <1>3, <3>1, <3>3 DEF Sound
    <3>5. next[f] = new
      BY DEF new
    <3>6. QED
      BY <3>3, <3>4, <3>5
  <2>2. Settle(next)
    BY <1>3 DEF Connected
  <2> HIDE DEF next
  <2>3. QED
    BY <1>1, <2>1, <2>2, SettleKept
<1>4. CASE Answer
  <2>1. /\ prompts > 0 /\ prompts' = prompts - 1
        /\ \/ slot' = "checking" /\ granted' = selected /\ flows' = flows
           \/ Refused
    BY <1>4 DEF Answer
  <2>2. slot = "asking" /\ prompts' = 0
    BY <1>1, <2>1
  <2>3. CASE Refused
    BY <1>1, <1>2, <2>2, <2>3 DEF WalletInv, OneRequest
  <2>4. CASE slot' = "checking" /\ granted' = selected /\ flows' = flows
    <3>1. FlowsKept /\ Waiting' = Waiting
      BY <2>4, StillKept
    <3>2. QED
      BY <1>1, <2>2, <2>4, <3>1 DEF WalletInv, OneRequest
  <2>5. QED
    BY <2>1, <2>3, <2>4
<1>5. CASE CheckNetwork
  <2>1. /\ slot = "checking" /\ prompts' = prompts
        /\ Connected \/ Refused
    BY <1>5 DEF CheckNetwork
  <2>2. FlowsKept /\ Waiting' = {} /\ slot' = "none" /\ granted' = Zero
    BY <1>2, <1>3, <2>1
  <2>3. QED
    BY <1>1, <2>1, <2>2 DEF WalletInv, OneRequest
<1>6. QED
  BY <1>4, <1>5

LEMMA NavigateKept ==
  ASSUME ClientInv, Navigate
  PROVE  FlowsKept /\ Waiting' = Waiting
<1>1. /\ flows \in [Flows -> Flow]
      /\ flows' = [f \in Flows |-> [flows[f] EXCEPT !.mounted = FALSE]]
      /\ \A g \in Flows : Sound(flows[g], nextTokenId, auctionCount)
      /\ nextTokenId' = nextTokenId /\ auctionCount' = auctionCount
  BY DEF Navigate, ClientInv, FlowsSound, chainVars, vars
<1>2. ASSUME NEW f \in Flows
      PROVE  /\ flows'[f] \in Flow /\ flows'[f].pc = flows[f].pc
             /\ flows'[f].kind = flows[f].kind
             /\ flows'[f].wallet = flows[f].wallet
             /\ flows'[f].signer = flows[f].signer
             /\ flows'[f].form = flows[f].form
             /\ flows'[f].token = flows[f].token
             /\ flows'[f].id = flows[f].id
             /\ flows'[f].amount = flows[f].amount
  <2>1. flows[f] \in Flow /\ flows'[f] = [flows[f] EXCEPT !.mounted = FALSE]
    BY <1>1
  <2>2. QED
    BY <2>1 DEF Flow
<1>3. flows' \in [Flows -> Flow]
  BY <1>1, <1>2
<1>4. \A f \in Flows : Sound(flows'[f], nextTokenId', auctionCount')
  BY <1>1, <1>2 DEF Sound
<1>5. \A f \in Flows : Keeps(flows[f], flows'[f])
  BY <1>2 DEF Keeps
<1>6. QED
  BY <1>2, <1>3, <1>4, <1>5 DEF FlowsKept, FlowsSound, Waiting, At

LEMMA WalletNext ==
  ASSUME ClientInv, Forward, [ClientNext]_clientVars
  PROVE  FlowsKept /\ WalletInv'
<1>1. ASSUME Waiting' = Waiting, UNCHANGED <<prompts, slot, granted>>,
             selected' \in WalletAccounts
      PROVE  WalletInv'
  BY <1>1 DEF ClientInv, WalletInv, OneRequest
<1>2. selected \in WalletAccounts
  BY DEF ClientInv, WalletInv
<1>3. ASSUME NEW f \in Flows, Clicks(f) PROVE FlowsKept /\ WalletInv'
  BY <1>3, ClickKept
<1>4. ASSUME NEW f \in Flows, FlowStep(f) PROVE FlowsKept /\ WalletInv'
  <2>1. FlowsKept /\ Waiting' = Waiting
    BY <1>4, FlowMoves, MovesKept
  <2>2. UNCHANGED <<selected, prompts, slot, granted>>
    BY <1>4 DEF FlowStep, GetSigner, CheckOwner, ReadNext, MintTx, ShowMinted,
       Load, ApproveNft, CreateTx, ReadAllowance, ApproveToken, BidTx,
       CloseTx, Fails, wallet
  <2>3. QED
    BY <1>1, <1>2, <2>1, <2>2
<1>5. CASE Answer \/ CheckNetwork
  BY <1>5, ConnectKept
<1>6. CASE SwitchAccount \/ Select \/ OthersMint \/ OthersTransact
           \/ UNCHANGED clientVars
  <2>1. /\ flows' = flows /\ UNCHANGED <<prompts, slot, granted>>
        /\ selected' \in WalletAccounts
    BY <1>2, <1>6 DEF SwitchAccount, Select, OthersMint, OthersTransact,
       clientVars, wallet
  <2>2. QED
    BY <1>1, <2>1, StillKept
<1>7. CASE Navigate
  <2>1. UNCHANGED <<selected, prompts, slot, granted>>
    BY <1>7 DEF Navigate, wallet
  <2>2. QED
    BY <1>1, <1>2, <1>7, <2>1, NavigateKept
<1>8. QED
  BY <1>3, <1>4, <1>5, <1>6, <1>7 DEF ClientNext
-----------------------------------------------------------------------------
(* The page: its form never holds a token that does not exist.             *)
LEMMA ViewNext ==
  ASSUME ClientInv, Forward, [ClientNext]_clientVars
  PROVE  ViewInv'
<1> USE ClientAccounts
<1>1. /\ page \in {"create", "detail"} /\ chosen \in Items \cup {NoToken}
      /\ chosen # NoToken => chosen < nextTokenId
      /\ switches \in 0 .. MaxSwitches /\ MaxSwitches \in Nat
      /\ nextTokenId \in Nat /\ nextTokenId' \in Nat
      /\ nextTokenId <= nextTokenId' /\ 0 .. nextTokenId - 1 \subseteq Items
      /\ \A x \in Items : nftOwner[x] = Zero <=> x >= nextTokenId
      /\ \A f \in Flows : /\ flows[f] \in Flow
                          /\ Sound(flows[f], nextTokenId, auctionCount)
  BY ClientAssumption
  DEF ClientInv, ViewInv, TokensInv, Forward, FlowsSound
<1>2. ASSUME UNCHANGED <<page, switches>>, NEW x \in Items,
             x < nextTokenId, chosen' \in {x, chosen, NoToken}
      PROVE  ViewInv'
  BY <1>1, <1>2 DEF ViewInv
<1>3. ASSUME UNCHANGED <<page, switches, chosen>> PROVE ViewInv'
  BY <1>1, <1>3 DEF ViewInv
<1>4. ASSUME NEW x \in Items, nftOwner[x] # Zero PROVE x < nextTokenId
  BY <1>1, <1>4
<1>5. ASSUME NEW f \in Flows, ShowMinted(f) PROVE ViewInv'
  <2>1. flows[f].token \in Items /\ flows[f].token < nextTokenId
    <3>1. flows[f].token \in Nat /\ flows[f].token < nextTokenId
      BY <1>1, <1>5 DEF ShowMinted, At, Sound, Flow
    <3>2. QED
      BY <1>1, <3>1
  <2>2. /\ UNCHANGED <<page, switches>>
        /\ chosen' \in {flows[f].token, chosen, NoToken}
    BY <1>5 DEF ShowMinted, SetTokenId, wallet
  <2>3. QED
    BY <1>2, <2>1, <2>2
<1>6. ASSUME NEW f \in Flows, Load(f) PROVE ViewInv'
  <2> DEFINE owned == {x \in Items : nftOwner[x] = flows[f].wallet}
             least == Min(owned)
  <2>1. /\ UNCHANGED <<page, switches>> /\ chosen' \in {least, chosen}
        /\ chosen' # chosen => owned # {}
    BY <1>6 DEF Load, SetTokenId, wallet
  <2>2. owned \in SUBSET Items /\ \A x \in owned : nftOwner[x] = flows[f].wallet
    OBVIOUS
  <2>3. flows[f].wallet # Zero
    BY <1>1, <1>6 DEF Load, At, Sound
  <2> HIDE DEF owned
  <2>4. ASSUME owned # {} PROVE least \in owned
    <3>1. owned \in SUBSET Nat
      BY <2>2
    <3>2. PICK m \in owned : \A k \in owned : m <= k
      BY <2>4, <3>1, NatMin
    <3>3. QED
      BY <3>2 DEF Min
  <2> HIDE DEF least
  <2>5. CASE owned = {}
    BY <1>3, <2>1, <2>5
  <2>6. CASE owned # {}
    <3>1. least \in Items /\ least < nextTokenId
      BY <1>4, <2>2, <2>3, <2>4, <2>6
    <3>2. QED
      BY <1>2, <2>1, <3>1
  <2>7. QED
    BY <2>5, <2>6
<1>7. CASE Select
  <2>1. chosen' \in {x \in Items : Listed(x)} \cup {NoToken}
        /\ UNCHANGED <<page, switches>>
    BY <1>7 DEF Select, wallet
  <2>2. ASSUME NEW x \in Items, Listed(x) PROVE nftOwner[x] # Zero
    BY <2>2 DEF Listed, ClientInv, TokensInv
  <2>3. CASE chosen' = NoToken
    BY <1>1, <2>1, <2>3 DEF ViewInv
  <2>4. CASE chosen' # NoToken
    BY <1>2, <1>4, <2>1, <2>2, <2>4
  <2>5. QED
    BY <2>3, <2>4
<1>8. CASE Navigate
  <2>1. /\ page' \in {"create", "detail"} /\ chosen' = NoToken
        /\ switches' = switches
    BY <1>8 DEF Navigate, wallet
  <2>2. QED
    BY <1>1, <2>1 DEF ViewInv
<1>9. CASE SwitchAccount
  <2>1. /\ switches' = switches + 1 /\ switches < MaxSwitches
        /\ page' = page /\ chosen' = chosen
    BY <1>9 DEF SwitchAccount, view
  <2>2. QED
    BY <1>1, <2>1 DEF ViewInv
<1>10. ASSUME NEW f \in Flows, Clicks(f) PROVE ViewInv'
  BY <1>3, <1>10 DEF Clicks, Click, view
<1>11. ASSUME NEW f \in Flows, FlowStep(f), ~ShowMinted(f), ~Load(f)
       PROVE  ViewInv'
  <2>1. UNCHANGED <<page, switches, chosen>>
    BY <1>11 DEF FlowStep, GetSigner, CheckOwner, ReadNext, MintTx,
       ApproveNft, CreateTx, ReadAllowance, ApproveToken, BidTx, CloseTx,
       Fails, wallet, view
  <2>2. QED
    BY <1>3, <2>1
<1>12. CASE Answer \/ CheckNetwork \/ OthersMint \/ OthersTransact
            \/ UNCHANGED clientVars
  <2>1. UNCHANGED <<page, switches, chosen>>
    BY <1>12 DEF Answer, CheckNetwork, OthersMint, OthersTransact, clientVars,
       wallet, view
  <2>2. QED
    BY <1>3, <2>1
<1>13. QED
  BY <1>5, <1>6, <1>7, <1>8, <1>9, <1>10, <1>11, <1>12 DEF ClientNext
-----------------------------------------------------------------------------
(* The allowances: only a bid of the account itself changes one.           *)
LEMMA AllowanceSteps ==
  ASSUME ClientInv, [ClientNext]_clientVars
  PROVE  \/ UNCHANGED allowances
         \/ \E h \in Flows : ApproveToken(h) \/ BidTx(h)
<1>1. ASSUME NEW f \in Flows, Clicks(f) PROVE UNCHANGED allowances
  BY <1>1 DEF Clicks, Click, chainVars
<1>2. ASSUME NEW f \in Flows, FlowStep(f), ~ApproveToken(f), ~BidTx(f)
      PROVE  UNCHANGED allowances
  BY <1>2 DEF FlowStep, GetSigner, CheckOwner, ReadNext, MintTx, SafeMint,
     ShowMinted, Load, ApproveNft, CreateTx, ReadAllowance, CloseTx, Fails,
     chainVars, allowances
<1>3. CASE Answer \/ CheckNetwork \/ SwitchAccount \/ Navigate \/ Select
           \/ OthersMint \/ OthersTransact \/ UNCHANGED clientVars
  BY <1>3 DEF Answer, CheckNetwork, SwitchAccount, Navigate, Select,
     OthersMint, SafeMint, OthersTransact, clientVars, chainVars
<1>4. QED
  BY <1>1, <1>2, <1>3 DEF ClientNext

LEMMA ApprovedNext ==
  ASSUME ClientInv, [ClientNext]_clientVars
  PROVE  approved' \in [Items -> {Market, Zero}]
<1>1. approved \in [Items -> {Market, Zero}]
  BY DEF ClientInv, AllowInv
<1>2. ASSUME NEW f \in Flows, Clicks(f) PROVE approved' = approved
  BY <1>2 DEF Clicks, Click, chainVars
<1>3. ASSUME NEW f \in Flows, ApproveNft(f) \/ CreateTx(f)
      PROVE  approved' \in [Items -> {Market, Zero}]
  BY <1>1, <1>3 DEF ApproveNft, CreateTx
<1>4. ASSUME NEW f \in Flows, FlowStep(f), ~ApproveNft(f), ~CreateTx(f)
      PROVE  approved' = approved
  BY <1>4 DEF FlowStep, GetSigner, CheckOwner, ReadNext, MintTx, SafeMint,
     ShowMinted, Load, ReadAllowance, ApproveToken, BidTx, CloseTx, Fails,
     chainVars
<1>5. CASE Answer \/ CheckNetwork \/ SwitchAccount \/ Navigate \/ Select
           \/ OthersMint \/ OthersTransact \/ UNCHANGED clientVars
  <2>1. approved' = approved
    BY <1>5 DEF Answer, CheckNetwork, SwitchAccount, Navigate, Select,
       OthersMint, SafeMint, OthersTransact, clientVars, chainVars
  <2>2. QED
    BY <1>1, <2>1
<1>6. QED
  BY <1>1, <1>2, <1>3, <1>4, <1>5 DEF ClientNext

(* What a bid's approval and the bid itself do to the allowances.          *)
LEMMA AllowanceMoved ==
  ASSUME ClientInv, NEW h \in Flows, ApproveToken(h) \/ BidTx(h)
  PROVE  /\ flows[h].kind = "bid" /\ flows[h].signer \in WalletAccounts
         /\ flows[h].amount \in Nat
         /\ allowance' \in [WalletAccounts -> Nat]
         /\ \A a \in WalletAccounts :
              a # flows[h].signer => allowance'[a] = allowance[a]
         /\ overtaken \subseteq overtaken' /\ overtaken' \subseteq overtaken \cup Flows
         /\ flows'[h].kind = "bid" /\ flows'[h].signer = flows[h].signer
         /\ flows'[h].amount = flows[h].amount
         /\ ApproveToken(h) =>
              /\ flows[h].pc = "approveToken" /\ flows'[h].pc = "bidTx"
              /\ allowance'[flows[h].signer] = flows[h].amount
              /\ \A g \in Rivals(h) :
                   g \in overtaken' \/ ~(flows[h].amount < flows[g].amount)
         /\ BidTx(h) =>
              /\ flows[h].pc = "bidTx" /\ flows'[h].pc = "done"
              /\ allowance'[flows[h].signer] <= allowance[flows[h].signer]
              /\ Rivals(h) \subseteq overtaken'
<1>1. /\ flows \in [Flows -> Flow] /\ flows[h] \in Flow
      /\ Sound(flows[h], nextTokenId, auctionCount)
      /\ allowance \in [WalletAccounts -> Nat]
  BY DEF ClientInv, FlowsSound, AllowInv
<1>2. /\ flows[h].kind = "bid" /\ flows[h].signer \in WalletAccounts
      /\ flows[h].amount \in Nat
  BY <1>1 DEF ApproveToken, BidTx, At, Sound, Flow
<1>3. CASE ApproveToken(h)
  <2>1. /\ allowance' = [allowance EXCEPT ![flows[h].signer] = flows[h].amount]
        /\ flows' = [flows EXCEPT ![h].pc = "bidTx"]
        /\ flows[h].pc = "approveToken"
        /\ overtaken' = overtaken \cup
             {g \in Rivals(h) : flows[h].amount < flows[g].amount}
    BY <1>3 DEF ApproveToken, Goto, At
  <2>2. flows'[h] = [flows[h] EXCEPT !.pc = "bidTx"]
    BY <1>1, <2>1
  <2>3. /\ flows'[h].kind = "bid" /\ flows'[h].signer = flows[h].signer
        /\ flows'[h].amount = flows[h].amount /\ flows'[h].pc = "bidTx"
    BY <1>1, <1>2, <2>2 DEF Flow
  <2>4. ~BidTx(h)
    BY <2>1 DEF BidTx, At
  <2>5. /\ overtaken \subseteq overtaken' /\ overtaken' \subseteq overtaken \cup Flows
        /\ \A g \in Rivals(h) :
             g \in overtaken' \/ ~(flows[h].amount < flows[g].amount)
    BY <2>1 DEF Rivals
  <2>6. QED
    BY <1>1, <1>2, <2>1, <2>3, <2>4, <2>5
<1>4. CASE BidTx(h)
  <2>1. /\ allowance' = [allowance EXCEPT ![flows[h].signer] =
                           @ - flows[h].amount]
        /\ allowance[flows[h].signer] >= flows[h].amount
        /\ flows' = [flows EXCEPT ![h] = Returned(flows[h])]
        /\ flows[h].pc = "bidTx"
        /\ overtaken' = overtaken \cup Rivals(h)
    BY <1>1, <1>4 DEF BidTx, Return, At
  <2>2. /\ flows'[h].kind = "bid" /\ flows'[h].signer = flows[h].signer
        /\ flows'[h].amount = flows[h].amount /\ flows'[h].pc = "done"
    BY <1>1, <1>2, <2>1, ReturnedFlow
  <2>3. ~ApproveToken(h)
    BY <2>1 DEF ApproveToken, At
  <2>4. /\ overtaken \subseteq overtaken' /\ overtaken' \subseteq overtaken \cup Flows
        /\ Rivals(h) \subseteq overtaken'
    BY <2>1 DEF Rivals
  <2>5. QED
    BY <1>1, <1>2, <2>1, <2>2, <2>3, <2>4
<1>5. QED
  BY <1>3, <1>4

LEMMA BoundedNext ==
  ASSUME ClientInv, Forward, FlowsKept, [ClientNext]_clientVars
  PROVE  allowance' \in [WalletAccounts -> Nat] /\ AllowanceBounded'
<1>1. /\ allowance \in [WalletAccounts -> Nat] /\ AllowanceBounded
      /\ \A f \in Flows : flows[f] \in Flow /\ Keeps(flows[f], flows'[f])
  BY DEF ClientInv, AllowInv, FlowsSound, FlowsKept
<1>2. ASSUME NEW a \in WalletAccounts, allowance'[a] \in Nat,
             allowance'[a] <= allowance[a]
      PROVE  allowance'[a] = 0
             \/ \E f \in Bids(a)' : flows'[f].amount >= allowance'[a]
  <2>1. CASE allowance[a] = 0
    BY <1>2, <2>1
  <2>2. CASE allowance[a] # 0
    <3>1. PICK f \in Bids(a) : flows[f].amount >= allowance[a]
      BY <1>1, <2>2 DEF AllowanceBounded
    <3>2. /\ f \in Flows /\ flows'[f].kind = "bid" /\ flows'[f].signer = a
          /\ flows'[f].amount = flows[f].amount /\ flows[f].amount \in Nat
      BY <1>1, <3>1 DEF Bids, Keeps, Flow
    <3>3. f \in Bids(a)'
      BY <3>2 DEF Bids
    <3>4. flows'[f].amount >= allowance'[a]
      BY <1>1, <1>2, <3>1, <3>2
    <3>5. QED
      BY <3>3, <3>4
  <2>3. QED
    BY <2>1, <2>2
<1>3. CASE UNCHANGED allowances
  BY <1>1, <1>2, <1>3 DEF AllowanceBounded, allowances
<1>4. ASSUME NEW h \in Flows, ApproveToken(h) \/ BidTx(h)
      PROVE  allowance' \in [WalletAccounts -> Nat] /\ AllowanceBounded'
  <2> DEFINE s == flows[h].signer
  <2>1. /\ s \in WalletAccounts /\ flows[h].amount \in Nat
        /\ allowance' \in [WalletAccounts -> Nat]
        /\ \A a \in WalletAccounts : a # s => allowance'[a] = allowance[a]
        /\ flows'[h].kind = "bid" /\ flows'[h].signer = s
        /\ flows'[h].amount = flows[h].amount
        /\ ApproveToken(h) => allowance'[s] = flows[h].amount
        /\ BidTx(h) => allowance'[s] <= allowance[s]
    BY <1>4, AllowanceMoved
  <2> HIDE DEF s
  <2>2. ASSUME NEW a \in WalletAccounts
        PROVE  allowance'[a] = 0
               \/ \E f \in Bids(a)' : flows'[f].amount >= allowance'[a]
    <3>1. CASE a = s /\ ApproveToken(h)
      <4>1. h \in Bids(a)'
        BY <2>1, <3>1 DEF Bids
      <4>2. flows'[h].amount >= allowance'[a]
        BY <2>1, <3>1
      <4>3. QED
        BY <4>1, <4>2
    <3>2. CASE a # s \/ BidTx(h)
      <4>1. allowance'[a] \in Nat /\ allowance'[a] <= allowance[a]
        BY <1>1, <2>1, <3>2
      <4>2. QED
        BY <1>2, <4>1
    <3>3. QED
      BY <1>4, <3>1, <3>2
  <2>3. QED
    BY <2>1, <2>2 DEF AllowanceBounded
<1>5. QED
  BY <1>3, <1>4, AllowanceSteps

LEMMA StepIsLocal ==
  ASSUME ClientInv, NEW h \in Flows, ApproveToken(h) \/ BidTx(h),
         NEW f \in Flows, f # h
  PROVE  flows'[f] = flows[f]
BY DEF ClientInv, FlowsSound, ApproveToken, BidTx, Goto, Return

LEMMA BackedNext ==
  ASSUME ClientInv, Forward, FlowsKept, [ClientNext]_clientVars
  PROVE  overtaken' \subseteq Flows /\ BidBacked'
<1>1. /\ BidBacked /\ overtaken \subseteq Flows
      /\ \A g \in Flows : /\ flows[g] \in Flow /\ Keeps(flows[g], flows'[g])
                          /\ Sound(flows[g], nextTokenId, auctionCount)
      /\ \A g \in Flows : flows'[g].pc = "bidTx" =>
           flows[g].pc = "bidTx" \/ ReadAllowance(g) \/ ApproveToken(g)
      /\ allowance \in [WalletAccounts -> Nat]
  BY DEF ClientInv, AllowInv, FlowsSound, FlowsKept
<1>2. /\ overtaken \subseteq overtaken' /\ overtaken' \subseteq Flows
  BY <1>1, AllowanceSteps, AllowanceMoved DEF allowances
<1> SUFFICES ASSUME NEW f \in Flows, flows'[f].pc = "bidTx",
                    f \notin overtaken'
             PROVE  allowance'[flows'[f].signer] >= flows'[f].amount
  BY <1>2 DEF BidBacked, At
<1>3. PICK s, amount : s = flows[f].signer /\ amount = flows[f].amount
  OBVIOUS
<1>4. flows[f].kind = "bid" /\ s \in WalletAccounts /\ amount \in Nat
  BY <1>1, <1>3 DEF ReadAllowance, ApproveToken, At, Sound, Flow
<1>5. flows'[f].signer = s /\ flows'[f].amount = amount
  BY <1>1, <1>3, <1>4 DEF Keeps
<1>6. ASSUME flows[f].pc = "bidTx"
      PROVE  allowance[s] >= amount
  BY <1>1, <1>2, <1>3, <1>6 DEF BidBacked, At
<1>7. CASE UNCHANGED allowances
  <2>1. allowance'[s] = allowance[s]
    BY <1>7 DEF allowances
  <2>2. CASE flows[f].pc = "bidTx"
    BY <1>5, <1>6, <2>1, <2>2
  <2>3. CASE ReadAllowance(f)
    <3>1. /\ flows[f].pc = "readAllowance"
          /\ flows' = [flows EXCEPT ![f].pc =
               IF allowance[s] < amount THEN "approveToken" ELSE "bidTx"]
      BY <1>3, <2>3 DEF ReadAllowance, Goto, At
    <3>2. flows'[f].pc = IF allowance[s] < amount
                         THEN "approveToken" ELSE "bidTx"
      BY <1>1, <3>1 DEF ClientInv, FlowsSound, Flow
    <3>3. allowance[s] >= amount
      BY <1>1, <1>4, <3>2
    <3>4. QED
      BY <1>5, <2>1, <3>3
  <2>4. CASE ApproveToken(f)
    BY <1>3, <1>4, <1>5, <2>4, AllowanceMoved
  <2>5. QED
    BY <1>1, <2>2, <2>3, <2>4
<1>8. ASSUME NEW h \in Flows, ApproveToken(h) \/ BidTx(h)
      PROVE  allowance'[s] >= amount
  <2>1. CASE h = f
    <3>1. ApproveToken(f)
      BY <1>8, <2>1, AllowanceMoved
    <3>2. QED
      BY <1>3, <1>4, <3>1, AllowanceMoved
  <2>2. CASE h # f
    <3>1. flows'[f] = flows[f]
      BY <1>8, <2>2, StepIsLocal
    <3>2. allowance[s] >= amount
      BY <1>6, <3>1
    <3>3. CASE flows[h].signer # s
      <4>1. allowance'[s] = allowance[s]
        BY <1>4, <1>8, <3>3, AllowanceMoved
      <4>2. QED
        BY <3>2, <4>1
    <3>4. CASE flows[h].signer = s
      <4>1. f \in Rivals(h)
        BY <1>3, <2>2, <3>1, <3>4 DEF Rivals, At
      <4>2. ApproveToken(h) /\ ~(flows[h].amount < flows[f].amount)
        BY <1>8, <4>1, AllowanceMoved
      <4>3. allowance'[s] = flows[h].amount /\ flows[h].amount \in Nat
        BY <1>8, <3>4, <4>2, AllowanceMoved
      <4>4. QED
        BY <1>3, <1>4, <4>2, <4>3
    <3>5. QED
      BY <3>3, <3>4
  <2>3. QED
    BY <2>1, <2>2
<1>9. QED
  BY <1>5, <1>7, <1>8, AllowanceSteps
-----------------------------------------------------------------------------
LEMMA ClientInvNext == ClientInv /\ [ClientNext]_clientVars => ClientInv'
<1> SUFFICES ASSUME ClientInv, [ClientNext]_clientVars PROVE ClientInv'
  OBVIOUS
<1>1. Forward
  BY ChainForward
<1>2. FlowsKept /\ WalletInv'
  BY <1>1, WalletNext
<1>3. ViewInv'
  BY <1>1, ViewNext
<1>4. AllowInv'
  BY <1>1, <1>2, ApprovedNext, BoundedNext, BackedNext DEF AllowInv
<1>5. QED
  BY <1>1, <1>2, <1>3, <1>4 DEF ClientInv, Forward, FlowsKept

LEMMA ClientInvAlways == ClientSpec => []ClientInv
<1>1. QED
  BY ClientInvInit, ClientInvNext, PTL DEF ClientSpec

(* The types of the front end; tokens are numbered without gaps, and the   *)
(* form never holds one that does not exist.                               *)
THEOREM ClientTypes == ClientSpec => []ClientTypeOK
<1>1. ClientInv => ClientTypeOK
  <2> SUFFICES ASSUME ClientInv PROVE ClientTypeOK
    OBVIOUS
  <2>1. prompts \in Nat
    BY DEF ClientInv, WalletInv, OneRequest
  <2>2. QED
    BY <2>1 DEF ClientInv, TokensInv, ViewInv, FlowsSound, WalletInv,
                AllowInv, ClientTypeOK
<1>2. QED
  BY <1>1, ClientInvAlways, PTL

(* The wallet has at most one request of connectWallet to answer, and the  *)
(* slot of its promise is taken exactly while a flow waits for it.         *)
THEOREM OneRequestAtATime == ClientSpec => []OneRequest
<1>1. ClientInv => OneRequest
  BY DEF ClientInv, WalletInv
<1>2. QED
  BY <1>1, ClientInvAlways, PTL

(* bidWithToken leaves the market no more allowance than one bid of its    *)
(* account, however many run at once or fail.                              *)
THEOREM AllowanceStaysBounded == ClientSpec => []AllowanceBounded
<1>1. ClientInv => AllowanceBounded
  BY DEF ClientInv, AllowInv
<1>2. QED
  BY <1>1, ClientInvAlways, PTL

(* A bid is sent with the allowance it needs whatever other bids of its    *)
(* account left, failed or did before it read the allowance: only one that *)
(* used or lowered it between this bid's two calls can leave it short.     *)
THEOREM BidsAreBacked == ClientSpec => []BidBacked
<1>1. ClientInv => BidBacked
  BY DEF ClientInv, AllowInv
<1>2. QED
  BY <1>1, ClientInvAlways, PTL

(* What a flow of the page mints is the administrator's, though the        *)
(* account that is checked and the one that sends are asked for apart.     *)
THEOREM MintsForAdmin == ClientSpec => MintedForAdmin
<1>1. ClientInv /\ [ClientNext]_clientVars
        => [\A x \in Items : nftOwner[x] = Zero /\ nftOwner'[x] \in WalletAccounts
              => nftOwner'[x] = NftAdmin]_clientVars
  <2> SUFFICES ASSUME ClientInv, [ClientNext]_clientVars, NEW x \in Items,
                      nftOwner[x] = Zero, nftOwner'[x] \in WalletAccounts
               PROVE  nftOwner'[x] = NftAdmin
    OBVIOUS
  <2> USE ClientAccounts
  <2>1. CASE MarketStep
    <3>1. TypeOK /\ TypeOK' /\ [Next]_vars
      BY <2>1, TypeNext DEF MarketStep, ClientInv, MarketInv
    <3>2. nftOwner'[x] = Zero
      BY <3>1, MarketKeepsTokens
    <3>3. QED
      BY <3>2
  <2>2. CASE Minting
    <3>1. /\ \A y \in Items : y # nextTokenId => nftOwner'[y] = nftOwner[y]
          /\ nftOwner'[nextTokenId] \in Outsiders \cup {NftAdmin}
      BY <2>2, MintingEffect
    <3>2. QED
      BY <3>1, ClientAssumption
  <2>3. QED
    BY <2>1, <2>2, ChainSteps
<1>2. QED
  BY <1>1, ClientInvAlways, PTL DEF ClientSpec, MintedForAdmin

-----------------------------------------------------------------------------
(***************************************************************************)
(* Why flows finish: the two facts that fairness needs.  How far a flow    *)
(* still has to go at most, by where it stands.                            *)
(***************************************************************************)
StepsLeft(pc) ==
  CASE pc = "idle" -> 9          [] pc = "connect" -> 8
    [] pc = "signer" -> 7        [] pc = "checkOwner" -> 6
    [] pc = "readNext" -> 5      [] pc = "mintTx" -> 4
    [] pc = "minted" -> 3        [] pc = "load" -> 2
    [] pc = "approveNft" -> 2    [] pc = "createTx" -> 1
    [] pc = "readAllowance" -> 3 [] pc = "approveToken" -> 2
    [] pc = "bidTx" -> 1         [] pc \in {"cancelTx", "endTx"} -> 1
    [] pc = "done" -> 0

Nearer(f) == StepsLeft(flows'[f].pc) < StepsLeft(flows[f].pc)

LEMMA ReturnIsNearer ==
  ASSUME ClientInv, NEW f \in Flows, Running(f)
  PROVE  StepsLeft(Returned(flows[f]).pc) < StepsLeft(flows[f].pc)
<1>1. flows[f].pc \in Pcs \ {"idle", "done"}
  BY DEF Running, ClientInv, FlowsSound, Flow, Sound
<1>2. Returned(flows[f]).pc = "done"
  BY DEF Returned, NoFlow
<1>3. QED
  BY <1>1, <1>2 DEF StepsLeft, Pcs

LEMMA StepIsNearer ==
  ASSUME ClientInv, NEW f \in Flows, FlowStep(f)
  PROVE  /\ Nearer(f)
         /\ \A g \in Flows \ {f} : flows'[g] = flows[g]
<1>1. flows \in [Flows -> Flow] /\ flows[f] \in Flow
  BY DEF ClientInv, FlowsSound
<1>2. flows[f].kind \in Kinds
  BY <1>1 DEF Flow
<1>3. CASE Fails(f)
  <2>1. flows' = [flows EXCEPT ![f] = Returned(flows[f])] /\ Running(f)
    BY <1>3 DEF Fails, Return
  <2>2. QED
    BY <1>1, <2>1, ReturnIsNearer DEF Nearer
<1>4. CASE GetSigner(f)
  <2>1. /\ flows[f].pc = "signer"
        /\ flows'[f].pc = FirstStep[flows[f].kind]
        /\ \A g \in Flows \ {f} : flows'[g] = flows[g]
    BY <1>1, <1>4 DEF GetSigner, At, Flow
  <2>2. flows'[f].pc \in {"load", "checkOwner", "approveNft", "readAllowance",
                          "cancelTx", "endTx"}
    BY <1>2, <2>1, KindSteps
  <2>3. QED
    BY <2>1, <2>2 DEF Nearer, StepsLeft
<1>5. ASSUME NEW here \in Pcs \ {"idle", "connect", "signer", "done"},
             At(f, here), Return(f)
      PROVE  /\ Nearer(f)
             /\ \A g \in Flows \ {f} : flows'[g] = flows[g]
  <2>1. flows' = [flows EXCEPT ![f] = Returned(flows[f])] /\ Running(f)
    BY <1>5 DEF Return, Running, At
  <2>2. QED
    BY <1>1, <2>1, ReturnIsNearer DEF Nearer
<1>6. CASE \/ Load(f) \/ CreateTx(f) \/ BidTx(f) \/ CloseTx(f)
           \/ CheckOwner(f) /\ Return(f)
  BY <1>5, <1>6 DEF Load, CreateTx, BidTx, CloseTx, CheckOwner, Pcs
<1>7. ASSUME NEW here, NEW there, flows[f].pc = here, flows'[f].pc = there,
             \/ here = "checkOwner" /\ there = "readNext"
             \/ here = "readNext" /\ there = "mintTx"
             \/ here = "mintTx" /\ there = "minted"
             \/ here = "minted" /\ there = "load"
             \/ here = "approveNft" /\ there = "createTx"
             \/ here = "readAllowance" /\ there \in {"approveToken", "bidTx"}
             \/ here = "approveToken" /\ there = "bidTx"
      PROVE  Nearer(f)
  BY <1>7 DEF Nearer, StepsLeft
<1>8. CASE \/ CheckOwner(f) /\ Goto(f, "readNext")
           \/ MintTx(f) \/ ShowMinted(f) \/ ApproveNft(f)
           \/ ReadAllowance(f) \/ ApproveToken(f)
  <2>1. PICK there : Goto(f, there) /\
             \/ At(f, "checkOwner") /\ there = "readNext"
             \/ At(f, "mintTx") /\ there = "minted"
             \/ At(f, "minted") /\ there = "load"
             \/ At(f, "approveNft") /\ there = "createTx"
             \/ At(f, "readAllowance") /\ there \in {"approveToken", "bidTx"}
             \/ At(f, "approveToken") /\ there = "bidTx"
    BY <1>8 DEF CheckOwner, MintTx, ShowMinted, ApproveNft, ReadAllowance,
       ApproveToken
  <2>2. /\ flows'[f].pc = there
        /\ \A g \in Flows \ {f} : flows'[g] = flows[g]
    BY <1>1, <2>1 DEF Goto, Flow
  <2>3. QED
    BY <1>7, <2>1, <2>2 DEF At
<1>9. CASE ReadNext(f)
  <2>1. /\ flows[f].pc = "readNext" /\ flows'[f].pc = "mintTx"
        /\ \A g \in Flows \ {f} : flows'[g] = flows[g]
    BY <1>1, <1>9 DEF ReadNext, At, Flow
  <2>2. QED
    BY <1>7, <2>1
<1>10. QED
  BY <1>3, <1>4, <1>6, <1>8, <1>9 DEF FlowStep, CheckOwner

(* A promise that settles takes all that wait for it along.                *)
LEMMA SettleIsNearer ==
  ASSUME ClientInv, Connected \/ Refused
  PROVE  /\ \A f \in Waiting : Nearer(f)
         /\ \A f \in Flows \ Waiting : flows'[f] = flows[f]
<1>1. ASSUME NEW f \in Waiting
      PROVE  Nearer(f)
  <2>1. f \in Flows /\ flows[f] \in Flow /\ flows[f].pc = "connect"
    BY DEF Waiting, At, ClientInv, FlowsSound
  <2>2. flows'[f].pc \in {"signer", "done"}
    <3>1. CASE Connected
      <4>1. flows'[f] = [flows[f] EXCEPT !.pc = "signer", !.wallet = granted]
        BY <2>1, <3>1 DEF Connected, Settle
      <4>2. QED
        BY <2>1, <4>1 DEF Flow
    <3>2. CASE Refused
      <4>1. flows'[f] = Returned(flows[f])
        BY <2>1, <3>2 DEF Refused, Settle
      <4>2. QED
        BY <4>1 DEF Returned, NoFlow
    <3>3. QED
      BY <3>1, <3>2
  <2>3. QED
    BY <2>1, <2>2 DEF Nearer, StepsLeft
<1>2. QED
  BY <1>1 DEF Connected, Refused, Settle

(* No step ever sends a flow back, and every answer or step of the program *)
(* brings one nearer to its end, or the wallet from the request to the     *)
(* check of the network: no loop of retries keeps a button disabled.       *)
THEOREM FlowsOnlyAdvance ==
  ClientSpec =>
    [][/\ \A f \in Flows : flows'[f].pc = flows[f].pc \/ Nearer(f)
       /\ ProgramStep => \/ \E f \in Flows : Nearer(f)
                         \/ slot = "asking" /\ slot' = "checking"]_clientVars
<1> DEFINE Advance ==
             /\ \A f \in Flows : flows'[f].pc = flows[f].pc \/ Nearer(f)
             /\ ProgramStep => \/ \E f \in Flows : Nearer(f)
                               \/ slot = "asking" /\ slot' = "checking"
<1>1. ASSUME ClientInv, ClientNext PROVE Advance
  <2>1. flows \in [Flows -> Flow] /\ OneRequest
    BY <1>1 DEF ClientInv, FlowsSound, WalletInv
  <2>2. ASSUME NEW f \in Flows, FlowStep(f) PROVE Advance
    BY <1>1, <2>2, StepIsNearer
  <2>3. ASSUME Connected \/ Refused, slot # "none" PROVE Advance
    <3>1. Waiting # {} /\ Waiting \subseteq Flows
      BY <2>1, <2>3 DEF OneRequest, Waiting
    <3>2. QED
      BY <1>1, <2>3, <3>1, SettleIsNearer
  <2>4. CASE Answer
    <3>1. slot = "asking"
      BY <2>1, <2>4 DEF Answer, OneRequest
    <3>2. QED
      BY <2>3, <2>4, <3>1 DEF Answer
  <2>5. CASE CheckNetwork
    BY <2>3, <2>5 DEF CheckNetwork
  <2>6. ASSUME ~ ProgramStep,
               \A f \in Flows : flows'[f].pc = flows[f].pc \/ Nearer(f)
        PROVE  Advance
    BY <2>6
  <2>7. ASSUME NEW f \in Flows, Clicks(f)
        PROVE  \A g \in Flows : flows'[g].pc = flows[g].pc \/ Nearer(g)
    <3>1. PICK kind \in Kinds, id \in Nat, amount \in Nat :
            Click(f, kind, id, amount)
      <4>1. AuctionIds \subseteq Nat /\ Amounts \subseteq Nat
        BY NumberAssumption DEF AuctionIds
      <4>2. QED
        BY <2>7, <4>1, KindSteps DEF Clicks
    <3>2. /\ flows[f].pc = "idle" /\ flows'[f].pc = "connect"
          /\ \A g \in Flows \ {f} : flows'[g] = flows[g]
      BY <2>1, <3>1 DEF Click, At, Flow
    <3>3. QED
      BY <3>2 DEF Nearer, StepsLeft
  <2>8. ASSUME SwitchAccount \/ Navigate \/ Select \/ OthersMint
                 \/ OthersTransact
        PROVE  \A f \in Flows : flows'[f].pc = flows[f].pc
    BY <2>1, <2>8 DEF SwitchAccount, Navigate, Select, OthersMint,
       OthersTransact, Flow
  <2>9. QED
    BY <1>1, <2>2, <2>4, <2>5, <2>6, <2>7, <2>8 DEF ClientNext, ProgramStep
<1>2. ClientInv /\ [ClientNext]_clientVars => [Advance]_clientVars
  BY <1>1
<1> HIDE DEF Advance
<1>3. ClientSpec => [][Advance]_clientVars
  BY <1>2, ClientInvAlways, PTL DEF ClientSpec
<1>4. QED
  BY <1>3 DEF Advance

(* While a flow runs there is something for the user, the node or the page *)
(* to do: flows never all wait for a promise that nobody settles.          *)
THEOREM FlowsNeverStall ==
  ClientSpec =>
    []((\E f \in Flows : Running(f)) =>
         \/ prompts > 0 \/ slot = "checking"
         \/ \E f \in Flows : Running(f) /\ ~At(f, "connect"))
<1>1. ClientInv =>
        ((\E f \in Flows : Running(f)) =>
           \/ prompts > 0 \/ slot = "checking"
           \/ \E f \in Flows : Running(f) /\ ~At(f, "connect"))
  BY DEF ClientInv, WalletInv, OneRequest, Waiting
<1>2. QED
  BY <1>1, ClientInvAlways, PTL

(* The market keeps its books whatever front ends do with it: types,       *)
(* custody, the index of active auctions and the escrow to the last unit   *)
(* hold with tokens minted beside it and calls made from the pages, too;   *)
(* every auction that is due can be settled, and what is closed stays so.  *)
THEOREM MarketKeptByClients ==
  ClientSpec => /\ [](/\ TypeOK /\ LotsConsistent /\ Custody
                      /\ ActiveIndexExact /\ EscrowExact /\ NothingStuck)
                /\ EndedIsFinal
<1>1. ClientInv => /\ TypeOK /\ LotsConsistent /\ Custody
                   /\ ActiveIndexExact /\ EscrowExact /\ NothingStuck
  BY BooksNeverWedge DEF ClientInv, MarketInv
<1>2. ClientInv /\ [ClientNext]_clientVars
        => [\A id \in AuctionIds : auctions[id].ended =>
              auctions'[id] = auctions[id] /\ extras'[id] = extras[id]]_vars
  <2> SUFFICES ASSUME ClientInv, [ClientNext]_clientVars,
                      NEW id \in AuctionIds, auctions[id].ended
               PROVE  auctions'[id] = auctions[id] /\ extras'[id] = extras[id]
    OBVIOUS
  <2>1. CASE MarketStep
    BY <2>1, EndedStep DEF MarketStep, ClientInv, MarketInv
  <2>2. CASE Minting
    BY <2>2 DEF Minting, SafeMint, book
  <2>3. QED
    BY <2>1, <2>2, ChainSteps
<1>3. QED
  BY <1>1, <1>2, ClientInvAlways, PTL DEF ClientSpec, EndedIsFinal
=============================================================================
