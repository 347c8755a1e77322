----------------------------- MODULE MyPageProofs -----------------------------
(***************************************************************************)
(* Theorems about MyPage, for any accounts, tokens, auctions, scan limit   *)
(* and bounds: what the two scans put together from many calls, and what   *)
(* the page shows when connecting was left alone.                          *)
(***************************************************************************)
EXTENDS MyPage, TLAPS

Cards == UNION {[S -> CardOf] : S \in SUBSET Nat}
Rows == {<<>>} \cup {<<lot>> : lot \in Lot}
Wallets == WalletAccounts \cup {Nobody}

Run ==
  [pc : {"idle", "wallet", "reads"}, wallet : Wallets,
   nftLimit : {Unread} \cup 0 .. MaxScan, nftAt : Nat, nfts : SUBSET Nat,
   lotLimit : {Unread} \cup 0 .. MaxScan, lotAt : Nat, row : Rows,
   cards : Cards, token : BOOLEAN, alone : BOOLEAN]
RefreshRun == [pc : {"idle", "wallet", "balance"}, wallet : Wallets]
MintRun ==
  [pc : {"idle", "wallet", "signer", "checkOwner", "mintTx", "balance"},
   wallet : Wallets, signer : Wallets, to : Accounts \cup {Nobody}]

(* Types, with what PageTypeOK leaves open.                                *)
ChainType ==
  /\ nextTokenId \in Nat /\ auctionCount \in Nat /\ now \in Nat
  /\ holder \in [Tokens -> Accounts]
  /\ lots \in [Lots -> Lot]
ShownType ==
  /\ selected \in WalletAccounts
  /\ address \in Wallets
  /\ chainNfts \in [of : Wallets, ids : SUBSET Tokens]
  /\ chainCreatedAuctions \in [of : Wallets, cards : Cards]
  /\ DOMAIN chainCreatedAuctions.cards \subseteq Lots
  /\ paymentTokenBalance \in Wallets
  /\ canMintPaymentToken \in BOOLEAN
RunsType ==
  /\ connecting \in Run
  /\ refreshing \in [Refreshes -> RefreshRun]
  /\ minting \in MintRun
  /\ held \in [always : SUBSET Nat, ever : SUBSET Nat]

(* What the contract lets an auction be.                                   *)
LotsSound ==
  \A id \in Lots :
    /\ lots[id].ended /\ ~lots[id].cancelled => now >= End
    /\ lots[id].cancelled => lots[id].ended /\ lots[id].bids = 0

(* The loop of listOwnedAuctionNftsOnChain: its bounds, and who has held   *)
(* the tokens since it began.                                              *)
NftBounds ==
  /\ connecting.nfts \subseteq 0 .. connecting.nftAt - 1
  /\ IF connecting.nftLimit = Unread THEN connecting.nftAt = 0
     ELSE /\ connecting.pc = "reads"
          /\ connecting.nftAt <= connecting.nftLimit
          /\ connecting.nftLimit <= nextTokenId
NftScan ==
  connecting.nftLimit # Unread =>
    /\ held.always \subseteq OwnedBy(holder, connecting.wallet)
    /\ OwnedBy(holder, connecting.wallet) \subseteq held.ever
    /\ connecting.nfts \subseteq held.ever
    /\ \A x \in held.always :
         /\ x < connecting.nftAt => x \in connecting.nfts
         /\ x < MaxScan => x < connecting.nftLimit

(* The loop of listCreatedAuctionsOnChain: its bounds, the auction it has  *)
(* read without its extra yet, and the cards so far.                       *)
LotBounds ==
  /\ DOMAIN connecting.cards \subseteq 0 .. connecting.lotAt - 1
  /\ DOMAIN had \subseteq Lots
  /\ IF connecting.lotLimit = Unread
     THEN connecting.lotAt = 0 /\ connecting.row = <<>>
     ELSE /\ connecting.pc = "reads"
          /\ connecting.lotAt <= connecting.lotLimit
          /\ 0 .. connecting.lotLimit - 1 \subseteq DOMAIN had
HadCurrent == \A id \in DOMAIN had : Status(lots, now, id) \in had[id]
RowPast ==
  connecting.row # <<>> =>
    /\ connecting.lotAt < connecting.lotLimit
    /\ connecting.row[1].bids <= lots[connecting.lotAt].bids
    /\ connecting.row[1].ended => lots[connecting.lotAt].ended

(* Left alone, connecting shows the account whose reads it waits for.      *)
Alone ==
  /\ connecting.pc = "reads" => connecting.wallet \in WalletAccounts
  /\ connecting.pc # "idle" /\ connecting.alone => OthersIdle
  /\ connecting.pc = "reads" /\ connecting.alone
       => address = connecting.wallet

NftInv == NftBounds /\ NftScan
LotInv == LotsSound /\ LotBounds /\ HadCurrent /\ RowPast /\ ScannedRowsReal
PageInv ==
  ChainType /\ ShownType /\ RunsType /\ NftInv /\ LotInv /\ Alone
-----------------------------------------------------------------------------
LEMMA StatusType ==
  ASSUME NEW ls, NEW t, NEW id
  PROVE  Status(ls, t, id) \in Statuses
BY DEF Status, ChainStatus, Statuses

LEMMA CardIds ==
  ASSUME RunsType, LotBounds, NEW id \in DOMAIN connecting.cards
  PROVE  /\ id \in DOMAIN had /\ id \in Lots /\ id < connecting.lotAt
         /\ connecting.cards[id] \in CardOf
<1>1. /\ connecting.cards \in Cards /\ connecting.lotAt \in Nat
      /\ connecting.lotLimit \in {Unread} \cup 0 .. MaxScan
  BY DEF RunsType, Run
<1>2. connecting.cards \in [DOMAIN connecting.cards -> CardOf]
  BY <1>1 DEF Cards
<1>3. id \in 0 .. connecting.lotAt - 1
  BY DEF LotBounds
<1>4. connecting.lotLimit # Unread
  BY <1>3 DEF LotBounds
<1>5. /\ connecting.lotLimit \in Nat /\ connecting.lotAt <= connecting.lotLimit
      /\ 0 .. connecting.lotLimit - 1 \subseteq DOMAIN had
  BY <1>1, <1>4, PageAssumption DEF LotBounds
<1>6. id \in 0 .. connecting.lotLimit - 1
  BY <1>1, <1>3, <1>5
<1>7. QED
  BY <1>1, <1>2, <1>3, <1>5, <1>6 DEF LotBounds

LEMMA PageInvInit == PageInit => PageInv
<1> SUFFICES ASSUME PageInit PROVE PageInv
  OBVIOUS
<1> USE PageAssumption
<1>1. Unread \in Int /\ Unread < 0 /\ 0 .. 0 - 1 = {}
  BY DEF Unread
<1>2. [id \in {} |-> 0] \in Cards
  <2>1. [id \in {} |-> 0] \in [{} -> CardOf]
    OBVIOUS
  <2>2. {} \in SUBSET Nat
    OBVIOUS
  <2>3. QED
    BY <2>1, <2>2 DEF Cards
<1>3. <<>> \in Rows
  BY DEF Rows
<1>4. ChainType
  <2>1. lots \in [Lots -> Lot]
    BY DEF PageInit, Lots, Lot
  <2>2. QED
    BY <2>1 DEF PageInit, ChainType, Tokens
<1>5. ShownType
  BY <1>2 DEF PageInit, ShownType, Wallets
<1>6. RunsType
  <2>1. Idle \in Run
    BY <1>2, <1>3 DEF Idle, Run, Wallets
  <2>2. NotRefreshing \in RefreshRun /\ NotMinting \in MintRun
    BY DEF NotRefreshing, RefreshRun, NotMinting, MintRun, Wallets
  <2>3. QED
    BY <2>1, <2>2 DEF PageInit, RunsType
<1>7. NftInv
  BY <1>1 DEF PageInit, NftInv, NftBounds, NftScan, Idle
<1>8. LotInv
  <2>1. LotsSound
    BY DEF PageInit, LotsSound, Lots
  <2>2. DOMAIN had = {} /\ DOMAIN connecting.cards = {}
    BY DEF PageInit, Idle
  <2>3. connecting.row = <<>> /\ connecting.lotAt = 0
        /\ connecting.lotLimit = Unread
    BY DEF PageInit, Idle
  <2>4. QED
    BY <2>1, <2>2, <2>3
    DEF LotInv, LotBounds, HadCurrent, RowPast, ScannedRowsReal
<1>9. Alone
  BY DEF PageInit, Alone, Idle
<1>10. QED
  BY <1>4, <1>5, <1>6, <1>7, <1>8, <1>9 DEF PageInv
-----------------------------------------------------------------------------
(* What other transactions do to the chain: it grows.                      *)
Grows ==
  /\ ChainType' /\ LotsSound'
  /\ nextTokenId <= nextTokenId' /\ auctionCount <= auctionCount'
  /\ \A id \in Lots : /\ lots[id].bids <= lots'[id].bids
                      /\ lots[id].ended => lots'[id].ended
  /\ Moved

LEMMA ChangeGrows ==
  ASSUME ChainType, LotsSound, NEW id \in Lots, NEW lot \in Lot,
         lots[id].bids <= lot.bids, lots[id].ended => lot.ended,
         lot.ended /\ ~lot.cancelled => now >= End,
         lot.cancelled => lot.ended /\ lot.bids = 0,
         ChangeLot(id, lot)
  PROVE  Grows
<1>1. /\ lots' = [lots EXCEPT ![id] = lot] /\ Moved /\ Lots' = Lots
      /\ nextTokenId' = nextTokenId /\ holder' = holder
      /\ auctionCount' = auctionCount /\ now' = now
  BY DEF ChangeLot, Lots
<1>2. ChainType'
  BY <1>1 DEF ChainType, Tokens, Lots
<1>3. \A k \in Lots : lots'[k] = IF k = id THEN lot ELSE lots[k]
  BY <1>1 DEF ChainType
<1>4. LotsSound'
  BY <1>1, <1>3 DEF LotsSound
<1>5. \A k \in Lots : /\ lots[k].bids <= lots'[k].bids
                      /\ lots[k].ended => lots'[k].ended
  BY <1>3 DEF ChainType, Lot
<1>6. QED
  BY <1>1, <1>2, <1>4, <1>5 DEF Grows, ChainType

LEMMA ChainGrows ==
  ASSUME ChainType, LotsSound, ChainStep
  PROVE  Grows
<1> USE PageAssumption
<1>1. CASE MintNft
  <2>1. /\ nextTokenId' = nextTokenId + 1 /\ Moved
        /\ auctionCount' = auctionCount /\ lots' = lots /\ now' = now
    BY <1>1 DEF MintNft
  <2>2. holder' \in [0 .. nextTokenId -> Accounts]
    BY <1>1 DEF MintNft, ChainType, Tokens
  <2>3. Tokens' = 0 .. nextTokenId /\ Lots' = Lots
    BY <2>1 DEF Tokens, Lots, ChainType
  <2>4. ChainType'
    BY <2>1, <2>2, <2>3 DEF ChainType
  <2>5. QED
    BY <2>1, <2>3, <2>4 DEF Grows, ChainType, LotsSound, Lot
<1>2. CASE TransferNft
  <2>1. /\ nextTokenId' = nextTokenId /\ Moved
        /\ auctionCount' = auctionCount /\ lots' = lots /\ now' = now
    BY <1>2 DEF TransferNft
  <2>2. holder' \in [Tokens -> Accounts] /\ Tokens' = Tokens /\ Lots' = Lots
    BY <1>2, <2>1 DEF TransferNft, ChainType, Tokens, Lots
  <2>3. ChainType'
    BY <2>1, <2>2 DEF ChainType
  <2>4. QED
    BY <2>1, <2>2, <2>3 DEF Grows, ChainType, LotsSound, Lot
<1>3. CASE OpenLot
  <2>1. /\ auctionCount' = auctionCount + 1 /\ Moved
        /\ nextTokenId' = nextTokenId /\ holder' = holder /\ now' = now
    BY <1>3 DEF OpenLot
  <2>2. PICK a \in Accounts :
          lots' = [id \in 0 .. auctionCount |->
                     IF id < auctionCount THEN lots[id]
                     ELSE [seller |-> a, bids |-> 0, ended |-> FALSE,
                           cancelled |-> FALSE]]
    BY <1>3 DEF OpenLot
  <2>3. Lots = 0 .. auctionCount - 1 /\ Lots' = 0 .. auctionCount
        /\ auctionCount \in Nat /\ Tokens' = Tokens
    BY <2>1 DEF Lots, ChainType, Tokens
  <2>4. lots' \in [0 .. auctionCount -> Lot]
    BY <2>2, <2>3 DEF ChainType, Lot
  <2>5. ChainType'
    BY <2>1, <2>3, <2>4 DEF ChainType
  <2>6. \A id \in Lots : lots'[id] = lots[id]
    BY <2>2, <2>3
  <2>7. LotsSound'
    BY <2>1, <2>2, <2>3 DEF LotsSound
  <2>8. QED
    BY <2>1, <2>5, <2>6, <2>7 DEF Grows, ChainType, Lot
<1>4. CASE Tick
  <2>1. /\ now' = now + 1 /\ Moved /\ nextTokenId' = nextTokenId
        /\ holder' = holder /\ auctionCount' = auctionCount /\ lots' = lots
    BY <1>4 DEF Tick
  <2>2. Tokens' = Tokens /\ Lots' = Lots
    BY <2>1 DEF Tokens, Lots
  <2>3. ChainType'
    BY <2>1, <2>2 DEF ChainType
  <2>4. LotsSound'
    BY <2>1, <2>2 DEF LotsSound, ChainType
  <2>5. QED
    BY <2>1, <2>3, <2>4 DEF Grows, ChainType, Lot
<1>5. ASSUME NEW id \in Lots, Bid(id)
      PROVE  Grows
  <2> DEFINE lot == [lots[id] EXCEPT !.bids = @ + 1]
  <2>1. lots[id] \in Lot /\ ~lots[id].ended /\ now \in Start .. End - 1
        /\ ChangeLot(id, lot)
    BY <1>5 DEF Bid, ChainType
  <2>2. lots[id].bids \in Nat
    BY <2>1 DEF Lot
  <2>3. /\ lot \in Lot /\ lot.bids = lots[id].bids + 1
        /\ lot.ended = lots[id].ended /\ lot.cancelled = lots[id].cancelled
    <3>1. lots[id].bids + 1 \in Nat
      BY <2>2
    <3>2. lot = [lots[id] EXCEPT !.bids = lots[id].bids + 1]
      BY <2>1 DEF Lot
    <3> HIDE DEF lot
    <3>3. QED
      BY <2>1, <3>1, <3>2 DEF Lot
  <2> HIDE DEF lot
  <2>4. QED
    BY <2>1, <2>2, <2>3, ChangeGrows DEF LotsSound
<1>6. ASSUME NEW id \in Lots, CancelLot(id)
      PROVE  Grows
  <2> DEFINE lot == [lots[id] EXCEPT !.ended = TRUE, !.cancelled = TRUE]
  <2>1. lots[id] \in Lot /\ lots[id].bids = 0 /\ ChangeLot(id, lot)
    BY <1>6 DEF CancelLot, ChainType
  <2>2. /\ lot \in Lot /\ lot.bids = lots[id].bids
        /\ lot.ended = TRUE /\ lot.cancelled = TRUE
    BY <2>1 DEF Lot
  <2> HIDE DEF lot
  <2>3. QED
    BY <2>1, <2>2, ChangeGrows
<1>7. ASSUME NEW id \in Lots, EndLot(id)
      PROVE  Grows
  <2> DEFINE lot == [lots[id] EXCEPT !.ended = TRUE]
  <2>1. lots[id] \in Lot /\ ~lots[id].ended /\ now >= End
        /\ ChangeLot(id, lot)
    BY <1>7 DEF EndLot, ChainType
  <2>2. /\ lot \in Lot /\ lot.bids = lots[id].bids
        /\ lot.ended = TRUE /\ lot.cancelled = lots[id].cancelled
    BY <2>1 DEF Lot
  <2> HIDE DEF lot
  <2>3. lots[id].bids \in Nat /\ ~lots[id].cancelled
    BY <2>1 DEF Lot, LotsSound
  <2>4. QED
    BY <2>1, <2>2, <2>3, ChangeGrows
<1>8. QED
  BY <1>1, <1>2, <1>3, <1>4, <1>5, <1>6, <1>7 DEF ChainStep

(* The page's knowledge stays true of a chain that grows.                  *)
LEMMA GrowsKeeps ==
  ASSUME PageInv, Grows
  PROVE  PageInv'
<1> USE DEF PageInv
<1>1. /\ ChainType' /\ LotsSound'
      /\ selected' = selected /\ shown' = shown /\ runs' = runs
      /\ held' = [always |-> held.always
                               \cap OwnedBy(holder', connecting.wallet),
                  ever |-> held.ever
                             \cup OwnedBy(holder', connecting.wallet)]
      /\ had' = [id \in DOMAIN had |->
                   had[id] \cup {Status(lots', now', id)}]
  BY DEF Grows, Moved, runs
<1>2. Tokens \subseteq Tokens' /\ Lots \subseteq Lots'
      /\ nextTokenId \in Nat /\ nextTokenId' \in Nat
      /\ nextTokenId <= nextTokenId'
  <2>1. /\ nextTokenId \in Nat /\ nextTokenId' \in Nat
        /\ auctionCount \in Nat /\ auctionCount' \in Nat
        /\ nextTokenId <= nextTokenId' /\ auctionCount <= auctionCount'
    BY DEF Grows, ChainType
  <2>2. ASSUME NEW m \in Nat, NEW n \in Nat, m <= n
        PROVE  0 .. m - 1 \subseteq 0 .. n - 1
    BY <2>2
  <2>3. /\ Tokens = 0 .. nextTokenId - 1 /\ Tokens' = 0 .. nextTokenId' - 1
        /\ Lots = 0 .. auctionCount - 1 /\ Lots' = 0 .. auctionCount' - 1
    BY DEF Tokens, Lots
  <2>4. QED
    BY <2>1, <2>2, <2>3
<1>3. connecting' = connecting /\ refreshing' = refreshing
      /\ minting' = minting
  BY <1>1 DEF runs
<1>4. ShownType'
  BY <1>1, <1>2 DEF ShownType, shown
<1>5. held'.always \in SUBSET Nat /\ held'.ever \in SUBSET Nat
  <2>1. OwnedBy(holder', connecting.wallet) \subseteq Nat
    BY <1>1 DEF OwnedBy, ChainType, Tokens
  <2>2. held.always \in SUBSET Nat /\ held.ever \in SUBSET Nat
    BY DEF RunsType
  <2>3. QED
    BY <1>1, <2>1, <2>2
<1>6. RunsType'
  BY <1>1, <1>3, <1>5 DEF RunsType
<1>7. NftBounds'
  <2>1. connecting.nftLimit \in {Unread} \cup 0 .. MaxScan
    BY DEF RunsType, Run
  <2>2. QED
    BY <1>2, <1>3, <2>1, PageAssumption DEF NftInv, NftBounds
<1>8. NftScan'
  BY <1>1, <1>3 DEF NftInv, NftScan
<1>9. LotBounds'
  BY <1>1, <1>2, <1>3 DEF LotInv, LotBounds
<1>10. HadCurrent'
  BY <1>1 DEF HadCurrent
<1>11. RowPast'
  <2> SUFFICES ASSUME connecting.row # <<>>
               PROVE  RowPast'
    BY <1>3 DEF RowPast
  <2> DEFINE at == connecting.lotAt
  <2>1. /\ at < connecting.lotLimit /\ connecting.row[1].bids <= lots[at].bids
        /\ connecting.row[1].ended => lots[at].ended
    BY DEF LotInv, RowPast
  <2>2. at \in Lots
    <3>1. at \in Nat /\ connecting.lotLimit \in {Unread} \cup 0 .. MaxScan
      BY DEF RunsType, Run
    <3>2. connecting.lotLimit # Unread
      BY DEF LotInv, LotBounds
    <3>3. at \in 0 .. connecting.lotLimit - 1
      BY <2>1, <3>1, <3>2, PageAssumption
    <3>4. QED
      BY <3>2, <3>3 DEF LotInv, LotBounds
  <2>3. lots[at].bids \in Nat /\ lots'[at].bids \in Nat
        /\ connecting.row[1].bids \in Nat
    BY <1>1, <1>2, <2>2 DEF ChainType, Lot, RunsType, Run, Rows
  <2>4. lots[at].bids <= lots'[at].bids /\ (lots[at].ended => lots'[at].ended)
    BY <2>2 DEF Grows
  <2>5. QED
    BY <1>3, <2>1, <2>3, <2>4 DEF RowPast
<1>12. ScannedRowsReal'
  <2> SUFFICES ASSUME NEW id \in DOMAIN connecting.cards
               PROVE  CardReal(id, connecting.cards[id])'
    BY <1>3 DEF ScannedRowsReal
  <2>1. /\ id \in DOMAIN had /\ id \in Lots
        /\ connecting.cards[id] \in CardOf
    BY CardIds DEF LotInv
  <2>2. CardReal(id, connecting.cards[id])
    BY DEF LotInv, ScannedRowsReal
  <2>3. had[id] \subseteq had'[id]
    BY <1>1, <2>1
  <2>4. lots[id].bids <= lots'[id].bids
    BY <2>1 DEF Grows
  <2>5. /\ lots[id].bids \in Nat /\ lots'[id].bids \in Nat
        /\ connecting.cards[id].bids \in Nat
    BY <1>1, <1>2, <2>1 DEF ChainType, Lot, CardOf
  <2>6. QED
    BY <1>3, <2>2, <2>3, <2>4, <2>5 DEF CardReal
<1>13. Alone'
  BY <1>1, <1>3 DEF Alone, OthersIdle, shown
<1>14. QED
  BY <1>1, <1>4, <1>6, <1>7, <1>8, <1>9, <1>10, <1>11, <1>12, <1>13
  DEF NftInv, LotInv
-----------------------------------------------------------------------------
(* The steps of the page leave the chain alone.                            *)
LEMMA StillChain ==
  ASSUME ChainType, LotsSound, chain' = chain
  PROVE  /\ ChainType' /\ LotsSound'
         /\ Tokens' = Tokens /\ Lots' = Lots
         /\ nextTokenId' = nextTokenId /\ holder' = holder
         /\ lots' = lots /\ now' = now
<1>1. /\ nextTokenId' = nextTokenId /\ holder' = holder
      /\ auctionCount' = auctionCount /\ lots' = lots /\ now' = now
  BY DEF chain
<1>2. Tokens' = Tokens /\ Lots' = Lots
  BY <1>1 DEF Tokens, Lots
<1>3. QED
  BY <1>1, <1>2 DEF ChainType, LotsSound

LEMMA DisturbedRun ==
  ASSUME connecting \in Run, Disturb
  PROVE  /\ connecting' \in Run /\ connecting'.alone = FALSE
         /\ connecting'.pc = connecting.pc
         /\ connecting'.wallet = connecting.wallet
         /\ connecting'.nftLimit = connecting.nftLimit
         /\ connecting'.nftAt = connecting.nftAt
         /\ connecting'.nfts = connecting.nfts
         /\ connecting'.lotLimit = connecting.lotLimit
         /\ connecting'.lotAt = connecting.lotAt
         /\ connecting'.row = connecting.row
         /\ connecting'.cards = connecting.cards
BY DEF Disturb, Run

(* What the other buttons do keeps the scans true.                         *)
LEMMA SideKeeps ==
  ASSUME PageInv, chain' = chain, history' = history,
         connecting' = connecting \/ Disturb,
         ShownType', refreshing' \in [Refreshes -> RefreshRun],
         minting' \in MintRun, Alone'
  PROVE  PageInv'
<1> USE DEF PageInv
<1>1. /\ ChainType' /\ LotsSound' /\ Tokens' = Tokens /\ Lots' = Lots
      /\ nextTokenId' = nextTokenId /\ holder' = holder
      /\ lots' = lots /\ now' = now
  BY StillChain DEF LotInv
<1>2. held' = held /\ had' = had
  BY DEF history
<1>3. connecting \in Run
  BY DEF RunsType
<1>4. /\ connecting' \in Run
      /\ connecting'.pc = connecting.pc
      /\ connecting'.wallet = connecting.wallet
      /\ connecting'.nftLimit = connecting.nftLimit
      /\ connecting'.nftAt = connecting.nftAt
      /\ connecting'.nfts = connecting.nfts
      /\ connecting'.lotLimit = connecting.lotLimit
      /\ connecting'.lotAt = connecting.lotAt
      /\ connecting'.row = connecting.row
      /\ connecting'.cards = connecting.cards
  BY <1>3, DisturbedRun
<1>5. RunsType'
  BY <1>2, <1>4 DEF RunsType
<1>6. NftBounds' /\ NftScan'
  BY <1>1, <1>2, <1>4 DEF NftInv, NftBounds, NftScan
<1>7. LotBounds' /\ HadCurrent' /\ RowPast'
  BY <1>1, <1>2, <1>4 DEF LotInv, LotBounds, HadCurrent, RowPast
<1>8. ScannedRowsReal'
  BY <1>1, <1>2, <1>4 DEF LotInv, ScannedRowsReal, CardReal
<1>9. QED
  BY <1>1, <1>5, <1>6, <1>7, <1>8 DEF NftInv, LotInv

(* Another button in use takes away what connecting alone promises.        *)
LEMMA AloneBusy ==
  ASSUME RunsType, Alone, ~OthersIdle, connecting' = connecting
  PROVE  Alone'
BY DEF Alone

LEMMA AloneDisturbed ==
  ASSUME RunsType, Alone, Disturb
  PROVE  Alone'
<1>1. /\ connecting'.alone = FALSE /\ connecting'.pc = connecting.pc
      /\ connecting'.wallet = connecting.wallet
  BY DisturbedRun DEF RunsType
<1>2. QED
  BY <1>1 DEF Alone

LEMMA AloneSame ==
  ASSUME Alone, connecting' = connecting, address' = address,
         refreshing' = refreshing, minting' = minting
  PROVE  Alone'
BY DEF Alone, OthersIdle

(* A page that shows the same, or another address, balance or permission.  *)
LEMMA ShownSame ==
  ASSUME ChainType, LotsSound, ShownType, chain' = chain,
         selected' \in WalletAccounts, address' \in Wallets,
         chainNfts' = chainNfts,
         chainCreatedAuctions' = chainCreatedAuctions,
         paymentTokenBalance' \in Wallets, canMintPaymentToken' \in BOOLEAN
  PROVE  ShownType'
BY StillChain DEF ShownType

LEMMA RefreshType ==
  ASSUME RunsType, NEW r \in Refreshes, NEW next \in RefreshRun,
         Refresh(r, next)
  PROVE  refreshing' \in [Refreshes -> RefreshRun] /\ minting' = minting
BY DEF RunsType, Refresh

LEMMA SideSteps ==
  ASSUME PageInv,
         \/ SwitchAccount \/ TypeRecipient \/ ClickMint \/ MintStep
         \/ MintFails
         \/ \E r \in Refreshes :
              ClickRefresh(r) \/ RefreshStep(r) \/ RefreshFails(r)
  PROVE  PageInv'
<1> USE DEF PageInv, Wallets
<1>1. /\ ChainType /\ LotsSound /\ ShownType /\ RunsType /\ Alone
      /\ selected \in WalletAccounts /\ address \in Wallets
      /\ paymentTokenBalance \in Wallets /\ canMintPaymentToken \in BOOLEAN
      /\ refreshing \in [Refreshes -> RefreshRun] /\ minting \in MintRun
      /\ NotMinting \in MintRun /\ NotRefreshing \in RefreshRun
  BY DEF LotInv, ShownType, RunsType, NotMinting, MintRun, NotRefreshing,
     RefreshRun
<1>2. CASE SwitchAccount
  <2>1. /\ chain' = chain /\ history' = history /\ shown' = shown
        /\ runs' = runs /\ selected' \in WalletAccounts
    BY <1>2 DEF SwitchAccount
  <2>2. ShownType'
    BY <1>1, <2>1, ShownSame DEF shown
  <2>3. Alone'
    BY <1>1, <2>1, AloneSame DEF shown, runs
  <2>4. QED
    BY <1>1, <2>1, <2>2, <2>3, SideKeeps DEF runs
<1>3. CASE TypeRecipient
  <2>1. /\ chain' = chain /\ history' = history /\ selected' = selected
        /\ address' = address /\ chainNfts' = chainNfts
        /\ chainCreatedAuctions' = chainCreatedAuctions
        /\ paymentTokenBalance' = paymentTokenBalance
        /\ canMintPaymentToken' = canMintPaymentToken /\ runs' = runs
    BY <1>3 DEF TypeRecipient, Click
  <2>2. ShownType'
    BY <1>1, <2>1, ShownSame
  <2>3. Alone'
    BY <1>1, <2>1, AloneSame DEF runs
  <2>4. QED
    BY <1>1, <2>1, <2>2, <2>3, SideKeeps DEF runs
<1>4. CASE ClickMint
  <2> DEFINE next == [NotMinting EXCEPT !.pc = "wallet",
                                        !.to = mintRecipientAddress]
  <2>1. /\ chain' = chain /\ history' = history /\ selected' = selected
        /\ shown' = shown /\ Disturb /\ minting' = next
        /\ refreshing' = refreshing /\ mintRecipientAddress \in Accounts
    BY <1>4 DEF ClickMint, Click, Mint
  <2>2. next \in MintRun
    BY <2>1 DEF NotMinting, MintRun
  <2>3. ShownType'
    BY <1>1, <2>1, ShownSame DEF shown
  <2>4. Alone'
    BY <1>1, <2>1, AloneDisturbed
  <2>5. QED
    BY <1>1, <2>1, <2>2, <2>3, <2>4, SideKeeps
<1>5. ASSUME NEW r \in Refreshes, ClickRefresh(r)
      PROVE  PageInv'
  <2>1. /\ chain' = chain /\ history' = history /\ selected' = selected
        /\ shown' = shown /\ Disturb
        /\ Refresh(r, [NotRefreshing EXCEPT !.pc = "wallet"])
    BY <1>5 DEF ClickRefresh, Click
  <2>2. [NotRefreshing EXCEPT !.pc = "wallet"] \in RefreshRun
    BY DEF NotRefreshing, RefreshRun
  <2>3. refreshing' \in [Refreshes -> RefreshRun] /\ minting' = minting
    BY <1>1, <2>1, <2>2, RefreshType
  <2>4. ShownType'
    BY <1>1, <2>1, ShownSame DEF shown
  <2>5. Alone'
    BY <1>1, <2>1, AloneDisturbed
  <2>6. QED
    BY <1>1, <2>1, <2>3, <2>4, <2>5, SideKeeps
<1>6. ASSUME NEW r \in Refreshes, RefreshStep(r) \/ RefreshFails(r)
      PROVE  PageInv'
  <2>1. ~OthersIdle
    BY <1>6 DEF RefreshStep, RefreshWallet, RefreshDone, RefreshFails,
       OthersIdle
  <2>2. /\ chain' = chain /\ history' = history /\ selected' = selected
        /\ connecting' = connecting
    BY <1>6 DEF RefreshStep, RefreshWallet, RefreshDone, RefreshFails,
       Answered, Failed
  <2>3. refreshing' \in [Refreshes -> RefreshRun] /\ minting' = minting
    <3>1. [pc |-> "balance", wallet |-> selected] \in RefreshRun
      BY <1>1 DEF RefreshRun
    <3>2. QED
      BY <1>1, <1>6, <3>1, RefreshType
      DEF RefreshStep, RefreshWallet, RefreshDone, RefreshFails
  <2>4. ShownType'
    <3>1. refreshing[r].wallet \in Wallets
      BY <1>1 DEF RefreshRun
    <3>2. CASE RefreshDone(r)
      BY <1>1, <2>2, <3>1, <3>2, ShownSame DEF RefreshDone, SetBalance
    <3>3. CASE ~RefreshDone(r)
      <4>1. shown' = shown
        BY <1>6, <3>3 DEF RefreshStep, RefreshWallet, RefreshFails
      <4>2. QED
        BY <1>1, <2>2, <4>1, ShownSame DEF shown
    <3>4. QED
      BY <3>2, <3>3
  <2>5. Alone'
    BY <1>1, <2>1, <2>2, AloneBusy
  <2>6. QED
    BY <1>1, <2>2, <2>3, <2>4, <2>5, SideKeeps
<1>7. CASE MintStep \/ MintFails
  <2>1. ~OthersIdle
    BY <1>7 DEF MintStep, MintWallet, MintSigner, MintCheckOwner, MintTx,
       MintReverts, MintDone, MintFails, MintingAt, OthersIdle
  <2>2. /\ chain' = chain /\ history' = history /\ selected' = selected
        /\ connecting' = connecting /\ refreshing' = refreshing
    BY <1>7 DEF MintStep, MintWallet, MintSigner, MintCheckOwner, MintTx,
       MintReverts, MintDone, MintFails, Mint, Answered, Failed
  <2>3. /\ [minting EXCEPT !.pc = "signer", !.wallet = selected] \in MintRun
        /\ [minting EXCEPT !.pc = "checkOwner", !.signer = selected]
             \in MintRun
        /\ [minting EXCEPT !.pc = "mintTx"] \in MintRun
        /\ [minting EXCEPT !.pc = "balance"] \in MintRun
    BY <1>1 DEF MintRun
  <2>4. minting' \in MintRun
    BY <1>1, <1>7, <2>3, Zenon
    DEF MintStep, MintWallet, MintSigner, MintCheckOwner, MintTx,
        MintReverts, MintDone, MintFails, Mint
  <2>5. ShownType'
    <3>1. minting.wallet \in Wallets
      BY <1>1 DEF MintRun
    <3>2. CASE MintSigner
      BY <1>1, <2>2, <3>1, <3>2, ShownSame DEF MintSigner, SetAddress
    <3>3. CASE MintCheckOwner
      BY <1>1, <2>2, <3>3, ShownSame DEF MintCheckOwner
    <3>4. CASE MintDone
      BY <1>1, <2>2, <3>1, <3>4, ShownSame DEF MintDone, SetBalance
    <3>5. CASE MintWallet \/ MintTx \/ MintReverts \/ MintFails
      <4>1. shown' = shown
        BY <3>5 DEF MintWallet, MintTx, MintReverts, MintFails
      <4>2. QED
        BY <1>1, <2>2, <4>1, ShownSame DEF shown
    <3>6. QED
      BY <1>7, <3>2, <3>3, <3>4, <3>5 DEF MintStep
  <2>6. Alone'
    BY <1>1, <2>1, <2>2, AloneBusy
  <2>7. QED
    BY <1>1, <2>2, <2>4, <2>5, <2>6, SideKeeps
<1>8. QED
  BY <1>2, <1>3, <1>4, <1>5, <1>6, <1>7
-----------------------------------------------------------------------------
(* A step of connect while the page stays as it is.                        *)
LEMMA ReadKeeps ==
  ASSUME PageInv, chain' = chain, selected' = selected, shown' = shown,
         refreshing' = refreshing, minting' = minting,
         connecting.pc = "reads", connecting'.pc = "reads",
         connecting'.wallet = connecting.wallet,
         connecting'.alone = connecting.alone
  PROVE  ChainType' /\ ShownType' /\ LotsSound' /\ Alone'
<1>1. ChainType' /\ LotsSound'
  BY StillChain DEF PageInv, LotInv
<1>2. ShownType'
  BY ShownSame DEF PageInv, LotInv, ShownType, shown
<1>3. Alone'
  BY DEF PageInv, Alone, OthersIdle, shown
<1>4. QED
  BY <1>1, <1>2, <1>3

(* A step of one scan leaves the other one alone.                          *)
LEMMA NftStill ==
  ASSUME NftInv, chain' = chain, held' = held,
         connecting'.pc = connecting.pc,
         connecting'.wallet = connecting.wallet,
         connecting'.nftLimit = connecting.nftLimit,
         connecting'.nftAt = connecting.nftAt,
         connecting'.nfts = connecting.nfts
  PROVE  NftInv'
BY DEF NftInv, NftBounds, NftScan, chain

LEMMA LotStill ==
  ASSUME LotInv, ChainType, chain' = chain, had' = had,
         connecting'.pc = connecting.pc,
         connecting'.lotLimit = connecting.lotLimit,
         connecting'.lotAt = connecting.lotAt,
         connecting'.row = connecting.row,
         connecting'.cards = connecting.cards
  PROVE  LotInv'
<1>1. LotsSound' /\ Lots' = Lots /\ lots' = lots /\ now' = now
  BY StillChain DEF LotInv
<1>2. QED
  BY <1>1 DEF LotInv, LotBounds, HadCurrent, RowPast, ScannedRowsReal,
              CardReal

LEMMA ScanLimitBound ==
  ASSUME NEW n \in Nat
  PROVE  /\ ScanLimit(n) \in 0 .. MaxScan /\ ScanLimit(n) <= n
         /\ \A x \in 0 .. n - 1 : x < MaxScan => x < ScanLimit(n)
BY PageAssumption DEF ScanLimit

LEMMA TokenCount ==
  ASSUME PageInv, ReadNextTokenId
  PROVE  PageInv'
<1> USE DEF PageInv
<1> DEFINE mine == OwnedBy(holder, connecting.wallet)
<1>1. /\ connecting.nftLimit = Unread /\ connecting.pc = "reads"
      /\ connecting' = [connecting EXCEPT !.nftLimit = ScanLimit(nextTokenId)]
      /\ held' = [always |-> mine, ever |-> mine]
      /\ shown' = shown /\ refreshing' = refreshing /\ minting' = minting
      /\ chain' = chain /\ selected' = selected /\ had' = had
  BY DEF ReadNextTokenId, Read, Answered
<1>2. /\ nextTokenId \in Nat /\ ScanLimit(nextTokenId) \in 0 .. MaxScan
      /\ ScanLimit(nextTokenId) <= nextTokenId
      /\ \A x \in 0 .. nextTokenId - 1 :
           x < MaxScan => x < ScanLimit(nextTokenId)
  BY ScanLimitBound DEF ChainType
<1>3. connecting \in Run /\ ScanLimit(nextTokenId) \in Nat
  BY <1>2, PageAssumption DEF RunsType
<1>4. /\ connecting' \in Run
      /\ connecting'.pc = "reads" /\ connecting'.alone = connecting.alone
      /\ connecting'.wallet = connecting.wallet
      /\ connecting'.nftLimit = ScanLimit(nextTokenId)
      /\ connecting'.nftAt = connecting.nftAt
      /\ connecting'.nfts = connecting.nfts
      /\ connecting'.lotLimit = connecting.lotLimit
      /\ connecting'.lotAt = connecting.lotAt
      /\ connecting'.row = connecting.row
      /\ connecting'.cards = connecting.cards
  BY <1>1, <1>2, <1>3 DEF Run
<1>5. /\ nextTokenId' = nextTokenId /\ holder' = holder
      /\ mine \subseteq 0 .. nextTokenId - 1
  BY <1>1, StillChain DEF LotInv, OwnedBy, ChainType, Tokens
<1>6. connecting.nftAt = 0 /\ connecting.nfts = {}
  BY <1>1 DEF NftInv, NftBounds
<1> HIDE DEF mine
<1>7. RunsType'
  BY <1>1, <1>4, <1>5 DEF RunsType
<1>8. NftBounds'
  BY <1>2, <1>3, <1>4, <1>5, <1>6 DEF NftBounds, Unread
<1>9. NftScan'
  <2>1. mine' = OwnedBy(holder, connecting.wallet)
    BY <1>4, <1>5 DEF mine
  <2>2. QED
    BY <1>1, <1>2, <1>4, <1>5, <1>6, <2>1 DEF NftScan, mine
<1>10. LotInv'
  BY <1>1, <1>4, LotStill
<1>11. QED
  BY <1>1, <1>4, <1>7, <1>8, <1>9, <1>10, ReadKeeps DEF NftInv

(* One token asked for, or given up on.                                    *)
LEMMA TokenAsked ==
  ASSUME PageInv, ReadOwnerOf \/ SkipToken
  PROVE  PageInv'
<1> USE DEF PageInv
<1> DEFINE x == connecting.nftAt
           w == connecting.wallet
<1>1. /\ x < connecting.nftLimit /\ connecting.pc = "reads"
      /\ shown' = shown /\ refreshing' = refreshing /\ minting' = minting
      /\ chain' = chain /\ selected' = selected /\ had' = had
  BY DEF ReadOwnerOf, SkipToken, Read, Answered, Failed, history
<1>2. /\ connecting \in Run /\ x \in Nat
      /\ held \in [always : SUBSET Nat, ever : SUBSET Nat]
      /\ connecting.nftLimit \in {Unread} \cup 0 .. MaxScan
      /\ connecting.nfts \subseteq 0 .. x - 1
      /\ nextTokenId \in Nat /\ holder \in [Tokens -> Accounts]
  BY DEF RunsType, Run, NftInv, NftBounds, ChainType
<1>3. /\ connecting.nftLimit # Unread /\ connecting.nftLimit \in Nat
      /\ connecting.nftLimit <= nextTokenId
  BY <1>1, <1>2, PageAssumption DEF Unread, NftInv, NftBounds
<1>4. x \in Tokens /\ x + 1 \in Nat /\ x + 1 <= connecting.nftLimit
  BY <1>1, <1>2, <1>3 DEF Tokens
<1>5. /\ held.always \subseteq OwnedBy(holder, w)
      /\ OwnedBy(holder, w) \subseteq held.ever
      /\ connecting.nfts \subseteq held.ever
      /\ \A y \in held.always :
           /\ y < x => y \in connecting.nfts
           /\ y < MaxScan => y < connecting.nftLimit
  BY <1>3 DEF NftInv, NftScan
<1>6. PICK nfts \in SUBSET Nat :
        /\ connecting' = [connecting EXCEPT !.nftAt = x + 1, !.nfts = nfts]
        /\ nfts \subseteq held.ever /\ nfts \subseteq 0 .. x
        /\ connecting.nfts \subseteq nfts
        /\ held'.always \subseteq held.always /\ held'.ever = held.ever
        /\ held' \in [always : SUBSET Nat, ever : SUBSET Nat]
        /\ x \in held'.always => x \in nfts
  <2>1. CASE ReadOwnerOf
    <3> DEFINE nfts == IF holder[x] = w THEN connecting.nfts \cup {x}
                       ELSE connecting.nfts
    <3>1. /\ connecting' = [connecting EXCEPT !.nftAt = x + 1, !.nfts = nfts]
          /\ held' = held
      BY <1>2, <2>1 DEF ReadOwnerOf, Read, history, Run
    <3>2. x \in OwnedBy(holder, w) <=> holder[x] = w
      BY <1>2, <1>4 DEF OwnedBy
    <3>3. nfts \subseteq 0 .. x /\ nfts \in SUBSET Nat
      BY <1>2
    <3>4. nfts \subseteq held.ever /\ connecting.nfts \subseteq nfts
      BY <1>5, <3>2
    <3>5. x \in held.always => x \in nfts
      BY <1>5, <3>2
    <3> HIDE DEF nfts
    <3>6. QED
      BY <1>2, <3>1, <3>3, <3>4, <3>5
  <2>2. CASE SkipToken
    <3>1. /\ connecting' = [connecting EXCEPT !.nftAt = x + 1]
          /\ held' = [held EXCEPT !.always = @ \ {x}]
      BY <2>2 DEF SkipToken, Read
    <3>2. connecting' = [connecting EXCEPT !.nftAt = x + 1,
                                           !.nfts = connecting.nfts]
      BY <1>2, <3>1 DEF Run
    <3>3. /\ held'.always = held.always \ {x} /\ held'.ever = held.ever
          /\ held' \in [always : SUBSET Nat, ever : SUBSET Nat]
      BY <1>2, <3>1
    <3>4. connecting.nfts \in SUBSET Nat /\ connecting.nfts \subseteq 0 .. x
      BY <1>2
    <3>5. QED
      BY <1>5, <3>2, <3>3, <3>4
  <2>3. QED
    BY <2>1, <2>2
<1>7. /\ connecting' \in Run
      /\ connecting'.pc = "reads" /\ connecting'.alone = connecting.alone
      /\ connecting'.wallet = w
      /\ connecting'.nftLimit = connecting.nftLimit
      /\ connecting'.nftAt = x + 1 /\ connecting'.nfts = nfts
      /\ connecting'.lotLimit = connecting.lotLimit
      /\ connecting'.lotAt = connecting.lotAt
      /\ connecting'.row = connecting.row
      /\ connecting'.cards = connecting.cards
  BY <1>1, <1>2, <1>4, <1>6 DEF Run
<1>8. nextTokenId' = nextTokenId /\ holder' = holder
  BY <1>1, StillChain DEF LotInv
<1>9. RunsType'
  BY <1>1, <1>6, <1>7 DEF RunsType
<1>10. NftBounds'
  <2>1. 0 .. x = 0 .. (x + 1) - 1
    BY <1>2
  <2>2. QED
    BY <1>3, <1>4, <1>6, <1>7, <1>8, <2>1 DEF NftBounds
<1>11. NftScan'
  <2>1. ASSUME NEW y \in held'.always
        PROVE  /\ y < x + 1 => y \in nfts
               /\ y < MaxScan => y < connecting.nftLimit
    <3>1. y \in held.always /\ y \in Nat
      BY <1>2, <1>6
    <3>2. y < x + 1 => y < x \/ y = x
      BY <1>2, <3>1
    <3>3. QED
      BY <1>5, <1>6, <3>1, <3>2
  <2>2. QED
    BY <1>5, <1>6, <1>7, <1>8, <2>1 DEF NftScan
<1>12. LotInv'
  BY <1>1, <1>7, LotStill
<1>13. QED
  BY <1>1, <1>7, <1>9, <1>10, <1>11, <1>12, ReadKeeps DEF NftInv
-----------------------------------------------------------------------------
LEMMA AuctionCounted ==
  ASSUME PageInv, ReadAuctionCount
  PROVE  PageInv'
<1> USE DEF PageInv
<1> DEFINE n == ScanLimit(auctionCount)
<1>1. /\ connecting.lotLimit = Unread /\ connecting.pc = "reads"
      /\ connecting' = [connecting EXCEPT !.lotLimit = n]
      /\ had' = [id \in Lots |-> {Status(lots, now, id)}]
      /\ shown' = shown /\ refreshing' = refreshing /\ minting' = minting
      /\ chain' = chain /\ selected' = selected /\ held' = held
  BY DEF ReadAuctionCount, Read, Answered
<1>2. auctionCount \in Nat /\ n \in 0 .. MaxScan /\ n <= auctionCount
  BY ScanLimitBound DEF ChainType
<1>3. connecting \in Run /\ n \in Nat /\ n # Unread
  BY <1>2, PageAssumption DEF RunsType, Unread
<1> HIDE DEF n
<1>4. /\ connecting' \in Run
      /\ connecting'.pc = "reads" /\ connecting'.alone = connecting.alone
      /\ connecting'.wallet = connecting.wallet
      /\ connecting'.nftLimit = connecting.nftLimit
      /\ connecting'.nftAt = connecting.nftAt
      /\ connecting'.nfts = connecting.nfts
      /\ connecting'.lotLimit = n
      /\ connecting'.lotAt = connecting.lotAt
      /\ connecting'.row = connecting.row
      /\ connecting'.cards = connecting.cards
  BY <1>1, <1>2, <1>3 DEF Run
<1>5. /\ Lots' = Lots /\ lots' = lots /\ now' = now /\ LotsSound'
  BY <1>1, StillChain DEF LotInv
<1>6. /\ connecting.lotAt = 0 /\ connecting.row = <<>>
      /\ DOMAIN connecting.cards = {}
  BY <1>1 DEF LotInv, LotBounds
<1>7. RunsType'
  BY <1>1, <1>4 DEF RunsType
<1>8. LotBounds'
  <2>1. 0 .. n - 1 \subseteq Lots /\ DOMAIN had' = Lots
    BY <1>1, <1>2, <1>3 DEF Lots
  <2>2. QED
    BY <1>3, <1>4, <1>5, <1>6, <2>1 DEF LotBounds
<1>9. HadCurrent' /\ RowPast' /\ ScannedRowsReal'
  BY <1>1, <1>4, <1>5, <1>6 DEF HadCurrent, RowPast, ScannedRowsReal
<1>10. NftInv'
  BY <1>1, <1>4, NftStill
<1>11. QED
  BY <1>1, <1>4, <1>5, <1>7, <1>8, <1>9, <1>10, ReadKeeps DEF LotInv

(* Where the scan of the auctions is, when it has one to read.             *)
LEMMA LotAtHand ==
  ASSUME PageInv, connecting.lotAt < connecting.lotLimit
  PROVE  LET id == connecting.lotAt
         IN  /\ id \in Nat /\ id \in Lots /\ id \in DOMAIN had
             /\ connecting.lotLimit \in Nat /\ connecting.lotLimit # Unread
             /\ id + 1 <= connecting.lotLimit
             /\ 0 .. connecting.lotLimit - 1 \subseteq DOMAIN had
             /\ lots[id] \in Lot /\ lots[id].bids \in Nat
<1> USE DEF PageInv
<1>1. /\ connecting.lotAt \in Nat
      /\ connecting.lotLimit \in {Unread} \cup 0 .. MaxScan
  BY DEF RunsType, Run
<1>2. connecting.lotLimit # Unread /\ connecting.lotLimit \in Nat
  BY <1>1, PageAssumption DEF Unread
<1>3. 0 .. connecting.lotLimit - 1 \subseteq DOMAIN had
  BY <1>2 DEF LotInv, LotBounds
<1>4. connecting.lotAt \in 0 .. connecting.lotLimit - 1
  BY <1>1, <1>2
<1>5. connecting.lotAt \in Lots
  BY <1>3, <1>4 DEF LotInv, LotBounds
<1>6. QED
  BY <1>1, <1>2, <1>3, <1>4, <1>5 DEF ChainType, Lot

(* One auction asked for: kept until its extra is read, or passed over.    *)
LEMMA AuctionAsked ==
  ASSUME PageInv, ReadAuction
  PROVE  PageInv'
<1> USE DEF PageInv
<1> DEFINE id == connecting.lotAt
<1>1. /\ id < connecting.lotLimit /\ connecting.pc = "reads"
      /\ connecting.row = <<>>
      /\ connecting' = IF lots[id].seller = connecting.wallet
                       THEN [connecting EXCEPT !.row = <<lots[id]>>]
                       ELSE [connecting EXCEPT !.lotAt = id + 1]
      /\ shown' = shown /\ refreshing' = refreshing /\ minting' = minting
      /\ chain' = chain /\ selected' = selected
      /\ held' = held /\ had' = had
  BY DEF ReadAuction, Read, Answered, history
<1>2. /\ id \in Nat /\ id \in Lots /\ id \in DOMAIN had
      /\ connecting.lotLimit \in Nat /\ connecting.lotLimit # Unread
      /\ id + 1 <= connecting.lotLimit
      /\ 0 .. connecting.lotLimit - 1 \subseteq DOMAIN had
      /\ lots[id] \in Lot /\ lots[id].bids \in Nat
  BY <1>1, LotAtHand
<1>3. connecting \in Run /\ <<lots[id]>> \in Rows
  BY <1>2 DEF RunsType, Rows
<1> DEFINE Reads(at, row) ==
             /\ connecting' = [connecting EXCEPT !.lotAt = at, !.row = row]
             /\ id <= at /\ at <= connecting.lotLimit
             /\ row # <<>> => at = id /\ row = <<lots[id]>>
<1>4. PICK at \in Nat, row \in Rows : Reads(at, row)
  <2>1. CASE lots[id].seller = connecting.wallet
    <3>1. connecting' = [connecting EXCEPT !.lotAt = id, !.row = <<lots[id]>>]
      BY <1>1, <1>3, <2>1 DEF Run
    <3>2. Reads(id, <<lots[id]>>)
      <4> HIDE DEF id
      <4>1. id <= id /\ id <= connecting.lotLimit
        BY <1>2
      <4>2. QED
        BY <3>1, <4>1
    <3> HIDE DEF Reads, id
    <3>3. QED
      BY <1>2, <1>3, <3>2
  <2>2. CASE lots[id].seller # connecting.wallet
    <3>1. connecting' = [connecting EXCEPT !.lotAt = id + 1, !.row = <<>>]
      BY <1>1, <1>3, <2>2 DEF Run
    <3>2. Reads(id + 1, <<>>)
      <4> HIDE DEF id
      <4>1. id <= id + 1 /\ id + 1 <= connecting.lotLimit
        BY <1>2
      <4>2. QED
        BY <3>1, <4>1
    <3>3. <<>> \in Rows /\ id + 1 \in Nat
      BY <1>2 DEF Rows
    <3> HIDE DEF Reads, id
    <3>4. QED
      BY <3>2, <3>3
  <2>3. QED
    BY <2>1, <2>2
<1> HIDE DEF id
<1>5. /\ connecting' \in Run
      /\ connecting'.pc = "reads" /\ connecting'.alone = connecting.alone
      /\ connecting'.wallet = connecting.wallet
      /\ connecting'.nftLimit = connecting.nftLimit
      /\ connecting'.nftAt = connecting.nftAt
      /\ connecting'.nfts = connecting.nfts
      /\ connecting'.lotLimit = connecting.lotLimit
      /\ connecting'.lotAt = at /\ connecting'.row = row
      /\ connecting'.cards = connecting.cards
  BY <1>1, <1>3, <1>4 DEF Run
<1>6. /\ Lots' = Lots /\ lots' = lots /\ now' = now /\ LotsSound'
  BY <1>1, StillChain DEF LotInv
<1>7. RunsType'
  BY <1>1, <1>5 DEF RunsType
<1>8. LotBounds'
  <2>1. DOMAIN connecting.cards \subseteq 0 .. id - 1
    BY DEF LotInv, LotBounds, id
  <2>2. 0 .. id - 1 \subseteq 0 .. at - 1
    BY <1>2, <1>4
  <2>3. DOMAIN had \subseteq Lots
    BY DEF LotInv, LotBounds
  <2>4. QED
    BY <1>1, <1>2, <1>4, <1>5, <1>6, <2>1, <2>2, <2>3 DEF LotBounds
<1>9. RowPast'
  <2>1. row # <<>> => row[1] = lots[at] /\ at = id
    BY <1>4
  <2>2. QED
    BY <1>1, <1>2, <1>5, <1>6, <2>1 DEF RowPast, id
<1>10. HadCurrent' /\ ScannedRowsReal'
  BY <1>1, <1>5, <1>6 DEF LotInv, HadCurrent, ScannedRowsReal, CardReal
<1>11. NftInv'
  BY <1>1, <1>5, NftStill
<1>12. QED
  BY <1>1, <1>5, <1>6, <1>7, <1>8, <1>9, <1>10, <1>11, ReadKeeps DEF LotInv

(* The status put together from an auction read earlier and its extra read *)
(* now is the one the auction has now.                                     *)
LEMMA CardCurrent ==
  ASSUME ChainType, LotsSound, NEW id \in Lots, NEW row \in Lot,
         row.bids <= lots[id].bids, row.ended => lots[id].ended
  PROVE  LET card == Card(row, lots[id])
         IN  /\ card \in CardOf
             /\ card.status = Status(lots, now, id)
             /\ card.status = "cancelled" => card.bids = 0
             /\ card.bids <= lots[id].bids
<1> DEFINE card == Card(row, lots[id])
<1>1. /\ card.bids = row.bids
      /\ card.status = ChainStatus(row.ended, lots[id].cancelled, Start, End,
                                   now)
      /\ card = [bids |-> card.bids, status |-> card.status]
  BY DEF Card
<1>2. /\ row.bids \in Nat /\ lots[id].bids \in Nat /\ now \in Nat
      /\ Start \in Nat /\ End \in Nat
  BY PageAssumption DEF ChainType, Lot
<1>3. card.status = Status(lots, now, id)
  BY <1>1, <1>2 DEF LotsSound, Status, ChainStatus
<1>4. card.status = "cancelled" => lots[id].cancelled
  BY <1>1 DEF ChainStatus
<1>5. card.status = "cancelled" => card.bids = 0
  <2>1. lots[id].cancelled => lots[id].bids = 0
    BY DEF LotsSound
  <2>2. QED
    BY <1>1, <1>2, <1>4, <2>1
<1>6. card.status \in Statuses
  BY <1>3, StatusType
<1>7. card \in CardOf
  BY <1>1, <1>2, <1>6 DEF CardOf
<1>8. QED
  BY <1>1, <1>3, <1>5, <1>7

(* The extra of the auction at hand: its card is complete.                 *)
LEMMA ExtraRead ==
  ASSUME PageInv, ReadExtra
  PROVE  PageInv'
<1> USE DEF PageInv
<1> DEFINE id == connecting.lotAt
           cards == connecting.cards
           card == Card(connecting.row[1], lots[id])
           more == [i \in DOMAIN cards \cup {id} |->
                      IF i = id THEN card ELSE cards[i]]
<1>1. /\ connecting.pc = "reads" /\ connecting.row # <<>>
      /\ connecting' = [connecting EXCEPT !.lotAt = id + 1, !.row = <<>>,
                                          !.cards = more]
      /\ shown' = shown /\ refreshing' = refreshing /\ minting' = minting
      /\ chain' = chain /\ selected' = selected
      /\ held' = held /\ had' = had
  BY DEF ReadExtra, Read, Answered, history
<1>2. /\ id < connecting.lotLimit
      /\ connecting.row[1].bids <= lots[id].bids
      /\ connecting.row[1].ended => lots[id].ended
  BY <1>1 DEF LotInv, RowPast
<1>3. /\ id \in Nat /\ id \in Lots /\ id \in DOMAIN had
      /\ connecting.lotLimit \in Nat /\ connecting.lotLimit # Unread
      /\ id + 1 <= connecting.lotLimit
      /\ 0 .. connecting.lotLimit - 1 \subseteq DOMAIN had
  BY <1>2, LotAtHand
<1>4. connecting \in Run /\ connecting.row[1] \in Lot
  <2>1. connecting \in Run /\ connecting.row \in Rows
    BY DEF RunsType, Run
  <2>2. QED
    BY <1>1, <2>1 DEF Rows
<1>5. /\ card \in CardOf /\ card.status = Status(lots, now, id)
      /\ card.status = "cancelled" => card.bids = 0
      /\ card.bids <= lots[id].bids
  BY <1>2, <1>3, <1>4, CardCurrent DEF LotInv
<1>6. /\ cards \in [DOMAIN cards -> CardOf] /\ DOMAIN cards \in SUBSET Nat
      /\ DOMAIN cards \subseteq 0 .. id - 1
  BY <1>4 DEF Run, Cards, LotInv, LotBounds
<1> HIDE DEF card
<1>7. /\ more \in [DOMAIN cards \cup {id} -> CardOf]
      /\ DOMAIN more = DOMAIN cards \cup {id}
      /\ DOMAIN cards \cup {id} \in SUBSET Nat
      /\ more[id] = card
      /\ \A i \in DOMAIN cards : i # id => more[i] = cards[i]
  BY <1>3, <1>5, <1>6
<1>8. more \in Cards
  BY <1>7 DEF Cards
<1> HIDE DEF more
<1>9. <<>> \in Rows /\ id + 1 \in Nat
  BY <1>3 DEF Rows
<1>10. /\ connecting' \in Run
       /\ connecting'.pc = "reads" /\ connecting'.alone = connecting.alone
       /\ connecting'.wallet = connecting.wallet
       /\ connecting'.nftLimit = connecting.nftLimit
       /\ connecting'.nftAt = connecting.nftAt
       /\ connecting'.nfts = connecting.nfts
       /\ connecting'.lotLimit = connecting.lotLimit
       /\ connecting'.lotAt = id + 1 /\ connecting'.row = <<>>
       /\ connecting'.cards = more
  BY <1>1, <1>4, <1>8, <1>9 DEF Run
<1>11. /\ Lots' = Lots /\ lots' = lots /\ now' = now /\ LotsSound'
  BY <1>1, StillChain DEF LotInv
<1> HIDE DEF id, cards
<1>12. RunsType'
  BY <1>1, <1>10 DEF RunsType
<1>13. LotBounds'
  <2>1. DOMAIN more \subseteq 0 .. (id + 1) - 1
    BY <1>3, <1>6, <1>7
  <2>2. DOMAIN had \subseteq Lots
    BY DEF LotInv, LotBounds
  <2>3. QED
    BY <1>1, <1>3, <1>10, <1>11, <2>1, <2>2 DEF LotBounds
<1>14. HadCurrent' /\ RowPast'
  BY <1>1, <1>10, <1>11 DEF LotInv, HadCurrent, RowPast
<1>15. ScannedRowsReal'
  <2>1. ASSUME NEW i \in DOMAIN more
        PROVE  /\ more[i].status \in had[i]
               /\ more[i].status = "cancelled" => more[i].bids = 0
               /\ more[i].bids <= lots[i].bids
    <3>1. CASE i = id
      <4>1. Status(lots, now, id) \in had[id]
        BY <1>3 DEF LotInv, HadCurrent
      <4>2. QED
        BY <1>5, <1>7, <3>1, <4>1
    <3>2. CASE i # id
      <4>1. i \in DOMAIN cards /\ more[i] = cards[i]
        BY <1>7, <3>2
      <4>2. CardReal(i, cards[i])
        BY <4>1 DEF LotInv, ScannedRowsReal, cards
      <4>3. QED
        BY <4>1, <4>2 DEF CardReal
    <3>3. QED
      BY <3>1, <3>2
  <2>2. QED
    BY <1>1, <1>10, <1>11, <2>1 DEF ScannedRowsReal, CardReal
<1>16. NftInv'
  BY <1>1, <1>10, NftStill
<1>17. QED
  BY <1>1, <1>10, <1>11, <1>12, <1>13, <1>14, <1>15, <1>16, ReadKeeps
  DEF LotInv
-----------------------------------------------------------------------------
(* Connecting begins, gets its account, reads the balance, or ends.        *)
LEMMA IdleScans ==
  ASSUME PageInv, chain' = chain, held' = NoScan,
         had' = [id \in {} |-> {}], connecting' = Idle
  PROVE  NftInv' /\ LotInv'
<1>1. /\ DOMAIN had' = {} /\ connecting'.nfts = {}
      /\ connecting'.nftLimit = Unread /\ connecting'.nftAt = 0
      /\ connecting'.lotLimit = Unread /\ connecting'.lotAt = 0
      /\ connecting'.row = <<>> /\ DOMAIN connecting'.cards = {}
  BY DEF Idle
<1>2. LotsSound'
  BY StillChain DEF PageInv, LotInv
<1>3. NftInv'
  BY <1>1 DEF NftInv, NftBounds, NftScan
<1>4. QED
  BY <1>1, <1>2, <1>3
  DEF LotInv, LotBounds, HadCurrent, RowPast, ScannedRowsReal

LEMMA IdleRun == Idle \in Run /\ NoScan \in [always : SUBSET Nat,
                                             ever : SUBSET Nat]
<1>1. [id \in {} |-> 0] \in Cards
  <2>1. [id \in {} |-> 0] \in [{} -> CardOf]
    OBVIOUS
  <2>2. {} \in SUBSET Nat
    OBVIOUS
  <2>3. QED
    BY <2>1, <2>2 DEF Cards
<1>2. <<>> \in Rows
  BY DEF Rows
<1>3. QED
  BY <1>1, <1>2, PageAssumption DEF Idle, Run, Wallets, NoScan

LEMMA ConnectClicked ==
  ASSUME PageInv, ClickConnect
  PROVE  PageInv'
<1> USE DEF PageInv
<1>1. /\ connecting.pc = "idle"
      /\ connecting' = [Idle EXCEPT !.pc = "wallet", !.alone = OthersIdle]
      /\ shown' = shown /\ refreshing' = refreshing /\ minting' = minting
      /\ chain' = chain /\ selected' = selected
      /\ held' = held /\ had' = had
  BY DEF ClickConnect, Click, history
<1>2. OthersIdle \in BOOLEAN
  BY DEF OthersIdle
<1>3. /\ connecting' \in Run /\ connecting'.pc = "wallet"
      /\ connecting'.nftLimit = Unread /\ connecting'.nftAt = 0
      /\ connecting'.nfts = {} /\ connecting'.lotLimit = Unread
      /\ connecting'.lotAt = 0 /\ connecting'.row = <<>>
      /\ DOMAIN connecting'.cards = {}
      /\ connecting'.alone = OthersIdle
  <2>1. Idle \in Run
    BY IdleRun
  <2>2. /\ Idle.nftLimit = Unread /\ Idle.nftAt = 0 /\ Idle.nfts = {}
        /\ Idle.lotLimit = Unread /\ Idle.lotAt = 0 /\ Idle.row = <<>>
        /\ DOMAIN Idle.cards = {}
    BY DEF Idle
  <2>3. QED
    BY <1>1, <1>2, <2>1, <2>2 DEF Run
<1>4. /\ ChainType' /\ LotsSound' /\ Lots' = Lots /\ lots' = lots
      /\ now' = now
  BY <1>1, StillChain DEF LotInv
<1>5. ShownType'
  BY <1>1, ShownSame DEF LotInv, ShownType, shown
<1>6. RunsType'
  BY <1>1, <1>3 DEF RunsType
<1>7. NftInv'
  BY <1>3 DEF NftInv, NftBounds, NftScan
<1>8. LotInv'
  BY <1>1, <1>3, <1>4
  DEF LotInv, LotBounds, HadCurrent, RowPast, ScannedRowsReal
<1>9. Alone'
  BY <1>1, <1>3 DEF Alone, OthersIdle
<1>10. QED
  BY <1>4, <1>5, <1>6, <1>7, <1>8, <1>9

LEMMA ConnectAnswered ==
  ASSUME PageInv, ConnectWallet
  PROVE  PageInv'
<1> USE DEF PageInv
<1>1. /\ connecting.pc = "wallet"
      /\ connecting' = [connecting EXCEPT !.pc = "reads",
                                          !.wallet = selected]
      /\ address' = selected /\ chainNfts' = chainNfts
      /\ chainCreatedAuctions' = chainCreatedAuctions
      /\ paymentTokenBalance' = paymentTokenBalance
      /\ canMintPaymentToken' = canMintPaymentToken
      /\ refreshing' = refreshing /\ minting' = minting
      /\ chain' = chain /\ selected' = selected
      /\ held' = held /\ had' = had
  BY DEF ConnectWallet, SetAddress, Answered, history
<1>2. selected \in WalletAccounts /\ selected \in Wallets
      /\ connecting \in Run
  BY DEF ShownType, RunsType, Wallets
<1>3. /\ connecting' \in Run
      /\ connecting'.pc = "reads" /\ connecting'.alone = connecting.alone
      /\ connecting'.wallet = selected
      /\ connecting'.nftLimit = connecting.nftLimit
      /\ connecting'.nftAt = connecting.nftAt
      /\ connecting'.nfts = connecting.nfts
      /\ connecting'.lotLimit = connecting.lotLimit
      /\ connecting'.lotAt = connecting.lotAt
      /\ connecting'.row = connecting.row
      /\ connecting'.cards = connecting.cards
  BY <1>1, <1>2 DEF Run
<1>4. ChainType' /\ LotsSound'
  BY <1>1, StillChain DEF LotInv
<1>5. ShownType'
  BY <1>1, <1>2, ShownSame DEF LotInv, ShownType
<1>6. RunsType'
  BY <1>1, <1>3 DEF RunsType
<1>7. connecting.nftLimit = Unread /\ connecting.lotLimit = Unread
  BY <1>1 DEF NftInv, NftBounds, LotInv, LotBounds
<1>8. NftInv'
  BY <1>3, <1>7 DEF NftInv, NftBounds, NftScan
<1>9. LotInv'
  <2>1. /\ lots' = lots /\ now' = now /\ Lots' = Lots
    BY <1>1, StillChain DEF LotInv
  <2>2. QED
    BY <1>1, <1>3, <1>4, <1>7, <2>1
    DEF LotInv, LotBounds, HadCurrent, RowPast, ScannedRowsReal, CardReal
<1>10. Alone'
  BY <1>1, <1>2, <1>3 DEF Alone, OthersIdle
<1>11. QED
  BY <1>4, <1>5, <1>6, <1>8, <1>9, <1>10

LEMMA BalanceRead ==
  ASSUME PageInv, ReadPaymentToken
  PROVE  PageInv'
<1> USE DEF PageInv
<1>1. /\ connecting.pc = "reads"
      /\ connecting' = [connecting EXCEPT !.token = TRUE]
      /\ shown' = shown /\ refreshing' = refreshing /\ minting' = minting
      /\ chain' = chain /\ selected' = selected
      /\ held' = held /\ had' = had
  BY DEF ReadPaymentToken, Read, Answered, history
<1>2. connecting \in Run
  BY DEF RunsType
<1>3. /\ connecting' \in Run
      /\ connecting'.pc = "reads" /\ connecting'.alone = connecting.alone
      /\ connecting'.wallet = connecting.wallet
      /\ connecting'.nftLimit = connecting.nftLimit
      /\ connecting'.nftAt = connecting.nftAt
      /\ connecting'.nfts = connecting.nfts
      /\ connecting'.lotLimit = connecting.lotLimit
      /\ connecting'.lotAt = connecting.lotAt
      /\ connecting'.row = connecting.row
      /\ connecting'.cards = connecting.cards
  BY <1>1, <1>2 DEF Run
<1>4. RunsType'
  BY <1>1, <1>3 DEF RunsType
<1>5. NftInv' /\ LotInv'
  BY <1>1, <1>3, NftStill, LotStill
<1>6. QED
  BY <1>1, <1>3, <1>4, <1>5, ReadKeeps

LEMMA ConnectEnds ==
  ASSUME PageInv, ConnectDone \/ ConnectFails
  PROVE  PageInv'
<1> USE DEF PageInv
<1>1. /\ connecting' = Idle /\ held' = NoScan /\ had' = [id \in {} |-> {}]
      /\ chain' = chain /\ selected' = selected
      /\ refreshing' = refreshing /\ minting' = minting
  BY DEF ConnectDone, ConnectFails, Answered, Failed
<1>2. /\ ChainType' /\ LotsSound' /\ Tokens' = Tokens /\ Lots' = Lots
  BY <1>1, StillChain DEF LotInv
<1>3. ShownType'
  <2>1. CASE ConnectFails
    BY <1>1, <2>1, ShownSame DEF ConnectFails, LotInv, ShownType, shown
  <2>2. CASE ConnectDone
    <3>1. /\ connecting.pc = "reads" /\ connecting.nftLimit = connecting.nftAt
          /\ chainNfts' = [of |-> connecting.wallet, ids |-> connecting.nfts]
          /\ chainCreatedAuctions' = [of |-> connecting.wallet,
                                      cards |-> connecting.cards]
          /\ paymentTokenBalance' = connecting.wallet
          /\ canMintPaymentToken' = (connecting.wallet = TokenAdmin)
          /\ address' = address
      BY <2>2 DEF ConnectDone, ShowWallet, AllRead
    <3>2. /\ connecting.wallet \in Wallets /\ connecting.cards \in Cards
          /\ connecting.nftAt \in Nat
      BY DEF RunsType, Run
    <3>3. connecting.nfts \subseteq Tokens
      <4>1. /\ connecting.nfts \subseteq 0 .. connecting.nftAt - 1
            /\ connecting.nftAt <= nextTokenId /\ nextTokenId \in Nat
        BY <3>1, <3>2 DEF NftInv, NftBounds, ChainType, Unread
      <4>2. QED
        BY <3>2, <4>1 DEF Tokens
    <3>4. DOMAIN connecting.cards \subseteq Lots
      BY CardIds DEF LotInv
    <3>5. QED
      BY <1>1, <1>2, <3>1, <3>2, <3>3, <3>4 DEF ShownType
  <2>3. QED
    BY <2>1, <2>2
<1>4. RunsType'
  BY <1>1, IdleRun DEF RunsType
<1>5. NftInv' /\ LotInv'
  BY <1>1, IdleScans
<1>6. Alone'
  BY <1>1 DEF Alone, Idle
<1>7. QED
  BY <1>2, <1>3, <1>4, <1>5, <1>6
-----------------------------------------------------------------------------
LEMMA PageInvNext == PageInv /\ [PageNext]_pageVars => PageInv'
<1> SUFFICES ASSUME PageInv, [PageNext]_pageVars PROVE PageInv'
  OBVIOUS
<1>1. CASE ConnectStep
  BY <1>1, ConnectAnswered, TokenCount, TokenAsked, AuctionCounted,
     AuctionAsked, ExtraRead, BalanceRead, ConnectEnds DEF ConnectStep
<1>2. CASE MintStep \/ \E r \in Refreshes : RefreshStep(r)
  BY <1>2, SideSteps
<1>3. CASE Failures
  BY <1>3, TokenAsked, ConnectEnds, SideSteps DEF Failures
<1>4. CASE User
  BY <1>4, ConnectClicked, SideSteps DEF User
<1>5. CASE ChainStep
  BY <1>5, ChainGrows, GrowsKeeps DEF PageInv, LotInv
<1>6. CASE UNCHANGED pageVars
  <2>1. /\ chain' = chain /\ history' = history /\ selected' = selected
        /\ shown' = shown /\ runs' = runs
    BY <1>6 DEF pageVars
  <2>2. ShownType'
    BY <2>1, ShownSame DEF PageInv, LotInv, ShownType, shown
  <2>3. Alone'
    BY <2>1, AloneSame DEF PageInv, shown, runs
  <2>4. QED
    BY <2>1, <2>2, <2>3, SideKeeps DEF runs, PageInv, RunsType
<1>7. QED
  BY <1>1, <1>2, <1>3, <1>4, <1>5, <1>6 DEF PageNext

LEMMA PageInvAlways == PageSpec => []PageInv
<1>1. QED
  BY PageInvInit, PageInvNext, PTL DEF PageSpec

(* The types of MyPage: whatever the reads, the buttons, the wallet and    *)
(* the chain do in between, the page shows tokens and auctions that exist. *)
THEOREM PageTypes == PageSpec => []PageTypeOK
<1>1. PageInv => PageTypeOK
  <2> SUFFICES ASSUME PageInv PROVE PageTypeOK
    OBVIOUS
  <2> USE DEF PageInv
  <2>1. /\ ChainType /\ selected \in WalletAccounts /\ address \in Wallets
        /\ chainNfts.of \in Wallets /\ chainNfts.ids \subseteq Tokens
        /\ chainCreatedAuctions.of \in Wallets
        /\ DOMAIN chainCreatedAuctions.cards \subseteq Lots
        /\ paymentTokenBalance \in Wallets /\ canMintPaymentToken \in BOOLEAN
    BY DEF ShownType
  <2>2. /\ connecting.pc \in {"idle", "wallet", "reads"}
        /\ connecting.wallet \in Wallets
        /\ connecting.nftLimit \in {Unread} \cup 0 .. MaxScan
        /\ connecting.lotLimit \in {Unread} \cup 0 .. MaxScan
        /\ \A r \in Refreshes :
             refreshing[r].pc \in {"idle", "wallet", "balance"}
        /\ minting.pc \in {"idle", "wallet", "signer", "checkOwner",
                           "mintTx", "balance"}
    BY DEF RunsType, Run, RefreshRun, MintRun
  <2>3. connecting.nfts \subseteq 0 .. connecting.nftAt - 1
    BY DEF NftInv, NftBounds
  <2>4. \A id \in DOMAIN connecting.cards :
          id < connecting.lotAt /\ connecting.cards[id] \in CardOf
    BY CardIds DEF LotInv
  <2>5. QED
    BY <2>1, <2>2, <2>3, <2>4 DEF PageTypeOK, ChainType, Wallets
<1>2. QED
  BY <1>1, PageInvAlways, PTL

(* listCreatedAuctionsOnChain reads an auction and its extra in two calls. *)
(* Whatever happens in between, the status it puts together is one that    *)
(* the auction had while it was read; no card shows a cancelled auction    *)
(* with a bid, or a bid that was not made.                                 *)
THEOREM RowsReal == PageSpec => []ScannedRowsReal
<1>1. PageInv => ScannedRowsReal
  BY DEF PageInv, LotInv
<1>2. QED
  BY <1>1, PageInvAlways, PTL

(* listOwnedAuctionNftsOnChain finds every token below its limit that the  *)
(* account has held since the scan began, unless the call for it failed,   *)
(* and none that the account has not held.                                 *)
THEOREM ScanFindsHeld == PageSpec => []ScanComplete
<1>1. PageInv => ScanComplete
  BY DEF PageInv, NftInv, NftScan, ScanComplete
<1>2. QED
  BY <1>1, PageInvAlways, PTL

(* When connect succeeds and no other button was used meanwhile, all the   *)
(* page shows is about the account it holds as its address.                *)
THEOREM ConnectingLeavesOneWallet == PageSpec => ConnectConsistent
<1>1. PageInv /\ [PageNext]_pageVars
        => [ConnectDone /\ connecting.alone => OneWallet']_pageVars
  <2> SUFFICES ASSUME PageInv, ConnectDone, connecting.alone
               PROVE  OneWallet'
    OBVIOUS
  <2>1. connecting.pc = "reads" /\ address = connecting.wallet
    BY DEF PageInv, Alone, ConnectDone
  <2>2. /\ chainNfts'.of = address /\ chainCreatedAuctions'.of = address
        /\ paymentTokenBalance' = address /\ address' = address
        /\ canMintPaymentToken' = (address = TokenAdmin)
    BY <2>1 DEF ConnectDone, ShowWallet
  <2>3. QED
    BY <2>2 DEF OneWallet
<1>2. QED
  BY <1>1, PageInvAlways, PTL DEF PageSpec, ConnectConsistent
=============================================================================
