------------------------------- MODULE MyPage -------------------------------
(***************************************************************************)
(* The page routes/MyPage.tsx: connecting reads the account's NFTs and     *)
(* auctions, its balance of the payment token and whether it may mint it,  *)
(* straight from the chain in four concurrent reads; two more buttons      *)
(* refresh the balance and mint the token.                                 *)
(*                                                                         *)
(* The two scans are calls in a loop, one action each, while the chain     *)
(* moves on, the user switches accounts, and calls fail.  connectWallet is *)
(* the whole of lib/wallet.ts here: it answers with the selected account   *)
(* or fails.                                                               *)
(***************************************************************************)
EXTENDS AuctionStatus

CONSTANTS
  WalletAccounts,   \* the accounts in the user's wallet
  Others,           \* everybody else
  TokenAdmin,       \* owner() of AuctionPaymentToken
  Refreshes,        \* the clicks on the button that refreshes the balance
  MaxScan,          \* MAX_CHAIN_NFT_SCAN and MAX_CHAIN_AUCTION_SCAN
  Start, End,       \* times an auction is opened with
  Recipients,       \* what the user may type as recipient
  Nobody,           \* no account: the empty string
  \* what there is at first
  FirstSelected, NumTokens, FirstHolders, NumLots, FirstSellers,
  \* bounds
  MaxTokens, MaxLots, MaxTime, MaxMoves, MaxSwitches, MaxFailures, MaxClicks

Accounts == WalletAccounts \cup Others

ASSUME PageAssumption ==
  /\ Nobody \notin Accounts
  /\ TokenAdmin \in Accounts
  /\ Start \in Nat /\ End \in Nat /\ Start < End
  /\ MaxScan \in Nat
  /\ FirstSelected \subseteq WalletAccounts
  /\ NumTokens \in Nat /\ FirstHolders \in [0 .. NumTokens - 1 -> Accounts]
  /\ NumLots \in Nat /\ FirstSellers \in [0 .. NumLots - 1 -> Accounts]
  /\ MaxTime \in Nat /\ MaxMoves \in Nat /\ MaxSwitches \in Nat
  /\ MaxFailures \in Nat /\ MaxClicks \in Nat

VARIABLES
  \* the chain
  nextTokenId,   \* of AuctionNFT
  holder,        \* ownerOf of its tokens
  auctionCount,  \* of the market
  lots,          \* its auctions, with what their V3 extras say
  now,           \* the time, the same for the page and the chain
  \* the page
  selected,      \* the account selected in the wallet
  address, chainNfts, chainCreatedAuctions, paymentTokenBalance,
  canMintPaymentToken, mintRecipientAddress,
  connecting,    \* the run of connect
  refreshing,    \* the runs of refreshPaymentTokenBalance
  minting,       \* the run of mintPaymentToken
  \* history
  held,          \* per token: who has held it since connect began to scan
  had,           \* per auction: the statuses it has had since then
  moves, switches, failures, clicks

chain == <<nextTokenId, holder, auctionCount, lots, now>>
shown == <<address, chainNfts, chainCreatedAuctions, paymentTokenBalance,
           canMintPaymentToken, mintRecipientAddress>>
runs == <<connecting, refreshing, minting>>
history == <<held, had>>
counts == <<moves, switches, failures, clicks>>
pageVars == <<chain, selected, shown, runs, history, counts>>

Unread == -1     \* before the first call of a scan has answered
Tokens == 0 .. nextTokenId - 1
Lots == 0 .. auctionCount - 1

Lot == [seller : Accounts, bids : Nat, ended : BOOLEAN, cancelled : BOOLEAN]
CardOf == [bids : Nat, status : Statuses]     \* what a card of the page shows

Idle ==
  [pc |-> "idle", wallet |-> Nobody, nftLimit |-> Unread, nftAt |-> 0,
   nfts |-> {}, lotLimit |-> Unread, lotAt |-> 0, row |-> <<>>,
   cards |-> [id \in {} |-> 0], token |-> FALSE, alone |-> TRUE]
NotRefreshing == [pc |-> "idle", wallet |-> Nobody]
NotMinting ==
  [pc |-> "idle", wallet |-> Nobody, signer |-> Nobody, to |-> Nobody]

PageTypeOK ==
  /\ nextTokenId \in Nat /\ auctionCount \in Nat /\ now \in Nat
  /\ holder \in [Tokens -> Accounts]
  /\ lots \in [Lots -> Lot]
  /\ selected \in WalletAccounts
  /\ address \in WalletAccounts \cup {Nobody}
  /\ chainNfts.of \in WalletAccounts \cup {Nobody}
  /\ chainNfts.ids \subseteq Tokens
  /\ chainCreatedAuctions.of \in WalletAccounts \cup {Nobody}
  /\ DOMAIN chainCreatedAuctions.cards \subseteq Lots
  /\ paymentTokenBalance \in WalletAccounts \cup {Nobody}
  /\ canMintPaymentToken \in BOOLEAN
  /\ connecting.pc \in {"idle", "wallet", "reads"}
  /\ connecting.wallet \in WalletAccounts \cup {Nobody}
  /\ connecting.nftLimit \in {Unread} \cup 0 .. MaxScan
  /\ connecting.nfts \subseteq 0 .. connecting.nftAt - 1
  /\ connecting.lotLimit \in {Unread} \cup 0 .. MaxScan
  /\ \A id \in DOMAIN connecting.cards :
       id < connecting.lotAt /\ connecting.cards[id] \in CardOf
  /\ \A r \in Refreshes :
       refreshing[r].pc \in {"idle", "wallet", "balance"}
  /\ minting.pc \in {"idle", "wallet", "signer", "checkOwner", "mintTx",
                     "balance"}

PageInit ==
  /\ nextTokenId = NumTokens
  /\ holder = FirstHolders
  /\ auctionCount = NumLots
  /\ lots = [id \in 0 .. NumLots - 1 |->
               [seller |-> FirstSellers[id], bids |-> 0, ended |-> FALSE,
                cancelled |-> FALSE]]
  /\ now \in 0 .. MaxTime
  /\ selected \in FirstSelected
  /\ address = Nobody
  /\ chainNfts = [of |-> Nobody, ids |-> {}]
  /\ chainCreatedAuctions = [of |-> Nobody, cards |-> [id \in {} |-> 0]]
  /\ paymentTokenBalance = Nobody
  /\ canMintPaymentToken = FALSE
  /\ mintRecipientAddress = Nobody
  /\ connecting = Idle
  /\ refreshing = [r \in Refreshes |-> NotRefreshing]
  /\ minting = NotMinting
  /\ held = [always |-> {}, ever |-> {}]
  /\ had = [id \in {} |-> {}]
  /\ moves = 0 /\ switches = 0 /\ failures = 0 /\ clicks = 0
-----------------------------------------------------------------------------
(* The chain, as other transactions change it.                             *)

Status(ls, t, id) ==
  ChainStatus(ls[id].ended, ls[id].cancelled, Start, End, t)

OwnedBy(h, a) == {x \in DOMAIN h : h[x] = a}

Moved ==
  LET mine == OwnedBy(holder', connecting.wallet)
  IN  /\ moves < MaxMoves
      /\ moves' = moves + 1
      /\ held' = [always |-> held.always \cap mine,
                  ever |-> held.ever \cup mine]
      /\ had' = [id \in DOMAIN had |->
                   had[id] \cup {Status(lots', now', id)}]
      /\ UNCHANGED <<selected, shown, runs, switches, failures, clicks>>

MintNft ==
  /\ nextTokenId < MaxTokens
  /\ nextTokenId' = nextTokenId + 1
  /\ \E a \in Accounts : holder' = [x \in 0 .. nextTokenId |->
                                      IF x = nextTokenId THEN a ELSE holder[x]]
  /\ UNCHANGED <<auctionCount, lots, now>>
  /\ Moved

TransferNft ==
  /\ \E x \in Tokens : \E a \in Accounts \ {holder[x]} :
       holder' = [holder EXCEPT ![x] = a]
  /\ UNCHANGED <<nextTokenId, auctionCount, lots, now>>
  /\ Moved

OpenLot ==
  /\ auctionCount < MaxLots
  /\ now < End
  /\ auctionCount' = auctionCount + 1
  /\ \E a \in Accounts :
       lots' = [id \in 0 .. auctionCount |->
                  IF id < auctionCount THEN lots[id]
                  ELSE [seller |-> a, bids |-> 0, ended |-> FALSE,
                        cancelled |-> FALSE]]
  /\ UNCHANGED <<nextTokenId, holder, now>>
  /\ Moved

ChangeLot(id, lot) ==
  /\ lots' = [lots EXCEPT ![id] = lot]
  /\ UNCHANGED <<nextTokenId, holder, auctionCount, now>>
  /\ Moved

Bid(id) ==
  /\ ~lots[id].ended
  /\ now \in Start .. End - 1
  /\ ChangeLot(id, [lots[id] EXCEPT !.bids = @ + 1])

CancelLot(id) ==
  /\ ~lots[id].ended
  /\ lots[id].bids = 0
  /\ ChangeLot(id, [lots[id] EXCEPT !.ended = TRUE, !.cancelled = TRUE])

EndLot(id) ==
  /\ ~lots[id].ended
  /\ now >= End
  /\ ChangeLot(id, [lots[id] EXCEPT !.ended = TRUE])

Tick ==
  /\ now < MaxTime
  /\ now' = now + 1
  /\ UNCHANGED <<nextTokenId, holder, auctionCount, lots>>
  /\ Moved

SwitchAccount ==
  /\ switches < MaxSwitches
  /\ switches' = switches + 1
  /\ selected' \in WalletAccounts \ {selected}
  /\ UNCHANGED <<chain, shown, runs, history, moves, failures, clicks>>
-----------------------------------------------------------------------------
(* connect.                                                                *)

Click ==
  /\ clicks < MaxClicks
  /\ clicks' = clicks + 1
  /\ UNCHANGED <<chain, selected, history, moves, switches, failures>>

(* A call is answered; what it changes on the page is up to the caller.    *)
Answered == UNCHANGED <<chain, selected, counts>>

Failed ==
  /\ failures < MaxFailures
  /\ failures' = failures + 1
  /\ UNCHANGED <<chain, selected, moves, switches, clicks>>

OthersIdle ==
  minting.pc = "idle" /\ \A r \in Refreshes : refreshing[r].pc = "idle"

ClickConnect ==
  /\ connecting.pc = "idle"
  /\ connecting' = [Idle EXCEPT !.pc = "wallet", !.alone = OthersIdle]
  /\ Click
  /\ UNCHANGED <<shown, refreshing, minting>>

SetAddress(a) ==
  /\ address' = a
  /\ UNCHANGED <<chainNfts, chainCreatedAuctions, paymentTokenBalance,
                 canMintPaymentToken, mintRecipientAddress>>

(* connectWallet and signerFromProvider: the signer's account does not     *)
(* matter to a read.                                                       *)
ConnectWallet ==
  /\ connecting.pc = "wallet"
  /\ connecting' = [connecting EXCEPT !.pc = "reads", !.wallet = selected]
  /\ SetAddress(selected)
  /\ Answered
  /\ UNCHANGED <<refreshing, minting, history>>

(* A step of one of the four reads that Promise.all waits for.             *)
Read(next) ==
  /\ connecting.pc = "reads"
  /\ connecting' = next
  /\ UNCHANGED <<shown, refreshing, minting>>

ScanLimitMutant(n) == n
ScanLimit(n) == IF n > MaxScan THEN MaxScan ELSE n

ReadNextTokenIdMutant ==   \* the loop starts at 1
  /\ connecting.nftLimit = Unread
  /\ Read([connecting EXCEPT !.nftLimit = ScanLimit(nextTokenId), !.nftAt = 1])
  /\ LET mine == OwnedBy(holder, connecting.wallet)
     IN  held' = [always |-> mine, ever |-> mine]
  /\ Answered
  /\ UNCHANGED had

(* listOwnedAuctionNftsOnChain.                                            *)
ReadNextTokenId ==
  /\ connecting.nftLimit = Unread
  /\ Read([connecting EXCEPT !.nftLimit = ScanLimit(nextTokenId)])
  /\ LET mine == OwnedBy(holder, connecting.wallet)
     IN  held' = [always |-> mine, ever |-> mine]
  /\ Answered
  /\ UNCHANGED had

ReadOwnerOf ==
  LET x == connecting.nftAt
  IN  /\ x < connecting.nftLimit
      /\ Read([connecting EXCEPT !.nftAt = x + 1,
                                 !.nfts = IF holder[x] = connecting.wallet
                                          THEN @ \cup {x} ELSE @])
      /\ Answered
      /\ UNCHANGED history

(* The catch of the loop takes every error for a token that is not there.  *)
SkipToken ==
  LET x == connecting.nftAt
  IN  /\ x < connecting.nftLimit
      /\ Read([connecting EXCEPT !.nftAt = x + 1])
      /\ Failed
      /\ held' = [held EXCEPT !.always = @ \ {x}]
      /\ UNCHANGED had

(* listCreatedAuctionsOnChain: the auction, and for the account's own its  *)
(* V3 extra in a second call.                                              *)
ReadAuctionCount ==
  /\ connecting.lotLimit = Unread
  /\ Read([connecting EXCEPT !.lotLimit = ScanLimit(auctionCount)])
  /\ had' = [id \in Lots |-> {Status(lots, now, id)}]
  /\ Answered
  /\ UNCHANGED held

ReadAuction ==
  LET id == connecting.lotAt
  IN  /\ id < connecting.lotLimit
      /\ connecting.row = <<>>
      /\ Read(IF lots[id].seller = connecting.wallet
              THEN [connecting EXCEPT !.row = <<lots[id]>>]
              ELSE [connecting EXCEPT !.lotAt = id + 1])
      /\ Answered
      /\ UNCHANGED history

CardMutant(row, later) ==   \* the extra is read first
  [bids |-> later.bids,
   status |-> ChainStatus(later.ended, row.cancelled, Start, End, now)]

Card(row, later) ==
  [bids |-> row.bids,
   status |-> ChainStatus(row.ended, later.cancelled, Start, End, now)]

ReadExtra ==
  LET id == connecting.lotAt
  IN  /\ connecting.row # <<>>
      /\ Read([connecting EXCEPT
                 !.lotAt = id + 1, !.row = <<>>,
                 !.cards = [i \in DOMAIN @ \cup {id} |->
                              IF i = id THEN Card(connecting.row[1], lots[id])
                              ELSE @[i]]])
      /\ Answered
      /\ UNCHANGED history

(* getPaymentTokenBalance and isPaymentTokenOwner are one action: nothing  *)
(* here changes what they answer.                                          *)
ReadPaymentToken ==
  /\ ~connecting.token
  /\ Read([connecting EXCEPT !.token = TRUE])
  /\ Answered
  /\ UNCHANGED history

AllRead ==
  /\ connecting.nftLimit = connecting.nftAt
  /\ connecting.lotLimit = connecting.lotAt
  /\ connecting.token

DefaultRecipient(account) ==
  IF mintRecipientAddress = Nobody THEN account ELSE mintRecipientAddress

ShowWalletMutant(wallet) ==   \* a permission is only ever given
  /\ chainNfts' = [of |-> wallet, ids |-> connecting.nfts]
  /\ chainCreatedAuctions' = [of |-> wallet, cards |-> connecting.cards]
  /\ paymentTokenBalance' = wallet
  /\ canMintPaymentToken' = (canMintPaymentToken \/ wallet = TokenAdmin)
  /\ mintRecipientAddress' = DefaultRecipient(wallet)
  /\ UNCHANGED address

ShowWallet(wallet) ==
  /\ chainNfts' = [of |-> wallet, ids |-> connecting.nfts]
  /\ chainCreatedAuctions' = [of |-> wallet, cards |-> connecting.cards]
  /\ paymentTokenBalance' = wallet
  /\ canMintPaymentToken' = (wallet = TokenAdmin)
  /\ mintRecipientAddress' = DefaultRecipient(wallet)
  /\ UNCHANGED address

NoScan == [always |-> {}, ever |-> {}]

ConnectDone ==
  /\ connecting.pc = "reads"
  /\ AllRead
  /\ ShowWallet(connecting.wallet)
  /\ connecting' = Idle
  /\ held' = NoScan /\ had' = [id \in {} |-> {}]
  /\ Answered
  /\ UNCHANGED <<refreshing, minting>>

ConnectFailsMutant ==   \* not in finally: the button stays disabled
  /\ connecting.pc # "idle"
  /\ ~(connecting.pc = "reads" /\ AllRead)
  /\ connecting' = [Idle EXCEPT !.pc = "failed"]
  /\ held' = NoScan /\ had' = [id \in {} |-> {}]
  /\ Failed
  /\ UNCHANGED <<shown, refreshing, minting>>

(* The first read that fails ends Promise.all; nothing of the others is    *)
(* shown.                                                                  *)
ConnectFails ==
  /\ connecting.pc # "idle"
  /\ ~(connecting.pc = "reads" /\ AllRead)
  /\ connecting' = Idle
  /\ held' = NoScan /\ had' = [id \in {} |-> {}]
  /\ Failed
  /\ UNCHANGED <<shown, refreshing, minting>>

-----------------------------------------------------------------------------
(* refreshPaymentTokenBalance; its button is not disabled while it runs.   *)

Disturb == connecting' = [connecting EXCEPT !.alone = FALSE]

Refresh(r, next) ==
  /\ refreshing' = [refreshing EXCEPT ![r] = next]
  /\ UNCHANGED minting

ClickRefresh(r) ==
  /\ refreshing[r].pc = "idle"
  /\ address # Nobody
  /\ minting.pc = "idle"
  /\ Refresh(r, [NotRefreshing EXCEPT !.pc = "wallet"])
  /\ Click
  /\ Disturb
  /\ UNCHANGED shown

RefreshWallet(r) ==
  /\ refreshing[r].pc = "wallet"
  /\ Refresh(r, [pc |-> "balance", wallet |-> selected])
  /\ Answered
  /\ UNCHANGED <<shown, connecting, history>>

SetBalance(a) ==
  /\ paymentTokenBalance' = a
  /\ UNCHANGED <<address, chainNfts, chainCreatedAuctions,
                 canMintPaymentToken, mintRecipientAddress>>

RefreshDone(r) ==
  /\ refreshing[r].pc = "balance"
  /\ SetBalance(refreshing[r].wallet)
  /\ Refresh(r, NotRefreshing)
  /\ Answered
  /\ UNCHANGED <<connecting, history>>

RefreshFails(r) ==
  /\ refreshing[r].pc # "idle"
  /\ Refresh(r, NotRefreshing)
  /\ Failed
  /\ UNCHANGED <<shown, connecting, history>>
-----------------------------------------------------------------------------
(* mintPaymentToken.  Its form is disabled for an account that may not     *)
(* mint and while it runs.                                                 *)

FormEnabled ==
  address # Nobody /\ canMintPaymentToken /\ minting.pc = "idle"

TypeRecipient ==
  /\ FormEnabled
  /\ mintRecipientAddress' \in (Recipients \cup {Nobody})
                                \ {mintRecipientAddress}
  /\ Click
  /\ UNCHANGED <<address, chainNfts, chainCreatedAuctions,
                 paymentTokenBalance, canMintPaymentToken, runs>>

Mint(next) == minting' = next /\ UNCHANGED refreshing
MintingAt(pc) == minting.pc = pc

ClickMint ==
  /\ FormEnabled
  /\ mintRecipientAddress \in Accounts       \* isAddress
  /\ Mint([NotMinting EXCEPT !.pc = "wallet", !.to = mintRecipientAddress])
  /\ Click
  /\ Disturb
  /\ UNCHANGED shown

MintWallet ==
  /\ MintingAt("wallet")
  /\ Mint([minting EXCEPT !.pc = "signer", !.wallet = selected])
  /\ Answered
  /\ UNCHANGED <<shown, connecting, history>>

MintSigner ==
  /\ MintingAt("signer")
  /\ Mint([minting EXCEPT !.pc = "checkOwner", !.signer = selected])
  /\ SetAddress(minting.wallet)
  /\ Answered
  /\ UNCHANGED <<connecting, history>>

MintCheckOwner ==
  /\ MintingAt("checkOwner")
  /\ canMintPaymentToken' = (minting.wallet = TokenAdmin)
  /\ Mint(IF canMintPaymentToken' THEN [minting EXCEPT !.pc = "mintTx"]
          ELSE NotMinting)
  /\ Answered
  /\ UNCHANGED <<address, chainNfts, chainCreatedAuctions,
                 paymentTokenBalance, mintRecipientAddress, connecting,
                 history>>

(* mint is onlyOwner of the account that sends it.                         *)
MintTx ==
  /\ MintingAt("mintTx")
  /\ minting.signer = TokenAdmin
  /\ Mint(IF minting.to = minting.wallet
          THEN [minting EXCEPT !.pc = "balance"] ELSE NotMinting)
  /\ Answered
  /\ UNCHANGED <<shown, connecting, history>>

MintReverts ==
  /\ MintingAt("mintTx")
  /\ minting.signer # TokenAdmin
  /\ Mint(NotMinting)
  /\ Answered
  /\ UNCHANGED <<shown, connecting, history>>

MintDone ==
  /\ MintingAt("balance")
  /\ SetBalance(minting.wallet)
  /\ Mint(NotMinting)
  /\ Answered
  /\ UNCHANGED <<connecting, history>>

MintFails ==
  /\ minting.pc # "idle"
  /\ Mint(NotMinting)
  /\ Failed
  /\ UNCHANGED <<shown, connecting, history>>
-----------------------------------------------------------------------------
ConnectStep ==
  \/ ConnectWallet
  \/ ReadNextTokenId \/ ReadOwnerOf
  \/ ReadAuctionCount \/ ReadAuction \/ ReadExtra
  \/ ReadPaymentToken \/ ConnectDone

RefreshStep(r) == RefreshWallet(r) \/ RefreshDone(r)

MintStep ==
  \/ MintWallet \/ MintSigner \/ MintCheckOwner
  \/ MintTx \/ MintReverts \/ MintDone

Failures ==
  SkipToken \/ ConnectFails \/ MintFails \/ \E r \in Refreshes : RefreshFails(r)

User ==
  \/ ClickConnect \/ ClickMint \/ TypeRecipient \/ SwitchAccount
  \/ \E r \in Refreshes : ClickRefresh(r)

ChainStep ==
  \/ MintNft \/ TransferNft \/ OpenLot \/ Tick
  \/ \E id \in Lots : Bid(id) \/ CancelLot(id) \/ EndLot(id)

PageNext ==
  \/ ConnectStep \/ MintStep \/ \E r \in Refreshes : RefreshStep(r)
  \/ Failures \/ User \/ ChainStep

PageSpec == PageInit /\ [][PageNext]_pageVars

(* Every call to the wallet and the node is answered, or fails.            *)
FairPageSpec ==
  PageSpec /\ WF_pageVars(ConnectStep) /\ WF_pageVars(MintStep)
-----------------------------------------------------------------------------
(* listCreatedAuctionsOnChain reads an auction in two calls, with bids,    *)
(* its end and its cancellation between them.  The status it puts together *)
(* is still one the auction had while it was read, and no card shows a     *)
(* cancelled auction with a bid, or a bid that was not made.               *)
CardReal(id, card) ==
  /\ card.status \in had[id]
  /\ card.status = "cancelled" => card.bids = 0
  /\ card.bids <= lots[id].bids

ScannedRowsReal ==
  \A id \in DOMAIN connecting.cards : CardReal(id, connecting.cards[id])

(* listOwnedAuctionNftsOnChain asks for one owner after the other while    *)
(* tokens are minted and change hands.  It finds every token below the     *)
(* limit of the scan that the account has held since the scan began,       *)
(* unless the call for it failed, and none that the account did not hold   *)
(* at some time in between.                                                *)
ScanComplete ==
  connecting.nftLimit # Unread =>
    /\ connecting.nfts \subseteq held.ever
    /\ \A x \in held.always :
         x < connecting.nftAt => x \in connecting.nfts
    /\ connecting.nftAt = connecting.nftLimit =>
         \A x \in held.always : x < MaxScan => x \in connecting.nfts

(* Everything on the page is about the account it holds as its address.    *)
(* MyPage.tsx:53-54 says the four reads run at once so that the page can   *)
(* tell whether the user may mint and show the newest state of the chain.  *)
OneWallet ==
  /\ chainNfts.ids # {} => chainNfts.of = address
  /\ DOMAIN chainCreatedAuctions.cards # {} =>
       chainCreatedAuctions.of = address
  /\ paymentTokenBalance \in {address, Nobody}
  /\ canMintPaymentToken => address = TokenAdmin

(* The same once connecting has succeeded, if no other button was used     *)
(* meanwhile: whatever was on the page before, of whatever account, and    *)
(* though the wallet may select another one at any time.                   *)
ConnectConsistent ==
  [][ConnectDone /\ connecting.alone => OneWallet']_pageVars

(* Buttons come back: whatever is refused, fails or finds another account, *)
(* connecting and minting end.                                             *)
ButtonsReturn ==
  /\ connecting.pc # "idle" ~> connecting.pc = "idle"
  /\ minting.pc # "idle" ~> minting.pc = "idle"
=============================================================================
