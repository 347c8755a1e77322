---------------------------- MODULE MarketClient ----------------------------
(***************************************************************************)
(* The front end of one browser: lib/wallet.ts, the transactions of        *)
(* lib/contracts.ts, and the pages that create an auction and bid on one,  *)
(* over AuctionMarket, AuctionNFT and the payment token.                   *)
(*                                                                         *)
(* A flow is one run of an async function of a page, from the click that   *)
(* starts it; an action is what it does between two awaits.  Meanwhile     *)
(* other flows run, the user switches accounts or leaves the page, and     *)
(* other users transact.                                                   *)
(***************************************************************************)
EXTENDS AuctionMarket, FiniteSetsExt

CONSTANTS
  NumFlows,         \* flows in the order of their clicks
  WalletAccounts,   \* the accounts in the user's wallet
  Outsiders,        \* the accounts of everybody else
  NftAdmin,         \* owner() of AuctionNFT
  PaymentToken,     \* VITE_PAYMENT_TOKEN_ADDRESS
  Minted,           \* how many tokens of AuctionNFT there are at first
  NoToken,          \* the form's select is empty
  \* bound
  MaxSwitches

Flows == 1 .. NumFlows

ASSUME ClientAssumption ==
  /\ NumFlows \in Nat
  /\ Items \subseteq Nat                 \* the token ids of AuctionNFT
  /\ NoToken \notin Items
  /\ Minted \in Nat \ {0}                \* token 0 is on sale at first
  /\ 0 .. Minted - 1 \subseteq Items
  /\ WalletAccounts \cup Outsiders \subseteq Accounts
  /\ WalletAccounts \cap Outsiders = {}
  /\ NftAdmin \in Accounts
  /\ PaymentToken \in Erc20s
  /\ MaxSwitches \in Nat

VARIABLES
  nextTokenId,   \* of AuctionNFT
  approved,      \* getApproved of each token
  allowance,     \* what the market may take of each account's PaymentToken
  selected,      \* the account selected in the wallet
  prompts,       \* how many eth_requestAccounts the wallet has to answer
  slot,          \* pendingConnection: none, or what its promise waits for
  granted,       \* the account the wallet answered with
  page,          \* the page that is mounted
  chosen,        \* tokenId of the form
  flows,
  switches,      \* how often the user changed the account
  overtaken      \* history: the bids whose allowance another bid of their
                 \* account used, or lowered, after they had it

allowances == <<allowance, overtaken>>
chainVars == <<vars, nextTokenId, approved, allowances>>
wallet == <<selected, prompts, slot, granted, switches>>
view == <<page, chosen>>
clientVars == <<chainVars, wallet, view, flows>>

(* The functions of the pages, each with the flag that disables its button *)
(* while it runs.                                                          *)
Flag == [connect |-> "isConnecting", mint |-> "isMinting",
         submit |-> "isSubmitting", bid |-> "pendingAction",
         cancel |-> "pendingAction", end |-> "pendingAction"]
Kinds == DOMAIN Flag
PageOf(kind) ==
  IF Flag[kind] = "pendingAction" THEN "detail" ELSE "create"

FirstStep == [connect |-> "load", mint |-> "checkOwner",
              submit |-> "approveNft", bid |-> "readAllowance",
              cancel |-> "cancelTx", end |-> "endTx"]

Pcs == {"idle", "connect", "signer", "load", "checkOwner", "readNext",
        "mintTx", "minted", "approveNft", "createTx", "readAllowance",
        "approveToken", "bidTx", "cancelTx", "endTx", "done"}

Flow ==
  [kind : Kinds, pc : Pcs,
   wallet : Accounts \cup {Zero},       \* wallet.address
   signer : Accounts \cup {Zero},
   empty : BOOLEAN,                     \* !tokenId in the render of the click
   form : Items \cup {NoToken},         \* tokenId there, for submit
   token : Nat,                         \* result.tokenId
   id : Nat, amount : Nat,              \* auctionId and amount
   mounted : BOOLEAN]                   \* the page of the click still is

(* What is kept of a flow that has returned: the bids.                     *)
NoFlow ==
  [kind |-> "connect", pc |-> "idle", wallet |-> Zero, signer |-> Zero,
   empty |-> TRUE, form |-> NoToken, token |-> 0, id |-> 0, amount |-> 0,
   mounted |-> FALSE]

Returned(flow) ==
  IF flow.kind = "bid"
  THEN [NoFlow EXCEPT !.pc = "done", !.kind = "bid", !.signer = flow.signer,
                      !.amount = flow.amount]
  ELSE [NoFlow EXCEPT !.pc = "done"]

(* Types, and: tokens are numbered without gaps, and the form never holds  *)
(* one that does not exist, though the id that a mint shows was read       *)
(* before its transaction and others mint meanwhile.                       *)
ClientTypeOK ==
  /\ nextTokenId \in Nat
  /\ \A x \in Items : nftOwner[x] = Zero <=> x >= nextTokenId
  /\ approved \in [Items -> {Market, Zero}]
  /\ allowance \in [WalletAccounts -> Nat]
  /\ selected \in WalletAccounts /\ granted \in WalletAccounts \cup {Zero}
  /\ prompts \in Nat
  /\ slot \in {"none", "asking", "checking"}
  /\ page \in {"create", "detail"}
  /\ chosen \in Items \cup {NoToken}
  /\ chosen # NoToken => chosen < nextTokenId
  /\ flows \in [Flows -> Flow]
  /\ switches \in 0 .. MaxSwitches
  /\ overtaken \subseteq Flows

(* An outsider sells token 0; the wallet's accounts have approved nothing. *)
ClientInit ==
  /\ impl = 3
  /\ owner \in Deployers
  /\ paymentTokens \in
       {[t \in Tokens |-> [feed |-> IF t = PaymentToken THEN f ELSE Zero,
                           unit |-> 1, enabled |-> t = PaymentToken]] :
          f \in Feeds}
  /\ auctionCount = 1
  /\ \E s \in Outsiders :
       auctions = [id \in {0} |->
         [seller |-> s, item |-> 0, endTime |-> MaxTime, ended |-> FALSE,
          highestBidder |-> Zero, paymentToken |-> Native, highestBid |-> 0,
          highestBidUsd |-> 0]]
  /\ extras = [id \in {0} |->
       [startTime |-> 1, startingPriceUsd |-> 0, cancelled |-> FALSE,
        v3Created |-> TRUE]]
  /\ active = [x \in Items |-> IF x = 0 THEN 1 ELSE 0]
  /\ auctionNft \in NftContracts
  /\ feeRecipient = Zero /\ platformFeeBps = 0
  /\ nftOwner = [x \in Items |-> CASE x = 0 -> Market
                                   [] x \in 1 .. Minted - 1 -> NftAdmin
                                   [] OTHER -> Zero]
  /\ balance = [t \in Tokens |-> [h \in Holders |->
                  IF h \in Accounts THEN Funding[t][h] ELSE 0]]
  /\ stray = [t \in Tokens |-> 0]
  /\ now = 1
  /\ nextTokenId = Minted
  /\ approved = [x \in Items |-> Zero]
  /\ allowance = [a \in WalletAccounts |-> 0]
  /\ selected \in WalletAccounts /\ granted = Zero
  /\ prompts = 0 /\ slot = "none"
  /\ page = "create" /\ chosen = NoToken
  /\ flows = [f \in Flows |-> NoFlow]
  /\ switches = 0
  /\ overtaken = {}
-----------------------------------------------------------------------------
Running(f) == flows[f].pc \notin {"idle", "done"}
At(f, pc) == flows[f].pc = pc
Goto(f, pc) == flows' = [flows EXCEPT ![f].pc = pc]
Return(f) == flows' = [flows EXCEPT ![f] = Returned(@)]

(* connectWallet is called before the first await of each function: a      *)
(* request to the wallet, or the promise of the one that is pending.       *)
ConnectWalletMutant ==   \* always a request of its own
  slot' = "asking" /\ prompts' = prompts + 1

ConnectWallet ==
  IF slot = "none" THEN slot' = "asking" /\ prompts' = prompts + 1
  ELSE UNCHANGED <<slot, prompts>>

(* A click on a button that is not disabled.                               *)
Click(f, kind, id, amount) ==
  /\ At(f, "idle")
  /\ f > 1 => ~At(f - 1, "idle")
  /\ page = PageOf(kind)
  /\ \A g \in Flows :
       Running(g) /\ flows[g].mounted => Flag[flows[g].kind] # Flag[kind]
  /\ kind = "submit" => chosen # NoToken
  /\ flows' = [flows EXCEPT ![f] =
       [@ EXCEPT !.kind = kind, !.pc = "connect", !.empty = chosen = NoToken,
                 !.form = IF kind = "submit" THEN chosen ELSE NoToken,
                 !.id = id, !.amount = amount, !.mounted = TRUE]]
  /\ ConnectWallet
  /\ UNCHANGED <<chainVars, selected, granted, switches, view>>

(* The promise settles: whoever waits for it goes on or fails, and the     *)
(* slot is cleared before they do.                                         *)
Waiting == {f \in Flows : At(f, "connect")}

Settle(next) ==
  /\ slot' = "none"
  /\ granted' = Zero
  /\ flows' = [f \in Flows |-> IF f \in Waiting THEN next[f] ELSE flows[f]]

Connected ==
  Settle([f \in Waiting |->
            [flows[f] EXCEPT !.pc = "signer", !.wallet = granted]])

RefusedMutant == UNCHANGED <<slot, granted, flows>>   \* then, not finally
Refused == Settle([f \in Waiting |-> Returned(flows[f])])

(* The wallet's answer to eth_requestAccounts: accounts[0], or an error.   *)
Answer ==
  /\ prompts > 0
  /\ prompts' = prompts - 1
  /\ \/ slot' = "checking" /\ granted' = selected /\ UNCHANGED flows
     \/ Refused
  /\ UNCHANGED <<chainVars, selected, switches, view>>

(* ensureSepolia.                                                          *)
CheckNetwork ==
  /\ slot = "checking"
  /\ Connected \/ Refused
  /\ UNCHANGED <<chainVars, selected, prompts, switches, view>>

(* getSigner asks the wallet for its account anew.                         *)
GetSigner(f) ==
  /\ At(f, "signer")
  /\ flows' = [flows EXCEPT ![f] =
       [@ EXCEPT !.signer = selected, !.pc = FirstStep[flows[f].kind]]]
  /\ UNCHANGED <<chainVars, wallet, view>>
-----------------------------------------------------------------------------
(* AuctionNFT.safeMint.                                                    *)
SafeMint(sender, to) ==
  /\ sender = NftAdmin
  /\ nextTokenId \in Items
  /\ to \in NftReceivers
  /\ nftOwner' = [nftOwner EXCEPT ![nextTokenId] = to]
  /\ nextTokenId' = nextTokenId + 1
  /\ UNCHANGED <<admin, book, purse, now, approved, allowances>>

(* isAuctionNftOwner of wallet.address.                                    *)
CheckOwnerMutant(f) ==   \* leaves the check to the contract
  /\ At(f, "checkOwner")
  /\ Goto(f, "readNext")
  /\ UNCHANGED <<chainVars, wallet, view>>

CheckOwner(f) ==
  /\ At(f, "checkOwner")
  /\ IF flows[f].wallet = NftAdmin THEN Goto(f, "readNext") ELSE Return(f)
  /\ UNCHANGED <<chainVars, wallet, view>>

ReadNextMutant(f) ==   \* as if it were the last token
  /\ At(f, "readNext")
  /\ flows' = [flows EXCEPT ![f].token = nextTokenId + 1, ![f].pc = "mintTx"]
  /\ UNCHANGED <<chainVars, wallet, view>>

ReadNext(f) ==
  /\ At(f, "readNext")
  /\ flows' = [flows EXCEPT ![f].token = nextTokenId, ![f].pc = "mintTx"]
  /\ UNCHANGED <<chainVars, wallet, view>>

MintTx(f) ==
  /\ At(f, "mintTx")
  /\ SafeMint(flows[f].signer, flows[f].wallet)
  /\ Goto(f, "minted")
  /\ UNCHANGED <<wallet, view>>

(* setTokenId; the state of a page that was left stays as it is.           *)
SetTokenId(f, x) == chosen' = IF flows[f].mounted THEN x ELSE chosen

ShowMinted(f) ==
  /\ At(f, "minted")
  /\ SetTokenId(f, flows[f].token)
  /\ Goto(f, "load")
  /\ UNCHANGED <<chainVars, wallet, page>>

(* loadWalletNfts, with the tokenId of the render its caller closes over.  *)
(* The scan of all tokens is one step.                                     *)
Load(f) ==
  LET owned == {x \in Items : nftOwner[x] = flows[f].wallet}
  IN  /\ At(f, "load")
      /\ IF flows[f].empty /\ owned # {}
         THEN SetTokenId(f, Min(owned)) ELSE UNCHANGED chosen
      /\ Return(f)
      /\ UNCHANGED <<chainVars, wallet, page>>
-----------------------------------------------------------------------------
(* submit: approve, then createAuctionV3, which transfers the token and    *)
(* with it the approval.                                                   *)
ApproveNft(f) ==
  LET x == flows[f].form
  IN  /\ At(f, "approveNft")
      /\ nftOwner[x] = flows[f].signer
      /\ approved' = [approved EXCEPT ![x] = Market]
      /\ Goto(f, "createTx")
      /\ UNCHANGED <<vars, nextTokenId, allowances, wallet, view>>

CreateTx(f) ==
  LET x == flows[f].form
  IN  /\ At(f, "createTx")
      /\ approved[x] = Market
      /\ \E s \in StartTimes, e \in EndTimes, p \in StartingPrices :
           CreateAuctionV3(flows[f].signer, x, s, e, p)
      /\ approved' = [approved EXCEPT ![x] = Zero]
      /\ Return(f)
      /\ UNCHANGED <<nextTokenId, allowances, wallet, view>>

(* bidWithToken of lib/contracts.ts.                                       *)
ReadAllowanceMutant(f) ==   \* whatever is left of an earlier bid will do
  /\ At(f, "readAllowance")
  /\ Goto(f, IF allowance[flows[f].signer] = 0 THEN "approveToken" ELSE "bidTx")
  /\ UNCHANGED <<chainVars, wallet, view>>

ReadAllowance(f) ==
  /\ At(f, "readAllowance")
  /\ Goto(f, IF allowance[flows[f].signer] < flows[f].amount
             THEN "approveToken" ELSE "bidTx")
  /\ UNCHANGED <<chainVars, wallet, view>>

(* The other bids of f's account that have the allowance they need.        *)
Rivals(f) ==
  {g \in Flows \ {f} : At(g, "bidTx") /\ flows[g].signer = flows[f].signer}

ApproveTokenMutant(f) ==   \* raises the allowance by the amount
  /\ At(f, "approveToken")
  /\ allowance' = [allowance EXCEPT ![flows[f].signer] = @ + flows[f].amount]
  /\ Goto(f, "bidTx")
  /\ UNCHANGED <<vars, nextTokenId, approved, overtaken, wallet, view>>

ApproveToken(f) ==
  /\ At(f, "approveToken")
  /\ allowance' = [allowance EXCEPT ![flows[f].signer] = flows[f].amount]
  /\ overtaken' = overtaken \cup
       {g \in Rivals(f) : flows[f].amount < flows[g].amount}
  /\ Goto(f, "bidTx")
  /\ UNCHANGED <<vars, nextTokenId, approved, wallet, view>>

BidTx(f) ==
  LET s == flows[f].signer
      amount == flows[f].amount
  IN  /\ At(f, "bidTx")
      /\ allowance[s] >= amount
      /\ \E round \in Rounds :
           BidWithToken(s, flows[f].id, PaymentToken, amount, round)
      /\ allowance' = [allowance EXCEPT ![s] = @ - amount]
      /\ overtaken' = overtaken \cup Rivals(f)
      /\ Return(f)
      /\ UNCHANGED <<nextTokenId, approved, wallet, view>>

CloseTx(f) ==
  /\ \/ At(f, "cancelTx") /\ CancelAuction(flows[f].signer, flows[f].id)
     \/ At(f, "endTx") /\ EndAuction(flows[f].id)
  /\ Return(f)
  /\ UNCHANGED <<nextTokenId, approved, allowances, wallet, view>>

(* A call to the node fails, or a transaction is refused or reverts: the   *)
(* function is left with a message.                                        *)
Fails(f) ==
  /\ Running(f) /\ ~At(f, "connect")
  /\ Return(f)
  /\ UNCHANGED <<chainVars, wallet, view>>
-----------------------------------------------------------------------------
(* The user, and everybody else.                                           *)

SwitchAccount ==
  /\ switches < MaxSwitches
  /\ switches' = switches + 1
  /\ selected' \in WalletAccounts \ {selected}
  /\ UNCHANGED <<chainVars, prompts, slot, granted, view, flows>>

(* Another page is mounted, with fresh state.                              *)
Navigate ==
  /\ page' \in {"create", "detail"} \ {page}
  /\ chosen' = NoToken
  /\ flows' = [f \in Flows |-> [flows[f] EXCEPT !.mounted = FALSE]]
  /\ UNCHANGED <<chainVars, wallet>>

(* The select offers the tokens that the chain and the index list for the  *)
(* account; both lists may be old.                                         *)
Listed(x) ==
  \/ nftOwner[x] \in WalletAccounts
  \/ \E id \in AuctionIds :
       auctions[id].item = x /\ auctions[id].seller \in WalletAccounts

Select ==
  /\ page = "create"
  /\ chosen' \in {x \in Items : Listed(x)} \cup {NoToken}
  /\ UNCHANGED <<chainVars, wallet, page, flows>>

OthersMint ==
  /\ \E to \in Outsiders : SafeMint(NftAdmin, to)
  /\ UNCHANGED <<wallet, view, flows>>

(* A bid of somebody else only makes ours revert, which Fails covers.      *)
OthersTransact ==
  /\ \/ \E id \in AuctionIds : EndAuction(id)
     \/ Tick
  /\ UNCHANGED <<nextTokenId, approved, allowances, wallet, view, flows>>

FlowStep(f) ==
  \/ GetSigner(f) \/ CheckOwner(f) \/ ReadNext(f) \/ MintTx(f)
  \/ ShowMinted(f) \/ Load(f) \/ ApproveNft(f) \/ CreateTx(f)
  \/ ReadAllowance(f) \/ ApproveToken(f) \/ BidTx(f) \/ CloseTx(f)
  \/ Fails(f)

Clicks(f) ==
  \/ \E kind \in {"connect", "mint", "submit"} : Click(f, kind, 0, 0)
  \/ \E id \in AuctionIds :
       \/ \E kind \in {"cancel", "end"} : Click(f, kind, id, 0)
       \/ \E amount \in Amounts \ {0} : Click(f, "bid", id, amount)

ClientNext ==
  \/ \E f \in Flows : Clicks(f) \/ FlowStep(f)
  \/ Answer \/ CheckNetwork
  \/ SwitchAccount \/ Navigate \/ Select \/ OthersMint \/ OthersTransact

ClientSpec == ClientInit /\ [][ClientNext]_clientVars

(* The user answers the wallet's dialogs and every call to the wallet and  *)
(* the node returns or fails.                                              *)
ProgramStep == Answer \/ CheckNetwork \/ \E f \in Flows : FlowStep(f)
FairClientSpec == ClientSpec /\ WF_clientVars(ProgramStep)
-----------------------------------------------------------------------------
(* wallet.ts:18-20: the wallet has at most one request of ours to answer,  *)
(* and the slot is taken exactly while a flow waits for its promise: after *)
(* a refusal, a wrong network, or two clicks in any order.                 *)
OneRequest ==
  /\ prompts = IF slot = "asking" THEN 1 ELSE 0
  /\ slot # "none" <=> Waiting # {}

(* Once the user answers, every flow comes to its end, so that no button   *)
(* stays disabled: those that share the promise of another, too.           *)
FlowsFinish == (\E f \in Flows : Running(f)) ~> \A f \in Flows : ~Running(f)

Bids(a) == {f \in Flows : flows[f].kind = "bid" /\ flows[f].signer = a}

(* The market may never take more from an account than its user entered as *)
(* one bid, whatever bids failed, or ran at once: bidWithToken approves     *)
(* the amount of the bid and no more on top of what was left.              *)
AllowanceBounded ==
  \A a \in WalletAccounts :
    allowance[a] = 0 \/ \E f \in Bids(a) : flows[f].amount >= allowance[a]

(* A bid is sent with the allowance it needs, in whatever account and      *)
(* whatever earlier bids of that account failed, or left of theirs: all    *)
(* that may be missing is what another bid took between the two calls of   *)
(* bidWithToken, by its transaction or by a lower approval of its own.     *)
BidBacked ==
  \A f \in Flows :
    At(f, "bidTx") /\ f \notin overtaken
      => allowance[flows[f].signer] >= flows[f].amount

(* A token minted through the page is the administrator's: the check looks *)
(* at the account that connected, the transaction is sent by the account   *)
(* that is selected a moment later.                                        *)
MintedForAdmin ==
  [][\A x \in Items : nftOwner[x] = Zero /\ nftOwner'[x] \in WalletAccounts
       => nftOwner'[x] = NftAdmin]_clientVars

(* contracts.ts:102-103 and CreateAuctionPage.tsx:104: the id read before  *)
(* the mint is the token shown, ready to be auctioned.  If the form holds  *)
(* it when the rest of mintNft runs, with no other flow, it still does     *)
(* when mintNft has returned.                                              *)
MintedIsChosen ==
  [][\A f \in Flows :
       /\ flows[f].kind = "mint" /\ At(f, "load") /\ flows[f].mounted
       /\ chosen = flows[f].token /\ flows'[f].pc = "done"
       => chosen' = flows[f].token]_clientVars
=============================================================================
