# NFT auction market: TLA+ models, checks and proofs

The repository is an NFT auction market in three parts: Solidity contracts
(`nft-hardhat3-project`), a Go back end that indexes their events into MySQL
(`nft-back-end`), and a React front end (`nft-front-end`). This directory holds
TLA+ models of the parts that keep state and can go wrong in ways tests hardly
reach, the TLC configurations that check them, and TLAPS proofs about them.

## 1. Inventory

| Component | State | Operations | Talks to |
|---|---|---|---|
| AuctionMarket V1/V2/V3 behind one UUPS proxy (`contracts/AuctionMarket*.sol`) | payment token whitelist, `auctions`, `auctionV3Extras`, `nftToActiveAuctionIdPlusOne`, fee configuration, owner, implementation; custody of NFTs, ETH, ERC20s | `setPaymentToken`, `setFeeConfig`, `initializeV3`, `upgradeToAndCall`, `createAuction`, `createAuctionV3`, `bidWithEth`, `bidWithToken`, `cancelAuction`, `endAuction` | ERC721, ERC20, Chainlink feeds, receivers of ETH and NFTs; its events feed the indexer |
| Ignition module, token script, upgrade scripts (`ignition/`, `scripts/`), `AuctionMarketProxy.sol` | the contracts on the chain, the proxy's storage, Ignition's journal, the addresses in the environment, each script's own variables | deploy, configure, upgrade, one transaction after the other | the contracts through TypeChain bindings, the deployer's terminals |
| TypeChain bindings and ABI files (`types/ethers-contracts`, `abis/`) | none | which calls are answered, which logs and errors can be decoded | scripts, front end, decoders |
| AuctionNFT, AuctionPaymentToken | ERC721 and ERC20 ledgers, `nextTokenId` | owner-only mint, transfers | the market, the front end |
| evmindexer runner (`internal/evmindexer`) | `sync_cursors`, `auction_events`, `indexer_failed_events`; the pass in progress | `RunOnce` on a ticker, one batch per source | RPC node, repositories, handlers |
| Handlers and tables (`internal/indexer`, `internal/repository`) | `auctions`, `bids`, `nfts` | upsert on creation, bid insert and update, terminal marks, owner upsert | called by the runner; read by API and workers |
| Stats worker | `platform_stats` | three counts, one upsert per tick | reads `auctions` while the indexer writes |
| Metadata worker | none (a stub) | - | - |
| API and services | none | read-only queries, status computed from row and clock | tables |
| Front-end library (`lib/wallet.ts`, `lib/contracts.ts`) | one pending connection, values read before a transaction | connect, mint, approve, create, bid, cancel, end | wallet, contracts |
| CreateAuctionPage, AuctionDetailPage | component state across `await`, cached queries | the flows above; queries that are fetched on mount, focus and confirmation | API, library |
| MyPage (`routes/MyPage.tsx`) | address, NFTs, created auctions, balance, permission to mint, the form | connect with four concurrent reads, refresh, mint; scans of tokens and auctions (`lib/contracts.ts:118-178`) | wallet, contracts |

What is hard, by component, and what makes it correct:

* **Market.** One contract holds the money and the NFTs of all auctions, in
  several assets, through three implementations. Correct means: the balance of
  each asset is exactly what is owed; an NFT in custody is sold by one auction
  only; the index of active auctions repeats the auctions exactly; an auction
  settles once, is then final, and can always settle; a bidder never loses
  value by bidding; and all of it holds for auctions opened under one
  implementation and settled under another.
* **Runner.** Calls fail between any two steps, the process restarts, and the
  chain reorganises while a pass runs. Correct means: events are stored once, in
  order, from the canonical chain; cursors never skip a log and never go back;
  every source gets to the safe head.
* **Handlers and tables.** Two statements per event, upserts that overwrite, and
  two sources that write independently. Correct means: a row equals what the
  events up to the cursor make of it.
* **Status.** Contract, API, SQL and front end each decide from flags and a
  clock what is pending, active, ended or cancelled. Correct means: they agree.
* **Deployment.** Scripts are sequences of transactions without a common
  transaction: they die in the middle, are started again, overlap in two
  terminals, take addresses from the environment, and do not ask which version
  runs. Correct means: the market is never without an owner, an implementation
  or an AuctionNFT it needs, and what a script reported stays true.
* **Interfaces.** Four versions of the interface are in use at once: the one the
  market runs, the one a script was compiled against, the indexer's and the
  front end's, which read ABI files copied by hand. Correct means: the files
  agree with the contracts deployed last and decode the events of every version,
  and no step takes a function from the front end but the one known to.
* **Front end.** Values read before an `await` and used after it: the pending
  connection, the allowance, `nextTokenId`, the address of the wallet, the
  length of a list that is scanned call by call.

`PROJECT.json` lists every component with its status, and every hazard at its
line with the properties that cover it.

## 2. Modules

| Module | Models | Built on |
|---|---|---|
| `Totals` | sums over the first `n` entries of an array | - |
| `AuctionMarket` | the market contract, its upgrades, the tokens it holds | `Totals` |
| `EnglishAuction` | what a market promises: lots that are opened, raised, sold or returned, and a ledger of worth | - |
| `MarketRefinement` | the mapping under which the market implements `EnglishAuction` | `AuctionMarket`, `EnglishAuction` |
| `EvmRunner` | the runner, its repositories and the chain under it | - |
| `EventDecoders` | from a log to a payload, for three ABIs | - |
| `EventOrder` | what the market's events promise to those who make tables of them | - |
| `MarketEvents` | the market with the events it emits, as a history | `AuctionMarket`, `EventOrder` |
| `MarketIndex` | the handlers and the tables `auctions`, `bids`, `nfts` | `EvmRunner`, `EventDecoders`, `EventOrder` |
| `AuctionStatus` | the four computations of a status | - |
| `StatsWorker` | the stats worker beside the indexer and the clock | `AuctionStatus` |
| `MarketClient` | one browser's wallet connection and transaction flows, and AuctionNFT | `AuctionMarket` |
| `MyPage` | one page with three concurrent buttons, and the chain it scans | `AuctionStatus` |
| `AuctionDetail` | two cached queries of the detail page, the tables behind them, the chain behind those | - |
| `MarketInterface` | functions, events and errors of every contract, and when a call, a log or a revert gets across | - |
| `Deployment` | Ignition and the three scripts in several terminals | `MarketInterface` |
| `MCAuctionMarket`, `MCMarketEvents`, `MCEvmRunner`, `MCMarketIndex`, `MCMarketClient`, `MCMyPage`, `MCDeployment` | constants of the runs | the module they name |
| `AuctionMarketProofs` | sums; types, fields of an auction, custody, active index, escrow balance, finality, settlements that go through | `AuctionMarket` |
| `MarketPromiseProofs` | what the market promises to others: what bids cost, the refinement step by step, the order of its events | `MarketRefinement`, `MarketEvents`, `AuctionMarketProofs` |
| `StatsProofs` | statuses agree, counts miss nothing | `StatsWorker` |
| `RunnerProofs` | types, cursors, what is stored and up to where, order of handling, once, cost of interruptions, passes that end | `EvmRunner` |
| `MarketIndexProofs` | decoders, rows against events and history, tables against the chain | `MarketIndex`, `RunnerProofs` |
| `MarketClientProofs` | tokens, wallet request, allowances, mints, flows that end; the market under a browser's flows | `MarketClient`, `AuctionMarketProofs` |
| `MyPageProofs` | what scans find and cards show, one account per page | `MyPage` |
| `DeploymentProofs` | the market stays sound, reports stay true, V3 is set up once | `Deployment` |

Definitions whose names end in `Mutant` are plausible bugs: each stands before
the definition it would replace, no specification uses it, and replacing the
definition by it makes TLC violate the property named in `PROJECT.json`.

### AuctionMarket

A transaction is atomic: an action is one external call with everything it
calls, and a call that reverts is an action that is not enabled.

| State | In the code |
|---|---|
| `impl`, `owner` | the proxy's implementation slot (1, 2, 3), `owner()` |
| `paymentTokens`, `auctions`, `auctionCount` | V1 storage; `auctionCount` is `auctions.length` |
| `feeRecipient`, `platformFeeBps` | V2 storage |
| `extras`, `active`, `auctionNft` | `auctionV3Extras`, `nftToActiveAuctionIdPlusOne`, `auctionNft` of V3 |
| `nftOwner`, `balance` | the ERC721 and ERC20 ledgers and ETH balances |
| `stray` | history: units the market was given for nothing |
| `now` | `block.timestamp` |

The three implementations are one module: an action a version does not have is
guarded by `impl`, and what V3 adds to `_placeBid` and `endAuction` is asked of
the auction's extra. The storage of an auction made before V3 has an extra that
is all zero, exactly as in the contract, so that one set of actions is what each
implementation does. `BidWithEth` is for auctions that are not V3 ones,
`BidWithToken` for both. `EndUnsold` and `EndSold` are the two branches of
`endAuction`, with what they ask of the state in `CanEndUnsold` and
`CanEndSold`; V1's version is the case of a fee rate of 0, which no one can have
set before V2.

The price feed is environment: every bid is quoted at any of `Rounds`, so prices
move between bids in any way, the feed may report a negative answer or a round
that never finished. Who refuses ETH (`EthReceivers`) or an NFT
(`NftReceivers`) is a constant. ERC20s are standard: no fee on transfer, no
hooks. Approvals are left out: an owner can approve right before its call.

### MarketEvents and EventOrder

`MarketEvents` adds `log`, the events of the proxy that fill a table, with the
arguments a row takes: `AuctionCreatedV3`, `BidPlaced`, `AuctionCancelled`,
`AuctionEnded`. Each action is one of `AuctionMarket` with what it emits
(`CreateEmits`, `BidEmits`, `CancelEmits`, `EndEmits`), or one that emits none of
these. `EventOrder` is the contract between the two halves of the system, in one
place: `ArgsSound` and `InOrder` are a property of `MarketEvents` and an
assumption of `MarketIndex`.

### EvmRunner

One action is one RPC call or one database statement with the local work around
it, so a reorg, a failure or a crash can fall between any two.

| Action | In `runner.go` |
|---|---|
| `Begin`, `NextSource`, `Abandon` | `RunOnce`: the loop over sources; an error ends the pass |
| `CheckCursor` | `GetCursor` and `ensureCursorStillCanonical` |
| `ReadHead` | `BlockNumber`, `safeHead`, the block range |
| `Fetch` | `FilterLogs` |
| `DecodeFails`, `SkipLog`, `InsertOnce`, `Handle` | the loop over logs |
| `ReadHash`, `SaveCursor` | the header of `toBlock`, the cursor upsert |
| `Fail` | any call that fails before or after it took effect, and a crash |
| `Mine`, `Reorg` | the chain |

A log is what a transaction emits; its key is `tx_hash` and the index in the
block, as in `auction_events`, so a reorg can bring a log back under another
key. The chain may lose `ReorgDepth` blocks below the greatest height it had,
and get shorter. Blocks are pieces of one of the `Histories`, orders in which
the contracts let the transactions happen: a block knows how many transactions
are mined up to its end, and `Extend` goes on with any history the blocks below
agree with (`Agrees`). Handlers are abstract here:
`handled` is the order in which events reached them. Logs of a source are
skipped, rejected or decoded, as the constants say.

### EventDecoders and MarketIndex

`EventDecoders` takes a log apart as `contract/events.go` does: topic 0 names
the event, the indexed arguments are topics, the others are data, and each
decoder reads each field of its payload from one of the two places. `Emit` is
the other direction, what the EVM makes of an event.

`MarketIndex` is `EvmRunner` with the handlers put in. Each log is an event
with arguments (`Emitted`), `Event` is what the decoder of its source makes of
it, and the tables are written from that payload. An action is one statement:

| Action | In the code |
|---|---|
| `HandleBidInsert` | the first statement of `handleBidPlaced`, `InsertBid` |
| `HandleLast` | the last or only one: `UpsertAuctionFromCreated`, `ApplyBidPlaced`, `MarkAuctionEnded`, `MarkAuctionCancelled`, `UpsertNFT`, or nothing |
| `IndexFail` | a failure or crash before or after either statement takes effect |
| `Between` | the runner's other steps |

The events are a constant here, so what the handlers rely on is assumed of it,
and TLC evaluates the assumptions on the events and histories of its run.
`ArgsAssumption` is `ArgsSound`: arguments have the right sort, and no bid is of
0 USD. `HistoryAssumption` is `InOrder`, of auctions that V3 created: the creation
comes before everything else, each bid has more USD than the one before, and
nothing comes after the end. Both are what `EventsInOrder` says of the market,
which is proved of it (`EventsTellInOrder`). `MarketEvents` emits an event in the
step that makes it true, and the contract does so within one transaction; the
order of two transactions is the same. A receiver that calls back could only
change the order inside one: V3 auctions take ERC20 bids only, so no bidder's
code runs between the check of a bid and `BidPlaced` (`AuctionMarketV3.sol`,
`AuctionMarket.sol:314-350`), and an auction is marked ended before its payouts.
In older auctions a refund in ETH runs the outbid bidder's code before
`BidPlaced`, so nothing is assumed of their order; they have no row in `auctions`.

`TablesExact` computes the tables from the events of the safe blocks without the
decoders or the handlers: from the place of each log on the chain (`Places`, from
the start block of its contract on), the creator, item, status and best bid of
each auction (`ChainRow`), all bids with their keys (`ChainBid`), and the owner of
each NFT (`ChainOwner`), which is whom its last transfer went to.
`ExactWhenCaughtUp` asks for it whenever all cursors are at the safe head, and
`EventuallyExact` that it comes to hold and stays. Both ask it only while the
chain is `Comparable`: no call has failed, since the event it cost may be missing
for good (`LostEvent`), and the chain is as high as it ever was, since a reorg
that makes the chain shorter takes blocks from under the safe head whose events
the tables keep. Without the second TLC has a counterexample with two
confirmations; the tables say more than the chain does until it has grown again.

### AuctionStatus and StatsWorker

`AuctionStatus` has `ResolveStatus` (domain model), `CurrentAuctionStatus`
(API), `InFilter` (the SQL of `applyStatusFilter`) and `ChainStatus` (front end)
as operators, and `Agree`, which compares them on one row at one time.
`StatsWorker` makes the three counts of `RunOnce` three steps, with the
indexer's writes (`IndexCreated`, `IndexBid`, `IndexEnded`, `IndexCancelled`)
and `Tick` between them. It keeps which auctions a query counted instead of how
many, and in `shown` the statuses each auction had during the pass.

### MarketClient

A flow is one run of an async function of a page, from the click on: `connect`,
`mintNft` and `submit` of CreateAuctionPage, `runTx` of AuctionDetailPage with
its three kinds. An action is what a flow does between two awaits.

| State | In the code |
|---|---|
| `slot`, `prompts`, `granted` | `pendingConnection` and what its promise waits for, `eth_requestAccounts` the wallet has open, the account it answered with |
| `selected` | the account selected in the wallet |
| `page`, `chosen` | the mounted page, `tokenId` of the form |
| `flows` | per flow: where it is, `wallet.address`, the signer, what it closes over (`empty`, `form`, `id`, `amount`), `result.tokenId`, whether its page is still mounted |
| `nextTokenId`, `approved`, `allowance` | AuctionNFT and the payment token, beside the market's own variables |

`ConnectWallet` takes the slot or joins the promise in it; `Answer`,
`CheckNetwork` and `Refused` settle it for all who wait. `GetSigner` asks the
wallet for its account anew, so `SwitchAccount` can come between the two.
`CheckOwner`, `ReadNext`, `MintTx`, `ShowMinted`, `Load` are `mintNft`;
`ApproveNft`, `CreateTx` are `submit`; `ReadAllowance`, `ApproveToken`, `BidTx`
are `bidWithToken`; `CloseTx` ends or cancels. Transactions are the actions of
`AuctionMarket`, guarded by approval and allowance, which the market's own
module leaves to the caller. `overtaken` is history, read by no action: the bids
that had the allowance they need when another bid of their account used it
(`BidTx`) or approved less (`ApproveToken`). `Fails` is a refused or reverted transaction or a
failed call at any await. A button is disabled by the flag of a running flow
only while the page of that flow is mounted (`Flag`, `Navigate`).

### MyPage

Each call of the page is an action; the three buttons run beside each other,
beside the chain, the wallet and failing calls.

| Action | In the code |
|---|---|
| `ClickConnect`, `ConnectWallet`, `ConnectDone`, `ConnectFails` | `connect`, `MyPage.tsx:56-81` |
| `ReadNextTokenId`, `ReadOwnerOf`, `SkipToken` | `listOwnedAuctionNftsOnChain`, `contracts.ts:118-139`: a call per token, and a catch that takes every error for a missing token |
| `ReadAuctionCount`, `ReadAuction`, `ReadExtra` | `listCreatedAuctionsOnChain`: one or two calls per auction |
| `ClickRefresh` to `RefreshFails` | `refreshPaymentTokenBalance`, 89-104 |
| `ClickMint` to `MintFails`, `TypeRecipient` | `mintPaymentToken` and its form, 112-149 |
| `MintNft`, `TransferNft`, `OpenLot`, `Bid`, `CancelLot`, `EndLot`, `Tick` | everybody's transactions, and time |

What the page shows is data with the account it belongs to (`of`), so that a
mixture of two accounts is visible; the balance is only the account it was read
for. `held` and `had` are history: whose each token was, and which statuses each
auction had, since the scan began. The scans' limit of 500 is `MaxScan`.

### AuctionDetail

Two queries of React Query with what they hold and whether a request is under
way; events of the auction are counted, on the chain, in the tables, in each
query. `Focus` is a mount or a return to the window, `Click` to `RunTxDone` is
`runTx` (`AuctionDetailPage.tsx:32-53`) with its two awaited invalidations,
`Index` is the indexer.

### MarketInterface and Deployment

`MarketInterface` gives every binding's functions with arguments, results and
mutability, events with topics and data, and errors; those of V2 and V3 are
`Inheriting` from the version before. `Answers` says that a call made through one
table of functions reaches a function of the contract and gives results the
caller decodes; `Reads` that a reader decodes every log or error of a contract
with the same arguments in the same places. The tables `FrontEnd...` and
`Indexer...` are transcribed from the ABI files of the clients, `erc20.json`
(written by hand) among them, and compared with the compiler's in the assumption
`AbiFilesAgree`. It speaks of constants, so it is no property of a run: TLC
evaluates it in `Deployment`. `TokenErrorsUnread` says what the files lack: a
market call that a token reverts ends in an error of the token, which the front
end's ABI of the market does not know. Strings of `require` in libraries are in
no ABI.

| Action | In the code |
|---|---|
| `IgnitionNft`, `IgnitionImplementation`, `IgnitionProxy`, `IgnitionEnableEth`, `IgnitionEnd` | `ignition/modules/AuctionMarket.ts`; a step in the journal is not taken again; the proxy's constructor calls `initialize` |
| `StartToken`, `CheckMarket`, `DeployToken`, `DeployFeed`, `ConfigureMarket`, `PrintToken` | `deploy-auction-payment-token.ts` |
| `StartUpgrade`, `StartUpgradeV3`, `CheckCode`, `DeployImpl`, `UpgradeToV2`, `UpgradeToV3`, `Report` | the two upgrade scripts |
| `Dies` | any call that reverts or fails, and a closed terminal |

A script has a step, its variables and the addresses the deployer gave it: any
that Ignition has reported, the right one or another, or one with no code. The
token script takes `PAYMENT_TOKEN_FEED` as it is (`FeedAddresses`: a feed of the
network, an address without one, or zero); it asks the market for its code, not
the feed. `Served` is what the front end can call of the market that runs.
`AUCTION_NFT_ADDRESS` is only checked for code, so V3 may get an AuctionNFT
that is some other contract of the project. All scripts run as the deployer,
whose account owns the market; a transaction is mined before the next one is
sent, and one terminal at a time uses Ignition's deployment directory.
Since no script reads the running version, the V2 script run after V3 takes the
market back to V2, and the V3 script then dies with `V3AlreadyInitialized`:
both are behaviours here and what `InitializedOnce` is about. `AuctionMarket` leaves this downgrade out.

### EnglishAuction and the refinement

`EnglishAuction` knows no tokens, extras, index or implementations: a lot is
open, sold or returned, has at most one leader, and only `Raise` changes the
leader, to a strictly higher bid; only `Sell` moves value, from the leader's
claim to seller and fee taker; `Return` is possible only without a leader.
`MarketRefinement` maps the market's state to it and `ImplementsEnglishAuction`
says every behaviour of the market, across upgrades, is one of an English
auction. Its `keeper` is the owner of an item, `NoOne` while it is not minted.

## 3. What is checked

| Run | Question | Bounds | Distinct states |
|---|---|---|---|
| `MarketUpgrade` | auctions that live through V1, V2 and V3, scheduled, cancelled, relisted by the seller or the next owner, in ETH and an ERC20, with a fee; a market that starts at V3; the order of all their events | 2 items, 2 auctions, 2 bidders, 2 prices, 4 moments | 1,054,604 |
| `MarketMoney` | fee rates 0, 3/4, 4/4 and a refused 5/4 changed while bids stand; fee paid to an account, the market, the owner, nobody; ownership given away and renounced; gifts; bad rounds, rounding to 0 USD, delisting, accounts that refuse ETH or NFTs; a market that starts at V1 or V3; every step against the abstract auction | 1 auction, 2 assets, 4 rounds, 2 moments | 227,574 |
| `Runner` | reorgs as deep as the confirmations, a failure or crash anywhere, skipped and rejected logs; liveness | 2 sources with different start blocks, 4 blocks, 2 confirmations, batches of 2, 1 reorg, 1 failure | 245,579 |
| `Index` | the tables, through decoders and handlers, under the same; against the chain whenever the cursors are at the safe head | 3 sources, 3 blocks, 2 auctions, 13 events, 1 reorg, 1 failure | 1,101,957 |
| `Stats` | counts while rows and time move | 2 auctions, 3 moments, 1 failure | 238,842 |
| `Client` | flows interleaved with each other, with the user and with others | 2 flows of any kind, 2 accounts, 1 change of account, 3 tokens, 2 auctions | 615,836 |
| `MyPage` | scans and buttons of one page while the chain, the wallet and other buttons move | 3 clicks, 2 accounts in the wallet and a third, 3 tokens, 2 auctions, a scan limit of 2, 1 transaction of others, 1 change of account, 1 failure | 379,061 |
| `Deployment` | overlapping, repeated and dying scripts; V3 after V2 after V3 | 2 terminals, 4 scripts, 7 contracts; a script started beside another counts as two | 620,671 |
| `LostEvent`, `Choice`, `OneWallet`, `AfterTx` | four places where the code does not do what a comment or a message says | counterexamples | |

Why the bounds are enough. The market treats auctions alike and they interact
through the shared balance, the shared item and the index: two open auctions
show each interaction, one item closed and listed again among them.
`BpsDenominator` is 4 rather than 10000 so that rates that round to 0, round
down and take everything all occur with bids of 1 and 2. Moments before, at and
after start and end all occur with 2 to 4 values of `now`. A second reorg or
failure of the runner starts from a state the first already reaches (the pass is
abandoned and memory cleared); more than one batch per source needs 3 or 4
blocks. A count of the stats worker treats auctions one by one, so two show one
that moves and one that stays. Two flows show every pair that can meet at the
slot, at an allowance, at the form or at `nextTokenId`; other people's mints are
not bounded by flows but by the three tokens. On MyPage three clicks run every
pair of buttons at once and connect a second time after that; a scan limit of 2
is met, and passed, by three tokens; one transaction of somebody else falls
before, between and after any two calls of a scan. Four scripts in a
row are Ignition, V3, V2 and V3 again; since one started beside another counts
twice, two scripts at once come with one more before or after them, and any may
die and be repeated. Seven contracts are what Ignition and two tokens with mock
feeds deploy; Ignition and three upgrades deploy six. Two hazards are met by a
theorem where the run is too small: `MarketUpgrade` has one price, so that
rounding and changed prices are in `LotsCorrect`, and `MarketMoney` one auction,
so that auctions which share a balance are in `EscrowHolds` and
`SettlementNeverStuck`. Every run's constants are in its
`.cfg`, with the bounds last.

Deadlock is not checked in the runs of the market, of the client and its pages
and of the deployment: with time, auctions, flows, clicks and scripts bounded
they may simply be done. The other runs check it.

`NothingStuck` is about guards instead of liveness: the contracts have no
scheduler, nobody is obliged to call, so what can be promised is that the call
would go through. It says so with the guards of `EndAuction` and `CancelAuction`
(`CanEndUnsold`, `CanEndSold`, `CanCancel` and `CanRelease`) rather than with
`ENABLED`, which the provers do not handle; the rest of these actions assigns
each variable once, and that guard and `ENABLED` agree was checked with TLC on
the states of `MarketMoney`.

**Fairness.**

* `FairSpec` of the runner and `FairIndexSpec`: weak fairness of the indexer's
  own steps. `cmd/indexer/main.go` calls `RunOnce` on every tick for ever,
  whatever the last call returned, and clients have timeouts. Failures, blocks
  and reorgs are not fair, and bounded: `EventuallyCaughtUp` and
  `EventuallyExact` are promises for the time after the last of them.
* `FairSpec` of the stats worker: weak fairness of its steps, for the same
  reason (`cmd/worker/main.go`, a ticker of one minute).
* `FairClientSpec`: weak fairness of the program's steps and the wallet's
  answer together: the user answers a dialog, one way or the other, and a call
  returns or fails. Clicks, account changes, navigation and other users are not
  fair.
* `FairPageSpec`: weak fairness of the steps of `connect` and of
  `mintPaymentToken`, which are awaits that are answered or fail. That a call fails is not fair and bounded;
  nobody has to click.
* `DetailSpec`: strong fairness of each query's answer (requests may fail, but
  not every one for ever), weak fairness of the indexer and of the rest of
  `runTx`. Nothing makes the user leave the window and come back.

### Findings

* `CompleteToCursor` (`runner.go:134-136`): a stored raw event does not mean its
  handler ran. `Runner` shows how bad it gets: `LossBounded`, one event per
  interruption; `Index` shows the same of the tables (`RowsBackedByHistory`).
* `MintedIsChosen` (`CreateAuctionPage.tsx:75`): after a mint on a page where no
  token was chosen yet, the form holds the account's first token instead of the
  new one, because `loadWalletNfts` tests the `tokenId` of the render that was
  clicked.
* `OneWallet` (`MyPage.tsx:63`): the address is set before four reads are
  awaited, so that after a change of accounts the old account's data stands
  under the new address while they run, and for good when one of them fails.
  `ConnectConsistent` is what holds: a connect that succeeds with no other
  button running leaves a page about one account.
* `ShownAfterTx` (`AuctionDetailPage.tsx:46`): the query is fetched again when
  the transaction is confirmed, which is before the indexer has its event, and
  nothing fetches it after that, though `api.ts:68-69` says the page gets to the
  new state once the indexer has written it.

Facts that are no disagreement with anything written. What can hold up a
source for ever is a log rejected by its own decoder or by that of a source
before it, since `RunOnce` ends at the first error: `EventuallyCaughtUp` says so
in `HeldUp`. And the payloads of `AuctionCreated` and of the events that
`decodeGeneric` handles lack their indexed arguments (`events.go:195`,
`events.go:251-261`); no table is filled from them. The hash saved with a
cursor is read after the logs (`runner.go:144`), so a reorg between the two
could pair the logs of one fork with the hash of another; `StoredIsCanonical`
says it cannot happen to blocks as deep as the confirmations. The V2 script run
on a V3 market downgrades it (`upgrade-auction-market.ts:29`): `MarketSound` holds
all the same, but `createAuctionV3`, `cancelAuction` and `auctionV3Extras`, which
the front end calls, are gone, and by `InitializedOnce` no script brings them
back, for `initializeV3` is in the transaction of V3's upgrade and runs once.
Only an upgrade by hand does, without that call. A mistyped `PAYMENT_TOKEN_FEED`
is enabled and reported (`deploy-auction-payment-token.ts:12, 20-22, 50`;
`AuctionMarket.sol:152` refuses only address 0): `ReportHolds` says what the
report is worth, that the entry is there and stays, not that the feed answers,
unless the script deployed the feed itself.

## 4. What is proved

The market's theorems are about `AuctionMarket!Spec`, for any accounts, items,
tokens, feeds, rates, prices and bounds, from the assumptions the module names:
addresses that must differ do (`AddressAssumption`), units and the denominator
are positive, amounts natural (`NumberAssumption`), arguments have the right
sort (`ChoiceAssumption`, `InitialAssumption`). Neither finiteness nor the
bounds are used. The worker's are about `StatsWorker!Spec`, for any finite set
of auctions, any times and any bounds (`StatsAssumption`). The runner's are about
`EvmRunner!Spec`, for any sources, start blocks, logs, histories, batch size,
confirmations and bounds (`RunnerAssumption`: they have the right sort, no log
is both skipped and rejected, and no history has a transaction twice); those
marked * add the hypothesis `ReorgDepth <= Confirmations`, which is what the
confirmations are for. The deployment's are about `Deployment!Spec`, for any
terminals, decimals and numbers of contracts and runs (`DeploymentBounds`). The
tables' are about `MarketIndex!IndexSpec`, from the runner's assumption and those
above on logs, arguments and histories; the client's about
`MarketClient!ClientSpec`, for any number of flows, accounts and tokens, from the
market's assumptions and `ClientAssumption` (token ids are numbers, token 0 is
minted, the accounts of the wallet and of others are different ones); the page's
about `MyPage!PageSpec`, for any tokens, auctions, limit and bounds
(`PageAssumption`).

| Theorem | States |
|---|---|
| `TypeCorrect` | `[]TypeOK` |
| `LotsCorrect` | `[]LotsConsistent` |
| `CustodyHolds` | `[]Custody` |
| `ActiveIndexCorrect` | `[]ActiveIndexExact` |
| `EscrowHolds` | `[]EscrowExact` |
| `EndedStaysFinal` | `EndedIsFinal` |
| `SettlementNeverStuck` | `[]NothingStuck` |
| `BidsCostNothing` | `BidsKeepWorth` |
| `MarketIsEnglishAuction` | `ImplementsEnglishAuction` |
| `EventsOnlyObserve` | `Spec` of the market, of `EventSpec` |
| `EventsTellInOrder` | `[]EventsInOrder`, of `EventSpec` |
| `StatsTypeCorrect` | `[]TypeOK` of the worker |
| `StatusesAlwaysAgree` | `[]StatusesAgree` |
| `NoAuctionMissed` | `[]NoneMissed` |
| `CountsExplained` | `[]CountedAsShown` |
| `RunnerTypeCorrect` | `[]TypeOK` of the runner |
| `CursorOnlyAdvances` | `CursorAdvances` |
| `StoredStaysCanonical` * | `[]StoredIsCanonical` |
| `CursorStaysBacked` * | `[]CursorBacked` |
| `HandlersRunInOrder` * | `[]AppliedInOrder` |
| `EventsHandledOnce` * | `[]HandledOnce` |
| `InterruptionsBoundLoss` | `[]LossBounded` |
| `PassesOnlyAdvance` | every call brings a pass nearer to its end |
| `IndexTypes` | `[]IndexTypeOK` |
| `RowsStayBacked` * | `[]RowsBackedByHistory` |
| `RowsNeverGoBack` * | `RowsOnlyAdvance` |
| `TablesComeExact` * | `[]ExactWhenCaughtUp` |
| `HandlersOnlyObserve` | `Spec` of the runner, of `IndexSpec` |
| `ClientTypes` | `[]ClientTypeOK` |
| `OneRequestAtATime` | `[]OneRequest` |
| `AllowanceStaysBounded` | `[]AllowanceBounded` |
| `BidsAreBacked` | `[]BidBacked` |
| `MintsForAdmin` | `MintedForAdmin` |
| `FlowsOnlyAdvance` | no step sends a flow back, every answer or step of the program brings one on |
| `FlowsNeverStall` | while a flow runs, somebody has something to do |
| `MarketKeptByClients` | the market's six invariants and `EndedIsFinal`, of `ClientSpec` |
| `PageTypes` | `[]PageTypeOK` |
| `RowsReal` | `[]ScannedRowsReal` |
| `ScanFindsHeld` | `[]ScanComplete` |
| `ConnectingLeavesOneWallet` | `ConnectConsistent` |
| `MarketAlwaysSound` | `[]MarketSound` |
| `ReportsHold` | `[]ReportHolds` |
| `InitializedForGood` | `InitializedOnce` |

The argument for the market. `TypeOK` is inductive, given that a settlement never pays more
than the market holds, which is in its guards. `LotsConsistent`, `Custody` and
`ActiveIndexExact` are proved together over `TypeOK`: `Custody` alone is not
inductive, because that settling one auction leaves the NFT of another where it
is needs that no two open auctions share an item; a new auction cannot share one
because its seller owns the NFT while the market owns those of open auctions.
`ActiveIndexExact` needs the guard of `createAuctionV3` and the one-to-one shape
of the index. `EscrowExact` is an equation over a sum of all auctions:
the lemmas on `Total` show how a sum changes when one entry does (`OwedUpdate`
applies them), and the proof then goes action by action: a bid adds the new amount in one
token and takes the old one out in another, maybe the same; a sale takes out
what it pays to seller and recipient, where the recipient may be the market. It
uses `LotsConsistent` for the entry of an auction without a bid to be 0, and
`TypeOK` for amounts to be natural. `EndedIsFinal` needs `LotsConsistent`, since
`cancelAuction` changes the extra and must not meet an auction that has ended.
`NothingStuck` puts them together (`BooksNeverWedge`): the NFT of an open auction
is there by `Custody`; the money is, because the market's balance is the sum of
what it owes and more (`EscrowExact`), a sum is at least each of its entries, and
the fee is taken out of what is left after the net (`SalePaid`); and the branch
of `endAuction` that applies is known from `LotsConsistent`.

The refinement is proved over the same invariants. What an account has, standing
bids included (`Worth`), does not change by a bid: the bidder's payment is its
new standing bid, and the refund of the one before is what stops standing
(`WorthBid`), in two tokens or in one, by one account or by two. A sale moves
worth by what the abstract `Sell` says (`WorthSale`), where the seller, the
recipient of the fee and the winner may be one account and the recipient may be
the market, which is nobody's worth. Every action then maps to `Open`, `Raise`,
`Sell`, `Return`, `Carry` or `Give`, or changes nothing there; that the lot an
action closes is the one that holds the item is `Custody`, and that the
leader's claim covers what it pays is `LotsConsistent`.

The order of events. `LogInv` is `InOrder` with what relates each event to the
state (`Stands`): it is of an auction there is, an auction whose end was emitted
has ended, and the best bid of an auction is at least any bid emitted for it. A
step appends at most one event; auctions stay, stay ended and keep or raise their
best bid (`AuctionsGrow`), so `Stands` remains true of the old ones, and what the
contract checks of the state (a bid above the best one, on an auction that has
not ended; a creation under a new number) is what `InOrder` says of the new
event and all before it.

The argument for the worker. `StatusesAgree` follows from the type invariant
alone: rows have `start < end`, which is what `createAuctionV3` enforces, and
without it the four computations would differ. `NoneMissed` speaks of the end of
a pass only; its strengthening `CountInv` says for every moment of it that the
status an auction has now is among those it has shown (`ShownNow`), and that an
auction not yet counted is still ahead of the counts to come (`StillAhead`):
after the count of active ones it is ended or cancelled, after that of ended
ones cancelled. The environment keeps this because statuses only move forward
(`Later`), whatever is written and however time passes; the counts keep it
because they go in the same order.

The argument for the runner. Blocks as deep under the greatest height as the
confirmations stay when no reorg goes deeper (`SafeBlocksStay`); the range of a
pass ends at such a block (`RangeOK`), so the logs it fetched, the hash it read
and the cursor it saves all belong to blocks that stay (`FetchedOK`, `HashesOK`,
`SafeOK`), and with them everything stored (`StoredOK`). `CursorBacked` is not
inductive: between two saves one has to know where the wanted logs of the range
are, which is in the tables or in the batch (`PendingOK`); when the batch is
empty the range is stored and the cursor may move over it. For the order,
`PrefixOK` says that the stored events of a source are closed downwards: all its
source wants before a stored event is stored. It holds because the batch is
worked through from its first log, with everything before the range already
behind the cursor. Therefore a log that is not stored yet comes after all that
were applied (`ComesLast`), and `OrderOK` follows. `HandledOnce` is about
transactions, which a reorg may give a new key: the chain contains none twice
because blocks are disjoint pieces of one history (`EndsOK`, `MinedOnce`), so
two applied events at different places are different transactions.
`InterruptionsBoundLoss` needs no hypothesis about reorgs: only a failure takes
an event that is stored and not applied out of hand, one at a time
(`LossStep`).

The argument for the tables. The decoders put the arguments of an event in the
columns they belong in (`CreatedDecoded`, `BidDecoded`, `EndDecoded`,
`NftDecoded`), which is `IndexTypeOK`, whatever the reorgs. For the rest, `Backed`
ties a row to the events that were applied: one of them created the auction, no
applied bid is above the best bid, the best bid is one of them and in the
history, and a terminal status has its event. Every step of the tables is a
step of the runner (`IndexIsRunner`), so its invariants hold; by them the event
in hand comes, in one history, after all its source has applied (`HandFollows`),
and `HistoryAssumption` makes it a better bid on an auction that has not ended,
or the end of one, and a creation only of an auction without a row. That is
`RowsOnlyAdvance`. For the count in `RowsBackedByHistory`: a better bid in the
history is stored and not applied, hence the one in hand or lost, and bids have
different keys, so `LossBounded` bounds them.

That the tables are exact needs both directions. From the tables to the chain:
`ToldOK` says a row's creator, item and status are those of the applied events
(`StatusTold`), `OwnersOK` that an owner is the receiver of the last applied
transfer of that item (`LastMove`), and what is applied is stored, on the chain,
at or above its start block (`StartOK`) and at or below the safe head
(`AppliedPlaced`). From the chain to the tables: when the cursors are at the safe
head, `CursorBacked` says that every log below is stored, and without a failure
`LossBounded` that none of them is lost, so all are applied (`AllApplied`,
`PlaceApplied`); the decoders reject none that a table is made of
(`AuctionEventDecoded`, `TransferDecoded`). Then the choices in `ChainRow` and
`ChainOwner` have one candidate: one creation, one highest bid, one last transfer
(`AppliedTale`, `AppliedApart`).

The argument for the client. `ClientInv` puts the invariants of the market beside
those of tokens, view, flows, wallet and allowances, for the flows' transactions
are the market's steps (`MarketKeptByClients`). `OneRequest` and `AllowanceBounded`
are inductive over it: the first because only the flow that takes the slot
prompts, the second because an allowance is only ever set to an amount of a form
and only ever spent. `BidBacked` needs that a bid at its transaction has read an
allowance that was enough or set one that was, whatever was left of earlier bids,
and that a step that lowers it afterwards puts the bid into `overtaken`
(`AllowanceMoved`). `MintsForAdmin` needs that a flow past its check of the owner
has the administrator's address (`Sound`), although its signer may be another.

Of liveness the provers can show the part without fairness. A flow has a number
of steps it may still take (`StepsLeft`), no step of anybody raises it, and each
answer of the wallet or step of the program lowers one, or turns the one request
into the check of the network (`FlowsOnlyAdvance`); while a flow runs, one of
these is possible (`FlowsNeverStall`). Since flows are finitely many, fairness
alone makes `FlowsFinish` of it. In the same way a pass of the runner only goes
on: to the end, to the next source, to a later stage, or to fewer logs
(`PassesOnlyAdvance`).

The argument for the page. While a scan runs, `NftScan` says that a token asked
so far is in the list if it was the account's throughout, and in it only if it
was at some moment; `LotInv` that the statuses recorded for an auction contain
its present one (`HadCurrent`), and that the row the scan has read and has not
finished is one the auction had (`RowPast`): between the two calls for one card
the auction may be bid on, ended or cancelled, but rows only move forward
(`ChangeGrows`). `Alone` says that a connect during which no other button was
pressed has kept the address it set.

The argument for the deployment. `MarketSound` needs that an address a script
keeps in a variable is the contract it deployed, of the kind it deployed
(`Deploys`); `ReportHolds` that nobody else changes the entry of a token
between its configuration and its report, nor after it. Tokens are enabled only
by the script that deployed them, and two scripts never hold the same token
(`Apart`): an address is deployed once. A script that is past its configuration
finds the entry in the market with its own feed and decimals (`ConfiguredRuns`),
and a script with a mock feed has deployed it (`HasMock`).
`InitializedOnce` needs the order in which things are set: the proxy is recorded
when it is initialised, and an AuctionNFT is set only in an initialised market
(`Installed`). What is served is up to the implementation (`ServedBy`): V3 serves
whatever another version served, since it declares again only `createAuction`,
with the same types, and V2 serves nothing that another would not, since nothing
it added is called by the front end (`VersionsServe`).

Only model-checked: liveness under fairness (`EventuallyCaughtUp`,
`EventuallyExact`, `EventuallyFresh`, `FlowsFinish`, `ButtonsReturn`), which is out
of the prover's reach. Every invariant, action property and refinement that a
passing run checks is a theorem.

What links the theorems of the tables to those of the market is `EventOrder`: the
market is proved to emit events in that order, the tables are proved exact for
any histories in it. That the logs of the chain are the events of the market, and
that AuctionNFT's `Transfer` names an account and an item, is not modelled as one
system.

## 5. Not modelled

* ABI encoding at the level of bytes, configuration, SQL text, rendering:
  conversions and I/O without state of their own.
* Queries of the API other than the status filter, and the merging of lists from
  API and chain in `lib/nfts.ts`.
* Bytecode and the types of filters and listeners, which are most lines of the
  generated bindings: they say nothing about behaviour that the functions,
  events and errors do not.
* Errors that come out of a call without being in any ABI: `require` strings and
  panics.
* The metadata worker, which does nothing yet, the counter sample, files, verification and
  printing of the scripts.
* Clocks that differ between chain, back end and browser: statuses are compared
  at one moment.
* A downgrade by the V2 script in `AuctionMarket`: the market's versions only go
  up there; `Deployment` has it, without auctions.
* Of the tables, columns that no statement compares (hashes, block numbers,
  times, token URIs).
* Calls back into the market from receivers of ETH and NFTs: transactions are
  atomic in `AuctionMarket`, so the order of a function's external calls and its
  own writes (`AuctionMarketV3.sol:235`) does not show.
* Overflow of `uint256`: amounts are unbounded naturals. Solidity reverts on
  overflow, so it can only refuse a bid that no supply of tokens could pay.
* ERC20s that charge on transfer or rebase: the owner lists tokens one by one.
* Bids of other accounts in `MarketClient`: all they do to a flow is to make its
  transaction revert, which `Fails` covers.
* Vendored and built files, deployment records.

## 6. Plan

Done: the market and its refinement; the runner under failures and reorgs;
decoders, handlers and tables over it; statuses and the stats worker; wallet
connection and flows of the front end over the contracts; MyPage and the detail
page; interfaces and deployment; the market's events and the tables made of them.
Every safety property a passing run checks is a theorem.

What would come next, in this order:

1. Call frames: the market's functions split at their external calls, with
   receivers that call back.
2. The downgrade of `Deployment` with open auctions in the market.
