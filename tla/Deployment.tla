----------------------------- MODULE Deployment -----------------------------
(***************************************************************************)
(* How the contracts get onto the chain and change there: the Ignition     *)
(* module, the script that deploys a payment token, and the two upgrade    *)
(* scripts, transaction by transaction.  Two terminals of the deployer may *)
(* run scripts at the same time, and any of them may die between two       *)
(* transactions; Ignition resumes from its journal, a script starts over.  *)
(* Whether a call is answered is looked up in the binding it is made       *)
(* through.                                                                *)
(***************************************************************************)
EXTENDS Integers, FiniteSets, MarketInterface

CONSTANTS
  Terminals,
  Decimals,        \* PAYMENT_TOKEN_DECIMALS
  MaxContracts,    \* bound on the deployments
  MaxRuns          \* bound on the scripts started, of which one started
                   \* beside another counts twice

ASSUME DeploymentBounds == /\ Decimals \subseteq 0 .. 255
                           /\ MaxContracts \in Nat
                           /\ MaxRuns \in Nat

ZeroAddress == 0     \* also the address that stands for ETH
EthFeed == -1        \* a feed on the network, deployed by somebody else
NoCode == -2         \* a mistyped address, or one of another network
FeedAddresses == {EthFeed, NoCode, ZeroAddress}   \* PAYMENT_TOKEN_FEED
EthDecimals == 18

VARIABLES
  code,      \* the contracts at addresses 1, 2, ...
  store,     \* the storage of the market's proxy
  journal,   \* what Ignition has recorded as done
  run,       \* the script each terminal runs, its variables and next step
  printed,   \* the payment tokens reported as deployed
  runs

vars == <<code, store, journal, run, printed, runs>>

Market == {"AuctionMarket", "AuctionMarketV2", "AuctionMarketV3"}
Idle == [script |-> "none"]
NoStore == [impl |-> ZeroAddress, initialized |-> FALSE,
            auctionNft |-> ZeroAddress, tokens |-> <<>>]
-----------------------------------------------------------------------------
(* Addresses and calls.                                                    *)

HasCode(a) == a \in DOMAIN code \/ a = EthFeed
KindOf(a) == code[a].kind
IsProxy(a) == a \in DOMAIN code /\ KindOf(a) = "AuctionMarketProxy"

(* What the deployer fills into the environment: an address Ignition has   *)
(* reported, the right one or another, or one with no code.                *)
Addresses ==
  ({journal.nft, journal.implementation, journal.proxy} \ {ZeroAddress})
    \union {NoCode}

(* What a call to a runs: the fallback of the proxy goes to its            *)
(* implementation.                                                         *)
Behind(a) == Interface[IF IsProxy(a) THEN KindOf(store.impl) ELSE KindOf(a)]

Answered(a, binding, f) ==
  a \in DOMAIN code /\ Answers(Behind(a), Interface[binding], f)

(* What the front end can call of the market.                              *)
Served ==
  IF journal.proxy = ZeroAddress THEN {}
  ELSE {f \in DOMAIN FrontEndMarket :
          Answers(Behind(journal.proxy), FrontEndMarket, f)}

(* A call only the owner may make: the deployer owns the market's proxy,   *)
(* nobody owns an implementation that is called directly.                  *)
OwnerCall(a, binding, f) ==
  IsProxy(a) /\ store.initialized /\ Answered(a, binding, f)

Deployed(kind, decimals) ==
  /\ Len(code) < MaxContracts
  /\ code' = Append(code, [kind |-> kind, decimals |-> decimals])

NewAddress == Len(code) + 1

Configured(token, feed, decimals) ==
  [token |-> token, feed |-> feed, decimals |-> decimals]

(* setPaymentToken of the market with enabled = true.                      *)
Enabled(tokens, c) ==
  [a \in DOMAIN tokens \union {c.token} |->
     IF a = c.token THEN [feed |-> c.feed, decimals |-> c.decimals]
     ELSE tokens[a]]
-----------------------------------------------------------------------------
Init ==
  /\ code = <<>>
  /\ store = NoStore
  /\ journal = [nft |-> ZeroAddress, implementation |-> ZeroAddress,
                proxy |-> ZeroAddress, eth |-> FALSE]
  /\ run = [t \in Terminals |-> Idle]
  /\ printed = {}
  /\ runs = 0

Start(t, script) ==
  /\ run[t] = Idle
  /\ runs' = runs + IF \A u \in Terminals : run[u] = Idle THEN 1 ELSE 2
  /\ runs' <= MaxRuns
  /\ run' = [run EXCEPT ![t] = script]
  /\ UNCHANGED <<code, store, journal, printed>>

At(t, script, step) == run[t].script = script /\ run[t].at = step

Goto(t, step) == run' = [run EXCEPT ![t].at = step]
End(t) == run' = [run EXCEPT ![t] = Idle]
-----------------------------------------------------------------------------
(* ignition/modules/AuctionMarket.ts.  What does not depend on each other  *)
(* is deployed in any order; a finished step is not taken again.  Its      *)
(* deployment directory is used by one terminal at a time.                 *)

StartIgnition(t) ==
  /\ \A u \in Terminals : run[u].script # "ignition"
  /\ Start(t, [script |-> "ignition", at |-> "modules"])

IgnitionNft(t) ==
  /\ At(t, "ignition", "modules")
  /\ journal.nft = ZeroAddress
  /\ Deployed("AuctionNFT", 0)
  /\ journal' = [journal EXCEPT !.nft = NewAddress]
  /\ UNCHANGED <<store, run, printed, runs>>

IgnitionImplementation(t) ==
  /\ At(t, "ignition", "modules")
  /\ journal.implementation = ZeroAddress
  /\ Deployed("AuctionMarket", 0)
  /\ journal' = [journal EXCEPT !.implementation = NewAddress]
  /\ UNCHANGED <<store, run, printed, runs>>

IgnitionProxyMutant(t) ==   \* initialize left to a later call
  /\ At(t, "ignition", "modules")
  /\ journal.implementation # ZeroAddress
  /\ journal.proxy = ZeroAddress
  /\ Deployed("AuctionMarketProxy", 0)
  /\ store' = [store EXCEPT !.impl = journal.implementation]
  /\ journal' = [journal EXCEPT !.proxy = NewAddress]
  /\ UNCHANGED <<run, printed, runs>>

(* The constructor of the proxy calls initialize.                          *)
IgnitionProxy(t) ==
  /\ At(t, "ignition", "modules")
  /\ journal.implementation # ZeroAddress
  /\ journal.proxy = ZeroAddress
  /\ Deployed("AuctionMarketProxy", 0)
  /\ store' = [store EXCEPT !.impl = journal.implementation,
                            !.initialized = TRUE]
  /\ journal' = [journal EXCEPT !.proxy = NewAddress]
  /\ UNCHANGED <<run, printed, runs>>

IgnitionEnableEth(t) ==
  /\ At(t, "ignition", "modules")
  /\ journal.proxy # ZeroAddress
  /\ ~journal.eth
  /\ OwnerCall(journal.proxy, "AuctionMarket", "setPaymentToken")
  /\ store' = [store EXCEPT !.tokens =
                 Enabled(@, Configured(ZeroAddress, EthFeed, EthDecimals))]
  /\ journal' = [journal EXCEPT !.eth = TRUE]
  /\ UNCHANGED <<code, run, printed, runs>>

IgnitionEnd(t) ==
  /\ At(t, "ignition", "modules")
  /\ journal.nft # ZeroAddress /\ journal.eth
  /\ End(t)
  /\ UNCHANGED <<code, store, journal, printed, runs>>
-----------------------------------------------------------------------------
(* scripts/deploy-auction-payment-token.ts.  Without a mock the feed is    *)
(* whatever the environment names: unlike the market it is not asked for   *)
(* its code.  Without a market the token is only deployed.                 *)

StartToken(t) ==
  \E mock, configure \in BOOLEAN, decimals \in Decimals :
  \E market \in IF configure THEN Addresses ELSE {ZeroAddress},
     feed \in IF mock THEN {ZeroAddress} ELSE FeedAddresses :
    Start(t, [script |-> "token",
              at |-> IF configure THEN "market" ELSE "token",
              market |-> market, decimals |-> decimals, mock |-> mock,
              configure |-> configure, token |-> ZeroAddress, feed |-> feed])

CheckMarket(t) ==
  /\ At(t, "token", "market")
  /\ HasCode(run[t].market)
  /\ Goto(t, "token")
  /\ UNCHANGED <<code, store, journal, printed, runs>>

DeployToken(t) ==
  /\ At(t, "token", "token")
  /\ Deployed("AuctionPaymentToken", run[t].decimals)
  /\ run' = [run EXCEPT ![t].token = NewAddress,
               ![t].at = IF run[t].mock THEN "feed" ELSE "configure"]
  /\ UNCHANGED <<store, journal, printed, runs>>

DeployFeed(t) ==
  /\ At(t, "token", "feed")
  /\ Deployed("MockV3Aggregator", 0)
  /\ run' = [run EXCEPT ![t].feed = NewAddress, ![t].at = "configure"]
  /\ UNCHANGED <<store, journal, printed, runs>>

ConfigureMarketMutant(t) ==   \* the transaction is not waited for
  /\ At(t, "token", "configure")
  /\ IF /\ run[t].configure
        /\ run[t].feed # ZeroAddress
        /\ OwnerCall(run[t].market, "AuctionMarketV3", "setPaymentToken")
     THEN store' = [store EXCEPT !.tokens = Enabled(@,
            Configured(run[t].token, run[t].feed, run[t].decimals))]
     ELSE UNCHANGED store
  /\ Goto(t, "mint")
  /\ UNCHANGED <<code, journal, printed, runs>>

ConfigureMarket(t) ==
  /\ At(t, "token", "configure")
  /\ IF run[t].configure
     THEN /\ OwnerCall(run[t].market, "AuctionMarketV3", "setPaymentToken")
          /\ run[t].feed # ZeroAddress
          /\ store' = [store EXCEPT !.tokens = Enabled(@,
               Configured(run[t].token, run[t].feed, run[t].decimals))]
     ELSE UNCHANGED store
  /\ Goto(t, "mint")
  /\ UNCHANGED <<code, journal, printed, runs>>

(* The optional mint of the new token, then the report, which does not say *)
(* whether the feed is a mock; that is kept for ReportHolds.               *)
PrintToken(t) ==
  /\ At(t, "token", "mint")
  /\ Answered(run[t].token, "AuctionPaymentToken", "mint")
  /\ printed' = printed \union
       {[token |-> run[t].token, feed |-> run[t].feed,
         decimals |-> run[t].decimals, configured |-> run[t].configure,
         mock |-> run[t].mock]}
  /\ End(t)
  /\ UNCHANGED <<code, store, journal, runs>>
-----------------------------------------------------------------------------
(* scripts/upgrade-auction-market.ts and upgrade-auction-market-v3.ts.     *)
(* Neither asks which version runs.                                        *)

StartUpgrade(t) ==
  \E market \in Addresses :
    Start(t, [script |-> "upgrade", at |-> "check", market |-> market,
              nft |-> ZeroAddress, impl |-> ZeroAddress])

StartUpgradeV3(t) ==
  \E market, nft \in Addresses :
    Start(t, [script |-> "upgradeV3", at |-> "check", market |-> market,
              nft |-> nft, impl |-> ZeroAddress])

CheckCode(t) ==
  /\ \/ At(t, "upgrade", "check")
     \/ At(t, "upgradeV3", "check") /\ HasCode(run[t].nft)
  /\ HasCode(run[t].market)
  /\ Goto(t, "deploy")
  /\ UNCHANGED <<code, store, journal, printed, runs>>

DeployImpl(t) ==
  /\ \/ At(t, "upgrade", "deploy") /\ Deployed("AuctionMarketV2", 0)
     \/ At(t, "upgradeV3", "deploy") /\ Deployed("AuctionMarketV3", 0)
  /\ run' = [run EXCEPT ![t].impl = NewAddress, ![t].at = "upgrade"]
  /\ UNCHANGED <<store, journal, printed, runs>>

UpgradeToV2(t) ==
  /\ At(t, "upgrade", "upgrade")
  /\ OwnerCall(run[t].market, "AuctionMarket", "upgradeToAndCall")
  /\ store' = [store EXCEPT !.impl = run[t].impl]
  /\ Goto(t, "report")
  /\ UNCHANGED <<code, journal, printed, runs>>

UpgradeToV3Mutant(t) ==   \* initializeV3 may be called again
  /\ At(t, "upgradeV3", "upgrade")
  /\ OwnerCall(run[t].market, "AuctionMarketV2", "upgradeToAndCall")
  /\ store' = [store EXCEPT !.impl = run[t].impl, !.auctionNft = run[t].nft]
  /\ Goto(t, "report")
  /\ UNCHANGED <<code, journal, printed, runs>>

(* initializeV3 runs in the transaction of the upgrade and reverts both    *)
(* when the market has an AuctionNFT already.                              *)
UpgradeToV3(t) ==
  /\ At(t, "upgradeV3", "upgrade")
  /\ OwnerCall(run[t].market, "AuctionMarketV2", "upgradeToAndCall")
  /\ store.auctionNft = ZeroAddress
  /\ store' = [store EXCEPT !.impl = run[t].impl, !.auctionNft = run[t].nft]
  /\ Goto(t, "report")
  /\ UNCHANGED <<code, journal, printed, runs>>

(* The reads that end the scripts.                                         *)
Report(t) ==
  /\ \/ /\ At(t, "upgrade", "report")
        /\ Answered(run[t].market, "AuctionMarketV2", "version")
     \/ /\ At(t, "upgradeV3", "report")
        /\ \A f \in {"version", "auctionNft", "auctionCount"} :
             Answered(run[t].market, "AuctionMarketV3", f)
  /\ End(t)
  /\ UNCHANGED <<code, store, journal, printed, runs>>
-----------------------------------------------------------------------------
(* A call that reverts or finds no code, an RPC error, or a closed         *)
(* terminal: what was mined stays.                                         *)
Dies(t) ==
  /\ run[t] # Idle
  /\ End(t)
  /\ UNCHANGED <<code, store, journal, printed, runs>>

Next ==
  \E t \in Terminals :
    \/ StartIgnition(t) \/ IgnitionNft(t) \/ IgnitionImplementation(t)
    \/ IgnitionProxy(t) \/ IgnitionEnableEth(t) \/ IgnitionEnd(t)
    \/ StartToken(t) \/ CheckMarket(t) \/ DeployToken(t) \/ DeployFeed(t)
    \/ ConfigureMarket(t) \/ PrintToken(t)
    \/ StartUpgrade(t) \/ StartUpgradeV3(t) \/ CheckCode(t) \/ DeployImpl(t)
    \/ UpgradeToV2(t) \/ UpgradeToV3(t) \/ Report(t)
    \/ Dies(t)

Spec == Init /\ [][Next]_vars
-----------------------------------------------------------------------------
(* From its first block on the market is initialised and runs one of its   *)
(* three implementations, under V3 with an AuctionNFT that is a contract,  *)
(* whatever scripts ran, overlapped or died; and a token of this project   *)
(* is never enabled with decimals other than its own, which every quote    *)
(* would be wrong by (initialize in the proxy's constructor, initializeV3  *)
(* in upgradeToAndCall, setPaymentToken with the constructor's decimals).  *)
MarketSound ==
  /\ journal.proxy # ZeroAddress =>
       /\ store.initialized
       /\ store.impl \in DOMAIN code /\ KindOf(store.impl) \in Market
       /\ KindOf(store.impl) = "AuctionMarketV3" => HasCode(store.auctionNft)
  /\ \A a \in DOMAIN store.tokens :
       a \in DOMAIN code => store.tokens[a].decimals = code[a].decimals

(* What the script reports after configuring the market stays true: the    *)
(* token is enabled at the reported feed and decimals, also after the      *)
(* upgrades and the other tokens that came later.  The feed answers only   *)
(* if the script deployed it: one that the environment names is taken      *)
(* unseen and may have no code, so that every bid in the token reverts.    *)
ReportHolds ==
  \A p \in printed : p.configured =>
    /\ p.token \in DOMAIN store.tokens
    /\ store.tokens[p.token] = [feed |-> p.feed, decimals |-> p.decimals]
    /\ p.feed # ZeroAddress
    /\ p.mock => p.feed \in DOMAIN code /\ KindOf(p.feed) = "MockV3Aggregator"

(* AuctionMarketV3.sol:76 says that initializeV3 runs once only: whichever *)
(* scripts run later, also at once and with another AUCTION_NFT_ADDRESS,   *)
(* the market keeps the AuctionNFT whose tokens it may hold.  This has its *)
(* price.  The script of V2, and no other step, takes from the front end   *)
(* functions it calls when it is run on a market of V3, and no script      *)
(* brings them back: V3's own sets the AuctionNFT in the same transaction. *)
InitializedOnce ==
  [][/\ store.auctionNft # ZeroAddress =>
          store'.auctionNft = store.auctionNft /\ Served' \subseteq Served
     /\ Served \subseteq Served' \/ \E t \in Terminals : UpgradeToV2(t)]_vars
=============================================================================
