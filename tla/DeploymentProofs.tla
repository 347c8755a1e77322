-------------------------- MODULE DeploymentProofs --------------------------
(***************************************************************************)
(* Theorems about Deployment, for any terminals, decimals, numbers of      *)
(* contracts and of scripts: whatever scripts overlap or die, the market   *)
(* stays sound, every report of a token stays true, and what initializeV3  *)
(* has set is never set again.                                             *)
(***************************************************************************)
EXTENDS Deployment, TLAPS

Names == {"AuctionNFT", "AuctionMarket", "AuctionMarketV2", "AuctionMarketV3",
          "AuctionMarketProxy", "AuctionPaymentToken", "MockV3Aggregator"}
Address == Int

Ignition == [script : {"ignition"}, at : {"modules"}]
Token == [script : {"token"},
          at : {"market", "token", "feed", "configure", "mint"},
          market : Address, decimals : Nat, mock : BOOLEAN,
          configure : BOOLEAN, token : Address, feed : Address]
Upgrade == [script : {"upgrade", "upgradeV3"},
            at : {"check", "deploy", "upgrade", "report"},
            market : Address, nft : Address, impl : Address]

(* The script a terminal runs and the contracts it has deployed.           *)
RunType ==
  run \in [Terminals -> {Idle} \union Ignition \union Token \union Upgrade]

CodeType == code \in Seq([kind : Names, decimals : Nat])

StoreType ==
  /\ store \in [impl : Address, initialized : BOOLEAN, auctionNft : Address,
                tokens : UNION {[S -> [feed : Address, decimals : Nat]] :
                                  S \in SUBSET Address}]
  /\ DOMAIN store.tokens \subseteq DOMAIN code \union {ZeroAddress}

JournalType ==
  /\ journal \in [nft : Address, implementation : Address, proxy : Address,
                  eth : BOOLEAN]
  /\ \A a \in {journal.nft, journal.implementation, journal.proxy} :
       a \in DOMAIN code \union {ZeroAddress}
  /\ journal.implementation # ZeroAddress =>
       code[journal.implementation].kind = "AuctionMarket"

PrintedType ==
  printed \subseteq [token : Address, feed : Address, decimals : Nat,
                     configured : BOOLEAN, mock : BOOLEAN]

(* A token script past the deployment of its token.                        *)
HasToken(t) ==
  run[t].script = "token" /\ run[t].at \in {"feed", "configure", "mint"}

(* A token script past the deployment of its mock feed.                    *)
HasMock(t) ==
  /\ run[t].script = "token" /\ run[t].at \in {"configure", "mint"}
  /\ run[t].mock

(* What a script knows of the contracts it has deployed and checked.       *)
Deploys ==
  \A t \in Terminals :
    /\ HasToken(t) =>
         /\ run[t].token \in DOMAIN code
         /\ code[run[t].token].decimals = run[t].decimals
    /\ HasMock(t) =>
         /\ run[t].feed \in DOMAIN code
         /\ code[run[t].feed].kind = "MockV3Aggregator"
    /\ At(t, "upgrade", "upgrade") =>
         /\ run[t].impl \in DOMAIN code
         /\ code[run[t].impl].kind = "AuctionMarketV2"
    /\ At(t, "upgradeV3", "upgrade") =>
         /\ run[t].impl \in DOMAIN code
         /\ code[run[t].impl].kind = "AuctionMarketV3"
    /\ At(t, "upgradeV3", "deploy") \/ At(t, "upgradeV3", "upgrade") =>
         HasCode(run[t].nft)

(* No two scripts and no report share a token, so that enabling one leaves *)
(* the others as they are.                                                 *)
Apart ==
  /\ \A t, u \in Terminals :
       HasToken(t) /\ HasToken(u) /\ run[t].token = run[u].token => t = u
  /\ \A p \in printed :
       /\ p.token \in DOMAIN code
       /\ \A t \in Terminals : HasToken(t) => run[t].token # p.token

(* A script that is past setPaymentToken has its token in the market.      *)
ConfiguredRuns ==
  \A t \in Terminals : At(t, "token", "mint") /\ run[t].configure =>
    /\ run[t].token \in DOMAIN store.tokens
    /\ store.tokens[run[t].token] =
         [feed |-> run[t].feed, decimals |-> run[t].decimals]
    /\ run[t].feed # ZeroAddress

TypeInv == CodeType /\ RunType /\ StoreType /\ JournalType /\ PrintedType
IInv == /\ TypeInv /\ Deploys /\ Apart /\ ConfiguredRuns
        /\ MarketSound /\ ReportHolds
-----------------------------------------------------------------------------
LEMMA DeployedCode ==
  ASSUME CodeType, NEW k \in Names, NEW d \in Nat, Deployed(k, d)
  PROVE  /\ CodeType'
         /\ NewAddress \in Int /\ NewAddress > 0
         /\ NewAddress \notin DOMAIN code
         /\ DOMAIN code' = DOMAIN code \union {NewAddress}
         /\ \A a \in DOMAIN code : code'[a] = code[a]
         /\ code'[NewAddress] = [kind |-> k, decimals |-> d]
BY DEF CodeType, Deployed, NewAddress

(* An empty chain, before any script.                                      *)
THEOREM InitInv == Init => IInv
<1> SUFFICES ASSUME Init PROVE IInv
  OBVIOUS
<1>1. TypeInv
  BY DEF Init, TypeInv, CodeType, RunType, StoreType, JournalType, PrintedType,
         NoStore, ZeroAddress, Address
<1>2. Deploys /\ Apart /\ ConfiguredRuns
  BY DEF Init, Deploys, Apart, ConfiguredRuns, HasToken, HasMock, At, Idle
<1>3. MarketSound /\ ReportHolds
  BY DEF Init, MarketSound, ReportHolds, NoStore
<1> QED
  BY <1>1, <1>2, <1>3 DEF IInv

(* What a step that only moves a script on leaves as it is.                *)
LEMMA ChainKept ==
  ASSUME IInv, UNCHANGED <<code, store, journal, printed>>
  PROVE  /\ CodeType' /\ StoreType' /\ JournalType' /\ PrintedType'
         /\ MarketSound' /\ ReportHolds'
BY DEF IInv, TypeInv, CodeType, StoreType, JournalType, PrintedType,
       MarketSound, ReportHolds, HasCode, KindOf

(* What a deployment leaves as it is: everything said of older contracts.  *)
LEMMA ChainGrown ==
  ASSUME IInv, NEW k \in Names, NEW d \in Nat, Deployed(k, d),
         UNCHANGED <<store, printed>>
  PROVE  /\ CodeType' /\ StoreType' /\ PrintedType' /\ ReportHolds'
         /\ journal' = journal => JournalType' /\ MarketSound'
<1> USE DEF IInv, TypeInv
<1>1. /\ CodeType'
      /\ NewAddress \in Int /\ NewAddress > 0
      /\ NewAddress \notin DOMAIN code
      /\ DOMAIN code' = DOMAIN code \union {NewAddress}
      /\ \A a \in DOMAIN code : code'[a] = code[a]
  BY DeployedCode
<1>2. StoreType'
  BY <1>1 DEF StoreType, ZeroAddress
<1>3. PrintedType' /\ ReportHolds'
  BY <1>1 DEF PrintedType, ReportHolds, KindOf
<1>4. ASSUME journal' = journal PROVE JournalType'
  BY <1>1, <1>4 DEF JournalType, ZeroAddress
<1>5. NewAddress \notin DOMAIN store.tokens
  BY <1>1 DEF StoreType, ZeroAddress
<1>6. ASSUME journal' = journal PROVE MarketSound'
  BY <1>1, <1>5, <1>6 DEF MarketSound, HasCode, KindOf, ZeroAddress
<1> QED
  BY <1>1, <1>2, <1>3, <1>4, <1>6

LEMMA StartInv ==
  ASSUME IInv, NEW t \in Terminals,
         StartIgnition(t) \/ StartToken(t) \/ StartUpgrade(t)
           \/ StartUpgradeV3(t)
  PROVE  IInv'
<1> USE DEF IInv, TypeInv
<1>1. UNCHANGED <<code, store, journal, printed>>
  BY DEF StartIgnition, StartToken, StartUpgrade, StartUpgradeV3, Start
<1>2. PICK r \in Ignition \union Token \union Upgrade :
        /\ run' = [run EXCEPT ![t] = r]
        /\ r.at \in {"modules", "market", "token", "check"}
  <2> DEFINE New(r) == r.at \in {"modules", "market", "token", "check"}
  <2>1. CASE StartIgnition(t)
    <3> DEFINE r == [script |-> "ignition", at |-> "modules"]
    <3>1. r \in Ignition /\ New(r)
      BY DEF Ignition
    <3>2. run' = [run EXCEPT ![t] = r]
      BY <2>1 DEF StartIgnition, Start
    <3> QED
      BY <3>1, <3>2
  <2>2. CASE StartToken(t)
    <3>1. PICK mock, c \in BOOLEAN, d \in Decimals,
               m \in Addresses \union {ZeroAddress},
               feed \in FeedAddresses :
            Start(t, [script |-> "token",
                      at |-> IF c THEN "market" ELSE "token",
                      market |-> m, decimals |-> d, mock |-> mock,
                      configure |-> c, token |-> ZeroAddress,
                      feed |-> feed])
      BY <2>2 DEF StartToken, FeedAddresses
    <3> DEFINE r == [script |-> "token",
                     at |-> IF c THEN "market" ELSE "token",
                     market |-> m, decimals |-> d, mock |-> mock,
                     configure |-> c, token |-> ZeroAddress,
                     feed |-> feed]
    <3>2. m \in Address /\ feed \in Address /\ d \in Nat
      BY DeploymentBounds DEF Addresses, JournalType, Address, NoCode,
         FeedAddresses, EthFeed, ZeroAddress
    <3>3. r \in Token /\ New(r)
      BY <3>2 DEF Token, Address, ZeroAddress
    <3>4. run' = [run EXCEPT ![t] = r]
      BY <3>1 DEF Start
    <3> QED
      BY <3>3, <3>4
  <2>3. CASE StartUpgrade(t)
    <3>1. PICK m \in Addresses :
            Start(t, [script |-> "upgrade", at |-> "check", market |-> m,
                      nft |-> ZeroAddress, impl |-> ZeroAddress])
      BY <2>3 DEF StartUpgrade
    <3> DEFINE r == [script |-> "upgrade", at |-> "check", market |-> m,
                     nft |-> ZeroAddress, impl |-> ZeroAddress]
    <3>2. r \in Upgrade /\ New(r)
      BY DEF Upgrade, Addresses, JournalType, Address, NoCode, ZeroAddress
    <3>3. run' = [run EXCEPT ![t] = r]
      BY <3>1 DEF Start
    <3> QED
      BY <3>2, <3>3
  <2>4. CASE StartUpgradeV3(t)
    <3>1. PICK m, n \in Addresses :
            Start(t, [script |-> "upgradeV3", at |-> "check", market |-> m,
                      nft |-> n, impl |-> ZeroAddress])
      BY <2>4 DEF StartUpgradeV3
    <3> DEFINE r == [script |-> "upgradeV3", at |-> "check", market |-> m,
                     nft |-> n, impl |-> ZeroAddress]
    <3>2. r \in Upgrade /\ New(r)
      BY DEF Upgrade, Addresses, JournalType, Address, NoCode, ZeroAddress
    <3>3. run' = [run EXCEPT ![t] = r]
      BY <3>1 DEF Start
    <3> QED
      BY <3>2, <3>3
  <2> QED
    BY <2>1, <2>2, <2>3, <2>4
<1>3. RunType'
  BY <1>2 DEF RunType
<1>4. \A u \in Terminals : u # t => run'[u] = run[u]
  BY <1>2 DEF RunType
<1>5. run'[t] = r
  BY <1>2 DEF RunType
<1>6. Deploys' /\ Apart' /\ ConfiguredRuns'
  <2>1. Deploys'
    BY <1>1, <1>2, <1>4, <1>5 DEF Deploys, HasToken, HasMock, At, HasCode
  <2>2. Apart'
    BY <1>1, <1>2, <1>4, <1>5 DEF Apart, HasToken
  <2>3. ConfiguredRuns'
    BY <1>1, <1>2, <1>4, <1>5 DEF ConfiguredRuns, At
  <2> QED
    BY <2>1, <2>2, <2>3
<1> QED
  BY <1>1, <1>3, <1>6, ChainKept
-----------------------------------------------------------------------------
LEMMA ScriptTypes ==
  ASSUME RunType, NEW t \in Terminals
  PROVE  /\ run[t].script = "ignition" => run[t] \in Ignition
         /\ run[t].script = "token" => run[t] \in Token
         /\ run[t].script \in {"upgrade", "upgradeV3"} => run[t] \in Upgrade
BY DEF RunType, Idle, Ignition, Token, Upgrade

(* A script that ends: nothing is asked of an idle terminal.               *)
LEMMA EndInv ==
  ASSUME IInv, NEW t \in Terminals, End(t),
         UNCHANGED <<code, store, journal>>,
         \/ UNCHANGED printed
         \/ /\ At(t, "token", "mint")
            /\ printed' = printed \union
                 {[token |-> run[t].token, feed |-> run[t].feed,
                   decimals |-> run[t].decimals,
                   configured |-> run[t].configure,
                   mock |-> run[t].mock]}
  PROVE  IInv'
<1> USE DEF IInv, TypeInv
<1>1. /\ RunType'
      /\ run'[t] = Idle
      /\ \A u \in Terminals : u # t => run'[u] = run[u]
  BY DEF End, RunType
<1>2. Deploys' /\ ConfiguredRuns'
  BY <1>1 DEF Deploys, ConfiguredRuns, HasToken, HasMock, At, HasCode, Idle
<1>3. CASE UNCHANGED printed
  <2>1. Apart'
    BY <1>1, <1>3 DEF Apart, HasToken, Idle
  <2> QED
    BY <1>1, <1>2, <1>3, <2>1, ChainKept
<1>4. CASE /\ At(t, "token", "mint")
           /\ printed' = printed \union
                {[token |-> run[t].token, feed |-> run[t].feed,
                  decimals |-> run[t].decimals,
                  configured |-> run[t].configure,
                  mock |-> run[t].mock]}
  <2>1. run[t] \in Token /\ HasToken(t)
    BY <1>4, ScriptTypes DEF At, HasToken
  <2>2. CodeType' /\ StoreType' /\ JournalType' /\ MarketSound'
    BY DEF CodeType, StoreType, JournalType, MarketSound, HasCode, KindOf
  <2>3. PrintedType'
    BY <1>4, <2>1 DEF PrintedType, Token
  <2>4. ReportHolds'
    BY <1>4, <2>1 DEF ReportHolds, ConfiguredRuns, Deploys, HasMock, At, KindOf
  <2>5. Apart'
    BY <1>1, <1>4, <2>1 DEF Apart, Deploys, HasToken, Idle
  <2> QED
    BY <1>1, <1>2, <2>2, <2>3, <2>4, <2>5
<1> QED
  BY <1>3, <1>4

LEMMA CheckInv ==
  ASSUME IInv, NEW t \in Terminals, CheckMarket(t) \/ CheckCode(t)
  PROVE  IInv'
<1> USE DEF IInv, TypeInv
<1>1. UNCHANGED <<code, store, journal, printed>>
  BY DEF CheckMarket, CheckCode
<1>2. PICK step \in {"token", "deploy"} :
        /\ run' = [run EXCEPT ![t].at = step]
        /\ step = "token" => run[t].script = "token"
        /\ step = "deploy" => run[t].script \in {"upgrade", "upgradeV3"}
        /\ step = "deploy" /\ run[t].script = "upgradeV3" => HasCode(run[t].nft)
  BY DEF CheckMarket, CheckCode, Goto, At
<1>3. run[t] \in Token \union Upgrade
  BY <1>2, ScriptTypes
<1>4. /\ run'[t] = [run[t] EXCEPT !.at = step]
      /\ \A u \in Terminals : u # t => run'[u] = run[u]
  BY <1>2 DEF RunType
<1>5. run'[t] \in Token \union Upgrade
  BY <1>2, <1>3, <1>4 DEF Token, Upgrade
<1>6. RunType'
  BY <1>2, <1>5, <1>4 DEF RunType
<1>7. /\ run'[t].at = step /\ run'[t].script = run[t].script
      /\ run[t].script = "upgradeV3" => run'[t].nft = run[t].nft
  BY <1>2, <1>3, <1>4 DEF Token, Upgrade
<1>8. Deploys'
  BY <1>1, <1>2, <1>4, <1>7 DEF Deploys, HasToken, HasMock, At, HasCode
<1>9. Apart'
  BY <1>1, <1>2, <1>4, <1>7 DEF Apart, HasToken
<1>10. ConfiguredRuns'
  BY <1>1, <1>2, <1>4, <1>7 DEF ConfiguredRuns, At
<1> QED
  BY <1>1, <1>6, <1>8, <1>9, <1>10, ChainKept

(* What a deployment leaves of what the scripts other than t know.         *)
LEMMA OthersKept ==
  ASSUME IInv, NEW t \in Terminals, NEW k \in Names, NEW d \in Nat,
         Deployed(k, d), NEW u \in Terminals, run'[u] = run[u],
         UNCHANGED store
  PROVE  /\ HasToken(u)' <=> HasToken(u)
         /\ HasToken(u)' =>
              /\ run'[u].token \in DOMAIN code'
              /\ code'[run'[u].token].decimals = run'[u].decimals
         /\ HasMock(u)' =>
              /\ run'[u].feed \in DOMAIN code'
              /\ code'[run'[u].feed].kind = "MockV3Aggregator"
         /\ At(u, "upgrade", "upgrade")' =>
              /\ run'[u].impl \in DOMAIN code'
              /\ code'[run'[u].impl].kind = "AuctionMarketV2"
         /\ At(u, "upgradeV3", "upgrade")' =>
              /\ run'[u].impl \in DOMAIN code'
              /\ code'[run'[u].impl].kind = "AuctionMarketV3"
         /\ At(u, "upgradeV3", "deploy")' \/ At(u, "upgradeV3", "upgrade")' =>
              HasCode(run[u].nft)'
         /\ At(u, "token", "mint")' /\ run'[u].configure =>
              /\ run'[u].token \in DOMAIN store'.tokens
              /\ store'.tokens[run'[u].token] =
                   [feed |-> run'[u].feed, decimals |-> run'[u].decimals]
              /\ run'[u].feed # ZeroAddress
<1>1. /\ DOMAIN code' = DOMAIN code \union {NewAddress}
      /\ \A a \in DOMAIN code : code'[a] = code[a]
  BY DeployedCode DEF IInv, TypeInv
<1> QED
  BY <1>1 DEF IInv, Deploys, ConfiguredRuns, HasToken, HasMock, At, HasCode

(* A step after which no other script has a token and none another one.     *)
LEMMA ApartKept ==
  ASSUME IInv, UNCHANGED printed, DOMAIN code \subseteq DOMAIN code',
         \A u \in Terminals :
           HasToken(u)' => HasToken(u) /\ run'[u].token = run[u].token
  PROVE  Apart'
<1>1. ASSUME NEW u \in Terminals, NEW v \in Terminals,
             HasToken(u)', HasToken(v)', run'[u].token = run'[v].token
      PROVE  u = v
  BY <1>1 DEF IInv, Apart
<1>2. ASSUME NEW p \in printed'
      PROVE  /\ p.token \in DOMAIN code'
             /\ \A u \in Terminals : HasToken(u)' => run'[u].token # p.token
  BY <1>2 DEF IInv, Apart
<1> QED
  BY <1>1, <1>2 DEF Apart

LEMMA IgnitionInv ==
  ASSUME IInv, NEW t \in Terminals,
         IgnitionNft(t) \/ IgnitionImplementation(t) \/ IgnitionProxy(t)
  PROVE  IInv'
<1> USE DEF IInv, TypeInv
<1>1. PICK k \in {"AuctionNFT", "AuctionMarket", "AuctionMarketProxy"} :
        /\ Deployed(k, 0)
        /\ k = "AuctionNFT" => journal' = [journal EXCEPT !.nft = NewAddress]
        /\ k = "AuctionMarket" =>
             journal' = [journal EXCEPT !.implementation = NewAddress]
        /\ k # "AuctionMarketProxy" => UNCHANGED store
        /\ k = "AuctionMarketProxy" =>
             /\ journal.implementation # ZeroAddress
             /\ journal' = [journal EXCEPT !.proxy = NewAddress]
             /\ store' = [store EXCEPT !.impl = journal.implementation,
                                       !.initialized = TRUE]
        /\ UNCHANGED <<run, printed>>
  BY DEF IgnitionNft, IgnitionImplementation, IgnitionProxy
<1>2. k \in Names /\ 0 \in Nat
  BY DEF Names
<1>3. /\ CodeType'
      /\ NewAddress \in Int /\ NewAddress > 0
      /\ NewAddress \notin DOMAIN code
      /\ DOMAIN code' = DOMAIN code \union {NewAddress}
      /\ \A a \in DOMAIN code : code'[a] = code[a]
      /\ code'[NewAddress] = [kind |-> k, decimals |-> 0]
  BY <1>1, <1>2, DeployedCode
<1>4. /\ store'.tokens = store.tokens /\ store'.auctionNft = store.auctionNft
      /\ k # "AuctionMarketProxy" => store' = store
      /\ k = "AuctionMarketProxy" =>
           store'.impl = journal.implementation /\ store'.initialized
  <2> DEFINE Tokens == UNION {[S -> [feed : Address, decimals : Nat]] :
                                S \in SUBSET Address}
  <2>1. store \in [impl : Address, initialized : BOOLEAN,
                   auctionNft : Address, tokens : Tokens]
    BY DEF StoreType
  <2>2. journal.implementation \in Address
    BY DEF JournalType
  <2> HIDE DEF Tokens
  <2>3. CASE k = "AuctionMarketProxy"
    BY <1>1, <2>1, <2>2, <2>3
  <2>4. CASE k # "AuctionMarketProxy"
    BY <1>1, <2>1, <2>4
  <2> QED
    BY <2>3, <2>4
<1>5. StoreType'
  <2> DEFINE Tokens == UNION {[S -> [feed : Address, decimals : Nat]] :
                                S \in SUBSET Address}
  <2>1. store \in [impl : Address, initialized : BOOLEAN,
                   auctionNft : Address, tokens : Tokens]
    BY DEF StoreType
  <2>2. journal.implementation \in Address
    BY DEF JournalType
  <2> HIDE DEF Tokens
  <2>3. store' \in [impl : Address, initialized : BOOLEAN,
                    auctionNft : Address, tokens : Tokens]
    BY <1>1, <2>1, <2>2
  <2>4. store' \in [impl : Address, initialized : BOOLEAN,
                    auctionNft : Address,
                    tokens : UNION {[S -> [feed : Address, decimals : Nat]] :
                                      S \in SUBSET Address}]
    BY <2>3 DEF Tokens
  <2>5. DOMAIN store'.tokens \subseteq DOMAIN code' \union {ZeroAddress}
    BY <1>3, <1>4 DEF StoreType
  <2> QED
    BY <2>4, <2>5 DEF StoreType
<1>6. JournalType'
  BY <1>1, <1>3 DEF JournalType, Address, ZeroAddress
<1>7. /\ journal'.proxy # ZeroAddress =>
           \/ journal.proxy # ZeroAddress /\ store' = store
           \/ k = "AuctionMarketProxy"
  BY <1>1 DEF JournalType
<1>8. MarketSound'
  <2>1. \A a \in DOMAIN store'.tokens :
          a \in DOMAIN code' => store'.tokens[a].decimals = code'[a].decimals
    BY <1>3, <1>4 DEF MarketSound, StoreType, ZeroAddress
  <2>2. ASSUME journal'.proxy # ZeroAddress
        PROVE  /\ store'.initialized
               /\ store'.impl \in DOMAIN code' /\ KindOf(store.impl)' \in Market
               /\ KindOf(store.impl)' = "AuctionMarketV3" =>
                    HasCode(store.auctionNft)'
    <3>1. CASE journal.proxy # ZeroAddress /\ store' = store
      BY <1>3, <3>1 DEF MarketSound, HasCode, KindOf
    <3>2. CASE k = "AuctionMarketProxy"
      BY <1>1, <1>3, <1>4, <3>2 DEF JournalType, KindOf, Market
    <3> QED
      BY <1>7, <2>2, <3>1, <3>2
  <2> QED
    BY <2>1, <2>2 DEF MarketSound
<1>9. RunType' /\ PrintedType' /\ Apart'
  BY <1>1, <1>3 DEF RunType, PrintedType, Apart, HasToken
<1>10. Deploys'
  BY <1>1, <1>3 DEF Deploys, HasToken, HasMock, At, HasCode
<1>11. ConfiguredRuns' /\ ReportHolds'
  BY <1>1, <1>3, <1>4 DEF ConfiguredRuns, ReportHolds, At, KindOf
<1> QED
  BY <1>3, <1>5, <1>6, <1>8, <1>9, <1>10, <1>11

LEMMA DeployTokenInv ==
  ASSUME IInv, NEW t \in Terminals, DeployToken(t)
  PROVE  IInv'
<1> USE DEF IInv, TypeInv
<1>1. run[t] \in Token /\ run[t].at = "token"
  BY ScriptTypes DEF DeployToken, At
<1>2. /\ Deployed("AuctionPaymentToken", run[t].decimals)
      /\ "AuctionPaymentToken" \in Names /\ run[t].decimals \in Nat
      /\ UNCHANGED <<store, journal, printed>>
  BY <1>1 DEF DeployToken, Token, Names
<1>3. /\ NewAddress \in Int /\ NewAddress > 0
      /\ NewAddress \notin DOMAIN code
      /\ DOMAIN code' = DOMAIN code \union {NewAddress}
      /\ \A a \in DOMAIN code : code'[a] = code[a]
      /\ code'[NewAddress].decimals = run[t].decimals
  <2>1. code'[NewAddress] =
          [kind |-> "AuctionPaymentToken", decimals |-> run[t].decimals]
    BY <1>2, DeployedCode
  <2> QED
    BY <1>2, <2>1, DeployedCode
<1>4. PICK step \in {"feed", "configure"} :
        /\ run' = [run EXCEPT ![t].token = NewAddress, ![t].at = step]
        /\ step = "configure" => ~run[t].mock
  BY DEF DeployToken
<1>5. /\ run'[t] = [run[t] EXCEPT !.token = NewAddress, !.at = step]
      /\ \A u \in Terminals : u # t => run'[u] = run[u]
  BY <1>4 DEF RunType
<1>6. /\ run'[t] \in Token /\ run'[t].script = "token" /\ run'[t].at = step
      /\ run'[t].token = NewAddress /\ run'[t].decimals = run[t].decimals
      /\ run'[t].mock = run[t].mock
  BY <1>1, <1>3, <1>5 DEF Token, Address
<1>7. RunType'
  BY <1>4, <1>5, <1>6 DEF RunType
<1>8. Deploys'
  <2>1. ~HasMock(t)'
    BY <1>4, <1>6 DEF HasMock
  <2>2. run'[t].token \in DOMAIN code'
    BY <1>3, <1>6
  <2>3. code'[run'[t].token].decimals = run'[t].decimals
    BY <1>3, <1>6
  <2>4. ~At(t, "upgrade", "upgrade")' /\ ~At(t, "upgradeV3", "upgrade")'
        /\ ~At(t, "upgradeV3", "deploy")'
    BY <1>6 DEF At
  <2> QED
    BY <1>2, <1>5, <2>1, <2>2, <2>3, <2>4, OthersKept DEF Deploys
<1>9. Apart'
  <2>1. \A u \in Terminals : u # t => (HasToken(u)' <=> HasToken(u))
    BY <1>5 DEF HasToken
  <2>2. \A u \in Terminals : u # t /\ HasToken(u)' =>
          run'[u].token \in DOMAIN code /\ run'[u].token = run[u].token
    BY <1>5, <2>1 DEF Deploys
  <2>3. ASSUME NEW u \in Terminals, NEW v \in Terminals, HasToken(u)',
               HasToken(v)', run'[u].token = run'[v].token
        PROVE  u = v
    <3>1. CASE u = t \/ v = t
      BY <1>3, <1>6, <2>2, <2>3, <3>1
    <3>2. CASE u # t /\ v # t
      BY <2>1, <2>2, <2>3, <3>2 DEF Apart
    <3> QED
      BY <3>1, <3>2
  <2>4. ASSUME NEW p \in printed', NEW u \in Terminals, HasToken(u)'
        PROVE  p.token \in DOMAIN code' /\ run'[u].token # p.token
    BY <1>2, <1>3, <1>6, <2>1, <2>2, <2>4 DEF Apart
  <2>5. \A p \in printed' : p.token \in DOMAIN code'
    BY <1>2, <1>3 DEF Apart
  <2> QED
    BY <2>3, <2>4, <2>5 DEF Apart
<1>10. ConfiguredRuns'
  <2>1. ~At(t, "token", "mint")'
    BY <1>6 DEF At
  <2> QED
    BY <1>2, <1>5, <2>1, OthersKept DEF ConfiguredRuns
<1> QED
  BY <1>2, <1>7, <1>8, <1>9, <1>10, ChainGrown

LEMMA DeployFeedInv ==
  ASSUME IInv, NEW t \in Terminals, DeployFeed(t)
  PROVE  IInv'
<1> USE DEF IInv, TypeInv
<1>1. run[t] \in Token /\ run[t].at = "feed" /\ HasToken(t)
  BY ScriptTypes DEF DeployFeed, At, HasToken
<1>2. /\ Deployed("MockV3Aggregator", 0)
      /\ "MockV3Aggregator" \in Names /\ 0 \in Nat
      /\ UNCHANGED <<store, journal, printed>>
  BY DEF DeployFeed, Names
<1>3. /\ NewAddress \in Int /\ NewAddress > 0
      /\ NewAddress \notin DOMAIN code
      /\ DOMAIN code' = DOMAIN code \union {NewAddress}
      /\ \A a \in DOMAIN code : code'[a] = code[a]
      /\ code'[NewAddress] = [kind |-> "MockV3Aggregator", decimals |-> 0]
  BY <1>2, DeployedCode
<1>4. run' = [run EXCEPT ![t].feed = NewAddress, ![t].at = "configure"]
  BY DEF DeployFeed
<1>5. /\ run'[t] = [run[t] EXCEPT !.feed = NewAddress, !.at = "configure"]
      /\ \A u \in Terminals : u # t => run'[u] = run[u]
  BY <1>4 DEF RunType
<1>6. /\ run'[t] \in Token /\ run'[t].script = "token"
      /\ run'[t].at = "configure" /\ run'[t].token = run[t].token
      /\ run'[t].decimals = run[t].decimals /\ run'[t].feed = NewAddress
  BY <1>1, <1>3, <1>5 DEF Token, Address
<1>7. RunType'
  BY <1>4, <1>5, <1>6 DEF RunType
<1>8. Deploys'
  <2>1. /\ run'[t].token \in DOMAIN code'
        /\ code'[run'[t].token].decimals = run'[t].decimals
        /\ run'[t].feed \in DOMAIN code'
        /\ code'[run'[t].feed].kind = "MockV3Aggregator"
    BY <1>1, <1>3, <1>6 DEF Deploys
  <2> QED
    BY <1>2, <1>5, <1>6, <2>1, OthersKept DEF Deploys, HasToken, At
<1>9. Apart'
  <2>1. \A u \in Terminals :
          HasToken(u)' => HasToken(u) /\ run'[u].token = run[u].token
    BY <1>1, <1>5, <1>6 DEF HasToken
  <2> QED
    BY <1>2, <1>3, <2>1, ApartKept
<1>10. ConfiguredRuns'
  <2>1. ~At(t, "token", "mint")'
    BY <1>6 DEF At
  <2> QED
    BY <1>2, <1>5, <2>1, OthersKept DEF ConfiguredRuns
<1> QED
  BY <1>2, <1>7, <1>8, <1>9, <1>10, ChainGrown

LEMMA DeployImplInv ==
  ASSUME IInv, NEW t \in Terminals, DeployImpl(t)
  PROVE  IInv'
<1> USE DEF IInv, TypeInv
<1>1. PICK k \in {"AuctionMarketV2", "AuctionMarketV3"} :
        /\ Deployed(k, 0)
        /\ run[t].at = "deploy"
        /\ k = "AuctionMarketV2" => run[t].script = "upgrade"
        /\ k = "AuctionMarketV3" => run[t].script = "upgradeV3"
        /\ UNCHANGED <<store, journal, printed>>
  BY DEF DeployImpl, At
<1>2. k \in Names /\ 0 \in Nat
  BY DEF Names
<1>3. /\ NewAddress \in Int /\ NewAddress > 0
      /\ DOMAIN code' = DOMAIN code \union {NewAddress}
      /\ \A a \in DOMAIN code : code'[a] = code[a]
      /\ code'[NewAddress] = [kind |-> k, decimals |-> 0]
  BY <1>1, <1>2, DeployedCode
<1>4. run[t] \in Upgrade
  BY <1>1, ScriptTypes
<1>5. run' = [run EXCEPT ![t].impl = NewAddress, ![t].at = "upgrade"]
  BY DEF DeployImpl
<1>6. /\ run'[t] = [run[t] EXCEPT !.impl = NewAddress, !.at = "upgrade"]
      /\ \A u \in Terminals : u # t => run'[u] = run[u]
  BY <1>5 DEF RunType
<1>7. /\ run'[t] \in Upgrade /\ run'[t].script = run[t].script
      /\ run'[t].at = "upgrade" /\ run'[t].impl = NewAddress
      /\ run'[t].nft = run[t].nft
      /\ run'[t].script # "token"
  BY <1>3, <1>4, <1>6 DEF Upgrade, Address
<1>8. RunType'
  BY <1>5, <1>6, <1>7 DEF RunType
<1>9. Deploys'
  <2>1. run'[t].impl \in DOMAIN code' /\ code'[run'[t].impl].kind = k
    BY <1>3, <1>7
  <2>2. At(t, "upgrade", "upgrade")' => k = "AuctionMarketV2"
    BY <1>1, <1>7 DEF At
  <2>3. At(t, "upgradeV3", "upgrade")' => k = "AuctionMarketV3"
    BY <1>1, <1>7 DEF At
  <2>4. run'[t].script = "upgradeV3" => HasCode(run[t].nft)'
    BY <1>1, <1>3, <1>7 DEF Deploys, At, HasCode
  <2>5. ~HasToken(t)' /\ ~HasMock(t)' /\ (At(t, "upgradeV3", "deploy")'
          \/ At(t, "upgradeV3", "upgrade")' => run'[t].script = "upgradeV3")
    BY <1>7 DEF HasToken, HasMock, At
  <2> QED
    BY <1>1, <1>2, <1>6, <1>7, <2>1, <2>2, <2>3, <2>4, <2>5, OthersKept
       DEF Deploys
<1>10. Apart'
  <2>1. \A u \in Terminals :
          HasToken(u)' => HasToken(u) /\ run'[u].token = run[u].token
    BY <1>6, <1>7 DEF HasToken
  <2> QED
    BY <1>1, <1>3, <2>1, ApartKept
<1>11. ConfiguredRuns'
  <2>1. ~At(t, "token", "mint")'
    BY <1>7 DEF At
  <2> QED
    BY <1>1, <1>2, <1>6, <2>1, OthersKept DEF ConfiguredRuns
<1> QED
  BY <1>1, <1>2, <1>8, <1>9, <1>10, <1>11, ChainGrown
-----------------------------------------------------------------------------
(* The table of payment tokens after setPaymentToken.                      *)
LEMMA EnabledTokens ==
  ASSUME StoreType, NEW c \in [token : Address, feed : Address, decimals : Nat],
         c.token \in DOMAIN code \union {ZeroAddress}, UNCHANGED code,
         store' = [store EXCEPT !.tokens = Enabled(@, c)]
  PROVE  /\ StoreType'
         /\ DOMAIN store'.tokens = DOMAIN store.tokens \union {c.token}
         /\ store'.tokens[c.token] = [feed |-> c.feed, decimals |-> c.decimals]
         /\ \A a \in DOMAIN store.tokens :
              a # c.token => store'.tokens[a] = store.tokens[a]
         /\ store'.impl = store.impl
         /\ store'.initialized = store.initialized
         /\ store'.auctionNft = store.auctionNft
<1> DEFINE Entry == [feed : Address, decimals : Nat]
           Tokens == UNION {[S -> Entry] : S \in SUBSET Address}
           new == Enabled(store.tokens, c)
<1>1. store \in [impl : Address, initialized : BOOLEAN,
                 auctionNft : Address, tokens : Tokens]
  BY DEF StoreType
<1>2. PICK S \in SUBSET Address : store.tokens \in [S -> Entry]
  BY <1>1
<1>3. /\ DOMAIN new = S \union {c.token}
      /\ new[c.token] = [feed |-> c.feed, decimals |-> c.decimals]
      /\ \A a \in S : a # c.token => new[a] = store.tokens[a]
      /\ new \in [S \union {c.token} -> Entry]
  BY <1>2 DEF Enabled
<1>4. new \in Tokens
  <2>1. S \union {c.token} \in SUBSET Address
    BY <1>2
  <2> QED
    BY <1>3, <2>1
<1>5. store' = [store EXCEPT !.tokens = new]
  OBVIOUS
<1> HIDE DEF Tokens, new
<1>6. /\ store' \in [impl : Address, initialized : BOOLEAN,
                     auctionNft : Address, tokens : Tokens]
      /\ store'.tokens = new /\ store'.impl = store.impl
      /\ store'.initialized = store.initialized
      /\ store'.auctionNft = store.auctionNft
  BY <1>1, <1>4, <1>5
<1>7. DOMAIN store.tokens = S
  BY <1>2
<1>8. StoreType'
  <2>1. DOMAIN store'.tokens \subseteq DOMAIN code' \union {ZeroAddress}
    BY <1>3, <1>6, <1>7 DEF StoreType
  <2> QED
    BY <1>6, <2>1 DEF StoreType, Tokens
<1> QED
  BY <1>3, <1>6, <1>7, <1>8

LEMMA IgnitionEnableEthInv ==
  ASSUME IInv, NEW t \in Terminals, IgnitionEnableEth(t)
  PROVE  IInv'
<1> USE DEF IInv, TypeInv
<1>1. Configured(ZeroAddress, EthFeed, EthDecimals)
        \in [token : Address, feed : Address, decimals : Nat]
  BY DEF Configured, ZeroAddress, EthFeed, EthDecimals, Address
<1>2. /\ UNCHANGED <<code, run, printed>>
      /\ journal' = [journal EXCEPT !.eth = TRUE]
      /\ store' = [store EXCEPT !.tokens =
                     Enabled(@, Configured(ZeroAddress, EthFeed, EthDecimals))]
  BY DEF IgnitionEnableEth
<1>3. Configured(ZeroAddress, EthFeed, EthDecimals).token = ZeroAddress
  BY DEF Configured
<1>4. /\ StoreType'
      /\ DOMAIN store'.tokens = DOMAIN store.tokens \union {ZeroAddress}
      /\ \A a \in DOMAIN store.tokens :
           a # ZeroAddress => store'.tokens[a] = store.tokens[a]
      /\ store'.impl = store.impl /\ store'.initialized = store.initialized
      /\ store'.auctionNft = store.auctionNft
  BY <1>1, <1>2, <1>3, EnabledTokens
<1>5. ZeroAddress \notin DOMAIN code
  BY DEF CodeType, ZeroAddress
<1>6. CodeType' /\ RunType' /\ JournalType' /\ PrintedType'
  BY <1>2 DEF CodeType, RunType, JournalType, PrintedType
<1>7. Deploys' /\ Apart'
  BY <1>2 DEF Deploys, Apart, HasToken, HasMock, At, HasCode
<1>8. ConfiguredRuns'
  BY <1>2, <1>4, <1>5 DEF ConfiguredRuns, Deploys, HasToken, At
<1>9. MarketSound'
  BY <1>2, <1>4, <1>5 DEF MarketSound, HasCode, KindOf, JournalType
<1>10. ReportHolds'
  BY <1>2, <1>4, <1>5 DEF ReportHolds, Apart, KindOf
<1> QED
  BY <1>4, <1>6, <1>7, <1>8, <1>9, <1>10

(* The market may be left alone, or the token of this script enabled, which *)
(* no report and no other script shares.                                   *)
LEMMA ConfigureInv ==
  ASSUME IInv, NEW t \in Terminals, ConfigureMarket(t)
  PROVE  IInv'
<1> USE DEF IInv, TypeInv
<1>1. run[t] \in Token /\ HasToken(t)
  BY ScriptTypes DEF ConfigureMarket, At, HasToken
<1>2. /\ UNCHANGED <<code, journal, printed>>
      /\ run' = [run EXCEPT ![t].at = "mint"]
  BY DEF ConfigureMarket, Goto
<1>3. /\ run'[t] = [run[t] EXCEPT !.at = "mint"]
      /\ \A u \in Terminals : u # t => run'[u] = run[u]
  BY <1>2 DEF RunType
<1>4. /\ run'[t] \in Token /\ run'[t].script = "token"
      /\ run'[t].at = "mint" /\ run'[t].token = run[t].token
      /\ run'[t].feed = run[t].feed /\ run'[t].decimals = run[t].decimals
      /\ run'[t].configure = run[t].configure /\ run'[t].mock = run[t].mock
  BY <1>1, <1>3 DEF Token
<1>5. RunType'
  BY <1>2, <1>3, <1>4 DEF RunType
<1>6. \A u \in Terminals :
        HasToken(u)' => HasToken(u) /\ run'[u].token = run[u].token
  BY <1>1, <1>3, <1>4 DEF HasToken
<1>7. Apart'
  BY <1>2, <1>6, ApartKept
<1>8. Deploys'
  <2>1. run[t].at = "configure"
    BY DEF ConfigureMarket, At
  <2> QED
    BY <1>1, <1>2, <1>3, <1>4, <1>6, <2>1 DEF Deploys, HasMock, At, HasCode
<1>9. CodeType' /\ JournalType' /\ PrintedType'
  BY <1>2 DEF CodeType, JournalType, PrintedType
<1>10. CASE ~run[t].configure
  <2>1. UNCHANGED store
    BY <1>10 DEF ConfigureMarket
  <2>2. ConfiguredRuns'
    BY <1>3, <1>4, <1>10, <2>1 DEF ConfiguredRuns, At
  <2> QED
    BY <1>2, <1>5, <1>7, <1>8, <2>1, <2>2, ChainKept
<1>11. CASE run[t].configure
  <2> DEFINE c == Configured(run[t].token, run[t].feed, run[t].decimals)
  <2>1. /\ c \in [token : Address, feed : Address, decimals : Nat]
        /\ c.token = run[t].token /\ c.feed = run[t].feed
        /\ c.decimals = run[t].decimals
    BY <1>1 DEF Configured, Token
  <2>2. c.token \in DOMAIN code /\ code[c.token].decimals = c.decimals
    BY <1>1, <2>1 DEF Deploys
  <2>3. store' = [store EXCEPT !.tokens = Enabled(@, c)]
    BY <1>11 DEF ConfigureMarket
  <2> HIDE DEF c
  <2>4. /\ StoreType'
        /\ DOMAIN store'.tokens = DOMAIN store.tokens \union {c.token}
        /\ store'.tokens[c.token] = [feed |-> c.feed, decimals |-> c.decimals]
        /\ \A a \in DOMAIN store.tokens :
             a # c.token => store'.tokens[a] = store.tokens[a]
        /\ store'.impl = store.impl
        /\ store'.initialized = store.initialized
        /\ store'.auctionNft = store.auctionNft
    BY <1>2, <2>1, <2>2, <2>3, EnabledTokens
  <2>5. ConfiguredRuns'
    <3>1. ASSUME NEW u \in Terminals, u # t, At(u, "token", "mint")',
                 run'[u].configure
          PROVE  /\ run'[u].token \in DOMAIN store'.tokens
                 /\ store'.tokens[run'[u].token] =
                      [feed |-> run'[u].feed, decimals |-> run'[u].decimals]
                 /\ run'[u].feed # ZeroAddress
      <4>1. At(u, "token", "mint") /\ HasToken(u) /\ run[u].configure
        BY <1>3, <3>1 DEF At, HasToken
      <4>2. run[u].token # c.token
        BY <1>1, <2>1, <3>1, <4>1 DEF Apart
      <4> QED
        BY <1>3, <2>4, <3>1, <4>1, <4>2 DEF ConfiguredRuns
    <3>2. /\ run'[t].token \in DOMAIN store'.tokens
          /\ store'.tokens[run'[t].token] =
               [feed |-> run'[t].feed, decimals |-> run'[t].decimals]
          /\ run'[t].feed # ZeroAddress
      BY <1>4, <1>11, <2>1, <2>4 DEF ConfigureMarket
    <3> QED
      BY <3>1, <3>2 DEF ConfiguredRuns
  <2>6. MarketSound'
    BY <1>2, <2>2, <2>4 DEF MarketSound, HasCode, KindOf
  <2>7. ReportHolds'
    BY <1>1, <1>2, <2>1, <2>4 DEF ReportHolds, Apart, KindOf
  <2> QED
    BY <1>5, <1>7, <1>8, <1>9, <2>4, <2>5, <2>6, <2>7
<1> QED
  BY <1>1, <1>10, <1>11 DEF Token

LEMMA UpgradeInv ==
  ASSUME IInv, NEW t \in Terminals, UpgradeToV2(t) \/ UpgradeToV3(t)
  PROVE  IInv'
<1> USE DEF IInv, TypeInv
<1>1. /\ UNCHANGED <<code, journal, printed>>
      /\ run' = [run EXCEPT ![t].at = "report"]
      /\ run[t].at = "upgrade"
      /\ run[t].script \in {"upgrade", "upgradeV3"}
  BY DEF UpgradeToV2, UpgradeToV3, Goto, At
<1>2. run[t] \in Upgrade
  BY <1>1, ScriptTypes
<1>3. /\ run'[t] = [run[t] EXCEPT !.at = "report"]
      /\ \A u \in Terminals : u # t => run'[u] = run[u]
  BY <1>1 DEF RunType
<1>4. /\ run'[t] \in Upgrade /\ run'[t].at = "report"
      /\ run'[t].script = run[t].script /\ run'[t].script # "token"
  BY <1>1, <1>2, <1>3 DEF Upgrade
<1>5. RunType'
  BY <1>1, <1>3, <1>4 DEF RunType
<1>6. PICK n \in Address :
        /\ store' = [store EXCEPT !.impl = run[t].impl, !.auctionNft = n]
        /\ UpgradeToV3(t) => n = run[t].nft
  <2>1. CASE UpgradeToV2(t)
    <3>1. store' = [store EXCEPT !.impl = run[t].impl,
                                 !.auctionNft = store.auctionNft]
      BY <2>1 DEF UpgradeToV2, StoreType
    <3>2. ~UpgradeToV3(t)
      BY <2>1 DEF UpgradeToV2, UpgradeToV3, At
    <3>3. store.auctionNft \in Address
      BY DEF StoreType
    <3> QED
      BY <3>1, <3>2, <3>3
  <2>2. CASE UpgradeToV3(t)
    BY <1>2, <2>2 DEF UpgradeToV3, Upgrade
  <2> QED
    BY <2>1, <2>2
<1>7. /\ store'.impl = run[t].impl /\ store'.auctionNft = n
      /\ store'.tokens = store.tokens
      /\ store'.initialized = store.initialized
      /\ StoreType'
  <2> DEFINE Tokens == UNION {[S -> [feed : Address, decimals : Nat]] :
                                S \in SUBSET Address}
  <2>1. store \in [impl : Address, initialized : BOOLEAN,
                   auctionNft : Address, tokens : Tokens]
    BY DEF StoreType
  <2>2. run[t].impl \in Address
    BY <1>2 DEF Upgrade
  <2> HIDE DEF Tokens
  <2>3. /\ store' \in [impl : Address, initialized : BOOLEAN,
                       auctionNft : Address, tokens : Tokens]
        /\ store'.impl = run[t].impl /\ store'.auctionNft = n
        /\ store'.tokens = store.tokens
        /\ store'.initialized = store.initialized
    BY <1>6, <2>1, <2>2
  <2>4. store' \in [impl : Address, initialized : BOOLEAN,
                    auctionNft : Address,
                    tokens : UNION {[S -> [feed : Address, decimals : Nat]] :
                                      S \in SUBSET Address}]
    BY <2>3 DEF Tokens
  <2>5. DOMAIN store'.tokens \subseteq DOMAIN code' \union {ZeroAddress}
    BY <1>1, <2>3 DEF StoreType
  <2> QED
    BY <2>3, <2>4, <2>5 DEF StoreType
<1>8. CodeType' /\ JournalType' /\ PrintedType'
  BY <1>1 DEF CodeType, JournalType, PrintedType
<1>9. Deploys'
  BY <1>1, <1>3, <1>4 DEF Deploys, HasToken, HasMock, At, HasCode
<1>10. Apart'
  <2>1. \A u \in Terminals :
          HasToken(u)' => HasToken(u) /\ run'[u].token = run[u].token
    BY <1>3, <1>4 DEF HasToken
  <2> QED
    BY <1>1, <2>1, ApartKept
<1>11. ConfiguredRuns'
  BY <1>3, <1>4, <1>7 DEF ConfiguredRuns, At
<1>12. MarketSound'
  <2>1. run[t].impl \in DOMAIN code
        /\ KindOf(run[t].impl) \in {"AuctionMarketV2", "AuctionMarketV3"}
    BY <1>1 DEF Deploys, At, KindOf
  <2>2. KindOf(run[t].impl) = "AuctionMarketV3" => HasCode(n)
    <3>1. CASE UpgradeToV3(t)
      BY <1>6, <3>1 DEF UpgradeToV3, Deploys, At
    <3>2. CASE UpgradeToV2(t)
      BY <3>2 DEF UpgradeToV2, Deploys, At, KindOf
    <3> QED
      BY <3>1, <3>2
  <2> QED
    BY <1>1, <1>7, <2>1, <2>2 DEF MarketSound, KindOf, HasCode, Market
<1>13. ReportHolds'
  BY <1>1, <1>7 DEF ReportHolds, KindOf
<1> QED
  BY <1>5, <1>7, <1>8, <1>9, <1>10, <1>11, <1>12, <1>13
-----------------------------------------------------------------------------
(* Every transaction, check, report and death of a script keeps the        *)
(* invariant.                                                              *)
THEOREM StepInv == IInv /\ [Next]_vars => IInv'
<1> SUFFICES ASSUME IInv, [Next]_vars PROVE IInv'
  OBVIOUS
<1>1. ASSUME NEW t \in Terminals,
             StartIgnition(t) \/ StartToken(t) \/ StartUpgrade(t)
               \/ StartUpgradeV3(t)
      PROVE  IInv'
  BY <1>1, StartInv
<1>2. ASSUME NEW t \in Terminals,
             IgnitionNft(t) \/ IgnitionImplementation(t) \/ IgnitionProxy(t)
      PROVE  IInv'
  BY <1>2, IgnitionInv
<1>3. ASSUME NEW t \in Terminals, IgnitionEnableEth(t) PROVE IInv'
  BY <1>3, IgnitionEnableEthInv
<1>4. ASSUME NEW t \in Terminals, CheckMarket(t) \/ CheckCode(t) PROVE IInv'
  BY <1>4, CheckInv
<1>5. ASSUME NEW t \in Terminals, DeployToken(t) PROVE IInv'
  BY <1>5, DeployTokenInv
<1>6. ASSUME NEW t \in Terminals, DeployFeed(t) PROVE IInv'
  BY <1>6, DeployFeedInv
<1>7. ASSUME NEW t \in Terminals, DeployImpl(t) PROVE IInv'
  BY <1>7, DeployImplInv
<1>8. ASSUME NEW t \in Terminals, ConfigureMarket(t) PROVE IInv'
  BY <1>8, ConfigureInv
<1>9. ASSUME NEW t \in Terminals, UpgradeToV2(t) \/ UpgradeToV3(t) PROVE IInv'
  BY <1>9, UpgradeInv
<1>10. ASSUME NEW t \in Terminals,
              IgnitionEnd(t) \/ PrintToken(t) \/ Report(t) \/ Dies(t)
       PROVE  IInv'
  <2>1. CASE IgnitionEnd(t) \/ Report(t) \/ Dies(t)
    BY <2>1, EndInv DEF IgnitionEnd, Report, Dies
  <2>2. CASE PrintToken(t)
    BY <2>2, EndInv DEF PrintToken
  <2> QED
    BY <1>10, <2>1, <2>2
<1>11. CASE UNCHANGED vars
  BY <1>11 DEF vars, IInv, TypeInv, CodeType, RunType, StoreType, JournalType,
     PrintedType, Deploys, Apart, ConfiguredRuns, MarketSound, ReportHolds,
     HasToken, HasMock, At, HasCode, KindOf
<1> QED
  BY <1>1, <1>2, <1>3, <1>4, <1>5, <1>6, <1>7, <1>8, <1>9, <1>10, <1>11
     DEF Next

(* Whatever scripts overlap, are repeated or die, from its first block the *)
(* market is initialised, runs one of its implementations, and never       *)
(* quotes a token of this project at decimals other than its own.          *)
THEOREM MarketAlwaysSound == Spec => []MarketSound
<1>1. IInv => MarketSound
  BY DEF IInv
<1> QED
  BY <1>1, InitInv, StepInv, PTL DEF Spec

(* A token reported as deployed and configured stays in the market, at the *)
(* feed and the decimals of the report, and a mock feed is a contract; of  *)
(* a feed that the environment names only that it is not zero.             *)
THEOREM ReportsHold == Spec => []ReportHolds
<1>1. IInv => ReportHolds
  BY DEF IInv
<1> QED
  BY <1>1, InitInv, StepInv, PTL DEF Spec
-----------------------------------------------------------------------------
(***************************************************************************)
(* What the versions of the market have in common, and what a market that  *)
(* is initialised keeps.                                                   *)
(***************************************************************************)

(* Where both have a function, it has the same arguments and results.      *)
Alike(f, g) ==
  \A x \in DOMAIN f \cap DOMAIN g : f[x].in = g[x].in /\ f[x].out = g[x].out

(* createAuction alone is declared again, with the same types.             *)
LEMMA FunctionsAlike ==
  /\ Alike(V2Functions, V1Functions) /\ Alike(V3Functions, V2Functions)
  /\ Alike(V3Functions, V1Functions)
  /\ DOMAIN V1Functions \subseteq DOMAIN V2Functions
  /\ DOMAIN V2Functions \subseteq DOMAIN V3Functions
  /\ DOMAIN V2Functions \cap DOMAIN FrontEndMarket \subseteq DOMAIN V1Functions
<1> DEFINE added2 == {"BPS_DENOMINATOR", "calculateSellerNetProceeds",
                      "feeRecipient", "platformFeeBps", "setFeeConfig",
                      "version"}
           added3 == {"auctionNft", "auctionV3Extras", "cancelAuction",
                      "createAuction", "createAuctionV3", "initializeV3",
                      "nftToActiveAuctionIdPlusOne"}
           types == V1Functions.createAuction
<1>1. PICK own2 : V2Functions = Inheriting(V1Functions, own2)
                  /\ DOMAIN own2 = added2
  BY DEF V2Functions
<1>2. PICK own3 : /\ V3Functions = Inheriting(V2Functions, own3)
                  /\ DOMAIN own3 = added3
                  /\ own3["createAuction"].in = types.in
                  /\ own3["createAuction"].out = types.out
  BY DEF V3Functions, V1Functions, Pure, View, SendFor
<1>3. DOMAIN V1Functions \cap (added2 \cup added3) = {"createAuction"}
  BY DEF V1Functions
<1>4. added2 \cap added3 = {} /\ "createAuction" \in added3
  OBVIOUS
<1>5. added2 \cap DOMAIN FrontEndMarket = {}
  BY DEF FrontEndMarket
<1> HIDE DEF added2, added3
<1>6. /\ DOMAIN V2Functions = added2 \cup DOMAIN V1Functions
      /\ \A x \in DOMAIN V1Functions : V2Functions[x] = V1Functions[x]
  BY <1>1, <1>3, <1>4 DEF Inheriting
<1>7. DOMAIN own3 \cap DOMAIN V2Functions = {"createAuction"}
  BY <1>2, <1>3, <1>4, <1>6
<1>8. /\ \A x \in DOMAIN V2Functions \ {"createAuction"} :
           V3Functions[x] = V2Functions[x]
      /\ V3Functions["createAuction"] = own3["createAuction"]
      /\ V2Functions["createAuction"] = V1Functions["createAuction"]
      /\ DOMAIN V1Functions \subseteq DOMAIN V2Functions
  BY <1>2, <1>3, <1>4, <1>6, <1>7 DEF Inheriting
<1>9. DOMAIN V2Functions \subseteq DOMAIN V3Functions
  BY <1>2 DEF Inheriting
<1>10. QED
  BY <1>2, <1>5, <1>6, <1>8, <1>9 DEF Alike

(* The front end is served by V3 where any version served it, and by any    *)
(* version where V2 serves it: V2 added nothing that the front end calls.   *)
LEMMA VersionsServe ==
  ASSUME NEW kind \in Market, NEW f
  PROVE  /\ Answers(Interface[kind], FrontEndMarket, f) =>
              Answers(Interface["AuctionMarketV3"], FrontEndMarket, f)
         /\ Answers(Interface["AuctionMarketV2"], FrontEndMarket, f) =>
              Answers(Interface[kind], FrontEndMarket, f)
<1>1. /\ Interface["AuctionMarket"] = V1Functions
      /\ Interface["AuctionMarketV2"] = V2Functions
      /\ Interface["AuctionMarketV3"] = V3Functions
  BY DEF Interface
<1>2. QED
  BY <1>1, FunctionsAlike DEF Market, Alike, Answers

LEMMA CodeGrows ==
  ASSUME CodeType, [Next]_vars
  PROVE  \A a \in DOMAIN code : a \in DOMAIN code' /\ code'[a] = code[a]
<1>1. ASSUME NEW k, NEW d, Deployed(k, d)
      PROVE  \A a \in DOMAIN code : a \in DOMAIN code' /\ code'[a] = code[a]
  BY <1>1 DEF CodeType, Deployed
<1>2. ASSUME NEW t \in Terminals,
             \/ StartIgnition(t) \/ StartToken(t) \/ StartUpgrade(t)
             \/ StartUpgradeV3(t) \/ IgnitionEnableEth(t) \/ IgnitionEnd(t)
             \/ CheckMarket(t) \/ ConfigureMarket(t) \/ PrintToken(t)
             \/ CheckCode(t) \/ UpgradeToV2(t) \/ UpgradeToV3(t)
             \/ Report(t) \/ Dies(t)
      PROVE  code' = code
  BY <1>2 DEF Start, StartIgnition, StartToken, StartUpgrade, StartUpgradeV3,
     IgnitionEnableEth, IgnitionEnd, CheckMarket, ConfigureMarket, PrintToken,
     CheckCode, UpgradeToV2, UpgradeToV3, Report, Dies
<1>3. ASSUME NEW t \in Terminals,
             \/ IgnitionNft(t) \/ IgnitionImplementation(t)
             \/ IgnitionProxy(t) \/ DeployToken(t) \/ DeployFeed(t)
             \/ DeployImpl(t)
      PROVE  \E k, d : Deployed(k, d)
  BY <1>3 DEF IgnitionNft, IgnitionImplementation, IgnitionProxy, DeployToken,
     DeployFeed, DeployImpl
<1>4. CASE UNCHANGED vars
  BY <1>4 DEF vars
<1>5. QED
  BY <1>1, <1>2, <1>3, <1>4 DEF Next

(* Only Ignition deploys the proxy, which is when it is initialised, and   *)
(* only the upgrades change what runs behind it.                           *)
LEMMA StoreSteps ==
  ASSUME IInv, [Next]_vars
  PROVE  \/ /\ journal'.proxy = journal.proxy
            /\ store'.impl = store.impl
            /\ store'.initialized = store.initialized
            /\ store'.auctionNft = store.auctionNft
         \/ \E t \in Terminals :
              IgnitionProxy(t) \/ UpgradeToV2(t) \/ UpgradeToV3(t)
<1> DEFINE Tokens == UNION {[S -> [feed : Address, decimals : Nat]] :
                              S \in SUBSET Address}
<1>1. /\ store \in [impl : Address, initialized : BOOLEAN,
                    auctionNft : Address, tokens : Tokens]
      /\ journal \in [nft : Address, implementation : Address,
                      proxy : Address, eth : BOOLEAN]
  BY DEF IInv, TypeInv, StoreType, JournalType
<1> HIDE DEF Tokens
<1>2. ASSUME NEW t \in Terminals,
             IgnitionNft(t) \/ IgnitionImplementation(t)
      PROVE  journal'.proxy = journal.proxy /\ store' = store
  BY <1>1, <1>2 DEF IgnitionNft, IgnitionImplementation
<1>3. ASSUME NEW t \in Terminals, IgnitionEnableEth(t)
      PROVE  /\ journal'.proxy = journal.proxy
             /\ store'.impl = store.impl
             /\ store'.initialized = store.initialized
             /\ store'.auctionNft = store.auctionNft
  BY <1>1, <1>3 DEF IgnitionEnableEth
<1>4. ASSUME NEW t \in Terminals, ConfigureMarket(t)
      PROVE  /\ journal' = journal
             /\ store'.impl = store.impl
             /\ store'.initialized = store.initialized
             /\ store'.auctionNft = store.auctionNft
  BY <1>1, <1>4 DEF ConfigureMarket
<1>5. ASSUME NEW t \in Terminals,
             \/ StartIgnition(t) \/ IgnitionEnd(t) \/ StartToken(t)
             \/ CheckMarket(t) \/ DeployToken(t) \/ DeployFeed(t)
             \/ PrintToken(t) \/ StartUpgrade(t) \/ StartUpgradeV3(t)
             \/ CheckCode(t) \/ DeployImpl(t) \/ Report(t) \/ Dies(t)
      PROVE  journal' = journal /\ store' = store
  BY <1>5 DEF Start, StartIgnition, IgnitionEnd, StartToken, CheckMarket,
     DeployToken, DeployFeed, PrintToken, StartUpgrade, StartUpgradeV3,
     CheckCode, DeployImpl, Report, Dies
<1>6. CASE UNCHANGED vars
  BY <1>6 DEF vars
<1>7. QED
  BY <1>2, <1>3, <1>4, <1>5, <1>6 DEF Next

(* The proxy is a proxy, and what initialize and initializeV3 set is set   *)
(* after it is deployed, in this order.                                    *)
Installed ==
  /\ journal.proxy # ZeroAddress => IsProxy(journal.proxy)
  /\ store.initialized => journal.proxy # ZeroAddress
  /\ store.auctionNft # ZeroAddress => store.initialized

(* The three steps that change it.                                         *)
LEMMA ProxyStep ==
  ASSUME IInv, Installed, NEW t \in Terminals, IgnitionProxy(t)
  PROVE  /\ journal.proxy = ZeroAddress
         /\ journal'.proxy # ZeroAddress /\ IsProxy(journal.proxy)'
         /\ store'.initialized
         /\ store.auctionNft = ZeroAddress
<1> DEFINE Tokens == UNION {[S -> [feed : Address, decimals : Nat]] :
                              S \in SUBSET Address}
<1>1. /\ store \in [impl : Address, initialized : BOOLEAN,
                    auctionNft : Address, tokens : Tokens]
      /\ journal \in [nft : Address, implementation : Address,
                      proxy : Address, eth : BOOLEAN]
      /\ CodeType
  BY DEF IInv, TypeInv, StoreType, JournalType
<1> HIDE DEF Tokens
<1>2. journal.proxy = ZeroAddress /\ store.auctionNft = ZeroAddress
  BY DEF IgnitionProxy, Installed
<1>3. journal'.proxy = NewAddress /\ store'.initialized
  BY <1>1 DEF IgnitionProxy
<1>4. /\ NewAddress # ZeroAddress /\ NewAddress \in DOMAIN code'
      /\ code'[NewAddress].kind = "AuctionMarketProxy"
  BY <1>1 DEF IgnitionProxy, CodeType, Deployed, NewAddress, ZeroAddress
<1>5. QED
  BY <1>2, <1>3, <1>4 DEF IsProxy, KindOf

LEMMA UpgradeStep ==
  ASSUME IInv, Installed, NEW t \in Terminals,
         UpgradeToV2(t) \/ UpgradeToV3(t)
  PROVE  /\ journal' = journal /\ code' = code
         /\ journal.proxy # ZeroAddress
         /\ store.initialized /\ store'.initialized
         /\ KindOf(store.impl)' =
              IF UpgradeToV2(t) THEN "AuctionMarketV2" ELSE "AuctionMarketV3"
         /\ UpgradeToV2(t) => store'.auctionNft = store.auctionNft
         /\ UpgradeToV3(t) => store.auctionNft = ZeroAddress
<1> DEFINE Tokens == UNION {[S -> [feed : Address, decimals : Nat]] :
                              S \in SUBSET Address}
<1>1. store \in [impl : Address, initialized : BOOLEAN,
                auctionNft : Address, tokens : Tokens]
  BY DEF IInv, TypeInv, StoreType
<1> HIDE DEF Tokens
<1>2. journal' = journal /\ code' = code /\ store.initialized
  BY DEF UpgradeToV2, UpgradeToV3, OwnerCall
<1>3. CASE UpgradeToV2(t)
  <2>1. /\ store'.impl = run[t].impl /\ store'.initialized
        /\ store'.auctionNft = store.auctionNft
    BY <1>1, <1>2, <1>3 DEF UpgradeToV2
  <2>2. code[run[t].impl].kind = "AuctionMarketV2" /\ ~UpgradeToV3(t)
    BY <1>3 DEF UpgradeToV2, UpgradeToV3, At, IInv, Deploys
  <2>3. QED
    BY <1>2, <1>3, <2>1, <2>2 DEF Installed, KindOf
<1>4. CASE UpgradeToV3(t)
  <2>1. /\ store'.impl = run[t].impl /\ store'.initialized
        /\ store.auctionNft = ZeroAddress
    BY <1>1, <1>2, <1>4 DEF UpgradeToV3
  <2>2. code[run[t].impl].kind = "AuctionMarketV3" /\ ~UpgradeToV2(t)
    BY <1>4 DEF UpgradeToV2, UpgradeToV3, At, IInv, Deploys
  <2>3. QED
    BY <1>2, <1>4, <2>1, <2>2 DEF Installed, KindOf
<1>5. QED
  BY <1>3, <1>4

LEMMA InstalledStep ==
  ASSUME IInv, Installed, [Next]_vars
  PROVE  Installed'
<1>1. \A a \in DOMAIN code : a \in DOMAIN code' /\ code'[a] = code[a]
  BY CodeGrows DEF IInv, TypeInv
<1>2. CASE /\ journal'.proxy = journal.proxy
           /\ store'.initialized = store.initialized
           /\ store'.auctionNft = store.auctionNft
  BY <1>1, <1>2 DEF Installed, IsProxy, KindOf
<1>3. ASSUME NEW t \in Terminals, IgnitionProxy(t) PROVE Installed'
  BY <1>3, ProxyStep DEF Installed
<1>4. ASSUME NEW t \in Terminals, UpgradeToV2(t) \/ UpgradeToV3(t)
      PROVE  Installed'
  <2>1. /\ journal' = journal /\ code' = code
        /\ journal.proxy # ZeroAddress /\ store'.initialized
    BY <1>4, UpgradeStep
  <2>2. QED
    BY <2>1 DEF Installed, IsProxy, KindOf
<1>5. QED
  BY <1>2, <1>3, <1>4, StoreSteps

(* Before and after a step, what the front end is served is up to the      *)
(* implementation.                                                         *)
LEMMA ServedBy ==
  ASSUME Installed, Installed'
  PROVE  /\ journal.proxy = ZeroAddress => Served = {}
         /\ journal.proxy # ZeroAddress =>
              Served = {f \in DOMAIN FrontEndMarket :
                          Answers(Interface[KindOf(store.impl)],
                                  FrontEndMarket, f)}
         /\ journal'.proxy # ZeroAddress =>
              Served' = {f \in DOMAIN FrontEndMarket :
                           Answers(Interface[KindOf(store.impl)'],
                                   FrontEndMarket, f)}
         /\ journal'.proxy = ZeroAddress => Served' = {}
BY DEF Served, Behind, Installed

(* AuctionMarketV3.sol:76 and the scripts: the AuctionNFT is never         *)
(* replaced, only the script of V2 takes functions of the front end away,  *)
(* and after it the script of V3 does not bring them back.                 *)
THEOREM InitializedForGood == Spec => InitializedOnce
<1> DEFINE Inv == IInv /\ Installed
<1>1. Init => Inv
  <2>1. Init => Installed
    BY DEF Init, Installed, NoStore
  <2>2. QED
    BY <2>1, InitInv
<1>2. Inv /\ [Next]_vars => Inv'
  BY StepInv, InstalledStep
<1>3. ASSUME Inv, Inv', [Next]_vars
      PROVE  /\ store.auctionNft # ZeroAddress =>
                  /\ store'.auctionNft = store.auctionNft
                  /\ Served' \subseteq Served
             /\ Served \subseteq Served' \/ \E t \in Terminals : UpgradeToV2(t)
  <2>1. CASE /\ journal'.proxy = journal.proxy
             /\ store'.impl = store.impl
             /\ store'.auctionNft = store.auctionNft
    <3>1. CASE journal.proxy = ZeroAddress
      BY <1>3, <2>1, <3>1, ServedBy
    <3>2. CASE journal.proxy # ZeroAddress
      <4>1. KindOf(store.impl)' = KindOf(store.impl)
        <5>1. store.impl \in DOMAIN code
          BY <1>3, <3>2 DEF IInv, MarketSound
        <5>2. \A a \in DOMAIN code : code'[a] = code[a]
          BY <1>3, CodeGrows DEF IInv, TypeInv
        <5>3. QED
          BY <2>1, <5>1, <5>2 DEF KindOf
      <4>2. Served' = Served
        BY <1>3, <2>1, <3>2, <4>1, ServedBy
      <4>3. QED
        BY <2>1, <4>2
    <3>3. QED
      BY <3>1, <3>2
  <2>2. ASSUME NEW t \in Terminals, IgnitionProxy(t)
        PROVE  store.auctionNft = ZeroAddress /\ Served = {}
    BY <1>3, <2>2, ProxyStep, ServedBy
  <2>3. ASSUME NEW t \in Terminals, UpgradeToV2(t)
        PROVE  store'.auctionNft = store.auctionNft /\ Served' \subseteq Served
    <3>1. /\ journal' = journal /\ journal.proxy # ZeroAddress
          /\ KindOf(store.impl)' = "AuctionMarketV2"
          /\ store'.auctionNft = store.auctionNft
      BY <1>3, <2>3, UpgradeStep
    <3>2. KindOf(store.impl) \in Market
      BY <1>3, <3>1 DEF IInv, MarketSound
    <3>3. \A f : Answers(Interface["AuctionMarketV2"], FrontEndMarket, f) =>
                   Answers(Interface[KindOf(store.impl)], FrontEndMarket, f)
      BY <3>2, VersionsServe
    <3>4. QED
      BY <1>3, <3>1, <3>3, ServedBy
  <2>4. ASSUME NEW t \in Terminals, UpgradeToV3(t)
        PROVE  store.auctionNft = ZeroAddress /\ Served \subseteq Served'
    <3>1. /\ journal' = journal /\ journal.proxy # ZeroAddress
          /\ KindOf(store.impl)' = "AuctionMarketV3"
          /\ store.auctionNft = ZeroAddress
      <4>1. ~UpgradeToV2(t)
        BY <2>4 DEF UpgradeToV2, UpgradeToV3, At
      <4>2. QED
        BY <1>3, <2>4, <4>1, UpgradeStep
    <3>2. KindOf(store.impl) \in Market
      BY <1>3, <3>1 DEF IInv, MarketSound
    <3>3. \A f : Answers(Interface[KindOf(store.impl)], FrontEndMarket, f) =>
                   Answers(Interface["AuctionMarketV3"], FrontEndMarket, f)
      BY <3>2, VersionsServe
    <3>4. QED
      BY <1>3, <3>1, <3>3, ServedBy
  <2>5. QED
    BY <1>3, <2>1, <2>2, <2>3, <2>4, StoreSteps
<1> HIDE DEF Inv
<1>4. QED
  <2>1. Inv /\ Inv' /\ [Next]_vars =>
          [/\ store.auctionNft # ZeroAddress =>
                /\ store'.auctionNft = store.auctionNft
                /\ Served' \subseteq Served
           /\ \/ Served \subseteq Served'
              \/ \E t \in Terminals : UpgradeToV2(t)]_vars
    BY <1>3
  <2>2. QED
    BY <1>1, <1>2, <2>1, PTL DEF Spec, InitializedOnce
=============================================================================
