-------------------------- MODULE MarketIndexProofs --------------------------
(***************************************************************************)
(* Theorems about MarketIndex, for every value of its constants: types,    *)
(* and, as long as no reorg goes deeper than the confirmations, that rows  *)
(* are backed by the history of bids and never go back.                    *)
(***************************************************************************)
EXTENDS MarketIndex, RunnerProofs

(* The assumptions on the events, in terms of logs.                        *)
LEMMA ArgsGiven ==
  \A l \in Logs :
    /\ Emitted[l].name \in DOMAIN Indexed[Abi[SourceOf[l]]]
    /\ \A name \in AuctionEvents :
         Emits(l, "auction_market_v3", name) => Args(l).auctionId \in AuctionIds
    /\ Emits(l, "auction_market_v3", "AuctionCreatedV3") =>
         Args(l).seller \in Accounts /\ Args(l).tokenId \in Items
    /\ Emits(l, "auction_market_v3", "BidPlaced") =>
         /\ "amountUsd" \in DOMAIN Args(l)
         /\ Args(l).bidder \in Accounts /\ Args(l).amountUsd \in Nat \ {0}
    /\ Emits(l, "auction_nft", "Transfer") =>
         /\ Args(l).to \in Accounts \cup {Nobody}
         /\ Args(l).tokenId \in Items
<1> SUFFICES ASSUME NEW l \in Logs
             PROVE  /\ \A name \in AuctionEvents :
                         Emits(l, "auction_market_v3", name)
                           => Args(l).auctionId \in AuctionIds
                    /\ Emits(l, "auction_market_v3", "AuctionCreatedV3") =>
                         Args(l).seller \in Accounts /\ Args(l).tokenId \in Items
                    /\ Emits(l, "auction_market_v3", "BidPlaced") =>
                         /\ "amountUsd" \in DOMAIN Args(l)
                         /\ Args(l).bidder \in Accounts
                         /\ Args(l).amountUsd \in Nat \ {0}
  BY ArgsAssumption
<1>1. ArgsSound(Told(l), AuctionIds, Accounts, Items)
  BY ArgsAssumption
<1>2. /\ Told(l).abi = Abi[SourceOf[l]] /\ Told(l).name = Emitted[l].name
      /\ Told(l).args = Args(l)
  BY DEF Told
<1>3. QED
  BY <1>1, <1>2 DEF ArgsSound, OfAuction, AuctionEvents, Emits

LEMMA HistoriesInOrder ==
  \A h \in Histories : \A c, i, j \in DOMAIN h :
    /\ i < j
    /\ Emits(h[c], "auction_market_v3", "AuctionCreatedV3")
    /\ \A k \in {i, j} :
         /\ \E name \in AuctionEvents : Emits(h[k], "auction_market_v3", name)
         /\ Args(h[k]).auctionId = Args(h[c]).auctionId
    => /\ Emitted[h[i]].name \notin {"AuctionEnded", "AuctionCancelled"}
       /\ Emitted[h[j]].name # "AuctionCreatedV3"
       /\ Emitted[h[i]].name = "BidPlaced" /\ Emitted[h[j]].name = "BidPlaced" =>
            Args(h[i]).amountUsd < Args(h[j]).amountUsd
<1> SUFFICES ASSUME NEW h \in Histories,
                    NEW c \in DOMAIN h, NEW i \in DOMAIN h, NEW j \in DOMAIN h,
                    i < j,
                    Emits(h[c], "auction_market_v3", "AuctionCreatedV3"),
                    \A k \in {i, j} :
                      /\ \E name \in AuctionEvents :
                           Emits(h[k], "auction_market_v3", name)
                      /\ Args(h[k]).auctionId = Args(h[c]).auctionId
             PROVE  /\ Emitted[h[i]].name \notin
                         {"AuctionEnded", "AuctionCancelled"}
                    /\ Emitted[h[j]].name # "AuctionCreatedV3"
                    /\ Emitted[h[i]].name = "BidPlaced"
                        /\ Emitted[h[j]].name = "BidPlaced" =>
                         Args(h[i]).amountUsd < Args(h[j]).amountUsd
  OBVIOUS
<1> DEFINE events == [k \in DOMAIN h |-> Told(h[k])]
<1>1. InOrder(events) /\ DOMAIN events = DOMAIN h
  BY HistoryAssumption
<1>2. \A k \in DOMAIN h :
        /\ events[k].abi = Abi[SourceOf[h[k]]]
        /\ events[k].name = Emitted[h[k]].name
        /\ events[k].args = Args(h[k])
  BY DEF Told
<1> HIDE DEF events
<1>3. OfAuction(events[c]) /\ events[c].name = "AuctionCreatedV3"
  BY <1>2 DEF OfAuction, AuctionEvents, Emits
<1>4. \A k \in {i, j} :
        /\ OfAuction(events[k])
        /\ events[k].args.auctionId = events[c].args.auctionId
  BY <1>2 DEF OfAuction, Emits
<1>5. /\ events[i].name \notin {"AuctionEnded", "AuctionCancelled"}
      /\ events[j].name # "AuctionCreatedV3"
      /\ events[i].name = "BidPlaced" /\ events[j].name = "BidPlaced" =>
           events[i].args.amountUsd < events[j].args.amountUsd
  BY <1>1, <1>3, <1>4 DEF InOrder
<1>6. QED
  BY <1>2, <1>5

(* Decoding: a log's topics are the event's name and its indexed           *)
(* arguments.                                                              *)
LEMMA Topics ==
  ASSUME NEW name, NEW n \in Nat, NEW f, DOMAIN f = 1 .. n,
         f = [i \in 1 .. n |-> f[i]]
  PROVE  /\ (<<name>> \o f)[1] = name
         /\ \A i \in 1 .. n : (<<name>> \o f)[i + 1] = f[i]
         /\ <<name>> \o f # <<>> /\ Len(<<name>> \o f) = n + 1
<1> DEFINE S == {name} \cup {f[i] : i \in 1 .. n}
<1>1. <<name>> \in Seq(S) /\ Len(<<name>>) = 1 /\ <<name>>[1] = name
  OBVIOUS
<1>2. f \in Seq(S)
  <2>1. f \in [1 .. n -> S]
    OBVIOUS
  <2>2. QED
    BY <2>1, SeqDef
<1>3. Len(f) = n
  BY <1>2, LenProperties
<1>4. QED
  BY <1>1, <1>2, <1>3, ConcatProperties

LEMMA IndexedMarket ==
  /\ DOMAIN Indexed["auction_market_v3"] =
       {"AuctionCreated", "AuctionCreatedV3", "BidPlaced", "AuctionCancelled",
        "AuctionEnded", "AuctionSettledWithFees", "FeeConfigUpdated",
        "PaymentTokenUpdated", "Initialized", "OwnershipTransferred",
        "Upgraded"}
  /\ \A name \in DOMAIN Indexed["auction_market_v3"] :
       \E n \in 0 .. 3 : DOMAIN Indexed["auction_market_v3"][name] = 1 .. n
<1> DEFINE M == Indexed["auction_market_v3"]
<1>1. DOMAIN M =
       {"AuctionCreated", "AuctionCreatedV3", "BidPlaced", "AuctionCancelled",
        "AuctionEnded", "AuctionSettledWithFees", "FeeConfigUpdated",
        "PaymentTokenUpdated", "Initialized", "OwnershipTransferred",
        "Upgraded"}
  BY DEF Indexed
<1>2. /\ DOMAIN M["AuctionCreated"] = 1 .. 3
      /\ DOMAIN M["AuctionCreatedV3"] = 1 .. 3
      /\ DOMAIN M["BidPlaced"] = 1 .. 3
      /\ DOMAIN M["AuctionCancelled"] = 1 .. 3
      /\ DOMAIN M["AuctionEnded"] = 1 .. 3
      /\ DOMAIN M["AuctionSettledWithFees"] = 1 .. 3
      /\ DOMAIN M["FeeConfigUpdated"] = 1 .. 1
      /\ DOMAIN M["PaymentTokenUpdated"] = 1 .. 2
      /\ DOMAIN M["Initialized"] = 1 .. 0
      /\ DOMAIN M["OwnershipTransferred"] = 1 .. 2
      /\ DOMAIN M["Upgraded"] = 1 .. 1
  BY DEF Indexed
<1> HIDE DEF M
<1>3. QED
  BY <1>1, <1>2 DEF M

(* The topics of a log of an event with n indexed arguments.               *)
LEMMA EmittedTopics ==
  ASSUME NEW abi, NEW name, NEW args, NEW n \in Nat,
         DOMAIN Indexed[abi][name] = 1 .. n
  PROVE  LET topics == Emit(abi, name, args).topics
         IN  /\ topics[1] = name /\ topics # <<>> /\ Len(topics) = n + 1
             /\ \A i \in 1 .. n :
                  topics[i + 1] = args[Indexed[abi][name][i]]
<1> DEFINE f == [i \in DOMAIN Indexed[abi][name] |-> args[Indexed[abi][name][i]]]
<1>1. Emit(abi, name, args).topics = <<name>> \o f
  BY DEF Emit
<1>2. DOMAIN f = 1 .. n /\ f = [i \in 1 .. n |-> f[i]]
      /\ \A i \in 1 .. n : f[i] = args[Indexed[abi][name][i]]
  OBVIOUS
<1> HIDE DEF f
<1>3. QED
  BY <1>1, <1>2, Topics

(* What the market's decoder makes of a log that it does not skip.         *)
MarketLog(l) == l \in Logs /\ Abi[SourceOf[l]] = "auction_market_v3"

LEMMA MarketTopics ==
  ASSUME NEW l, MarketLog(l)
  PROVE  LET log == Emit("auction_market_v3", Emitted[l].name, Args(l))
         IN  /\ Event[l] = DecodeKnownMarketEvent(log.topics, log.data)
             /\ log.topics[1] = Emitted[l].name
             /\ \A n \in 0 .. 3 :
                  DOMAIN Indexed["auction_market_v3"][Emitted[l].name] = 1 .. n
                  => \A i \in 1 .. n :
                       log.topics[i + 1] =
                         Args(l)[Indexed["auction_market_v3"]
                                        [Emitted[l].name][i]]
<1> DEFINE name == Emitted[l].name
           log == Emit("auction_market_v3", name, Args(l))
<1>1. name \in DOMAIN Indexed["auction_market_v3"]
  BY ArgsGiven DEF MarketLog
<1>2. PICK n \in 0 .. 3 : DOMAIN Indexed["auction_market_v3"][name] = 1 .. n
  BY <1>1, IndexedMarket
<1>3. /\ log.topics[1] = name /\ log.topics # <<>>
      /\ \A i \in 1 .. n : log.topics[i + 1] =
           Args(l)[Indexed["auction_market_v3"][name][i]]
  BY <1>2, EmittedTopics
<1>4. Event[l] = DecodeMarketLog(log)
  BY DEF Event, MarketLog, Decode, Args
<1>5. Event[l] = DecodeKnownMarketEvent(log.topics, log.data)
  <2> HIDE DEF log, name
  <2>1. Indexed.auction_market_v3 = Indexed["auction_market_v3"]
    OBVIOUS
  <2>2. QED
    BY <1>1, <1>3, <1>4, <2>1 DEF DecodeMarketLog
<1>6. \A m \in 0 .. 3 :
        DOMAIN Indexed["auction_market_v3"][name] = 1 .. m => m = n
  BY <1>2
<1>7. QED
  BY <1>3, <1>5, <1>6

LEMMA MarketDecoded ==
  ASSUME NEW l, MarketLog(l), l \notin Skipped
  PROVE  Event[l].outcome = "event" /\ Event[l].name = Emitted[l].name
<1> DEFINE log == Emit("auction_market_v3", Emitted[l].name, Args(l))
<1>1. /\ Event[l] = DecodeKnownMarketEvent(log.topics, log.data)
      /\ log.topics[1] = Emitted[l].name
  BY MarketTopics
<1>2. Event[l].outcome # "skip"
  BY IndexAssumption DEF MarketLog
<1> HIDE DEF log
<1>3. QED
  BY <1>1, <1>2 DEF DecodeKnownMarketEvent, Decoded, Skip

LEMMA CreatedDecoded ==
  ASSUME NEW l, MarketLog(l), Emitted[l].name = "AuctionCreatedV3"
  PROVE  /\ Event[l].payload.auction_id = Args(l).auctionId
         /\ Event[l].payload.seller = Args(l).seller
         /\ Event[l].payload.token_id = Args(l).tokenId
<1> DEFINE name == "AuctionCreatedV3"
           log == Emit("auction_market_v3", name, Args(l))
<1>1. /\ Event[l] = DecodeKnownMarketEvent(log.topics, log.data)
      /\ log.topics[1] = name
      /\ \A n \in 0 .. 3 :
           DOMAIN Indexed["auction_market_v3"][name] = 1 .. n
           => \A i \in 1 .. n : log.topics[i + 1] =
                Args(l)[Indexed["auction_market_v3"][name][i]]
  BY MarketTopics
<1>2. /\ DOMAIN Indexed["auction_market_v3"][name] = 1 .. 3
      /\ Indexed["auction_market_v3"][name][1] = "auctionId"
      /\ Indexed["auction_market_v3"][name][2] = "seller"
      /\ Indexed["auction_market_v3"][name][3] = "tokenId"
  BY DEF Indexed
<1> HIDE DEF log
<1>3. /\ log.topics[2] = Args(l).auctionId
      /\ log.topics[3] = Args(l).seller
      /\ log.topics[4] = Args(l).tokenId
  BY <1>1, <1>2
<1>4. QED
  BY <1>1, <1>3 DEF DecodeKnownMarketEvent, Decoded, Generic

LEMMA BidDecoded ==
  ASSUME NEW l, MarketLog(l), Emitted[l].name = "BidPlaced"
  PROVE  /\ Event[l].payload.auction_id = Args(l).auctionId
         /\ Event[l].payload.bidder = Args(l).bidder
         /\ Event[l].payload.amount_usd = Args(l).amountUsd
<1> DEFINE name == "BidPlaced"
           log == Emit("auction_market_v3", name, Args(l))
<1>1. /\ Event[l] = DecodeKnownMarketEvent(log.topics, log.data)
      /\ log.topics[1] = name
      /\ \A n \in 0 .. 3 :
           DOMAIN Indexed["auction_market_v3"][name] = 1 .. n
           => \A i \in 1 .. n : log.topics[i + 1] =
                Args(l)[Indexed["auction_market_v3"][name][i]]
  BY MarketTopics
<1>2. /\ DOMAIN Indexed["auction_market_v3"][name] = 1 .. 3
      /\ Indexed["auction_market_v3"][name][1] = "auctionId"
      /\ Indexed["auction_market_v3"][name][2] = "bidder"
      /\ Indexed["auction_market_v3"][name][3] = "paymentToken"
  BY DEF Indexed
<1>3. "amountUsd" \in DOMAIN Args(l)
  BY ArgsGiven DEF MarketLog, Emits
<1>4. /\ "amountUsd" \in DOMAIN log.data
      /\ log.data["amountUsd"] = Args(l).amountUsd
  <2>1. "amountUsd" \notin
          {Indexed["auction_market_v3"][name][i] :
             i \in DOMAIN Indexed["auction_market_v3"][name]}
    <3>1. \A i \in 1 .. 3 : i = 1 \/ i = 2 \/ i = 3
      OBVIOUS
    <3>2. QED
      BY <1>2, <3>1
  <2>2. QED
    BY <1>3, <2>1 DEF Emit
<1> HIDE DEF log
<1>5. /\ log.topics[2] = Args(l).auctionId
      /\ log.topics[3] = Args(l).bidder
  BY <1>1, <1>2
<1>6. QED
  BY <1>1, <1>4, <1>5
  DEF DecodeKnownMarketEvent, Decoded, Value, Generic

LEMMA EndDecoded ==
  ASSUME NEW l, MarketLog(l),
         Emitted[l].name \in {"AuctionEnded", "AuctionCancelled"}
  PROVE  Event[l].payload.auction_id = Args(l).auctionId
<1> DEFINE name == Emitted[l].name
           log == Emit("auction_market_v3", name, Args(l))
<1>1. /\ Event[l] = DecodeKnownMarketEvent(log.topics, log.data)
      /\ log.topics[1] = name
      /\ \A n \in 0 .. 3 :
           DOMAIN Indexed["auction_market_v3"][name] = 1 .. n
           => \A i \in 1 .. n : log.topics[i + 1] =
                Args(l)[Indexed["auction_market_v3"][name][i]]
  BY MarketTopics
<1>2. /\ DOMAIN Indexed["auction_market_v3"][name] = 1 .. 3
      /\ Indexed["auction_market_v3"][name][1] = "auctionId"
  BY DEF Indexed
<1> HIDE DEF log
<1>3. log.topics[2] = Args(l).auctionId
  BY <1>1, <1>2
<1>4. CASE log.topics[1] = "AuctionEnded"
  BY <1>1, <1>3, <1>4 DEF DecodeKnownMarketEvent, Decoded, Generic
<1>5. CASE log.topics[1] = "AuctionCancelled"
  BY <1>1, <1>3, <1>5 DEF DecodeKnownMarketEvent, Decoded, Generic
<1>6. QED
  BY <1>1, <1>4, <1>5

(* What AuctionNFT's decoder makes of a log that it neither skips nor      *)
(* rejects.                                                                *)
LEMMA NftDecoded ==
  ASSUME NEW l \in Logs, Abi[SourceOf[l]] = "auction_nft",
         l \notin Skipped \cup Undecodable
  PROVE  /\ Emits(l, "auction_nft", "Transfer")
         /\ Event[l].payload.token_id = Args(l).tokenId
         /\ Event[l].payload.to = Args(l).to
         /\ Args(l).tokenId \in Items /\ Args(l).to \in Accounts \cup {Nobody}
<1> DEFINE name == Emitted[l].name
           log == Emit("auction_nft", name, Args(l))
<1>1. Event[l] = DecodeAuctionNFTLog(log)
  BY DEF Event, Decode, Args
<1>2. Event[l].outcome # "skip" /\ Event[l].outcome # "error"
  BY IndexAssumption
<1>3. /\ log.topics # <<>> /\ log.topics[1] = "Transfer"
      /\ Event[l].payload = [from |-> log.topics[2], to |-> log.topics[3],
                             token_id |-> log.topics[4]]
  <2> HIDE DEF log, name
  <2>1. QED
    BY <1>1, <1>2 DEF DecodeAuctionNFTLog, Skip, Reject, Decoded
<1>4. name \in DOMAIN Indexed["auction_nft"]
  BY ArgsGiven
<1>5. \E n \in 0 .. 3 : DOMAIN Indexed["auction_nft"][name] = 1 .. n
  <2> DEFINE M == Indexed["auction_nft"]
  <2>1. DOMAIN M = {"Approval", "ApprovalForAll", "BatchMetadataUpdate",
                    "MetadataUpdate", "OwnershipTransferred", "Transfer"}
    BY DEF Indexed
  <2>2. /\ DOMAIN M["Approval"] = 1 .. 3
        /\ DOMAIN M["ApprovalForAll"] = 1 .. 2
        /\ DOMAIN M["BatchMetadataUpdate"] = 1 .. 0
        /\ DOMAIN M["MetadataUpdate"] = 1 .. 0
        /\ DOMAIN M["OwnershipTransferred"] = 1 .. 2
        /\ DOMAIN M["Transfer"] = 1 .. 3
    BY DEF Indexed
  <2> HIDE DEF M
  <2>3. QED
    BY <1>4, <2>1, <2>2 DEF M
<1>6. name = "Transfer"
  <2>1. log.topics[1] = name
    BY <1>5, EmittedTopics
  <2>2. QED
    BY <1>3, <2>1
<1>7. /\ DOMAIN Indexed["auction_nft"]["Transfer"] = 1 .. 3
      /\ Indexed["auction_nft"]["Transfer"][2] = "to"
      /\ Indexed["auction_nft"]["Transfer"][3] = "tokenId"
  BY DEF Indexed
<1>8. log.topics[3] = Args(l).to /\ log.topics[4] = Args(l).tokenId
  <2>1. \A i \in 1 .. 3 : log.topics[i + 1] =
          Args(l)[Indexed["auction_nft"][name][i]]
    <3>1. PICK n \in Nat : n = 3
      OBVIOUS
    <3>2. DOMAIN Indexed["auction_nft"][name] = 1 .. n
      BY <1>6, <1>7, <3>1
    <3>3. \A i \in 1 .. n : log.topics[i + 1] =
            Args(l)[Indexed["auction_nft"][name][i]]
      BY <3>2, EmittedTopics
    <3>4. QED
      BY <3>1, <3>3
  <2> HIDE DEF log
  <2>2. QED
    BY <1>6, <1>7, <2>1
<1>9. /\ Emits(l, "auction_nft", "Transfer")
      /\ Args(l).to \in Accounts \cup {Nobody} /\ Args(l).tokenId \in Items
  BY <1>6, ArgsGiven DEF Emits
<1> HIDE DEF log
<1>10. QED
  BY <1>3, <1>8, <1>9

(* The events the tables are made of are neither skipped nor rejected.     *)
LEMMA AuctionEventDecoded ==
  ASSUME NEW l \in Logs, NEW name \in AuctionEvents,
         Emits(l, "auction_market_v3", name)
  PROVE  l \in Market(name)
<1> DEFINE log == Emit("auction_market_v3", Emitted[l].name, Args(l))
<1>1. MarketLog(l) /\ Emitted[l].name = name
  BY DEF Emits, MarketLog
<1>2. /\ Event[l] = DecodeKnownMarketEvent(log.topics, log.data)
      /\ log.topics[1] = name
  BY <1>1, MarketTopics
<1> HIDE DEF log
<1>3. Event[l].outcome = "event" /\ Event[l].name = name
  BY <1>2 DEF AuctionEvents, DecodeKnownMarketEvent, Decoded
<1>4. l \notin Skipped \cup Undecodable
  BY <1>3, IndexAssumption
<1>5. QED
  BY <1>1, <1>3, <1>4 DEF Market, Named, MarketLog

LEMMA TransferDecoded ==
  ASSUME NEW l \in Logs, Emits(l, "auction_nft", "Transfer")
  PROVE  l \notin Skipped \cup Undecodable
<1> DEFINE log == Emit("auction_nft", "Transfer", Args(l))
<1>1. Event[l] = DecodeAuctionNFTLog(log)
  BY DEF Event, Decode, Args, Emits
<1>2. DOMAIN Indexed["auction_nft"]["Transfer"] = 1 .. 3
  BY DEF Indexed
<1>3. log.topics[1] = "Transfer" /\ log.topics # <<>> /\ Len(log.topics) = 4
  <2>1. ASSUME NEW args, NEW n \in Nat,
               DOMAIN Indexed["auction_nft"]["Transfer"] = 1 .. n
        PROVE  /\ Emit("auction_nft", "Transfer", args).topics[1] = "Transfer"
               /\ Emit("auction_nft", "Transfer", args).topics # <<>>
               /\ Len(Emit("auction_nft", "Transfer", args).topics) = n + 1
    BY <2>1, EmittedTopics
  <2>2. PICK n \in Nat : n = 3
    OBVIOUS
  <2>3. DOMAIN Indexed["auction_nft"]["Transfer"] = 1 .. n
    BY <1>2, <2>2
  <2>4. /\ log.topics[1] = "Transfer" /\ log.topics # <<>>
        /\ Len(log.topics) = n + 1
    BY <2>1, <2>3
  <2> HIDE DEF log
  <2>5. QED
    BY <2>2, <2>4
<1> HIDE DEF log
<1>4. Event[l].outcome = "event"
  BY <1>1, <1>3 DEF DecodeAuctionNFTLog, Decoded
<1>5. QED
  BY <1>4, IndexAssumption

(* What the handlers take from an event of this name.                      *)
LEMMA NamedLogs ==
  ASSUME NEW name, NEW l \in Market(name)
  PROVE  /\ MarketLog(l) /\ l \notin Skipped
         /\ Emitted[l].name = name
         /\ Emits(l, "auction_market_v3", name)
<1>1. MarketLog(l) /\ l \notin Skipped /\ Event[l].name = name
  BY DEF Market, Named, MarketLog
<1>2. QED
  BY <1>1, MarketDecoded DEF Emits, MarketLog

LEMMA AuctionPayload ==
  ASSUME NEW name \in AuctionEvents, NEW l \in Market(name)
  PROVE  /\ Event[l].payload.auction_id = Args(l).auctionId
         /\ Args(l).auctionId \in AuctionIds
<1>1. /\ MarketLog(l) /\ Emitted[l].name = name
      /\ Emits(l, "auction_market_v3", name)
  BY NamedLogs
<1>2. Args(l).auctionId \in AuctionIds
  BY <1>1, ArgsGiven DEF MarketLog
<1>3. CASE name = "AuctionCreatedV3"
  BY <1>1, <1>2, <1>3, CreatedDecoded
<1>4. CASE name = "BidPlaced"
  BY <1>1, <1>2, <1>4, BidDecoded
<1>5. CASE name \in {"AuctionEnded", "AuctionCancelled"}
  BY <1>1, <1>2, <1>5, EndDecoded
<1>6. QED
  BY <1>3, <1>4, <1>5 DEF AuctionEvents

LEMMA CreatedPayload ==
  ASSUME NEW l \in Market("AuctionCreatedV3")
  PROVE  /\ Event[l].payload.seller = Args(l).seller
         /\ Event[l].payload.token_id = Args(l).tokenId
         /\ Args(l).seller \in Accounts /\ Args(l).tokenId \in Items
<1>1. /\ MarketLog(l) /\ Emitted[l].name = "AuctionCreatedV3"
      /\ Emits(l, "auction_market_v3", "AuctionCreatedV3")
  BY NamedLogs
<1>2. QED
  BY <1>1, CreatedDecoded, ArgsGiven DEF MarketLog

LEMMA BidPayload ==
  ASSUME NEW l \in Market("BidPlaced")
  PROVE  /\ Event[l].payload.bidder = Args(l).bidder
         /\ Event[l].payload.amount_usd = Args(l).amountUsd
         /\ Args(l).bidder \in Accounts /\ Args(l).amountUsd \in Nat \ {0}
<1>1. /\ MarketLog(l) /\ Emitted[l].name = "BidPlaced"
      /\ Emits(l, "auction_market_v3", "BidPlaced")
  BY NamedLogs
<1>2. QED
  BY <1>1, BidDecoded, ArgsGiven DEF MarketLog
-----------------------------------------------------------------------------

(***************************************************************************)
(* The strengthening.  Tells relates a log to the auction it is about, and *)
(* a row, the logs applied and the bids to each other.                     *)
(***************************************************************************)
Tells(l, name, id) == l \in Market(name) /\ Args(l).auctionId = id

Bid(k) == [key |-> k, auction |-> Args(k[1]).auctionId,
           bidder |-> Args(k[1]).bidder, amountUsd |-> Args(k[1]).amountUsd]

Backed(id, row, applied, bids) ==
  /\ \E k \in applied : Tells(k[1], "AuctionCreatedV3", id)
  /\ \A k \in applied :
       Tells(k[1], "BidPlaced", id) => Args(k[1]).amountUsd <= row.highestBidUsd
  /\ row.highestBidder = Nobody => row.highestBidUsd = 0
  /\ row.highestBidder # Nobody =>
       \E k \in applied : /\ Tells(k[1], "BidPlaced", id)
                          /\ Args(k[1]).bidder = row.highestBidder
                          /\ Args(k[1]).amountUsd = row.highestBidUsd
                          /\ Bid(k) \in bids
  /\ row.status \in {"ended", "cancelled"} =>
       \E k \in applied : \/ Tells(k[1], "AuctionEnded", id)
                          \/ Tells(k[1], "AuctionCancelled", id)

RowsOK ==
  \A id \in DOMAIN auctionRows : Backed(id, auctionRows[id], Applied, bidRows)

(* A bid in the history is that of a stored event.                         *)
BidsOK ==
  \A b \in bidRows :
    /\ b.key \in DOMAIN rawEvents
    /\ b.key[1] \in Market("BidPlaced")
    /\ b = Bid(b.key)

HandDecoded == pc = "handle" => InHand.log \notin Skipped \cup Undecodable

(* Between its two statements, the bid in hand is in the history, and not  *)
(* before.                                                                 *)
HandOK ==
  /\ bidInserted => pc = "handle" /\ Is("BidPlaced") /\ Bid(Key(InHand)) \in bidRows
  /\ pc = "handle" /\ ~bidInserted => \A b \in bidRows : b.key # Key(InHand)

RunnerInv == OInv /\ EndsOK /\ LossOK

IndexTypeInv == TInv /\ InRangeOK /\ HandDecoded /\ IndexTypeOK

IndexInv == RunnerInv /\ IndexTypeInv /\ RowsOK /\ BidsOK /\ HandOK
-----------------------------------------------------------------------------
(* The event in hand comes after those of its source that were applied, in *)
(* one history.                                                            *)
LEMMA AppliedPlace ==
  ASSUME RunnerInv, NEW k \in Applied
  PROVE  /\ k \in DOMAIN rawEvents
         /\ At(k) \in DOMAIN chain /\ Placed(k, At(k))
         /\ SourceOf[k[1]] \in Sources
         /\ \E i \in DOMAIN handled[SourceOf[k[1]]] :
              handled[SourceOf[k[1]]][i] = k
<1>1. PICK s \in Sources : k \in Range1(handled[s])
  BY DEF Applied
<1>2. PICK i \in DOMAIN handled[s] : handled[s][i] = k
  BY <1>1 DEF Range1
<1>3. k \in DOMAIN rawEvents /\ SourceOf[k[1]] = s
  BY <1>2 DEF RunnerInv, OInv, OrderOK
<1>4. OnChain(k, rawEvents[k], At(k))
  BY <1>3, StoredAt DEF RunnerInv, OInv, BInv, SInv
<1>5. QED
  BY <1>2, <1>3, <1>4 DEF OnChain

LEMMA HandTyped ==
  ASSUME TInv, InRangeOK, pc = "handle"
  PROVE  /\ InHand \in Fetched /\ InHand \in batch
         /\ Key(InHand) \in Keys /\ Key(InHand)[1] = InHand.log
         /\ SourceOf[InHand.log] = source
<1>1. TypeOK /\ BatchOK /\ batch # {}
  BY DEF TInv, BatchOK
<1>2. InHand \in batch
  BY <1>1, FirstInBatch DEF InHand
<1>3. InHand \in Fetched
  BY <1>1, <1>2 DEF TypeOK
<1>4. Key(InHand) \in Keys /\ Key(InHand)[1] = InHand.log
  BY <1>3 DEF Key, Keys, Fetched
<1>5. QED
  BY <1>2, <1>3, <1>4 DEF InRangeOK

LEMMA HandPlace ==
  ASSUME RunnerInv, pc = "handle"
  PROVE  /\ Key(InHand)[1] = InHand.log /\ SourceOf[InHand.log] = source
         /\ Key(InHand) \in DOMAIN rawEvents
         /\ InHand.height \in DOMAIN chain
         /\ Placed(Key(InHand), InHand.height)
<1>1. TInv /\ FetchedOK /\ InRangeOK /\ PendingOK
  BY DEF RunnerInv, OInv, BInv, SInv
<1>2. /\ InHand \in batch /\ Key(InHand)[1] = InHand.log
      /\ SourceOf[InHand.log] = source
  BY <1>1, HandTyped
<1>3. OnChain(Key(InHand), InHand.hash, InHand.height)
  BY <1>1, <1>2 DEF FetchedOK
<1>4. Key(InHand) \in DOMAIN rawEvents
  BY <1>1 DEF PendingOK, InHand
<1>5. QED
  BY <1>2, <1>3, <1>4 DEF OnChain

LEMMA HandIsLast ==
  ASSUME RunnerInv, pc = "handle",
         NEW k \in Applied, SourceOf[k[1]] = source,
         NEW c \in Applied \cup {Key(InHand)}
  PROVE  \E h \in Histories : \E x, y, z \in DOMAIN h :
           x < y /\ h[x] = k[1] /\ h[y] = InHand.log /\ h[z] = c[1]
<1>1. TypeOK /\ EndsOK /\ OrderOK
  BY DEF RunnerInv, OInv, BInv, SInv, TInv
<1>2. /\ At(k) \in DOMAIN chain /\ Placed(k, At(k))
      /\ \E i \in DOMAIN handled[source] : handled[source][i] = k
  BY AppliedPlace
<1>3. /\ InHand.height \in DOMAIN chain
      /\ Placed(Key(InHand), InHand.height) /\ Key(InHand)[1] = InHand.log
  BY HandPlace
<1>4. Before(At(k), k[2], InHand.height, Key(InHand)[2])
  BY <1>1, <1>2 DEF OrderOK, InHand, Key
<1>5. PICK n \in DOMAIN chain : Placed(c, n)
  BY <1>3, AppliedPlace
<1>6. PICK h \in Histories : Agrees(h, chain)
  <2>1. chain # <<>>
    BY <1>3
  <2>2. QED
    BY <1>1, <2>1 DEF EndsOK
<1>7. /\ PlaceIn(k, At(k)) \in DOMAIN h /\ h[PlaceIn(k, At(k))] = k[1]
      /\ PlaceIn(c, n) \in DOMAIN h /\ h[PlaceIn(c, n)] = c[1]
  BY <1>1, <1>2, <1>5, <1>6, PlaceInHistory
<1>8. /\ PlaceIn(Key(InHand), InHand.height) \in DOMAIN h
      /\ h[PlaceIn(Key(InHand), InHand.height)] = InHand.log
  BY <1>1, <1>3, <1>6, PlaceInHistory
<1>9. PlaceIn(k, At(k)) < PlaceIn(Key(InHand), InHand.height)
  BY <1>1, <1>2, <1>3, <1>4, <1>6, PlacesOrdered
<1>10. QED
  BY <1>7, <1>8, <1>9

(* So it follows on what was applied of its auction.                       *)
LEMMA HandFollows ==
  ASSUME RunnerInv, pc = "handle", NEW id,
         NEW before \in AuctionEvents, NEW now \in AuctionEvents,
         NEW k \in Applied, Tells(k[1], before, id),
         Tells(InHand.log, now, id),
         NEW c \in Applied \cup {Key(InHand)},
         Tells(c[1], "AuctionCreatedV3", id)
  PROVE  /\ before \notin {"AuctionEnded", "AuctionCancelled"}
         /\ now # "AuctionCreatedV3"
         /\ before = "BidPlaced" /\ now = "BidPlaced" =>
              Args(k[1]).amountUsd < Args(InHand.log).amountUsd
<1>1. /\ MarketLog(k[1]) /\ Emitted[k[1]].name = before
      /\ Emits(k[1], "auction_market_v3", before)
  BY NamedLogs DEF Tells
<1>2. /\ MarketLog(InHand.log) /\ Emitted[InHand.log].name = now
      /\ Emits(InHand.log, "auction_market_v3", now)
  BY NamedLogs DEF Tells
<1>3. Emits(c[1], "auction_market_v3", "AuctionCreatedV3")
  BY NamedLogs DEF Tells
<1>4. SourceOf[k[1]] = source
  <2>1. SourceOf[InHand.log] = source
    BY HandPlace
  <2>2. SourceOf[k[1]] \in Sources /\ source \in Sources
    BY AppliedPlace DEF RunnerInv, OInv, BInv, SInv, TInv, TypeOK
  <2>3. QED
    BY <1>1, <1>2, <2>1, <2>2, IndexAssumption DEF MarketLog
<1>5. PICK h \in Histories : \E x, y, z \in DOMAIN h :
        x < y /\ h[x] = k[1] /\ h[y] = InHand.log /\ h[z] = c[1]
  BY <1>4, HandIsLast
<1>6. PICK x \in DOMAIN h, y \in DOMAIN h, z \in DOMAIN h :
        x < y /\ h[x] = k[1] /\ h[y] = InHand.log /\ h[z] = c[1]
  BY <1>5
<1>7. /\ Args(h[x]).auctionId = id /\ Args(h[y]).auctionId = id
      /\ Args(h[z]).auctionId = id
  BY <1>6 DEF Tells
<1>8. \A q \in {x, y} :
        /\ \E name \in AuctionEvents : Emits(h[q], "auction_market_v3", name)
        /\ Args(h[q]).auctionId = Args(h[z]).auctionId
  BY <1>1, <1>2, <1>6, <1>7
<1>9. /\ Emitted[h[x]].name \notin {"AuctionEnded", "AuctionCancelled"}
      /\ Emitted[h[y]].name # "AuctionCreatedV3"
      /\ Emitted[h[x]].name = "BidPlaced" /\ Emitted[h[y]].name = "BidPlaced" =>
           Args(h[x]).amountUsd < Args(h[y]).amountUsd
  BY <1>3, <1>6, <1>8, HistoriesInOrder
<1>10. QED
  BY <1>1, <1>2, <1>6, <1>9
-----------------------------------------------------------------------------
(* What a step does to the tables: nothing, the first statement of         *)
(* handleBidPlaced, or the last of a handler.                              *)
Quiet == UNCHANGED <<auctionRows, bidRows, nftRows, handled>>

Inserting ==
  /\ pc = "handle" /\ Is("BidPlaced") /\ ~bidInserted
  /\ InsertBid(Key(InHand), Payload)
  /\ UNCHANGED handled

Applying ==
  /\ pc = "handle" /\ Apply(InHand)
  /\ ReadyForLast /\ LastStatement

LEMMA RunnerTypes ==
  /\ RunnerInv => TInv /\ InRangeOK
  /\ TInv => TypeOK /\ BatchOK
BY DEF RunnerInv, OInv, BInv, SInv, TInv

LEMMA IndexIsRunner == [IndexNext]_indexVars => [Next]_vars
BY DEF IndexNext, IndexerStep, Between, HandleBidInsert, HandleLast, IndexFail,
       Next, RunnerStep, indexVars

LEMMA IndexSteps ==
  ASSUME TInv, [IndexNext]_indexVars
  PROVE  Quiet \/ Inserting \/ Applying
<1>1. TypeOK /\ BatchOK /\ [Next]_vars
  BY RunnerTypes, IndexIsRunner
<1>2. CASE Between
  <2>1. pc # "handle"
    BY <1>2 DEF Between, Begin, CheckCursor, ReadHead, Fetch, DecodeFails,
       SkipLog, InsertOnce, ReadHash, SaveCursor
  <2>2. UNCHANGED handled
    BY <1>1, <2>1, HandledStays
  <2>3. QED
    BY <1>2, <2>2 DEF Between, rows, Quiet
<1>3. CASE HandleBidInsert
  BY <1>3 DEF HandleBidInsert, Inserting, vars
<1>4. CASE HandleLast
  BY <1>4 DEF HandleLast, Handle, Applying, InHand
<1>5. CASE IndexFail
  <2>1. CASE UNCHANGED handled
    BY <1>5, <2>1 DEF IndexFail, Quiet, Inserting, rows
  <2>2. CASE ~ UNCHANGED handled
    <3>1. pc = "handle" /\ Apply(First(batch))
      BY <1>1, <2>2, HandledStays
    <3>2. QED
      BY <1>5, <2>2, <3>1 DEF IndexFail, Applying, InHand
  <2>3. QED
    BY <2>1, <2>2
<1>6. CASE ChainStep /\ UNCHANGED <<rows, bidInserted>>
  BY <1>1, <1>6, ChainMoves DEF tables, rows, Quiet
<1>7. CASE UNCHANGED indexVars
  BY <1>7 DEF indexVars, vars, Quiet
<1>8. QED
  BY <1>2, <1>3, <1>4, <1>5, <1>6, <1>7 DEF IndexNext, IndexerStep

LEMMA ApplyAdds ==
  ASSUME TInv, InRangeOK, Applying
  PROVE  Applied' = Applied \cup {Key(InHand)}
<1> DEFINE k == Key(InHand)
           h == handled[source]
<1>1. source \in Sources /\ h \in Seq(Keys) /\ k \in Keys
  BY HandTyped, RunnerTypes DEF Applying, TypeOK
<1>2. /\ handled'[source] = Append(h, k)
      /\ \A s \in Sources \ {source} : handled'[s] = handled[s]
  BY <1>1, RunnerTypes DEF Applying, Apply, TypeOK
<1> HIDE DEF k, h
<1>3. Range1(Append(h, k)) = Range1(h) \cup {k}
  <2>1. Len(h) \in Nat /\ DOMAIN h = 1 .. Len(h)
    BY <1>1, LenProperties
  <2>2. /\ DOMAIN Append(h, k) = 1 .. Len(h) + 1
        /\ \A i \in 1 .. Len(h) : Append(h, k)[i] = h[i]
        /\ Append(h, k)[Len(h) + 1] = k
    BY <1>1, AppendProperties, LenProperties
  <2>3. 1 .. Len(h) + 1 = (1 .. Len(h)) \cup {Len(h) + 1}
    BY <2>1
  <2>4. QED
    BY <2>1, <2>2, <2>3 DEF Range1
<1>4. Applied' = UNION {Range1(handled'[s]) : s \in Sources}
  BY DEF Applied, Range1
<1> HIDE DEF Range1
<1>5. \A s \in Sources : Range1(handled'[s]) =
        IF s = source THEN Range1(handled[s]) \cup {k} ELSE Range1(handled[s])
  BY <1>2, <1>3 DEF h
<1>6. QED
  BY <1>1, <1>4, <1>5 DEF Applied, k

LEMMA AppliedSame ==
  ASSUME UNCHANGED handled
  PROVE  Applied' = Applied
BY DEF Applied, Range1
-----------------------------------------------------------------------------
(* The event in hand and its bid.                                          *)
LEMMA DecodedStep ==
  ASSUME TInv, HandDecoded, [IndexNext]_indexVars
  PROVE  HandDecoded'
<1> SUFFICES ASSUME pc' = "handle"
             PROVE  InHand'.log \notin Skipped \cup Undecodable
  BY DEF HandDecoded
<1>1. /\ UNCHANGED batch
      /\ pc = "handle" \/ First(batch).log \notin Skipped \cup Undecodable
  BY RunnerTypes, IndexIsRunner, InHandStays
<1>2. InHand' = InHand
  BY <1>1 DEF InHand, First
<1>3. QED
  BY <1>1, <1>2 DEF HandDecoded, InHand

LEMMA HandStep ==
  ASSUME RunnerInv, BidsOK, HandOK, [IndexNext]_indexVars
  PROVE  HandOK'
<1>1. TypeOK /\ BatchOK /\ [Next]_vars
  BY RunnerTypes, IndexIsRunner
<1>2. CASE pc' # "handle"
  <2>1. bidInserted' = FALSE \/ UNCHANGED <<pc, bidInserted>> \/ Between
    <3>1. ChainStep => UNCHANGED pc
      BY <1>1, ChainMoves
    <3>2. ~ HandleBidInsert
      BY <1>2 DEF HandleBidInsert, vars
    <3>3. QED
      BY <3>1, <3>2 DEF IndexNext, IndexerStep, HandleLast, IndexFail,
         indexVars, vars
  <2>2. Between => pc # "handle" /\ bidInserted' = bidInserted
    BY DEF Between, Begin, CheckCursor, ReadHead, Fetch, DecodeFails, SkipLog,
       InsertOnce, ReadHash, SaveCursor
  <2>3. bidInserted' = FALSE
    BY <1>2, <2>1, <2>2 DEF HandOK
  <2>4. QED
    BY <1>2, <2>3 DEF HandOK
<1>3. CASE pc' = "handle"
  <2>1. /\ UNCHANGED <<handled, batch, source>>
        /\ \/ pc = "handle" /\ UNCHANGED rawEvents
           \/ /\ pc = "logs" /\ batch # {}
              /\ First(batch).log \notin Skipped \cup Undecodable
              /\ Key(First(batch)) \notin DOMAIN rawEvents
              /\ Store(First(batch))
    BY <1>1, <1>3, InHandStays
  <2>2. InHand' = InHand
    BY <2>1 DEF InHand, First
  <2>3. CASE HandleBidInsert
    <3>1. /\ bidInserted' = TRUE /\ pc = "handle" /\ Is("BidPlaced")
          /\ InsertBid(Key(InHand), Payload) /\ ~bidInserted
      BY <2>3 DEF HandleBidInsert
    <3>2. /\ Key(InHand)[1] = InHand.log /\ InHand.log \in Market("BidPlaced")
      BY <3>1, HandPlace DEF Is
    <3>3. /\ Payload.auction_id = Args(InHand.log).auctionId
          /\ Payload.bidder = Args(InHand.log).bidder
          /\ Payload.amount_usd = Args(InHand.log).amountUsd
      BY <3>2, AuctionPayload, BidPayload DEF Payload, AuctionEvents
    <3>4. \A b \in bidRows : b.key # Key(InHand)
      BY <3>1 DEF HandOK
    <3>5. bidRows' = bidRows \cup {Bid(Key(InHand))}
      BY <3>1, <3>2, <3>3, <3>4 DEF InsertBid, Bid
    <3>6. QED
      BY <1>3, <2>2, <3>1, <3>2, <3>5 DEF HandOK, Is, Key, Bid
  <2>4. CASE ~ HandleBidInsert
    <3>1. UNCHANGED <<rows, bidInserted>>
      BY <1>3, <2>4 DEF IndexNext, IndexerStep, Between, HandleLast, Handle,
         IndexFail, Fail, Abandon, indexVars, rows
    <3>2. CASE pc = "handle"
      BY <1>3, <2>2, <3>1, <3>2 DEF HandOK, rows, Is, Key, Bid
    <3>3. CASE pc = "logs"
      <4>1. Key(InHand) \notin DOMAIN rawEvents
        BY <2>1, <3>3 DEF InHand
      <4>2. ~bidInserted' /\ bidRows' = bidRows
        BY <3>1, <3>3 DEF HandOK, rows
      <4>3. \A b \in bidRows : b.key # Key(InHand)
        BY <4>1 DEF BidsOK
      <4>4. QED
        BY <1>3, <2>2, <4>1, <4>2, <4>3 DEF HandOK, Key
    <3>4. QED
      BY <2>1, <3>2, <3>3
  <2>5. QED
    BY <2>3, <2>4
<1>4. QED
  BY <1>2, <1>3
-----------------------------------------------------------------------------
(* The statements, with what the events say.                               *)
LEMMA InsertedBid ==
  ASSUME TInv, InRangeOK, Inserting
  PROVE  /\ bidRows' = IF \E b \in bidRows : b.key = Key(InHand) THEN bidRows
                       ELSE bidRows \cup {Bid(Key(InHand))}
         /\ UNCHANGED <<auctionRows, nftRows, handled>>
         /\ Key(InHand)[1] \in Market("BidPlaced")
<1>1. /\ Key(InHand)[1] = InHand.log /\ InHand.log \in Market("BidPlaced")
  BY HandTyped DEF Is, Inserting
<1>2. /\ Payload.auction_id = Args(InHand.log).auctionId
      /\ Payload.bidder = Args(InHand.log).bidder
      /\ Payload.amount_usd = Args(InHand.log).amountUsd
  BY <1>1, AuctionPayload, BidPayload DEF Payload, AuctionEvents
<1>3. QED
  BY <1>1, <1>2 DEF Inserting, InsertBid, Bid

Creating(id) ==
  /\ Tells(InHand.log, "AuctionCreatedV3", id)
  /\ auctionRows' =
       Upserted(auctionRows, id,
                [seller |-> Args(InHand.log).seller,
                 token_id |-> Args(InHand.log).tokenId, status |-> "pending",
                 highestBidder |-> IF id \in DOMAIN auctionRows
                                   THEN auctionRows[id].highestBidder ELSE Nobody,
                 highestBidUsd |-> IF id \in DOMAIN auctionRows
                                   THEN auctionRows[id].highestBidUsd ELSE 0])
  /\ UNCHANGED <<bidRows, nftRows>>

Raising(id) ==
  /\ Tells(InHand.log, "BidPlaced", id) /\ bidInserted
  /\ auctionRows' =
       IF id \in DOMAIN auctionRows
       THEN [auctionRows EXCEPT ![id] =
               [@ EXCEPT !.status = "active",
                         !.highestBidder = Args(InHand.log).bidder,
                         !.highestBidUsd = Args(InHand.log).amountUsd]]
       ELSE auctionRows
  /\ UNCHANGED <<bidRows, nftRows>>

Closing(id, name, status) ==
  /\ Tells(InHand.log, name, id)
  /\ auctionRows' = IF id \in DOMAIN auctionRows
                    THEN [auctionRows EXCEPT ![id] = [@ EXCEPT !.status = status]]
                    ELSE auctionRows
  /\ UNCHANGED <<bidRows, nftRows>>
Ending(id) ==
  \/ Closing(id, "AuctionEnded", "ended")
  \/ Closing(id, "AuctionCancelled", "cancelled")

Moving ==
  /\ Emits(InHand.log, "auction_nft", "Transfer")
  /\ nftRows' = Upserted(nftRows, Args(InHand.log).tokenId, Args(InHand.log).to)

Elsewhere ==
  /\ \A name \in AuctionEvents : InHand.log \notin Market(name)
  /\ UNCHANGED <<auctionRows, bidRows>>
  /\ \/ Moving
     \/ ~ Emits(InHand.log, "auction_nft", "Transfer") /\ UNCHANGED nftRows

LEMMA ApplyingCases ==
  ASSUME TInv, InRangeOK, HandDecoded, Applying
  PROVE  (\E id \in AuctionIds : Creating(id) \/ Raising(id) \/ Ending(id))
           \/ Elsewhere
<1> DEFINE l == InHand.log
           id == Args(l).auctionId
<1>1. ASSUME NEW name \in AuctionEvents, Is(name)
      PROVE  Payload.auction_id = id /\ id \in AuctionIds /\ Tells(l, name, id)
  BY <1>1, AuctionPayload DEF Is, Payload, Tells
<1>2. CASE Is("AuctionCreatedV3") /\ UpsertAuctionFromCreated(Payload)
  <2>1. /\ Payload.auction_id = id /\ id \in AuctionIds
        /\ Tells(l, "AuctionCreatedV3", id)
    BY <1>1, <1>2 DEF AuctionEvents
  <2>3. Payload.seller = Args(l).seller /\ Payload.token_id = Args(l).tokenId
    BY <1>2, CreatedPayload DEF Is, Payload
  <2>4. Creating(id)
    BY <1>2, <2>1, <2>3 DEF UpsertAuctionFromCreated, Creating
  <2>5. QED
    BY <2>1, <2>4
<1>3. CASE Is("BidPlaced") /\ ApplyBidPlaced(Payload)
  <2>1. /\ Payload.auction_id = id /\ id \in AuctionIds
        /\ Tells(l, "BidPlaced", id)
    BY <1>1, <1>3 DEF AuctionEvents
  <2>2. /\ Payload.bidder = Args(l).bidder
        /\ Payload.amount_usd = Args(l).amountUsd
    BY <1>3, BidPayload DEF Is, Payload
  <2>3. bidInserted
    BY <1>3 DEF Applying, ReadyForLast
  <2>4. Raising(id)
    BY <1>3, <2>1, <2>2, <2>3 DEF ApplyBidPlaced, Update, Raising
  <2>5. QED
    BY <2>1, <2>4
<1>4. CASE \/ Is("AuctionEnded") /\ MarkTerminal(Payload, "ended")
           \/ Is("AuctionCancelled") /\ MarkTerminal(Payload, "cancelled")
  <2>1. Payload.auction_id = id /\ id \in AuctionIds
    BY <1>1, <1>4 DEF AuctionEvents
  <2>2. /\ Is("AuctionEnded") => Tells(l, "AuctionEnded", id)
        /\ Is("AuctionCancelled") => Tells(l, "AuctionCancelled", id)
    BY <1>1 DEF AuctionEvents
  <2>3. Ending(id)
    BY <1>4, <2>1, <2>2 DEF MarkTerminal, Update, Ending, Closing
  <2>4. QED
    BY <2>1, <2>3
<1>5. CASE Abi[source] = "auction_nft" /\ UpsertNFT(Payload)
  <2>1. l \in Logs /\ SourceOf[l] = source /\ l \notin Skipped \cup Undecodable
    BY HandTyped DEF Applying, HandDecoded, Fetched
  <2>2. /\ Emits(l, "auction_nft", "Transfer")
        /\ Payload.token_id = Args(l).tokenId /\ Payload.to = Args(l).to
    BY <1>5, <2>1, NftDecoded DEF Payload
  <2>3. \A name : l \notin Market(name)
    BY <1>5, <2>1 DEF Market, Named
  <2>4. QED
    BY <1>5, <2>2, <2>3 DEF UpsertNFT, Elsewhere, Moving
<1>6. CASE /\ \/ Is("AuctionCreated") \/ \E name \in Generic : Is(name)
              \/ Abi[source] = "erc20"
           /\ UNCHANGED rows
  <2>1. SourceOf[l] = source
    BY HandTyped DEF Applying
  <2>2. \A name \in AuctionEvents : l \notin Market(name)
    BY <1>6, <2>1 DEF Is, Market, Named, Generic, AuctionEvents
  <2>3. ~ Emits(l, "auction_nft", "Transfer")
    BY <1>6, <2>1 DEF Is, Market, Named, Emits
  <2>4. QED
    BY <1>6, <2>2, <2>3 DEF rows, Elsewhere
<1>7. QED
  BY <1>2, <1>3, <1>4, <1>5, <1>6 DEF Applying, LastStatement
-----------------------------------------------------------------------------
(* Types.                                                                  *)
LEMMA CreatedId ==
  ASSUME NEW l, NEW id, Tells(l, "AuctionCreatedV3", id)
  PROVE  id \in {Event[k].payload.auction_id : k \in Market("AuctionCreatedV3")}
<1>1. l \in Market("AuctionCreatedV3") /\ Args(l).auctionId = id
  BY DEF Tells
<1>2. Event[l].payload.auction_id = id
  BY <1>1, AuctionPayload DEF AuctionEvents
<1>3. QED
  BY <1>1, <1>2

LEMMA BidType ==
  ASSUME NEW k \in Keys, k[1] \in Market("BidPlaced")
  PROVE  Bid(k) \in BidRow
<1>1. /\ Args(k[1]).auctionId \in AuctionIds
      /\ Args(k[1]).bidder \in Accounts /\ Args(k[1]).amountUsd \in Nat \ {0}
  BY AuctionPayload, BidPayload DEF AuctionEvents
<1>2. QED
  BY <1>1 DEF Bid, BidRow

LEMMA IndexTypeStep ==
  ASSUME TInv, InRangeOK, HandDecoded, IndexTypeOK, [IndexNext]_indexVars
  PROVE  IndexTypeOK'
<1> DEFINE created == {Event[l].payload.auction_id :
                         l \in Market("AuctionCreatedV3")}
<1>1. bidInserted' \in BOOLEAN
  BY DEF IndexNext, IndexerStep, Between, HandleBidInsert, HandleLast,
     IndexFail, indexVars, IndexTypeOK
<1>2. /\ DOMAIN auctionRows \subseteq created
      /\ auctionRows \in [DOMAIN auctionRows -> AuctionRow]
      /\ bidRows \subseteq BidRow
      /\ DOMAIN nftRows \subseteq Items
      /\ nftRows \in [DOMAIN nftRows -> Accounts \cup {Nobody}]
  BY DEF IndexTypeOK
<1>0. TypeOK'
  BY IndexIsRunner, TypeStep DEF TInv
<1> SUFFICES /\ DOMAIN auctionRows' \subseteq created
             /\ auctionRows' \in [DOMAIN auctionRows' -> AuctionRow]
             /\ bidRows' \subseteq BidRow
             /\ DOMAIN nftRows' \subseteq Items
             /\ nftRows' \in [DOMAIN nftRows' -> Accounts \cup {Nobody}]
  BY <1>0, <1>1 DEF IndexTypeOK
<1>3. CASE Quiet
  BY <1>2, <1>3 DEF Quiet
<1>4. CASE Inserting
  <2>1. /\ UNCHANGED <<auctionRows, nftRows>>
        /\ bidRows' \subseteq bidRows \cup {Bid(Key(InHand))}
    BY <1>4, InsertedBid
  <2>2. Bid(Key(InHand)) \in BidRow
    <3>1. Key(InHand) \in Keys /\ Key(InHand)[1] \in Market("BidPlaced")
      BY <1>4, HandTyped, InsertedBid DEF Inserting
    <3>2. QED
      BY <3>1, BidType
  <2>3. QED
    BY <1>2, <2>1, <2>2
<1>5. ASSUME NEW id \in AuctionIds, Creating(id)
      PROVE  /\ DOMAIN auctionRows' \subseteq created
             /\ auctionRows' \in [DOMAIN auctionRows' -> AuctionRow]
  <2>1. id \in created
    BY <1>5, CreatedId DEF Creating
  <2>2. Args(InHand.log).seller \in Accounts /\ Args(InHand.log).tokenId \in Items
    BY <1>5, CreatedPayload DEF Creating, Tells
  <2> DEFINE row == [seller |-> Args(InHand.log).seller,
                     token_id |-> Args(InHand.log).tokenId,
                     status |-> "pending",
                     highestBidder |->
                       IF id \in DOMAIN auctionRows
                       THEN auctionRows[id].highestBidder ELSE Nobody,
                     highestBidUsd |->
                       IF id \in DOMAIN auctionRows
                       THEN auctionRows[id].highestBidUsd ELSE 0]
  <2>3. row \in AuctionRow
    BY <1>2, <2>2 DEF AuctionRow
  <2>4. auctionRows' = Upserted(auctionRows, id, row)
    BY <1>5 DEF Creating
  <2> HIDE DEF row
  <2>5. QED
    BY <1>2, <2>1, <2>3, <2>4 DEF Upserted
<1>6. ASSUME NEW id \in AuctionIds, Raising(id) \/ Ending(id)
      PROVE  /\ DOMAIN auctionRows' = DOMAIN auctionRows
             /\ auctionRows' \in [DOMAIN auctionRows' -> AuctionRow]
  <2>1. CASE id \notin DOMAIN auctionRows
    BY <1>2, <1>6, <2>1 DEF Raising, Ending, Closing
  <2>2. CASE id \in DOMAIN auctionRows /\ Raising(id)
    <3>1. /\ Args(InHand.log).bidder \in Accounts
          /\ Args(InHand.log).amountUsd \in Nat
      BY <2>2, BidPayload DEF Raising, Tells
    <3> DEFINE row == [auctionRows[id] EXCEPT !.status = "active",
                         !.highestBidder = Args(InHand.log).bidder,
                         !.highestBidUsd = Args(InHand.log).amountUsd]
    <3>2. auctionRows[id] \in AuctionRow
      BY <1>2, <2>2
    <3>3. row \in AuctionRow
      BY <3>1, <3>2 DEF AuctionRow
    <3>4. auctionRows' = [auctionRows EXCEPT ![id] = row]
      BY <2>2 DEF Raising
    <3> HIDE DEF row
    <3>5. QED
      BY <1>2, <3>3, <3>4
  <2>3. CASE id \in DOMAIN auctionRows /\ Ending(id)
    <3>1. PICK status \in {"ended", "cancelled"} :
            auctionRows' =
              [auctionRows EXCEPT ![id] = [@ EXCEPT !.status = status]]
      BY <2>3 DEF Ending, Closing
    <3> DEFINE row == [auctionRows[id] EXCEPT !.status = status]
    <3>2. auctionRows[id] \in AuctionRow
      BY <1>2, <2>3
    <3>3. row \in AuctionRow
      BY <3>2 DEF AuctionRow
    <3>4. auctionRows' = [auctionRows EXCEPT ![id] = row]
      BY <3>1
    <3> HIDE DEF row
    <3>5. QED
      BY <1>2, <3>3, <3>4
  <2>4. QED
    BY <1>6, <2>1, <2>2, <2>3
<1>7. ASSUME NEW x \in Items, NEW a \in Accounts \cup {Nobody},
             nftRows' = Upserted(nftRows, x, a)
      PROVE  /\ DOMAIN nftRows' \subseteq Items
             /\ nftRows' \in [DOMAIN nftRows' -> Accounts \cup {Nobody}]
  BY <1>2, <1>7 DEF Upserted
<1>8. CASE pc = "handle" /\ Elsewhere
  <2>1. Moving => /\ Args(InHand.log).tokenId \in Items
                  /\ Args(InHand.log).to \in Accounts \cup {Nobody}
    BY <1>8, HandTyped, ArgsGiven DEF Moving, Fetched
  <2>2. QED
    BY <1>2, <1>7, <1>8, <2>1 DEF Elsewhere, Moving
<1>9. CASE Applying
  <2>1. CASE Elsewhere
    BY <1>8, <1>9, <2>1 DEF Applying
  <2>2. ASSUME NEW id \in AuctionIds, Creating(id) \/ Raising(id) \/ Ending(id)
        PROVE  /\ UNCHANGED <<bidRows, nftRows>>
               /\ DOMAIN auctionRows' \subseteq created
               /\ auctionRows' \in [DOMAIN auctionRows' -> AuctionRow]
    BY <1>2, <1>5, <1>6, <2>2 DEF Creating, Raising, Ending, Closing
  <2>3. QED
    BY <1>2, <1>9, <2>1, <2>2, ApplyingCases
<1>10. QED
  BY <1>3, <1>4, <1>9, IndexSteps
-----------------------------------------------------------------------------
(* The history of bids.                                                    *)
LEMMA BidsStep ==
  ASSUME RunnerInv, HandDecoded, BidsOK, [IndexNext]_indexVars
  PROVE  BidsOK'
<1>1. DOMAIN rawEvents \subseteq DOMAIN rawEvents'
  BY RunnerTypes, IndexIsRunner, RawGrows
<1>2. bidRows' \subseteq bidRows \cup {Bid(Key(InHand))}
      /\ (bidRows' # bidRows => Inserting)
  <2>1. CASE Quiet
    BY <2>1 DEF Quiet
  <2>2. CASE Inserting
    BY <2>2, RunnerTypes, InsertedBid
  <2>3. CASE Applying
    BY <2>3, RunnerTypes, ApplyingCases
       DEF Creating, Raising, Ending, Closing, Elsewhere
  <2>4. QED
    BY <2>1, <2>2, <2>3, RunnerTypes, IndexSteps
<1>3. CASE bidRows' = bidRows
  BY <1>1, <1>3 DEF BidsOK, Bid
<1>4. CASE bidRows' # bidRows
  <2>1. /\ Key(InHand) \in DOMAIN rawEvents
        /\ Key(InHand)[1] \in Market("BidPlaced")
    BY <1>2, <1>4, RunnerTypes, HandPlace, InsertedBid DEF Inserting
  <2>2. Bid(Key(InHand)).key = Key(InHand)
    BY DEF Bid
  <2>3. ASSUME NEW b \in bidRows'
        PROVE  /\ b.key \in DOMAIN rawEvents'
               /\ b.key[1] \in Market("BidPlaced") /\ b = Bid(b.key)
    <3>1. CASE b \in bidRows
      BY <1>1, <3>1 DEF BidsOK
    <3>2. CASE b = Bid(Key(InHand))
      BY <1>1, <2>1, <2>2, <3>2
    <3>3. QED
      BY <1>2, <3>1, <3>2
  <2>4. QED
    BY <2>3 DEF BidsOK, Bid
<1>5. QED
  BY <1>3, <1>4
-----------------------------------------------------------------------------
(* Rows, the logs applied and the bids.                                    *)
LEMMA BackedStays ==
  ASSUME NEW id, NEW row, NEW applied, NEW more, NEW bids, NEW others,
         Backed(id, row, applied, bids),
         applied \subseteq more, bids \subseteq others,
         \A k \in more \ applied : ~ Tells(k[1], "BidPlaced", id)
  PROVE  Backed(id, row, more, others)
BY DEF Backed

LEMMA OneTale ==
  ASSUME NEW l, NEW name, NEW id, Tells(l, name, id),
         NEW other, NEW i, Tells(l, other, i)
  PROVE  name = other /\ id = i
<1>1. Emitted[l].name = name /\ Emitted[l].name = other
  BY NamedLogs DEF Tells
<1>2. QED
  BY <1>1 DEF Tells

(* The applied bids on the auction of the bid in hand are below it, and    *)
(* the auction's row is not that of an ended one.                          *)
LEMMA RaisesRow ==
  ASSUME RunnerInv, IndexTypeOK, RowsOK, pc = "handle",
         NEW id \in DOMAIN auctionRows, Tells(InHand.log, "BidPlaced", id)
  PROVE  /\ \A k \in Applied : Tells(k[1], "BidPlaced", id) =>
              Args(k[1]).amountUsd < Args(InHand.log).amountUsd
         /\ auctionRows[id].highestBidUsd < Args(InHand.log).amountUsd
         /\ auctionRows[id].status \notin {"ended", "cancelled"}
<1> DEFINE row == auctionRows[id]
<1>1. Backed(id, row, Applied, bidRows) /\ row.highestBidder \in Accounts \cup {Nobody}
  BY DEF RowsOK, IndexTypeOK, AuctionRow
<1>2. PICK c \in Applied : Tells(c[1], "AuctionCreatedV3", id)
  BY <1>1 DEF Backed
<1>3. \A k \in Applied : Tells(k[1], "BidPlaced", id) =>
        Args(k[1]).amountUsd < Args(InHand.log).amountUsd
  BY <1>2, HandFollows DEF AuctionEvents
<1>4. Args(InHand.log).amountUsd \in Nat \ {0}
  BY BidPayload DEF Tells
<1>5. row.highestBidUsd < Args(InHand.log).amountUsd
  BY <1>1, <1>3, <1>4 DEF Backed
<1>6. row.status \notin {"ended", "cancelled"}
  BY <1>1, <1>2, HandFollows DEF AuctionEvents, Backed
<1>7. QED
  BY <1>3, <1>5, <1>6

LEMMA EndsRow ==
  ASSUME RunnerInv, RowsOK, pc = "handle", NEW id \in DOMAIN auctionRows,
         \/ Tells(InHand.log, "AuctionEnded", id)
         \/ Tells(InHand.log, "AuctionCancelled", id)
  PROVE  auctionRows[id].status \notin {"ended", "cancelled"}
<1>1. Backed(id, auctionRows[id], Applied, bidRows)
  BY DEF RowsOK
<1>2. PICK c \in Applied : Tells(c[1], "AuctionCreatedV3", id)
  BY <1>1 DEF Backed
<1>3. QED
  BY <1>1, <1>2, HandFollows DEF AuctionEvents, Backed

(* An auction is created once.                                             *)
LEMMA CreatedFirst ==
  ASSUME RunnerInv, RowsOK, pc = "handle", NEW id \in AuctionIds, Creating(id)
  PROVE  id \notin DOMAIN auctionRows
<1> SUFFICES ASSUME id \in DOMAIN auctionRows PROVE FALSE
  OBVIOUS
<1>1. PICK k \in Applied : Tells(k[1], "AuctionCreatedV3", id)
  BY DEF RowsOK, Backed
<1>2. QED
  BY <1>1, HandFollows DEF AuctionEvents, Creating

LEMMA CreatedBacked ==
  ASSUME RunnerInv, RowsOK, pc = "handle", NEW id \in AuctionIds, Creating(id),
         Applied' = Applied \cup {Key(InHand)}
  PROVE  Backed(id, auctionRows'[id], Applied', bidRows')
<1>1. Key(InHand)[1] = InHand.log /\ Tells(InHand.log, "AuctionCreatedV3", id)
  BY HandPlace DEF Creating
<1>2. /\ auctionRows'[id].highestBidder = Nobody
      /\ auctionRows'[id].highestBidUsd = 0
      /\ auctionRows'[id].status = "pending"
  BY CreatedFirst DEF Creating, Upserted
<1>3. \A k \in Applied' : ~ Tells(k[1], "BidPlaced", id)
  <2>1. ASSUME NEW k \in Applied, Tells(k[1], "BidPlaced", id) PROVE FALSE
    BY <1>1, <2>1, HandFollows DEF AuctionEvents
  <2>2. ~ Tells(InHand.log, "BidPlaced", id)
    BY <1>1, OneTale
  <2>3. QED
    BY <1>1, <2>1, <2>2
<1>4. QED
  BY <1>1, <1>2, <1>3 DEF Backed

LEMMA RaisedBacked ==
  ASSUME RunnerInv, IndexTypeOK, RowsOK, HandOK, pc = "handle",
         NEW id \in DOMAIN auctionRows, Raising(id),
         Applied' = Applied \cup {Key(InHand)}
  PROVE  Backed(id, auctionRows'[id], Applied', bidRows')
<1>1. /\ Key(InHand)[1] = InHand.log /\ Tells(InHand.log, "BidPlaced", id)
      /\ Bid(Key(InHand)) \in bidRows /\ bidRows' = bidRows
  BY HandPlace DEF Raising, HandOK
<1>2. auctionRows \in [DOMAIN auctionRows -> AuctionRow]
  BY DEF IndexTypeOK
<1>3. /\ auctionRows'[id].highestBidder = Args(InHand.log).bidder
      /\ auctionRows'[id].highestBidUsd = Args(InHand.log).amountUsd
      /\ auctionRows'[id].status = "active"
  BY <1>2 DEF Raising, AuctionRow
<1>4. Args(InHand.log).bidder # Nobody /\ Args(InHand.log).amountUsd \in Nat
  BY <1>1, BidPayload, IndexAssumption DEF Tells
<1>5. \E k \in Applied : Tells(k[1], "AuctionCreatedV3", id)
  BY DEF RowsOK, Backed
<1>6. \A k \in Applied : Tells(k[1], "BidPlaced", id) =>
        /\ Args(k[1]).amountUsd \in Nat
        /\ Args(k[1]).amountUsd < Args(InHand.log).amountUsd
  BY <1>1, RaisesRow, BidPayload DEF Tells
<1>7. \A k \in Applied' : Tells(k[1], "BidPlaced", id) =>
        Args(k[1]).amountUsd <= Args(InHand.log).amountUsd
  BY <1>1, <1>4, <1>6
<1>8. Key(InHand) \in Applied' /\ Applied \subseteq Applied'
  OBVIOUS
<1>9. QED
  BY <1>1, <1>3, <1>4, <1>5, <1>7, <1>8 DEF Backed

LEMMA EndedBacked ==
  ASSUME RunnerInv, IndexTypeOK, RowsOK, pc = "handle",
         NEW id \in DOMAIN auctionRows, Ending(id),
         Applied' = Applied \cup {Key(InHand)}
  PROVE  Backed(id, auctionRows'[id], Applied', bidRows')
<1>1. /\ Key(InHand)[1] = InHand.log /\ bidRows' = bidRows
      /\ \/ Tells(InHand.log, "AuctionEnded", id)
         \/ Tells(InHand.log, "AuctionCancelled", id)
  BY HandPlace DEF Ending, Closing
<1>2. auctionRows[id] \in AuctionRow
  BY DEF IndexTypeOK
<1>3. /\ auctionRows'[id].highestBidder = auctionRows[id].highestBidder
      /\ auctionRows'[id].highestBidUsd = auctionRows[id].highestBidUsd
  BY <1>2 DEF Ending, Closing, AuctionRow
<1>4. \A k \in Applied' \ Applied : ~ Tells(k[1], "BidPlaced", id)
  BY <1>1, OneTale
<1>5. Backed(id, auctionRows[id], Applied', bidRows')
  BY <1>1, <1>4, BackedStays DEF RowsOK
<1>6. \E k \in Applied' : \/ Tells(k[1], "AuctionEnded", id)
                          \/ Tells(k[1], "AuctionCancelled", id)
  BY <1>1
<1>7. QED
  BY <1>3, <1>5, <1>6 DEF Backed

LEMMA RowsStep ==
  ASSUME RunnerInv, HandDecoded, IndexTypeOK, RowsOK, HandOK,
         [IndexNext]_indexVars
  PROVE  RowsOK'
<1>1. CASE Quiet
  BY <1>1, AppliedSame DEF Quiet, RowsOK
<1>2. CASE Inserting
  <2>1. /\ UNCHANGED <<auctionRows, handled>> /\ bidRows \subseteq bidRows'
    BY <1>2, RunnerTypes, InsertedBid
  <2>2. Applied' = Applied
    BY <2>1, AppliedSame
  <2>3. \A id \in DOMAIN auctionRows :
          Backed(id, auctionRows[id], Applied, bidRows')
    BY <2>1, BackedStays DEF RowsOK
  <2>4. QED
    BY <2>1, <2>2, <2>3 DEF RowsOK
<1>3. CASE Applying
  <2>1. /\ Applied' = Applied \cup {Key(InHand)} /\ pc = "handle"
        /\ Key(InHand)[1] = InHand.log
    BY <1>3, RunnerTypes, ApplyAdds, HandPlace DEF Applying
  <2>2. ASSUME NEW i \in DOMAIN auctionRows, bidRows' = bidRows,
               ~ Tells(InHand.log, "BidPlaced", i)
        PROVE  Backed(i, auctionRows[i], Applied', bidRows')
    <3>1. Backed(i, auctionRows[i], Applied, bidRows)
      BY DEF RowsOK
    <3>2. \A k \in Applied' \ Applied : ~ Tells(k[1], "BidPlaced", i)
      BY <2>1, <2>2
    <3>3. QED
      BY <2>1, <2>2, <3>1, <3>2, BackedStays
  <2>3. CASE Elsewhere
    BY <2>2, <2>3 DEF Elsewhere, RowsOK, Tells, AuctionEvents
  <2>4. ASSUME NEW id \in AuctionIds, Creating(id)
        PROVE  RowsOK'
    <3>1. /\ DOMAIN auctionRows' = DOMAIN auctionRows \cup {id}
          /\ \A i \in DOMAIN auctionRows : auctionRows'[i] = auctionRows[i]
          /\ bidRows' = bidRows
      BY <2>1, <2>4, CreatedFirst DEF Creating, Upserted
    <3>2. Backed(id, auctionRows'[id], Applied', bidRows')
      BY <2>1, <2>4, CreatedBacked
    <3>3. \A i \in DOMAIN auctionRows : ~ Tells(InHand.log, "BidPlaced", i)
      BY <2>4, OneTale DEF Creating
    <3>4. QED
      BY <2>2, <3>1, <3>2, <3>3 DEF RowsOK
  <2>5. ASSUME NEW id \in AuctionIds, Raising(id) \/ Ending(id)
        PROVE  RowsOK'
    <3>1. /\ DOMAIN auctionRows' = DOMAIN auctionRows
          /\ \A i \in DOMAIN auctionRows \ {id} : auctionRows'[i] = auctionRows[i]
          /\ bidRows' = bidRows
      BY <2>5 DEF Raising, Ending, Closing
    <3>2. id \in DOMAIN auctionRows =>
            Backed(id, auctionRows'[id], Applied', bidRows')
      BY <2>1, <2>5, RaisedBacked, EndedBacked
    <3>3. \A i \in DOMAIN auctionRows \ {id} :
            ~ Tells(InHand.log, "BidPlaced", i)
      BY <2>5, OneTale DEF Raising, Ending, Closing
    <3>4. QED
      BY <2>2, <3>1, <3>2, <3>3 DEF RowsOK
  <2>6. QED
    BY <1>3, <2>3, <2>4, <2>5, RunnerTypes, ApplyingCases
<1>4. QED
  BY <1>1, <1>2, <1>3, RunnerTypes, IndexSteps
-----------------------------------------------------------------------------
(* Types do not depend on how deep the chain reorganises.                  *)
LEMMA IndexTypeInit == IndexInit => IndexTypeInv
<1> SUFFICES ASSUME IndexInit PROVE IndexTypeInv
  OBVIOUS
<1>1. Init /\ TInv
  BY TypeInit DEF IndexInit
<1>2. InRangeOK /\ HandDecoded
  BY <1>1 DEF Init, InRangeOK, HandDecoded
<1>3. IndexTypeOK
  <2>1. DOMAIN <<>> = {} /\ \A S : <<>> \in [{} -> S]
    OBVIOUS
  <2>2. /\ auctionRows = <<>> /\ bidRows = {} /\ nftRows = <<>>
        /\ bidInserted = FALSE
    BY DEF IndexInit
  <2>3. QED
    BY <1>1, <2>1, <2>2 DEF IndexTypeOK, TInv
<1>4. QED
  BY <1>1, <1>2, <1>3 DEF IndexTypeInv

LEMMA IndexTypeKept ==
  ASSUME IndexTypeInv, [IndexNext]_indexVars
  PROVE  IndexTypeInv'
<1>1. TInv /\ TypeOK /\ BatchOK /\ InRangeOK /\ HandDecoded /\ IndexTypeOK
  BY RunnerTypes DEF IndexTypeInv
<1>2. [Next]_vars
  BY IndexIsRunner
<1>3. TInv' /\ InRangeOK'
  BY <1>1, <1>2, TypeStep, InRangeStep
<1>4. HandDecoded' /\ IndexTypeOK'
  BY <1>1, DecodedStep, IndexTypeStep
<1>5. QED
  BY <1>3, <1>4 DEF IndexTypeInv

(* Whatever the chain does and whichever calls fail, a row of auctions is  *)
(* one that AuctionCreatedV3 made, and every column has a value the        *)
(* contract gave: a decoder that took a wrong topic would break it.        *)
THEOREM IndexTypes == IndexSpec => []IndexTypeOK
<1>1. IndexInit => IndexTypeInv
  BY IndexTypeInit
<1>2. IndexTypeInv /\ [IndexNext]_indexVars => IndexTypeInv'
  BY IndexTypeKept
<1>3. IndexTypeInv => IndexTypeOK
  BY DEF IndexTypeInv
<1>4. QED
  BY <1>1, <1>2, <1>3, PTL DEF IndexSpec
-----------------------------------------------------------------------------
(* The rest does.                                                          *)
LEMMA IndexInitially == IndexInit => IndexInv
<1> SUFFICES ASSUME IndexInit PROVE IndexInv
  OBVIOUS
<1>1. Init
  BY DEF IndexInit
<1>2. EndsOK /\ RunnerInv
  <2>1. EndsOK
    BY <1>1 DEF Init, EndsOK
  <2>2. QED
    BY <1>1, <2>1, OrderInit, LossInit DEF RunnerInv
<1>3. RowsOK /\ BidsOK /\ HandOK
  BY <1>1 DEF IndexInit, Init, RowsOK, BidsOK, HandOK
<1>4. QED
  BY <1>2, <1>3, IndexTypeInit DEF IndexInv

LEMMA IndexKept ==
  ASSUME ReorgDepth <= Confirmations, IndexInv, [IndexNext]_indexVars
  PROVE  IndexInv'
<1>1. RunnerInv /\ IndexTypeInv /\ RowsOK /\ BidsOK /\ HandOK
  BY DEF IndexInv
<1>2. /\ OInv /\ EndsOK /\ LossOK /\ TInv /\ TypeOK /\ HandDecoded
      /\ IndexTypeOK
  BY <1>1, RunnerTypes DEF RunnerInv, IndexTypeInv
<1>3. [Next]_vars
  BY IndexIsRunner
<1>4. RunnerInv'
  <2>1. OInv'
    BY <1>2, <1>3, OrderKept
  <2>2. EndsOK' /\ LossOK'
    BY <1>2, <1>3, EndsStep, LossKept
  <2>3. QED
    BY <2>1, <2>2 DEF RunnerInv
<1>5. IndexTypeInv'
  BY <1>1, IndexTypeKept
<1>6. RowsOK'
  BY <1>1, <1>2, RowsStep
<1>7. BidsOK' /\ HandOK'
  BY <1>1, <1>2, BidsStep, HandStep
<1>8. QED
  BY <1>4, <1>5, <1>6, <1>7 DEF IndexInv

(* A better bid than the one a row shows is that of an event which was     *)
(* stored and never applied, or of the one in hand.                        *)
LEMMA BetterBidsAreLost ==
  ASSUME IndexInv, NEW id \in DOMAIN auctionRows,
         NEW b \in bidRows, b.auction = id,
         b.amountUsd > auctionRows[id].highestBidUsd
  PROVE  b.key \in Lost \/ (bidInserted /\ b.key = Key(InHand))
<1>1. /\ RunnerInv /\ IndexTypeOK /\ BidsOK /\ HandOK
      /\ Backed(id, auctionRows[id], Applied, bidRows)
  BY DEF IndexInv, IndexTypeInv, RowsOK
<1>2. /\ b.key \in DOMAIN rawEvents /\ b = Bid(b.key)
      /\ b.key[1] \in Market("BidPlaced")
  BY <1>1 DEF BidsOK
<1>3. /\ Tells(b.key[1], "BidPlaced", id)
      /\ b.amountUsd = Args(b.key[1]).amountUsd
  BY <1>2 DEF Tells, Bid
<1>4. b.amountUsd \in Nat /\ auctionRows[id].highestBidUsd \in Nat
  BY <1>1 DEF IndexTypeOK, BidRow, AuctionRow
<1>5. b.key \notin Applied
  <2>1. b.key \in Applied => b.amountUsd <= auctionRows[id].highestBidUsd
    BY <1>1, <1>3 DEF Backed
  <2>2. QED
    BY <1>4, <2>1
<1>6. b.key \in BeingApplied => bidInserted /\ b.key = Key(InHand)
  BY <1>1 DEF BeingApplied, HandOK, InHand
<1>7. QED
  BY <1>2, <1>5, <1>6 DEF Lost

(* The auction list and the history of bids agree: the best bid a row      *)
(* shows is one of the history, and the history holds a better one only    *)
(* between the two statements of handleBidPlaced, or for an event lost to  *)
(* an interruption.                                                        *)
THEOREM RowsStayBacked ==
  ASSUME ReorgDepth <= Confirmations
  PROVE  IndexSpec => []RowsBackedByHistory
<1>1. IndexInit => IndexInv
  BY IndexInitially
<1>2. IndexInv /\ [IndexNext]_indexVars => IndexInv'
  BY IndexKept
<1>3. IndexInv => RowsBackedByHistory
  <2> SUFFICES ASSUME IndexInv, NEW id \in DOMAIN auctionRows
               PROVE  /\ auctionRows[id].highestBidder # Nobody =>
                           \E b \in {b \in bidRows : b.auction = id} :
                             /\ b.bidder = auctionRows[id].highestBidder
                             /\ b.amountUsd = auctionRows[id].highestBidUsd
                      /\ Cardinality({b \in {b \in bidRows : b.auction = id} :
                           b.amountUsd > auctionRows[id].highestBidUsd})
                           <= failures + IF bidInserted THEN 1 ELSE 0
    BY DEF RowsBackedByHistory
  <2>1. /\ Backed(id, auctionRows[id], Applied, bidRows)
        /\ BidsOK /\ LossOK /\ TypeOK
    BY RunnerTypes DEF IndexInv, RunnerInv, RowsOK
  <2>2. ASSUME auctionRows[id].highestBidder # Nobody
        PROVE  \E b \in {b \in bidRows : b.auction = id} :
                 /\ b.bidder = auctionRows[id].highestBidder
                 /\ b.amountUsd = auctionRows[id].highestBidUsd
    <3>1. PICK k \in Applied : /\ Tells(k[1], "BidPlaced", id)
                               /\ Args(k[1]).bidder = auctionRows[id].highestBidder
                               /\ Args(k[1]).amountUsd = auctionRows[id].highestBidUsd
                               /\ Bid(k) \in bidRows
      BY <2>1, <2>2 DEF Backed
    <3>2. Bid(k).auction = id
      BY <3>1 DEF Bid, Tells
    <3>3. QED
      BY <3>1, <3>2 DEF Bid
  <2> DEFINE better == {b \in {b \in bidRows : b.auction = id} :
                          b.amountUsd > auctionRows[id].highestBidUsd}
             missed == Lost \cup (IF bidInserted THEN {Key(InHand)} ELSE {})
             extra == IF bidInserted THEN 1 ELSE 0
  <2>3. /\ IsFiniteSet(missed) /\ Cardinality(missed) \in Nat
        /\ Cardinality(missed) <= failures + extra
    <3>1. /\ IsFiniteSet(Lost) /\ Cardinality(Lost) \in Nat
          /\ Cardinality(Lost) <= failures /\ failures \in Nat
      BY <2>1, FailuresNat, FS_CardinalityType DEF LossOK
    <3>2. CASE bidInserted
      <4>1. missed = Lost \cup {Key(InHand)} /\ extra = 1
        BY <3>2
      <4> HIDE DEF missed, extra
      <4>2. /\ IsFiniteSet(missed)
            /\ \/ Cardinality(missed) = Cardinality(Lost)
               \/ Cardinality(missed) = Cardinality(Lost) + 1
        BY <3>1, <4>1, FS_AddElement
      <4>3. QED
        BY <3>1, <4>1, <4>2, FS_CardinalityType
    <3>3. CASE ~ bidInserted
      <4>1. missed = Lost /\ extra = 0
        BY <3>3
      <4> HIDE DEF missed, extra
      <4>2. QED
        BY <3>1, <4>1
    <3>4. QED
      BY <3>2, <3>3
  <2>4. [b \in better |-> b.key] \in Injection(better, missed)
    <3>1. \A b \in better : b.key \in missed
      BY BetterBidsAreLost
    <3>2. \A b \in better : b = Bid(b.key)
      BY <2>1 DEF BidsOK
    <3>3. \A a, b \in better : a.key = b.key => a = b
      BY <3>2
    <3> HIDE DEF better, missed
    <3>4. QED
      BY <3>1, <3>3 DEF Injection, IsInjective
  <2>5. Cardinality(better) <= failures + extra
    <3>1. IsFiniteSet(better) /\ Cardinality(better) <= Cardinality(missed)
      <4> HIDE DEF better, missed
      <4>1. QED
        BY <2>3, <2>4, FS_Injection
    <3>2. Cardinality(better) \in Nat
      BY <3>1, FS_CardinalityType
    <3>3. failures \in Nat /\ extra \in Nat
      BY <2>1, FailuresNat
    <3> HIDE DEF better, missed, extra
    <3>4. QED
      BY <2>3, <3>1, <3>2, <3>3
  <2>6. QED
    BY <2>2, <2>5
<1>4. QED
  BY <1>1, <1>2, <1>3, PTL DEF IndexSpec

(* Through retries, restarts and blocks fetched again, no late statement   *)
(* takes a row back: its best bid only rises and an end is final.          *)
THEOREM RowsNeverGoBack ==
  ASSUME ReorgDepth <= Confirmations
  PROVE  IndexSpec => RowsOnlyAdvance
<1> DEFINE Advances ==
      \A id \in DOMAIN auctionRows :
        /\ id \in DOMAIN auctionRows'
        /\ auctionRows'[id].highestBidUsd >= auctionRows[id].highestBidUsd
        /\ auctionRows[id].status \in {"ended", "cancelled"} =>
             auctionRows'[id] = auctionRows[id]
<1>1. IndexInit => IndexInv
  BY IndexInitially
<1>2. IndexInv /\ [IndexNext]_indexVars => IndexInv'
  BY IndexKept
<1>3. IndexInv /\ [IndexNext]_indexVars => Advances
  <2> SUFFICES ASSUME IndexInv, [IndexNext]_indexVars PROVE Advances
    OBVIOUS
  <2>1. /\ RunnerInv /\ TInv /\ InRangeOK /\ HandDecoded /\ IndexTypeOK
        /\ RowsOK /\ HandOK
    BY DEF IndexInv, IndexTypeInv
  <2>2. auctionRows \in [DOMAIN auctionRows -> AuctionRow]
    BY <2>1 DEF IndexTypeOK
  <2>3. \A id \in DOMAIN auctionRows : auctionRows[id].highestBidUsd \in Nat
    BY <2>2 DEF AuctionRow
  <2>4. CASE UNCHANGED auctionRows
    <3>1. DOMAIN auctionRows' = DOMAIN auctionRows
          /\ \A id \in DOMAIN auctionRows : auctionRows'[id] = auctionRows[id]
      BY <2>4
    <3>2. QED
      BY <2>3, <3>1
  <2>5. ASSUME NEW id \in AuctionIds, pc = "handle", Creating(id)
        PROVE  Advances
    <3>1. id \notin DOMAIN auctionRows
      BY <2>1, <2>5, CreatedFirst
    <3>2. /\ DOMAIN auctionRows \subseteq DOMAIN auctionRows'
          /\ \A i \in DOMAIN auctionRows : auctionRows'[i] = auctionRows[i]
      BY <2>5, <3>1 DEF Creating, Upserted
    <3>3. QED
      BY <2>3, <3>2
  <2>6. ASSUME NEW id \in AuctionIds, pc = "handle", Raising(id) \/ Ending(id)
        PROVE  Advances
    <3>1. /\ DOMAIN auctionRows' = DOMAIN auctionRows
          /\ \A i \in DOMAIN auctionRows \ {id} : auctionRows'[i] = auctionRows[i]
      BY <2>6 DEF Raising, Ending, Closing
    <3>2. ASSUME id \in DOMAIN auctionRows
          PROVE  /\ auctionRows[id].status \notin {"ended", "cancelled"}
                 /\ auctionRows'[id].highestBidUsd >= auctionRows[id].highestBidUsd
      <4>1. auctionRows[id] \in AuctionRow
        BY <2>2, <3>2
      <4>2. CASE Raising(id)
        <5>1. Tells(InHand.log, "BidPlaced", id)
          BY <4>2 DEF Raising
        <5>2. /\ auctionRows[id].highestBidUsd < Args(InHand.log).amountUsd
              /\ auctionRows[id].status \notin {"ended", "cancelled"}
          BY <2>1, <2>6, <3>2, <5>1, RaisesRow
        <5>3. Args(InHand.log).amountUsd \in Nat
          BY <5>1, BidPayload DEF Tells
        <5>4. auctionRows'[id].highestBidUsd = Args(InHand.log).amountUsd
          BY <3>2, <4>1, <4>2 DEF Raising, AuctionRow
        <5>5. QED
          BY <2>3, <3>2, <5>2, <5>3, <5>4
      <4>3. CASE Ending(id)
        <5>1. auctionRows[id].status \notin {"ended", "cancelled"}
          BY <2>1, <2>6, <3>2, <4>3, EndsRow DEF Ending, Closing
        <5>2. auctionRows'[id].highestBidUsd = auctionRows[id].highestBidUsd
          BY <3>2, <4>1, <4>3 DEF Ending, Closing, AuctionRow
        <5>3. QED
          BY <2>3, <3>2, <5>1, <5>2
      <4>4. QED
        BY <2>6, <4>2, <4>3
    <3>3. QED
      BY <2>3, <3>1, <3>2
  <2>7. CASE Applying
    <3>1. pc = "handle"
      BY <2>7 DEF Applying
    <3>2. QED
      BY <2>1, <2>4, <2>5, <2>6, <2>7, <3>1, ApplyingCases DEF Elsewhere
  <2>8. Quiet \/ Inserting => UNCHANGED auctionRows
    BY DEF Quiet, Inserting, InsertBid
  <2>9. QED
    BY <2>1, <2>4, <2>7, <2>8, IndexSteps
<1>4. IndexInv /\ [IndexNext]_indexVars => [Advances]_indexVars
  BY <1>3
<1>5. [][Advances]_indexVars => RowsOnlyAdvance
  BY DEF RowsOnlyAdvance
<1> HIDE DEF Advances
<1>6. QED
  BY <1>1, <1>2, <1>4, <1>5, PTL DEF IndexSpec
-----------------------------------------------------------------------------
(***************************************************************************)
(* Rows, statuses and owners are what the applied events say: the          *)
(* strengthening of ExactWhenCaughtUp.                                     *)
(***************************************************************************)
Applies(name, id) == \E k \in Applied : Tells(k[1], name, id)

StatusTold(id) ==
  IF Applies("AuctionCancelled", id) THEN "cancelled"
  ELSE IF Applies("AuctionEnded", id) THEN "ended"
  ELSE IF Applies("BidPlaced", id) THEN "active" ELSE "pending"

RowTold(id) ==
  /\ \E k \in Applied : /\ Tells(k[1], "AuctionCreatedV3", id)
                        /\ auctionRows[id].seller = Args(k[1]).seller
                        /\ auctionRows[id].token_id = Args(k[1]).tokenId
  /\ auctionRows[id].status = StatusTold(id)

ToldOK ==
  /\ \A id \in AuctionIds :
       Applies("AuctionCreatedV3", id) => id \in DOMAIN auctionRows
  /\ \A id \in DOMAIN auctionRows : RowTold(id)
  /\ \A k \in Applied : k[1] \in Market("BidPlaced") => Bid(k) \in bidRows

Moved(k, x) ==
  Emits(k[1], "auction_nft", "Transfer") /\ Args(k[1]).tokenId = x

LastMove(k, x) ==
  /\ Moved(k, x)
  /\ \A j \in Applied :
       Moved(j, x) => j = k \/ Before(At(j), j[2], At(k), k[2])

OwnersOK ==
  /\ \A k \in Applied : \A x \in Items : Moved(k, x) => x \in DOMAIN nftRows
  /\ \A x \in DOMAIN nftRows :
       \E k \in Applied : LastMove(k, x) /\ nftRows[x] = Args(k[1]).to

(* Nothing is stored from before the start blocks.                         *)
StartOK == \A k \in DOMAIN rawEvents : StartBlock[SourceOf[k[1]]] <= At(k)

ExactInv == IndexInv /\ ToldOK /\ OwnersOK /\ StartOK
-----------------------------------------------------------------------------
LEMMA StartStep ==
  ASSUME RunnerInv, StartOK, [Next]_vars
  PROVE  StartOK'
<1>1. /\ TypeOK /\ BatchOK /\ RangeOK /\ FetchedOK /\ HeightsOK /\ InRangeOK
  BY DEF RunnerInv, OInv, BInv, SInv, TInv
<1> SUFFICES ASSUME NEW k \in DOMAIN rawEvents'
             PROVE  StartBlock[SourceOf[k[1]]] <= At(k)'
  BY DEF StartOK
<1>2. CASE k \in DOMAIN rawEvents
  <2>1. At(k)' = At(k)
    BY <1>1, <1>2, AtStays
  <2>2. QED
    BY <1>2, <2>1 DEF StartOK
<1>3. CASE k \notin DOMAIN rawEvents
  <2> DEFINE e == First(batch)
  <2>1. pc = "logs" /\ batch # {} /\ Store(e)
    BY <1>1, <1>3, FreshStore
  <2>2. /\ DOMAIN rawEvents' = DOMAIN rawEvents \cup {Key(e)}
        /\ rawEvents'[Key(e)][1] = e.height
        /\ SourceOf[e.log] = source
    BY <1>1, <2>1, StoreFacts
  <2>3. /\ k = Key(e) /\ At(k)' = e.height /\ SourceOf[k[1]] = source
    BY <1>3, <2>2 DEF At, Key
  <2>4. /\ e \in batch /\ e.height \in Nat
    BY <1>1, <2>1, FirstTyped DEF Fetched
  <2>5. /\ StartBlock[source] \in Nat /\ cursors[source].block \in Nat
        /\ fromBlock \in Nat
    BY <1>1, RunnerAssumption DEF TypeOK
  <2>6. StartBlock[source] <= fromBlock
    BY <1>1, <2>1, <2>5 DEF RangeOK, Active, FirstBlock
  <2>7. fromBlock <= e.height
    BY <1>1, <2>4 DEF InRangeOK
  <2> HIDE DEF e
  <2>8. QED
    BY <2>3, <2>4, <2>5, <2>6, <2>7
<1>4. QED
  BY <1>2, <1>3

(* What has been applied once the event in hand is.                        *)
LEMMA AppliesMore ==
  ASSUME Applied' = Applied \cup {Key(InHand)}, Key(InHand)[1] = InHand.log,
         NEW name, NEW id
  PROVE  Applies(name, id)' <=> Applies(name, id) \/ Tells(InHand.log, name, id)
BY DEF Applies, Tells

LEMMA ToldStays ==
  ASSUME Applied' = Applied \cup {Key(InHand)}, Key(InHand)[1] = InHand.log,
         NEW id \in DOMAIN auctionRows, RowTold(id),
         id \in DOMAIN auctionRows', auctionRows'[id] = auctionRows[id],
         \A name \in AuctionEvents : ~ Tells(InHand.log, name, id)
  PROVE  RowTold(id)'
<1>1. \A name \in AuctionEvents : Applies(name, id)' <=> Applies(name, id)
  BY AppliesMore
<1>2. StatusTold(id)' = StatusTold(id)
  BY <1>1 DEF StatusTold, AuctionEvents
<1>3. QED
  BY <1>2 DEF RowTold, Tells

(* An auction's first event is its creation.                               *)
LEMMA CreatedTold ==
  ASSUME RunnerInv, RowsOK, pc = "handle", NEW id \in AuctionIds, Creating(id),
         Applied' = Applied \cup {Key(InHand)}
  PROVE  RowTold(id)'
<1>1. Key(InHand)[1] = InHand.log /\ Tells(InHand.log, "AuctionCreatedV3", id)
  BY HandPlace DEF Creating
<1>2. \A name \in AuctionEvents : ~ Applies(name, id)
  <2> SUFFICES ASSUME NEW name \in AuctionEvents, NEW k \in Applied,
                      Tells(k[1], name, id)
               PROVE  FALSE
    BY DEF Applies
  <2>1. QED
    BY <1>1, HandFollows DEF AuctionEvents
<1>3. \A name \in AuctionEvents \ {"AuctionCreatedV3"} : ~ Applies(name, id)'
  <2>1. \A name \in AuctionEvents \ {"AuctionCreatedV3"} :
          ~ Tells(InHand.log, name, id)
    BY <1>1, OneTale
  <2>2. QED
    BY <1>1, <1>2, <2>1, AppliesMore
<1>4. StatusTold(id)' = "pending"
  BY <1>3 DEF StatusTold, AuctionEvents
<1>5. /\ auctionRows'[id].seller = Args(InHand.log).seller
      /\ auctionRows'[id].token_id = Args(InHand.log).tokenId
      /\ auctionRows'[id].status = "pending"
  BY DEF Creating, Upserted
<1>6. PICK k \in Applied' : k = Key(InHand)
  OBVIOUS
<1>7. QED
  BY <1>1, <1>4, <1>5, <1>6 DEF RowTold, Tells

LEMMA RaisedTold ==
  ASSUME RunnerInv, IndexTypeOK, RowsOK, pc = "handle",
         NEW id \in DOMAIN auctionRows, RowTold(id), Raising(id),
         Applied' = Applied \cup {Key(InHand)}
  PROVE  RowTold(id)'
<1>1. Key(InHand)[1] = InHand.log /\ Tells(InHand.log, "BidPlaced", id)
  BY HandPlace DEF Raising
<1>2. auctionRows[id] \in AuctionRow
  BY DEF IndexTypeOK
<1>3. /\ auctionRows'[id].seller = auctionRows[id].seller
      /\ auctionRows'[id].token_id = auctionRows[id].token_id
      /\ auctionRows'[id].status = "active"
  BY <1>2 DEF Raising, AuctionRow, IndexTypeOK
<1>4. ~ Applies("AuctionCancelled", id) /\ ~ Applies("AuctionEnded", id)
  <2>1. auctionRows[id].status \notin {"ended", "cancelled"}
    BY <1>1, RaisesRow
  <2>2. QED
    BY <2>1 DEF RowTold, StatusTold
<1>5. /\ ~ Applies("AuctionCancelled", id)' /\ ~ Applies("AuctionEnded", id)'
      /\ Applies("BidPlaced", id)'
  BY <1>1, <1>4, AppliesMore, OneTale
<1>6. StatusTold(id)' = "active"
  BY <1>5 DEF StatusTold
<1>7. QED
  BY <1>3, <1>6 DEF RowTold, Tells

LEMMA EndedTold ==
  ASSUME RunnerInv, IndexTypeOK, RowsOK, pc = "handle",
         NEW id \in DOMAIN auctionRows, RowTold(id), Ending(id),
         Applied' = Applied \cup {Key(InHand)}
  PROVE  RowTold(id)'
<1>1. Key(InHand)[1] = InHand.log
  BY HandPlace
<1>2. auctionRows[id] \in AuctionRow
  BY DEF IndexTypeOK
<1>3. ~ Applies("AuctionCancelled", id) /\ ~ Applies("AuctionEnded", id)
  <2>1. auctionRows[id].status \notin {"ended", "cancelled"}
    BY EndsRow DEF Ending, Closing
  <2>2. QED
    BY <2>1 DEF RowTold, StatusTold
<1>4. ASSUME NEW name, NEW status,
             \/ name = "AuctionEnded" /\ status = "ended"
             \/ name = "AuctionCancelled" /\ status = "cancelled",
             Closing(id, name, status)
      PROVE  RowTold(id)'
  <2>1. /\ auctionRows'[id].seller = auctionRows[id].seller
        /\ auctionRows'[id].token_id = auctionRows[id].token_id
        /\ auctionRows'[id].status = status
    BY <1>2, <1>4 DEF Closing, AuctionRow, IndexTypeOK
  <2>2. Tells(InHand.log, name, id)
    BY <1>4 DEF Closing
  <2>3. Applies(name, id)'
        /\ \A other \in {"AuctionEnded", "AuctionCancelled"} \ {name} :
             ~ Applies(other, id)'
    BY <1>1, <1>3, <1>4, <2>2, AppliesMore, OneTale
  <2>4. StatusTold(id)' = status
    BY <1>4, <2>3 DEF StatusTold
  <2>5. QED
    BY <2>1, <2>4 DEF RowTold, Tells
<1>5. QED
  BY <1>4 DEF Ending

LEMMA ToldStep ==
  ASSUME RunnerInv, HandDecoded, IndexTypeOK, RowsOK, HandOK, ToldOK,
         [IndexNext]_indexVars
  PROVE  ToldOK'
<1>1. CASE UNCHANGED <<auctionRows, handled>> /\ bidRows \subseteq bidRows'
  <2>1. Applied' = Applied
    BY <1>1, AppliedSame
  <2>2. QED
    BY <1>1, <2>1 DEF ToldOK, RowTold, StatusTold, Applies, Tells, Bid
<1>2. CASE Applying
  <2>1. /\ Applied' = Applied \cup {Key(InHand)} /\ pc = "handle"
        /\ Key(InHand)[1] = InHand.log
    BY <1>2, RunnerTypes, ApplyAdds, HandPlace DEF Applying
  <2>2. ASSUME \A name \in AuctionEvents : InHand.log \notin Market(name),
               UNCHANGED <<auctionRows, bidRows>>
        PROVE  ToldOK'
    <3>1. \A id : \A name \in AuctionEvents : ~ Tells(InHand.log, name, id)
      BY <2>2 DEF Tells
    <3>2. \A id \in AuctionIds : Applies("AuctionCreatedV3", id)'
                                   <=> Applies("AuctionCreatedV3", id)
      BY <2>1, <3>1, AppliesMore DEF AuctionEvents
    <3>3. \A id \in DOMAIN auctionRows' : RowTold(id)'
      BY <2>1, <2>2, <3>1, ToldStays DEF ToldOK
    <3>4. \A k \in Applied' : k[1] \in Market("BidPlaced") => Bid(k) \in bidRows'
      BY <2>1, <2>2 DEF ToldOK, AuctionEvents
    <3>5. QED
      BY <2>2, <3>2, <3>3, <3>4 DEF ToldOK, Bid
  <2>3. ASSUME NEW id \in AuctionIds, Creating(id) \/ Raising(id) \/ Ending(id)
        PROVE  ToldOK'
    <3>1. PICK now \in AuctionEvents : Tells(InHand.log, now, id)
      BY <2>3 DEF Creating, Raising, Ending, Closing, AuctionEvents
    <3>2. /\ DOMAIN auctionRows' = IF Creating(id) THEN DOMAIN auctionRows \cup {id}
                                   ELSE DOMAIN auctionRows
          /\ \A i \in DOMAIN auctionRows \ {id} : auctionRows'[i] = auctionRows[i]
          /\ bidRows' = bidRows
      BY <2>3 DEF Creating, Raising, Ending, Closing, Upserted
    <3>3. Creating(id) <=> now = "AuctionCreatedV3"
      BY <2>3, <3>1, OneTale DEF Creating, Raising, Ending, Closing
    <3>4. ASSUME NEW i \in AuctionIds, Applies("AuctionCreatedV3", i)'
          PROVE  i \in DOMAIN auctionRows'
      <4>1. CASE Applies("AuctionCreatedV3", i)
        BY <3>2, <4>1 DEF ToldOK
      <4>2. CASE Tells(InHand.log, "AuctionCreatedV3", i)
        BY <3>1, <3>2, <3>3, <4>2, OneTale
      <4>3. QED
        BY <2>1, <3>4, <4>1, <4>2, AppliesMore
    <3>5. ASSUME NEW i \in DOMAIN auctionRows'
          PROVE  RowTold(i)'
      <4>1. CASE i # id
        <5>1. \A name \in AuctionEvents : ~ Tells(InHand.log, name, i)
          BY <3>1, <4>1, OneTale
        <5>2. i \in DOMAIN auctionRows /\ auctionRows'[i] = auctionRows[i]
          BY <3>2, <4>1
        <5>3. QED
          BY <2>1, <5>1, <5>2, ToldStays DEF ToldOK
      <4>2. CASE i = id /\ Creating(id)
        BY <2>1, <4>2, CreatedTold
      <4>3. CASE i = id /\ ~ Creating(id)
        <5>1. id \in DOMAIN auctionRows /\ RowTold(id)
          BY <3>2, <4>3 DEF ToldOK
        <5>2. QED
          BY <2>1, <2>3, <4>3, <5>1, RaisedTold, EndedTold
      <4>4. QED
        BY <4>1, <4>2, <4>3
    <3>6. Is("BidPlaced") => Bid(Key(InHand)) \in bidRows
      BY <1>2 DEF Applying, ReadyForLast, HandOK
    <3>7. \A k \in Applied' : k[1] \in Market("BidPlaced") => Bid(k) \in bidRows'
      BY <2>1, <3>2, <3>6 DEF ToldOK, Is
    <3>8. QED
      BY <3>4, <3>5, <3>7 DEF ToldOK, Bid
  <2>4. QED
    BY <1>2, <2>2, <2>3, RunnerTypes, ApplyingCases DEF Elsewhere
<1>3. Quiet \/ Inserting =>
        UNCHANGED <<auctionRows, handled>> /\ bidRows \subseteq bidRows'
  BY RunnerTypes, InsertedBid DEF Quiet
<1>4. QED
  BY <1>1, <1>2, <1>3, RunnerTypes, IndexSteps

(* The transfer in hand is the last of its item.                           *)
LEMMA HandMovesLast ==
  ASSUME RunnerInv, pc = "handle",
         NEW k \in Applied, NEW x, Moved(k, x), Moved(Key(InHand), x)
  PROVE  /\ At(Key(InHand)) = InHand.height /\ Key(InHand)[2] = InHand.index
         /\ Before(At(k), k[2], InHand.height, InHand.index)
<1>1. TypeOK /\ OrderOK
  BY DEF RunnerInv, OInv, BInv, SInv, TInv
<1>2. /\ SourceOf[k[1]] \in Sources
      /\ \E i \in DOMAIN handled[SourceOf[k[1]]] :
           handled[SourceOf[k[1]]][i] = k
  BY AppliedPlace
<1>3. Key(InHand)[1] = InHand.log /\ SourceOf[InHand.log] = source
  BY HandPlace
<1>4. SourceOf[k[1]] = source
  BY <1>1, <1>2, <1>3, IndexAssumption DEF Moved, Emits, TypeOK
<1>5. QED
  BY <1>1, <1>2, <1>4 DEF OrderOK, InHand, Key

LEMMA OwnersStep ==
  ASSUME RunnerInv, HandDecoded, OwnersOK, [IndexNext]_indexVars
  PROVE  OwnersOK'
<1>1. TypeOK /\ BatchOK /\ [Next]_vars
  BY RunnerTypes, IndexIsRunner
<1>2. \A k \in Applied : At(k)' = At(k)
  BY <1>1, AppliedPlace, AtStays
<1>3. CASE UNCHANGED <<nftRows, handled>>
  <2>1. Applied' = Applied
    BY <1>3, AppliedSame
  <2>2. \A x : \A k \in Applied : LastMove(k, x)' <=> LastMove(k, x)
    BY <1>2, <2>1 DEF LastMove, Moved
  <2>3. QED
    BY <1>3, <2>1, <2>2 DEF OwnersOK, Moved
<1>4. CASE Applying
  <2>1. /\ Applied' = Applied \cup {Key(InHand)} /\ pc = "handle"
        /\ Key(InHand)[1] = InHand.log
    BY <1>4, RunnerTypes, ApplyAdds, HandPlace DEF Applying
  <2>2. ASSUME NEW k \in Applied, NEW x, LastMove(k, x),
               ~ Moved(Key(InHand), x)
        PROVE  LastMove(k, x)'
    BY <1>2, <2>1, <2>2 DEF LastMove, Moved
  <2>3. CASE /\ ~ Emits(InHand.log, "auction_nft", "Transfer")
             /\ UNCHANGED nftRows
    <3>1. \A x : ~ Moved(Key(InHand), x)
      BY <2>1, <2>3 DEF Moved
    <3>2. \A k \in Applied' : \A x \in Items : Moved(k, x) => x \in DOMAIN nftRows
      BY <2>1, <3>1 DEF OwnersOK
    <3>3. QED
      BY <2>1, <2>2, <2>3, <3>1, <3>2 DEF OwnersOK, Moved
  <2>4. CASE Moving
    <3>1. PICK h, x : h = Key(InHand) /\ x = Args(InHand.log).tokenId
      OBVIOUS
    <3>2. Moved(h, x) /\ h[1] = InHand.log /\ h \in Applied'
      BY <2>1, <2>4, <3>1 DEF Moving, Moved
    <3>3. LastMove(h, x)'
      <4> SUFFICES ASSUME NEW j \in Applied, Moved(j, x)
                   PROVE  Before(At(j)', j[2], At(h)', h[2])
        BY <2>1, <3>1, <3>2 DEF LastMove, Moved
      <4>1. /\ At(h) = InHand.height /\ h[2] = InHand.index
            /\ Before(At(j), j[2], InHand.height, InHand.index)
        BY <2>1, <3>1, <3>2, HandMovesLast
      <4>2. At(h)' = At(h) /\ At(j)' = At(j)
        <5>1. h \in DOMAIN rawEvents
          BY <2>1, <3>1, HandPlace
        <5>2. QED
          BY <1>1, <1>2, <5>1, AtStays
      <4>3. QED
        BY <4>1, <4>2
    <3>4. nftRows' = Upserted(nftRows, x, Args(h[1]).to)
      BY <2>4, <3>1, <3>2 DEF Moving
    <3>5. \A y : Moved(Key(InHand), y) => y = x
      BY <3>1, <3>2 DEF Moved
    <3>6. /\ DOMAIN nftRows' = DOMAIN nftRows \cup {x}
          /\ nftRows'[x] = Args(h[1]).to
          /\ \A y \in DOMAIN nftRows \ {x} : nftRows'[y] = nftRows[y]
      BY <3>4 DEF Upserted
    <3>7. \A k \in Applied' : \A y \in Items : Moved(k, y) => y \in DOMAIN nftRows'
      BY <2>1, <3>5, <3>6 DEF OwnersOK
    <3>8. ASSUME NEW y \in DOMAIN nftRows'
          PROVE  \E k \in Applied' : LastMove(k, y)' /\ nftRows'[y] = Args(k[1]).to
      <4>1. CASE y = x
        BY <3>2, <3>3, <3>6, <4>1
      <4>2. CASE y # x
        <5>1. PICK k \in Applied : LastMove(k, y) /\ nftRows[y] = Args(k[1]).to
          BY <3>6, <4>2 DEF OwnersOK
        <5>2. LastMove(k, y)'
          BY <2>2, <3>5, <4>2, <5>1
        <5>3. QED
          BY <2>1, <3>6, <4>2, <5>1, <5>2
      <4>3. QED
        BY <4>1, <4>2
    <3>9. QED
      BY <3>7, <3>8 DEF OwnersOK, Moved
  <2>5. ASSUME NEW id \in AuctionIds, Creating(id) \/ Raising(id) \/ Ending(id)
        PROVE  /\ ~ Emits(InHand.log, "auction_nft", "Transfer")
               /\ UNCHANGED nftRows
    <3>1. \E name : InHand.log \in Market(name)
      BY <2>5 DEF Creating, Raising, Ending, Closing, Tells
    <3>2. QED
      BY <2>5, <3>1 DEF Creating, Raising, Ending, Closing, Market, Named, Emits
  <2>6. QED
    BY <1>4, <2>3, <2>4, <2>5, RunnerTypes, ApplyingCases DEF Elsewhere
<1>5. Quiet \/ Inserting => UNCHANGED <<nftRows, handled>>
  BY RunnerTypes, InsertedBid DEF Quiet
<1>6. QED
  BY <1>3, <1>4, <1>5, RunnerTypes, IndexSteps

LEMMA ExactInitially == IndexInit => ExactInv
<1> SUFFICES ASSUME IndexInit PROVE ExactInv
  OBVIOUS
<1>1. Init /\ IndexInv /\ auctionRows = <<>> /\ nftRows = <<>>
  BY IndexInitially DEF IndexInit
<1>2. Applied = {}
  BY <1>1 DEF Init, Applied, Range1
<1>3. ToldOK /\ OwnersOK /\ StartOK
  BY <1>1, <1>2 DEF ToldOK, OwnersOK, StartOK, Applies, Init
<1>4. QED
  BY <1>1, <1>3 DEF ExactInv

LEMMA ExactKept ==
  ASSUME ReorgDepth <= Confirmations, ExactInv, [IndexNext]_indexVars
  PROVE  ExactInv'
<1>1. /\ IndexInv /\ RunnerInv /\ HandDecoded /\ IndexTypeOK /\ RowsOK /\ HandOK
      /\ ToldOK /\ OwnersOK /\ StartOK
  BY DEF ExactInv, IndexInv, IndexTypeInv
<1>2. IndexInv'
  BY <1>1, IndexKept
<1>3. ToldOK' /\ OwnersOK'
  BY <1>1, ToldStep, OwnersStep
<1>4. StartOK'
  BY <1>1, IndexIsRunner, StartStep
<1>5. QED
  BY <1>2, <1>3, <1>4 DEF ExactInv
-----------------------------------------------------------------------------
(* Once the cursors are at the safe head, the events applied are those of  *)
(* the safe blocks.                                                        *)
AllCaughtUp == Comparable /\ \A s \in Sources : CaughtUp(s)

LEMMA AllApplied ==
  ASSUME ExactInv, AllCaughtUp
  PROVE  Applied = DOMAIN rawEvents
<1>1. /\ TypeOK /\ RangeOK /\ LossOK /\ RunnerInv
  BY DEF ExactInv, IndexInv, RunnerInv, OInv, BInv, SInv, TInv
<1>2. Lost = {}
  <2>1. /\ IsFiniteSet(Lost) /\ Cardinality(Lost) <= 0
    BY <1>1 DEF LossOK, AllCaughtUp, Comparable
  <2>2. Cardinality(Lost) \in Nat
    BY <2>1, FS_CardinalityType
  <2>3. Cardinality(Lost) = 0
    BY <2>1, <2>2
  <2>4. QED
    BY <2>1, <2>3, FS_EmptySet
<1>3. pc # "handle"
  <2> SUFFICES ASSUME pc = "handle" PROVE FALSE
    OBVIOUS
  <2>1. /\ fromBlock = FirstBlock(source) /\ fromBlock <= toBlock
        /\ toBlock <= peak - Confirmations
    BY <1>1 DEF RangeOK, Active
  <2>2. /\ source \in Sources /\ cursors[source].block \in Nat
        /\ StartBlock[source] \in Nat \ {0}
        /\ fromBlock \in Nat /\ toBlock \in Nat
        /\ peak \in Nat /\ Confirmations \in Nat
    BY <1>1, RunnerAssumption DEF TypeOK
  <2>3. SafeHead(Len(chain)) = peak - Confirmations
    BY DEF AllCaughtUp, Comparable, SafeHead
  <2>4. fromBlock \in StartBlock[source] .. SafeHead(Len(chain))
    BY <2>1, <2>2, <2>3 DEF FirstBlock
  <2>5. fromBlock <= cursors[source].block
    BY <2>2, <2>4 DEF AllCaughtUp, CaughtUp
  <2>6. QED
    BY <2>1, <2>2, <2>5 DEF FirstBlock
<1>4. Applied \subseteq DOMAIN rawEvents
  BY <1>1, AppliedPlace
<1>5. QED
  BY <1>2, <1>3, <1>4 DEF Lost, BeingApplied

LEMMA AppliedTyped ==
  ASSUME RunnerInv, NEW k \in Applied
  PROVE  /\ k \in Keys /\ k = <<k[1], k[2]>> /\ k[1] \in Logs /\ k[2] \in Nat
         /\ At(k) \in Nat /\ At(k) \in DOMAIN chain
         /\ k[2] \in DOMAIN chain[At(k)].logs /\ chain[At(k)].logs[k[2]] = k[1]
<1>1. /\ k \in DOMAIN rawEvents /\ At(k) \in DOMAIN chain /\ Placed(k, At(k))
  BY AppliedPlace
<1>2. TypeOK
  BY DEF RunnerInv, OInv, BInv, SInv, TInv
<1>3. k \in Keys /\ At(k) \in Nat
  BY <1>1, <1>2, LenProperties DEF TypeOK
<1>4. QED
  BY <1>1, <1>3 DEF Keys, Placed

LEMMA AppliedApart ==
  ASSUME RunnerInv, NEW j \in Applied, NEW k \in Applied, j # k
  PROVE  Before(At(j), j[2], At(k), k[2]) \/ Before(At(k), k[2], At(j), j[2])
<1>1. /\ At(j) \in Nat /\ At(k) \in Nat /\ j[2] \in Nat /\ k[2] \in Nat
  BY AppliedTyped
<1>2. ~ (At(j) = At(k) /\ j[2] = k[2])
  BY AppliedTyped
<1>3. QED
  BY <1>1, <1>2 DEF Before

(* A place of the chain, and what lies there.                              *)
LEMMA PlaceTyped ==
  ASSUME RunnerInv, NEW p \in SafePlaces
  PROVE  /\ p = <<p[1], p[2]>> /\ LogOf(p) \in Logs /\ p[2] \in Nat \ {0}
         /\ p[1] \in Nat /\ p[1] \in DOMAIN chain
         /\ p[1] <= SafeHead(Len(chain)) /\ SafeHead(Len(chain)) \in Int
         /\ p[2] \in DOMAIN chain[p[1]].logs
         /\ chain[p[1]].logs[p[2]] = LogOf(p)
<1>1. TypeOK
  BY DEF RunnerInv, OInv, BInv, SInv, TInv
<1>2. PICK n \in 1 .. SafeHead(Len(chain)) :
        \E i \in DOMAIN chain[n].logs : p = <<n, i>>
  BY DEF SafePlaces
<1>3. /\ p[1] = n /\ p[2] \in DOMAIN chain[n].logs /\ p = <<n, p[2]>>
  BY <1>2
<1>4. /\ chain \in Seq(Block) /\ Len(chain) \in Nat
      /\ DOMAIN chain = 1 .. Len(chain) /\ Confirmations \in Nat
  BY <1>1, RunnerAssumption, LenProperties DEF TypeOK
<1>5. n \in DOMAIN chain /\ n \in Nat /\ n <= SafeHead(Len(chain))
      /\ SafeHead(Len(chain)) \in Int
  BY <1>4 DEF SafeHead
<1>6. chain[n].logs \in Seq(Logs)
  <2>1. chain[n] \in Block
    BY <1>4, <1>5, ElementOfSeq
  <2>2. QED
    BY <2>1 DEF Block
<1>7. LogOf(p) \in Logs /\ p[2] \in Nat \ {0}
  <2>1. DOMAIN chain[n].logs = 1 .. Len(chain[n].logs)
        /\ Len(chain[n].logs) \in Nat
    BY <1>6, LenProperties
  <2>2. QED
    BY <1>3, <1>6, <2>1, ElementOfSeq DEF LogOf
<1>8. QED
  BY <1>3, <1>5, <1>7 DEF LogOf

(* Every log of the safe blocks that a table is made of has been applied.  *)
LEMMA PlaceApplied ==
  ASSUME ExactInv, AllCaughtUp, NEW abi, NEW name, NEW p \in Places(abi, name),
         LogOf(p) \notin Skipped
  PROVE  LET k == <<LogOf(p), p[2]>>
         IN  k \in Applied /\ At(k) = p[1] /\ p = <<p[1], p[2]>>
<1> DEFINE l == LogOf(p)
           k == <<l, p[2]>>
           s == SourceOf[l]
<1>1. /\ TypeOK /\ BackedOK /\ RunnerInv /\ EndsOK
  BY DEF ExactInv, IndexInv, RunnerInv, OInv, BInv, SInv, TInv
<1> DEFINE n == p[1]
<1>2. p \in SafePlaces
  BY DEF Places
<1>3. /\ p = <<n, p[2]>> /\ l \in Logs /\ p[2] \in Nat \ {0}
      /\ n \in Nat /\ n \in DOMAIN chain
      /\ n <= SafeHead(Len(chain)) /\ SafeHead(Len(chain)) \in Int
      /\ p[2] \in DOMAIN chain[n].logs /\ chain[n].logs[p[2]] = l
  BY <1>1, <1>2, PlaceTyped
<1>8. s \in Sources /\ StartBlock[s] \in Nat /\ cursors[s].block \in Nat
  BY <1>1, <1>3, RunnerAssumption DEF TypeOK
<1>9. StartBlock[s] <= n
  BY DEF Places
<1>10. Placed(k, n)
  BY <1>3 DEF Placed
<1>11. k \in Wanted(s, n)
  BY <1>3, <1>10 DEF Wanted
<1> HIDE DEF l, k, s, n
<1>12. n <= cursors[s].block
  <2>1. n \in StartBlock[s] .. SafeHead(Len(chain))
    BY <1>3, <1>8, <1>9
  <2>2. QED
    BY <1>8, <2>1 DEF AllCaughtUp, CaughtUp
<1>13. k \in DOMAIN rawEvents
  <2>1. n \in StartBlock[s] .. cursors[s].block
    BY <1>3, <1>8, <1>9, <1>12
  <2>2. QED
    BY <1>1, <1>8, <1>11, <2>1 DEF BackedOK
<1>14. k \in Applied
  BY <1>13, AllApplied
<1>15. At(k) = n
  <2>1. /\ At(k) \in DOMAIN chain /\ At(k) \in Nat /\ Placed(k, At(k))
    BY <1>1, <1>14, AppliedPlace, AppliedTyped
  <2>2. ~ Before(At(k), k[2], n, k[2]) /\ ~ Before(n, k[2], At(k), k[2])
    BY <1>1, <1>3, <1>10, <2>1, MinedOnce
  <2>3. QED
    BY <1>3, <2>1, <2>2 DEF Before
<1>16. QED
  BY <1>3, <1>14, <1>15 DEF k, l, n

(* And nothing else.                                                       *)
LEMMA AppliedPlaced ==
  ASSUME ExactInv, AllCaughtUp, NEW abi, NEW name,
         NEW k \in Applied, Emits(k[1], abi, name)
  PROVE  LET p == <<At(k), k[2]>>
         IN  p \in Places(abi, name) /\ LogOf(p) = k[1] /\ k = <<LogOf(p), p[2]>>
<1> DEFINE p == <<At(k), k[2]>>
<1>1. /\ TypeOK /\ RunnerInv /\ StoredOK /\ HeightsOK /\ StartOK
  BY DEF ExactInv, IndexInv, RunnerInv, OInv, BInv, SInv, TInv
<1>2. /\ k = <<k[1], k[2]>> /\ At(k) \in Nat /\ At(k) \in DOMAIN chain
      /\ k[2] \in DOMAIN chain[At(k)].logs /\ chain[At(k)].logs[k[2]] = k[1]
      /\ k \in DOMAIN rawEvents
  BY <1>1, AppliedTyped, AppliedPlace
<1>3. At(k) <= SafeHead(Len(chain))
  <2>1. OnChain(k, rawEvents[k], At(k))
    BY <1>1, <1>2, StoredAt
  <2>2. QED
    BY <2>1 DEF OnChain, AllCaughtUp, Comparable, SafeHead
<1>4. At(k) \in 1 .. SafeHead(Len(chain))
  <2>1. /\ DOMAIN chain = 1 .. Len(chain) /\ Len(chain) \in Nat
        /\ Confirmations \in Nat
    BY <1>1, RunnerAssumption, LenProperties DEF TypeOK
  <2>2. QED
    BY <1>2, <1>3, <2>1 DEF SafeHead
<1>5. p \in SafePlaces
  BY <1>2, <1>4 DEF SafePlaces
<1>6. LogOf(p) = k[1]
  BY <1>2 DEF LogOf
<1>7. StartBlock[SourceOf[k[1]]] <= At(k)
  BY <1>1, <1>2 DEF StartOK
<1>8. QED
  BY <1>2, <1>5, <1>6, <1>7 DEF Places

LEMMA AboutApplied ==
  ASSUME ExactInv, AllCaughtUp, NEW id, NEW name \in AuctionEvents, NEW l
  PROVE  l \in About(id, name)
           <=> \E k \in Applied : k[1] = l /\ Tells(k[1], name, id)
<1> DEFINE market == "auction_market_v3"
<1>0. RunnerInv
  BY DEF ExactInv, IndexInv
<1>1. ASSUME l \in About(id, name)
      PROVE  \E k \in Applied : k[1] = l /\ Tells(k[1], name, id)
  <2>1. PICK p \in Places(market, name) : LogOf(p) = l
    BY <1>1 DEF About, Happened
  <2>2. /\ Emits(l, market, name) /\ Args(l).auctionId = id
    BY <1>1, <2>1 DEF About, Places
  <2>3. l \in Logs
    BY <1>0, <2>1, PlaceTyped DEF Places
  <2>4. l \in Market(name)
    BY <2>2, <2>3, AuctionEventDecoded
  <2>5. l \notin Skipped
    BY <2>4, NamedLogs
  <2>6. <<LogOf(p), p[2]>> \in Applied
    BY <2>1, <2>5, PlaceApplied
  <2>7. QED
    BY <2>1, <2>2, <2>4, <2>6 DEF Tells
<1>2. ASSUME NEW k \in Applied, k[1] = l, Tells(k[1], name, id)
      PROVE  l \in About(id, name)
  <2>1. Emits(k[1], market, name)
    BY <1>2, NamedLogs DEF Tells
  <2>2. <<At(k), k[2]>> \in Places(market, name)
        /\ LogOf(<<At(k), k[2]>>) = k[1]
    BY <2>1, AppliedPlaced
  <2>3. QED
    BY <1>2, <2>2 DEF About, Happened, Tells
<1>3. QED
  BY <1>1, <1>2

(* The story of one auction, as it was applied.                            *)
LEMMA AppliedTale ==
  ASSUME RunnerInv, NEW id,
         NEW before \in AuctionEvents, NEW now \in AuctionEvents,
         NEW j \in Applied, Tells(j[1], before, id),
         NEW k \in Applied, Tells(k[1], now, id),
         NEW c \in Applied, Tells(c[1], "AuctionCreatedV3", id),
         Before(At(j), j[2], At(k), k[2])
  PROVE  /\ now # "AuctionCreatedV3"
         /\ before = "BidPlaced" /\ now = "BidPlaced" =>
              Args(j[1]).amountUsd < Args(k[1]).amountUsd
<1>1. TypeOK /\ EndsOK
  BY DEF RunnerInv, OInv, BInv, SInv, TInv
<1>2. /\ At(j) \in DOMAIN chain /\ Placed(j, At(j))
      /\ At(k) \in DOMAIN chain /\ Placed(k, At(k))
      /\ At(c) \in DOMAIN chain /\ Placed(c, At(c))
  BY AppliedPlace
<1>3. PICK h \in Histories : Agrees(h, chain)
  <2>1. chain # <<>>
    BY <1>2
  <2>2. QED
    BY <1>1, <2>1 DEF EndsOK
<1>4. PICK x \in DOMAIN h, y \in DOMAIN h, z \in DOMAIN h :
        x < y /\ h[x] = j[1] /\ h[y] = k[1] /\ h[z] = c[1]
  <2>1. /\ PlaceIn(j, At(j)) \in DOMAIN h /\ h[PlaceIn(j, At(j))] = j[1]
        /\ PlaceIn(k, At(k)) \in DOMAIN h /\ h[PlaceIn(k, At(k))] = k[1]
        /\ PlaceIn(c, At(c)) \in DOMAIN h /\ h[PlaceIn(c, At(c))] = c[1]
    BY <1>1, <1>2, <1>3, PlaceInHistory
  <2>2. PlaceIn(j, At(j)) < PlaceIn(k, At(k))
    BY <1>1, <1>2, <1>3, PlacesOrdered
  <2>3. QED
    BY <2>1, <2>2
<1>5. /\ Emits(h[x], "auction_market_v3", before) /\ Args(h[x]).auctionId = id
      /\ Emits(h[y], "auction_market_v3", now) /\ Args(h[y]).auctionId = id
      /\ Emits(h[z], "auction_market_v3", "AuctionCreatedV3")
      /\ Args(h[z]).auctionId = id
  BY <1>4, NamedLogs DEF Tells
<1>6. \A q \in {x, y} :
        /\ \E name \in AuctionEvents : Emits(h[q], "auction_market_v3", name)
        /\ Args(h[q]).auctionId = Args(h[z]).auctionId
  BY <1>5
<1>7. /\ Emitted[h[y]].name # "AuctionCreatedV3"
      /\ Emitted[h[x]].name = "BidPlaced" /\ Emitted[h[y]].name = "BidPlaced" =>
           Args(h[x]).amountUsd < Args(h[y]).amountUsd
  BY <1>4, <1>5, <1>6, HistoriesInOrder
<1>8. QED
  BY <1>4, <1>5, <1>7 DEF Emits

(* A row is what the chain says of its auction.                            *)
LEMMA RowExact ==
  ASSUME ExactInv, AllCaughtUp, NEW id \in DOMAIN auctionRows
  PROVE  auctionRows[id] = ChainRow(id)
<1> DEFINE row == auctionRows[id]
<1>1. /\ RunnerInv /\ RowTold(id) /\ row \in AuctionRow
      /\ Backed(id, row, Applied, bidRows)
  BY DEF ExactInv, IndexInv, IndexTypeInv, IndexTypeOK, ToldOK, RowsOK
<1> DEFINE creations == About(id, "AuctionCreatedV3")
           created == CHOOSE l \in creations : TRUE
           bids == About(id, "BidPlaced")
           best == CHOOSE l \in bids : \A k \in bids :
                     Args(l).amountUsd >= Args(k).amountUsd
<1>2. PICK c \in Applied : /\ Tells(c[1], "AuctionCreatedV3", id)
                           /\ row.seller = Args(c[1]).seller
                           /\ row.token_id = Args(c[1]).tokenId
  BY <1>1 DEF RowTold
<1>3. created = c[1]
  <2>1. c[1] \in creations
    BY <1>2, AboutApplied DEF AuctionEvents
  <2>2. PICK k \in Applied : k[1] = created /\ Tells(k[1], "AuctionCreatedV3", id)
    <3>1. created \in creations
      BY <2>1
    <3>2. QED
      BY <3>1, AboutApplied DEF AuctionEvents
  <2>3. k = c
    BY <1>1, <1>2, <2>2, AppliedApart, AppliedTale DEF AuctionEvents
  <2>4. QED
    BY <2>2, <2>3
<1>4. \A name \in AuctionEvents : Applies(name, id) <=> About(id, name) # {}
  BY AboutApplied DEF Applies
<1>5. row.status = IF About(id, "AuctionCancelled") # {} THEN "cancelled"
                   ELSE IF About(id, "AuctionEnded") # {} THEN "ended"
                   ELSE IF bids # {} THEN "active" ELSE "pending"
  BY <1>1, <1>4 DEF RowTold, StatusTold, AuctionEvents
<1>6. \A l \in bids : /\ Args(l).amountUsd \in Nat \ {0}
                      /\ Args(l).amountUsd <= row.highestBidUsd
  <2> SUFFICES ASSUME NEW l \in bids
               PROVE  /\ Args(l).amountUsd \in Nat \ {0}
                      /\ Args(l).amountUsd <= row.highestBidUsd
    OBVIOUS
  <2>1. PICK k \in Applied : k[1] = l /\ Tells(k[1], "BidPlaced", id)
    BY AboutApplied DEF AuctionEvents
  <2>2. QED
    BY <1>1, <2>1, BidPayload DEF Backed, Tells
<1>7. CASE row.highestBidder = Nobody
  <2>1. row.highestBidUsd = 0
    BY <1>1, <1>7 DEF Backed
  <2>2. bids = {}
    BY <1>6, <2>1
  <2>3. row = [seller |-> Args(created).seller,
               token_id |-> Args(created).tokenId, status |-> row.status,
               highestBidder |-> IF bids = {} THEN Nobody ELSE Args(best).bidder,
               highestBidUsd |-> IF bids = {} THEN 0 ELSE Args(best).amountUsd]
    <3> HIDE DEF best, created, bids, row
    <3>1. QED
      BY <1>1, <1>2, <1>3, <1>7, <2>1, <2>2 DEF AuctionRow
  <2>4. QED
    BY <1>5, <2>3 DEF ChainRow
<1>8. CASE row.highestBidder # Nobody
  <2>1. PICK k \in Applied : /\ Tells(k[1], "BidPlaced", id)
                             /\ Args(k[1]).bidder = row.highestBidder
                             /\ Args(k[1]).amountUsd = row.highestBidUsd
    BY <1>1, <1>8 DEF Backed
  <2>2. k[1] \in bids
    BY <2>1, AboutApplied DEF AuctionEvents
  <2>3. \A l \in bids : Args(k[1]).amountUsd >= Args(l).amountUsd
    BY <1>6, <2>1, <2>2
  <2>4. best \in bids /\ \A l \in bids : Args(best).amountUsd >= Args(l).amountUsd
    BY <2>2, <2>3
  <2>5. PICK j \in Applied : j[1] = best /\ Tells(j[1], "BidPlaced", id)
    <3> HIDE DEF best
    <3>1. QED
      BY <2>4, AboutApplied DEF AuctionEvents
  <2>6. j = k
    <3>1. Args(j[1]).amountUsd = Args(k[1]).amountUsd
      <4> HIDE DEF best, bids
      <4>1. QED
        BY <1>6, <2>2, <2>3, <2>4, <2>5
    <3>2. Args(j[1]).amountUsd \in Nat
      BY <2>5, BidPayload DEF Tells
    <3>3. QED
      <4> HIDE DEF best, bids
      <4>1. "BidPlaced" \in AuctionEvents
        BY DEF AuctionEvents
      <4>2. /\ ~ (Args(j[1]).amountUsd < Args(k[1]).amountUsd)
            /\ ~ (Args(k[1]).amountUsd < Args(j[1]).amountUsd)
        BY <3>1, <3>2
      <4>3. ~ Before(At(j), j[2], At(k), k[2])
        BY <1>1, <1>2, <2>1, <2>5, <4>1, <4>2, AppliedTale
      <4>4. ~ Before(At(k), k[2], At(j), j[2])
        BY <1>1, <1>2, <2>1, <2>5, <4>1, <4>2, AppliedTale
      <4>5. QED
        BY <1>1, <4>3, <4>4, AppliedApart
  <2>7. best = k[1] /\ bids # {}
    BY <2>2, <2>5, <2>6
  <2>8. row = [seller |-> Args(created).seller,
               token_id |-> Args(created).tokenId, status |-> row.status,
               highestBidder |-> IF bids = {} THEN Nobody ELSE Args(best).bidder,
               highestBidUsd |-> IF bids = {} THEN 0 ELSE Args(best).amountUsd]
    <3> HIDE DEF best, created, bids, row
    <3>1. QED
      BY <1>1, <1>2, <1>3, <2>1, <2>7 DEF AuctionRow
  <2>9. QED
    BY <1>5, <2>8 DEF ChainRow
<1>9. QED
  BY <1>7, <1>8

(* The list of auctions, the history of bids and the owners.               *)
LEMMA IdsExact ==
  ASSUME ExactInv, AllCaughtUp
  PROVE  DOMAIN auctionRows =
           {Args(l).auctionId :
              l \in Happened("auction_market_v3", "AuctionCreatedV3")}
<1> DEFINE market == "auction_market_v3"
           name == "AuctionCreatedV3"
<1>1. /\ RunnerInv /\ ToldOK /\ name \in AuctionEvents
  BY DEF ExactInv, IndexInv, AuctionEvents
<1>2. ASSUME NEW id \in DOMAIN auctionRows
      PROVE  \E l \in Happened(market, name) : Args(l).auctionId = id
  <2>1. PICK k \in Applied : Tells(k[1], name, id)
    BY <1>1 DEF ToldOK, RowTold
  <2>2. k[1] \in About(id, name)
    BY <1>1, <2>1, AboutApplied
  <2>3. QED
    BY <2>2 DEF About
<1>3. ASSUME NEW l \in Happened(market, name)
      PROVE  Args(l).auctionId \in DOMAIN auctionRows
  <2>1. l \in About(Args(l).auctionId, name)
    BY DEF About
  <2>2. PICK k \in Applied : k[1] = l /\ Tells(k[1], name, Args(l).auctionId)
    BY <1>1, <2>1, AboutApplied
  <2>3. Args(l).auctionId \in AuctionIds
    BY <1>1, <2>2, AuctionPayload DEF Tells
  <2>4. QED
    BY <1>1, <2>2, <2>3 DEF ToldOK, Applies
<1>4. QED
  BY <1>2, <1>3

LEMMA BidsExact ==
  ASSUME ExactInv, AllCaughtUp
  PROVE  bidRows =
           {ChainBid(p) : p \in Places("auction_market_v3", "BidPlaced")}
<1> DEFINE market == "auction_market_v3"
           name == "BidPlaced"
<1>1. /\ RunnerInv /\ ToldOK /\ BidsOK /\ name \in AuctionEvents
  BY DEF ExactInv, IndexInv, AuctionEvents
<1>2. ASSUME NEW b \in bidRows
      PROVE  \E p \in Places(market, name) : b = ChainBid(p)
  <2>1. b.key \in Applied /\ b.key[1] \in Market(name) /\ b = Bid(b.key)
    BY <1>1, AllApplied DEF BidsOK
  <2>2. Emits(b.key[1], market, name)
    BY <2>1, NamedLogs
  <2>3. PICK p \in Places(market, name) :
          LogOf(p) = b.key[1] /\ b.key = <<LogOf(p), p[2]>>
    BY <2>1, <2>2, AppliedPlaced
  <2>4. QED
    BY <2>1, <2>3 DEF Bid, ChainBid
<1>3. ASSUME NEW p \in Places(market, name)
      PROVE  ChainBid(p) \in bidRows
  <2>1. LogOf(p) \in Logs /\ Emits(LogOf(p), market, name)
    BY <1>1, PlaceTyped DEF Places
  <2>2. LogOf(p) \in Market(name) /\ LogOf(p) \notin Skipped
    BY <1>1, <2>1, AuctionEventDecoded, NamedLogs
  <2>3. <<LogOf(p), p[2]>> \in Applied
    BY <2>2, PlaceApplied
  <2>4. Bid(<<LogOf(p), p[2]>>) \in bidRows
    BY <1>1, <2>2, <2>3 DEF ToldOK
  <2>5. QED
    BY <2>4 DEF Bid, ChainBid
<1>4. QED
  BY <1>2, <1>3

LEMMA OwnersExact ==
  ASSUME ExactInv, AllCaughtUp
  PROVE  nftRows = [x \in {x \in Items : Moves(x) # {}} |-> ChainOwner(x)]
<1> DEFINE nft == "auction_nft"
           name == "Transfer"
<1>1. /\ RunnerInv /\ OwnersOK /\ DOMAIN nftRows \subseteq Items
      /\ nftRows = [x \in DOMAIN nftRows |-> nftRows[x]]
  BY DEF ExactInv, IndexInv, IndexTypeInv, IndexTypeOK
<1>2. ASSUME NEW x, NEW p \in Moves(x)
      PROVE  /\ <<LogOf(p), p[2]>> \in Applied
             /\ At(<<LogOf(p), p[2]>>) = p[1] /\ p = <<p[1], p[2]>>
             /\ Moved(<<LogOf(p), p[2]>>, x)
  <2>1. /\ p \in Places(nft, name) /\ Args(LogOf(p)).tokenId = x
    BY DEF Moves
  <2>2. LogOf(p) \in Logs /\ Emits(LogOf(p), nft, name)
    BY <1>1, <2>1, PlaceTyped DEF Places
  <2>3. LogOf(p) \notin Skipped
    BY <2>2, TransferDecoded
  <2>4. QED
    BY <2>1, <2>2, <2>3, PlaceApplied DEF Moved
<1>3. ASSUME NEW x, NEW k \in Applied, Moved(k, x)
      PROVE  /\ <<At(k), k[2]>> \in Moves(x)
             /\ LogOf(<<At(k), k[2]>>) = k[1]
  BY <1>3, AppliedPlaced DEF Moved, Moves
<1>4. ASSUME NEW x \in Items, Moves(x) # {}
      PROVE  x \in DOMAIN nftRows
  BY <1>1, <1>2, <1>4 DEF OwnersOK
<1>5. ASSUME NEW x \in DOMAIN nftRows
      PROVE  Moves(x) # {} /\ nftRows[x] = ChainOwner(x)
  <2>1. PICK k \in Applied : LastMove(k, x) /\ nftRows[x] = Args(k[1]).to
    BY <1>1 DEF OwnersOK
  <2> DEFINE here == <<At(k), k[2]>>
             Latest(p) == \A q \in Moves(x) :
                            q[1] < p[1] \/ (q[1] = p[1] /\ q[2] <= p[2])
             last == CHOOSE p \in Moves(x) : Latest(p)
  <2>2. /\ here \in Moves(x) /\ LogOf(here) = k[1]
        /\ here[1] = At(k) /\ here[2] = k[2] /\ At(k) \in Nat /\ k[2] \in Nat
    BY <1>1, <1>3, <2>1, AppliedTyped DEF LastMove
  <2>3. Latest(here)
    <3> SUFFICES ASSUME NEW q \in Moves(x)
                 PROVE  q[1] < At(k) \/ (q[1] = At(k) /\ q[2] <= k[2])
      BY <2>2
    <3> DEFINE j == <<LogOf(q), q[2]>>
    <3>1. j \in Applied /\ At(j) = q[1] /\ j[2] = q[2] /\ Moved(j, x)
      BY <1>2
    <3>2. j = k \/ Before(At(j), j[2], At(k), k[2])
      BY <2>1, <3>1 DEF LastMove
    <3>3. CASE j = k
      BY <2>2, <3>1, <3>3
    <3>4. CASE Before(At(j), j[2], At(k), k[2])
      <4>1. q[2] \in Nat
        BY <1>1, <3>1, AppliedTyped
      <4>2. QED
        BY <2>2, <3>1, <3>4, <4>1 DEF Before
    <3>5. QED
      BY <3>2, <3>3, <3>4
  <2>4. last \in Moves(x) /\ Latest(last)
    <3> HIDE DEF here, Latest
    <3>1. QED
      BY <2>2, <2>3
  <2>5. last = here
    <3>1. /\ last = <<last[1], last[2]>> /\ last[1] \in Nat /\ last[2] \in Nat
      <4>1. last \in SafePlaces
        BY <2>4 DEF Moves, Places
      <4> HIDE DEF last
      <4>2. QED
        BY <1>1, <4>1, PlaceTyped
    <3>2. here[1] < last[1] \/ (here[1] = last[1] /\ here[2] <= last[2])
      BY <2>2, <2>4
    <3>3. last[1] < here[1] \/ (last[1] = here[1] /\ last[2] <= here[2])
      BY <2>3, <2>4
    <3> HIDE DEF last
    <3>4. QED
      BY <2>2, <3>1, <3>2, <3>3
  <2>6. ChainOwner(x) = Args(LogOf(last)).to
    BY DEF ChainOwner
  <2>7. QED
    BY <2>1, <2>2, <2>5, <2>6
<1>6. DOMAIN nftRows = {x \in Items : Moves(x) # {}}
  BY <1>1, <1>4, <1>5
<1>7. QED
  BY <1>1, <1>5, <1>6

(* The handlers only use the runner: the composition takes no step of the  *)
(* chain, the raw events or the cursors that EvmRunner does not, so that    *)
(* what is proved there holds here.                                        *)
THEOREM HandlersOnlyObserve == IndexSpec => Spec
<1>1. IndexInit => Init
  BY DEF IndexInit
<1>2. QED
  BY <1>1, IndexIsRunner, PTL DEF IndexSpec, Spec

(* Unless a call failed, and but for blocks a reorg took away from under   *)
(* it, what readers get once the cursors are at the safe head is what the  *)
(* chain says: each auction's creator, item, status and best bid, all      *)
(* bids, the owner of every NFT; over all retries, restarts and reorgs     *)
(* that came before, with any number of sources and blocks.                *)
THEOREM TablesComeExact ==
  ASSUME ReorgDepth <= Confirmations
  PROVE  IndexSpec => []ExactWhenCaughtUp
<1>1. ExactInv /\ [IndexNext]_indexVars => ExactInv'
  BY ExactKept
<1>2. ExactInv => ExactWhenCaughtUp
  <2> SUFFICES ASSUME ExactInv, AllCaughtUp PROVE TablesExact
    BY DEF ExactWhenCaughtUp, AllCaughtUp
  <2>1. auctionRows = [id \in DOMAIN auctionRows |-> auctionRows[id]]
    BY DEF ExactInv, IndexInv, IndexTypeInv, IndexTypeOK
  <2>2. \A id \in DOMAIN auctionRows : auctionRows[id] = ChainRow(id)
    BY RowExact
  <2>3. auctionRows = [id \in DOMAIN auctionRows |-> ChainRow(id)]
    BY <2>1, <2>2
  <2>4. QED
    BY <2>3, IdsExact, BidsExact, OwnersExact DEF TablesExact
<1>3. QED
  BY <1>1, <1>2, ExactInitially, PTL DEF IndexSpec
=============================================================================
