----------------------------- MODULE MarketIndex -----------------------------
(***************************************************************************)
(* The query tables auctions, bids and nfts, as the handlers of            *)
(* internal/indexer keep them while EvmRunner gives them the events of the *)
(* market, of AuctionNFT and of the payment token.                         *)
(*                                                                         *)
(* A step is one database statement: BidPlaced takes two, every other      *)
(* event one or none.  Of an auction's columns the seller, the token, the   *)
(* status, and bidder and USD value of the best bid are kept.              *)
(***************************************************************************)
EXTENDS EvmRunner, EventDecoders, EventOrder

CONSTANTS
  Abi,             \* the abi of each source in config.yaml
  Emitted,         \* the event behind each log: its name and arguments
  AuctionIds, Items, Accounts,
  Nobody           \* address(0); a row has NULL for it

(* What the decoder of its source makes of a log.                          *)
Event ==
  [l \in Logs |->
     LET abi == Abi[SourceOf[l]]
     IN  Decode(abi, Emit(abi, Emitted[l].name, Emitted[l].args))]

Args(l) == Emitted[l].args
Emits(l, abi, name) == Abi[SourceOf[l]] = abi /\ Emitted[l].name = name
Told(l) ==
  [abi |-> Abi[SourceOf[l]], name |-> Emitted[l].name, args |-> Args(l)]

(* config.yaml has one market and one AuctionNFT.                          *)
ASSUME IndexAssumption ==
  /\ Abi \in [Sources -> {"auction_market_v3", "auction_nft", "erc20"}]
  /\ \A s, r \in Sources : Abi[s] = Abi[r] /\ Abi[s] # "erc20" => s = r
  /\ DOMAIN Emitted = Logs
  /\ Nobody \notin Accounts
  /\ Skipped = {l \in Logs : Event[l].outcome = "skip"}
  /\ Undecodable = {l \in Logs : Event[l].outcome = "error"}

(* The events are those of the ABIs, with arguments as the contracts give  *)
(* them.                                                                   *)
ASSUME ArgsAssumption ==
  \A l \in Logs :
    /\ Emitted[l].name \in DOMAIN Indexed[Abi[SourceOf[l]]]
    /\ ArgsSound(Told(l), AuctionIds, Accounts, Items)
    /\ Emits(l, "auction_nft", "Transfer") =>
         /\ Args(l).to \in Accounts \cup {Nobody}
         /\ Args(l).tokenId \in Items

(* MarketEvents shows it of the market with atomic calls.  AuctionMarketV3 *)
(* takes ERC20 bids only, so that no bidder's code runs between the check  *)
(* of a bid and BidPlaced.                                                 *)
ASSUME HistoryAssumption ==
  \A h \in Histories : InOrder([i \in DOMAIN h |-> Told(h[i])])

VARIABLES
  auctionRows,     \* auctions, by auction_id
  bidRows,         \* bids
  nftRows,         \* nfts: the owner of each token_id
  bidInserted      \* InsertBid of the event in hand has run

indexVars == <<vars, auctionRows, bidRows, nftRows, bidInserted>>
rows == <<auctionRows, bidRows, nftRows>>

AuctionRow ==
  [seller : Accounts, token_id : Items,
   status : {"pending", "active", "ended", "cancelled"},
   highestBidder : Accounts \cup {Nobody}, highestBidUsd : Nat]

BidRow ==
  [key : Keys, auction : AuctionIds, bidder : Accounts, amountUsd : Nat \ {0}]

(* The logs of a source of this abi that are decoded to such an event.     *)
Named(abi, name) ==
  {l \in Logs \ (Skipped \cup Undecodable) :
     Abi[SourceOf[l]] = abi /\ Event[l].name = name}
Market(name) == Named("auction_market_v3", name)

(* The market's auctions made before V3 have no row.                       *)
IndexTypeOK ==
  /\ TypeOK
  /\ DOMAIN auctionRows \subseteq
       {Event[l].payload.auction_id : l \in Market("AuctionCreatedV3")}
  /\ auctionRows \in [DOMAIN auctionRows -> AuctionRow]
  /\ bidRows \subseteq BidRow
  /\ DOMAIN nftRows \subseteq Items
  /\ nftRows \in [DOMAIN nftRows -> Accounts \cup {Nobody}]
  /\ bidInserted \in BOOLEAN

IndexInit ==
  /\ Init
  /\ auctionRows = <<>>
  /\ bidRows = {}
  /\ nftRows = <<>>
  /\ bidInserted = FALSE
-----------------------------------------------------------------------------
(* The statements.  p is the payload of the event.                         *)

(* INSERT ... ON DUPLICATE KEY UPDATE.                                     *)
Upserted(table, key, row) ==
  [k \in DOMAIN table \cup {key} |-> IF k = key THEN row ELSE table[k]]

(* The best bid is not in DoUpdates: it stays.                             *)
UpsertAuctionFromCreated(p) ==
  LET id == p.auction_id
      old == IF id \in DOMAIN auctionRows THEN auctionRows[id]
             ELSE [highestBidder |-> Nobody, highestBidUsd |-> 0]
  IN  /\ auctionRows' =
           Upserted(auctionRows, id,
                    [seller |-> p.seller, token_id |-> p.token_id,
                     status |-> "pending", highestBidder |-> old.highestBidder,
                     highestBidUsd |-> old.highestBidUsd])
      /\ UNCHANGED <<bidRows, nftRows>>

(* INSERT, and nothing when tx_hash and log_index are there.               *)
InsertBid(key, p) ==
  /\ bidRows' = IF \E b \in bidRows : b.key = key THEN bidRows
                ELSE bidRows \cup {[key |-> key, auction |-> p.auction_id,
                                    bidder |-> p.bidder,
                                    amountUsd |-> p.amount_usd]}
  /\ UNCHANGED <<auctionRows, nftRows>>

(* UPDATE ... WHERE auction_id = id, which may find no row.  row is what    *)
(* it makes of the one it finds.                                           *)
Update(id, row) ==
  /\ auctionRows' = IF id \in DOMAIN auctionRows
                    THEN [auctionRows EXCEPT ![id] = row] ELSE auctionRows
  /\ UNCHANGED <<bidRows, nftRows>>

ApplyBidPlaced(p) ==
  Update(p.auction_id,
         [auctionRows[p.auction_id] EXCEPT !.status = "active",
            !.highestBidder = p.bidder, !.highestBidUsd = p.amount_usd])

MarkTerminalMutant(p, status) ==   \* cancelled auctions are marked ended
  Update(p.auction_id, [auctionRows[p.auction_id] EXCEPT !.status = "ended"])

MarkTerminal(p, status) ==
  Update(p.auction_id, [auctionRows[p.auction_id] EXCEPT !.status = status])

UpsertNFTMutant(p) ==   \* an owner once stored stays
  /\ nftRows' = Upserted(nftRows, p.token_id,
                         IF p.token_id \in DOMAIN nftRows
                         THEN nftRows[p.token_id] ELSE p.to)
  /\ UNCHANGED <<auctionRows, bidRows>>

UpsertNFT(p) ==
  /\ nftRows' = Upserted(nftRows, p.token_id, p.to)
  /\ UNCHANGED <<auctionRows, bidRows>>
-----------------------------------------------------------------------------
(* The handlers.                                                           *)

InHand == First(batch)
Payload == Event[InHand.log].payload
Is(name) == InHand.log \in Market(name)

(* The last statement of Handle for the event in hand, or all there is.    *)
LastStatement ==
  \/ Is("AuctionCreatedV3") /\ UpsertAuctionFromCreated(Payload)
  \/ Is("BidPlaced") /\ ApplyBidPlaced(Payload)
  \/ Is("AuctionEnded") /\ MarkTerminal(Payload, "ended")
  \/ Is("AuctionCancelled") /\ MarkTerminal(Payload, "cancelled")
  \/ Abi[source] = "auction_nft" /\ UpsertNFT(Payload)
  \/ /\ \/ Is("AuctionCreated") \/ \E name \in Generic : Is(name)
        \/ Abi[source] = "erc20"
     /\ UNCHANGED rows

(* handleBidPlaced returns when InsertBid fails.                           *)
ReadyForLastMutant == TRUE
ReadyForLast == Is("BidPlaced") => bidInserted

HandleBidInsert ==
  /\ pc = "handle"
  /\ Is("BidPlaced") /\ ~bidInserted
  /\ InsertBid(Key(InHand), Payload)
  /\ bidInserted' = TRUE
  /\ UNCHANGED vars

HandleLast ==
  /\ Handle
  /\ ReadyForLast
  /\ LastStatement
  /\ bidInserted' = FALSE

(* A statement that fails may have been committed.                         *)
IndexFail ==
  /\ Fail
  /\ bidInserted' = FALSE
  /\ IF handled' = handled
     THEN \/ UNCHANGED rows
          \/ /\ pc = "handle" /\ Is("BidPlaced") /\ ~bidInserted
             /\ InsertBid(Key(InHand), Payload)
     ELSE ReadyForLast /\ LastStatement

(* Steps that leave the tables alone.                                      *)
Between ==
  /\ \/ Begin \/ CheckCursor \/ ReadHead \/ Fetch \/ DecodeFails \/ SkipLog
     \/ InsertOnce \/ ReadHash \/ SaveCursor
  /\ UNCHANGED <<rows, bidInserted>>

IndexerStep == Between \/ HandleBidInsert \/ HandleLast

IndexNext ==
  \/ IndexerStep
  \/ IndexFail
  \/ ChainStep /\ UNCHANGED <<rows, bidInserted>>

IndexSpec == IndexInit /\ [][IndexNext]_indexVars

(* As for FairSpec.                                                        *)
FairIndexSpec == IndexSpec /\ WF_indexVars(IndexerStep)
-----------------------------------------------------------------------------
(* The best bid an auction's row shows is in the history of its bids, and  *)
(* the history holds a better one only between the two statements of       *)
(* handleBidPlaced, or once for every interruption: readers may join the   *)
(* tables at any time.                                                     *)
RowsBackedByHistory ==
  \A id \in DOMAIN auctionRows :
    LET row == auctionRows[id]
        history == {b \in bidRows : b.auction = id}
    IN  /\ row.highestBidder # Nobody =>
             \E b \in history : /\ b.bidder = row.highestBidder
                                /\ b.amountUsd = row.highestBidUsd
        /\ Cardinality({b \in history : b.amountUsd > row.highestBidUsd})
             <= failures + IF bidInserted THEN 1 ELSE 0

(* A row never goes back, over retries, restarts and reorgs that offer old *)
(* logs again: its best bid only rises, and once it is ended or cancelled  *)
(* no creation or bid that is applied late brings the auction back.        *)
RowsOnlyAdvance ==
  [][\A id \in DOMAIN auctionRows :
       /\ id \in DOMAIN auctionRows'
       /\ auctionRows'[id].highestBidUsd >= auctionRows[id].highestBidUsd
       /\ auctionRows[id].status \in {"ended", "cancelled"} =>
            auctionRows'[id] = auctionRows[id]]_indexVars
-----------------------------------------------------------------------------
(* What the chain says, from the logs of its safe blocks.                  *)

(* Where they are: block, index in the block.                              *)
SafePlaces ==
  UNION {{<<n, i>> : i \in DOMAIN chain[n].logs} :
           n \in 1 .. SafeHead(Len(chain))}
LogOf(p) == chain[p[1]].logs[p[2]]

(* The safe logs of event name of the contracts of this abi, from their    *)
(* start blocks on.                                                        *)
Places(abi, name) ==
  {p \in SafePlaces : /\ Emits(LogOf(p), abi, name)
                      /\ StartBlock[SourceOf[LogOf(p)]] <= p[1]}
Happened(abi, name) == {LogOf(p) : p \in Places(abi, name)}
About(id, name) ==
  {l \in Happened("auction_market_v3", name) : Args(l).auctionId = id}

ChainRow(id) ==
  LET created == CHOOSE l \in About(id, "AuctionCreatedV3") : TRUE
      bids == About(id, "BidPlaced")
      best == CHOOSE l \in bids : \A k \in bids :
                Args(l).amountUsd >= Args(k).amountUsd
  IN  [seller |-> Args(created).seller, token_id |-> Args(created).tokenId,
       status |-> IF About(id, "AuctionCancelled") # {} THEN "cancelled"
                  ELSE IF About(id, "AuctionEnded") # {} THEN "ended"
                  ELSE IF bids # {} THEN "active" ELSE "pending",
       highestBidder |-> IF bids = {} THEN Nobody ELSE Args(best).bidder,
       highestBidUsd |-> IF bids = {} THEN 0 ELSE Args(best).amountUsd]

ChainBid(p) ==
  [key |-> <<LogOf(p), p[2]>>, auction |-> Args(LogOf(p)).auctionId,
   bidder |-> Args(LogOf(p)).bidder, amountUsd |-> Args(LogOf(p)).amountUsd]

(* The owner of x is whom its last transfer went to.                       *)
Moves(x) ==
  {p \in Places("auction_nft", "Transfer") : Args(LogOf(p)).tokenId = x}
ChainOwner(x) ==
  LET last == CHOOSE p \in Moves(x) : \A q \in Moves(x) :
                q[1] < p[1] \/ (q[1] = p[1] /\ q[2] <= p[2])
  IN  Args(LogOf(last)).to

TablesExact ==
  /\ auctionRows =
       [id \in {Args(l).auctionId :
                  l \in Happened("auction_market_v3", "AuctionCreatedV3")}
          |-> ChainRow(id)]
  /\ bidRows = {ChainBid(p) : p \in Places("auction_market_v3", "BidPlaced")}
  /\ nftRows = [x \in {x \in Items : Moves(x) # {}} |-> ChainOwner(x)]

(* Blocks may go from under the safe head when a reorg makes the chain     *)
(* shorter; what was indexed of them stays.                                *)
Comparable == failures = 0 /\ Len(chain) = peak

(* Unless a call failed, the tables say exactly what the chain says up to  *)
(* the safe head as soon as the cursors are there: each auction's creator, *)
(* item, status and best bid, all bids, and the owner of every NFT, over   *)
(* all retries and reorgs before.                                          *)
ExactWhenCaughtUp ==
  Comparable /\ (\A s \in Sources : CaughtUp(s)) => TablesExact

(* And they come to say it, and stay so.                                   *)
EventuallyExact == <>[](Comparable => TablesExact)
=============================================================================
