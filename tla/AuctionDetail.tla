---------------------------- MODULE AuctionDetail ----------------------------
(***************************************************************************)
(* What routes/AuctionDetailPage.tsx shows: two queries of the API, for    *)
(* the auction and for its bids, which React Query caches, fetches when    *)
(* the page is mounted or focused, and fetches again when a transaction of *)
(* the page has been confirmed.  The tables follow the chain some blocks   *)
(* behind (EvmRunner, MarketIndex); how far they and each query have got   *)
(* is the number of events of the auction that they know.                  *)
(***************************************************************************)
EXTENDS Integers

CONSTANT MaxEvents   \* bound on the events of the auction

VARIABLES
  events,     \* of the auction, on the chain
  indexed,    \* of these, in the tables
  data,       \* what each query holds, Absent before its first answer
  fetching,   \* the queries with a request in flight
  pc,         \* of runTx: "tx", then the query whose refetch it waits for
  confirmed   \* history: events when a transaction of the page confirmed

detailVars == <<events, indexed, data, fetching, pc, confirmed>>

Queries == {"auction", "bids"}
Absent == -1

DetailTypeOK ==
  /\ events \in Nat
  /\ indexed \in 0 .. events
  /\ data \in [Queries -> {Absent} \cup 0 .. events]
  /\ fetching \subseteq Queries
  /\ pc \in {"idle", "tx"} \cup Queries
  /\ confirmed \in 0 .. events

DetailInit ==
  /\ events = 0 /\ indexed = 0
  /\ data = [q \in Queries |-> Absent]
  /\ fetching = Queries
  /\ pc = "idle"
  /\ confirmed = 0
-----------------------------------------------------------------------------
(* getAuction and listBids: the API answers from the tables.  A request    *)
(* that fails is retried in the end by the next focus.                     *)
Answer(q) ==
  /\ q \in fetching
  /\ fetching' = fetching \ {q}
  /\ data' = [data EXCEPT ![q] = indexed]
  /\ UNCHANGED <<events, indexed, pc, confirmed>>

FetchFails(q) ==
  /\ q \in fetching
  /\ fetching' = fetching \ {q}
  /\ UNCHANGED <<events, indexed, data, pc, confirmed>>

Focus ==
  /\ fetching' = Queries
  /\ UNCHANGED <<events, indexed, data, pc, confirmed>>

(* runTx; the page has no buttons before it has an auction.                *)
Click ==
  /\ pc = "idle"
  /\ data["auction"] # Absent
  /\ pc' = "tx"
  /\ UNCHANGED <<events, indexed, data, fetching, confirmed>>

TxFails ==
  /\ pc = "tx"
  /\ pc' = "idle"
  /\ UNCHANGED <<events, indexed, data, fetching, confirmed>>

(* invalidateQueries: the query is fetched again at once, and awaited.     *)
Invalidate(q) ==
  /\ fetching' = fetching \cup {q}
  /\ pc' = q
  /\ UNCHANGED <<indexed, data>>

TxConfirmed ==
  /\ pc = "tx"
  /\ events < MaxEvents
  /\ events' = events + 1
  /\ confirmed' = events'
  /\ Invalidate("auction")

InvalidateBids ==
  /\ pc = "auction" /\ "auction" \notin fetching
  /\ Invalidate("bids")
  /\ UNCHANGED <<events, confirmed>>

RunTxDone ==
  /\ pc = "bids" /\ "bids" \notin fetching
  /\ pc' = "idle"
  /\ UNCHANGED <<events, indexed, data, fetching, confirmed>>

(* The indexer, and other users of the auction.                            *)
Index ==
  /\ indexed < events
  /\ indexed' \in indexed + 1 .. events
  /\ UNCHANGED <<events, data, fetching, pc, confirmed>>

OthersTransact ==
  /\ events < MaxEvents
  /\ events' = events + 1
  /\ UNCHANGED <<indexed, data, fetching, pc, confirmed>>

RunTx == Click \/ TxFails \/ TxConfirmed \/ InvalidateBids \/ RunTxDone

DetailNext ==
  \/ \E q \in Queries : Answer(q) \/ FetchFails(q)
  \/ Focus \/ RunTx \/ Index \/ OthersTransact

(* The API answers, the indexer catches up and runTx goes on.  Nothing     *)
(* makes the user leave the page and come back.                            *)
DetailSpec ==
  /\ DetailInit /\ [][DetailNext]_detailVars
  /\ \A q \in Queries : SF_detailVars(Answer(q))
  /\ WF_detailVars(Index)
  /\ WF_detailVars(InvalidateBids) /\ WF_detailVars(RunTxDone)
-----------------------------------------------------------------------------
(* api.ts:68-69 and AuctionDetailPage.tsx:14-15: after a transaction of    *)
(* the page the query is invalidated, and once the indexer has written the *)
(* event the page refreshes to the new state.                              *)
ShownAfterTx ==
  \A n \in 1 .. MaxEvents : confirmed = n ~> data["auction"] >= n
=============================================================================
