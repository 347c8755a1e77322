---------------------------- MODULE AuctionStatus ----------------------------
(***************************************************************************)
(* The status of an auction, which four places compute from what is        *)
(* recorded of it and a clock: the domain model and the API of the back    *)
(* end, the SQL filter behind its lists, and the front end when it reads   *)
(* the chain itself.                                                       *)
(***************************************************************************)
EXTENDS Integers

NoStart == -1      \* start_time NULL: an auction from before V3

Statuses == {"pending", "active", "ended", "cancelled"}
Terminal == {"ended", "cancelled"}

(* What a row of auctions says; createAuctionV3 lets nothing else through. *)
Row ==
  {r \in [status : Statuses, start : Nat \cup {NoStart}, end : Nat] :
     r.start < r.end}

(* domain/auction/model.go                                                 *)
ResolveStatus(now, start, end, ended, cancelled) ==
  IF cancelled THEN "cancelled"
  ELSE IF ended \/ now >= end THEN "ended"
  ELSE IF start # NoStart /\ now < start THEN "pending"
  ELSE "active"

(* api/dto.go                                                              *)
CurrentAuctionStatus(row, now) ==
  IF row.status \in Terminal THEN row.status
  ELSE IF row.end <= now THEN "ended"
  ELSE IF row.start # NoStart /\ row.start > now THEN "pending"
  ELSE "active"

InFilterMutant(row, status, now) ==   \* forgets that cancelled comes first
  \/ /\ status = "pending"
     /\ row.status \notin Terminal /\ row.start # NoStart /\ row.start > now
  \/ /\ status = "active"
     /\ row.status \notin Terminal
     /\ row.start = NoStart \/ row.start <= now
     /\ row.end > now
  \/ status = "ended" /\ (row.status = "ended" \/ row.end <= now)
  \/ status = "cancelled" /\ row.status = status

(* repository/auction_repository.go                                        *)
InFilter(row, status, now) ==
  \/ /\ status = "pending"
     /\ row.status \notin Terminal /\ row.start # NoStart /\ row.start > now
  \/ /\ status = "active"
     /\ row.status \notin Terminal
     /\ row.start = NoStart \/ row.start <= now
     /\ row.end > now
  \/ /\ status = "ended"
     /\ \/ row.status = "ended"
        \/ row.status # "cancelled" /\ row.end <= now
  \/ status = "cancelled" /\ row.status = status

(* lib/contracts.ts; start is 0 in the extra of an auction from before V3, *)
(* and the contract sets ended for a cancelled auction too.                *)
ChainStatus(ended, cancelled, start, end, now) ==
  IF cancelled THEN "cancelled"
  ELSE IF ended \/ now >= end THEN "ended"
  ELSE IF start > now THEN "pending"
  ELSE "active"

(* All four say the same of a row that is up to date.                      *)
Agree(row, now) ==
  LET status == CurrentAuctionStatus(row, now)
      ended == row.status \in Terminal
      cancelled == row.status = "cancelled"
      onChain == IF row.start = NoStart THEN 0 ELSE row.start
  IN  /\ \A s \in Statuses : InFilter(row, s, now) <=> s = status
      /\ ResolveStatus(now, row.start, row.end, row.status = "ended",
                       cancelled) = status
      /\ ChainStatus(ended, cancelled, onChain, row.end, now) = status
=============================================================================
