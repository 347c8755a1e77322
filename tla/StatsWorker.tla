----------------------------- MODULE StatsWorker -----------------------------
(***************************************************************************)
(* The worker behind platform_stats: every minute it counts the auctions   *)
(* that are active, ended and cancelled, in three queries, and saves the   *)
(* three numbers as a snapshot, while the indexer writes the rows and time *)
(* moves them from one status to the next.                                 *)
(*                                                                         *)
(* One action is one statement, of the worker or of the indexer.  Instead  *)
(* of the number a query returns the auctions it counted are kept.         *)
(***************************************************************************)
EXTENDS AuctionStatus, FiniteSets

CONSTANTS
  Auctions,
  Starts, Ends,      \* times that auctions are opened with
  \* bounds
  MaxTime, MaxFailures

ASSUME StatsAssumption ==
  /\ IsFiniteSet(Auctions)
  /\ Starts \subseteq Nat /\ Ends \subseteq Nat
  /\ MaxTime \in Nat /\ MaxFailures \in Nat

VARIABLES
  rows,        \* auctions, by auction_id
  now,
  step,        \* 0: waits for the tick; 1 .. 3: the next count; 4: the save
  counted,     \* the auctions counted under each status in this pass
  snapshots,   \* platform_stats, by snapshot_time
  shown,       \* history: the statuses an auction has had in this pass
  failures

vars == <<rows, now, step, counted, snapshots, shown, failures>>

CountOrderMutant == <<"cancelled", "ended", "active">>
CountOrder == <<"active", "ended", "cancelled">>

Countable == {"active", "ended", "cancelled"}

Status(rs, t, a) ==
  IF a \in DOMAIN rs THEN CurrentAuctionStatus(rs[a], t) ELSE "unknown"

TypeOK ==
  /\ DOMAIN rows \subseteq Auctions
  /\ rows \in [DOMAIN rows -> Row]
  /\ now \in Nat
  /\ step \in 0 .. 4
  /\ counted \in [Countable -> SUBSET Auctions]
  /\ DOMAIN snapshots \subseteq Nat
  /\ snapshots \in [DOMAIN snapshots -> [Countable -> Nat]]
  /\ shown \in [Auctions -> SUBSET (Statuses \cup {"unknown"})]
  /\ failures \in Nat

Init ==
  /\ rows = [a \in {} |-> 0]
  /\ now = 0
  /\ step = 0
  /\ counted = [s \in Countable |-> {}]
  /\ snapshots = [t \in {} |-> 0]
  /\ shown = [a \in Auctions |-> {}]
  /\ failures = 0
-----------------------------------------------------------------------------
(* The indexer and time.                                                   *)

Watch ==
  /\ shown' = [a \in Auctions |-> shown[a] \cup {Status(rows', now', a)}]
  /\ UNCHANGED <<step, counted, snapshots, failures>>

SetRow(a, row) ==
  rows' = [b \in DOMAIN rows \cup {a} |-> IF b = a THEN row ELSE rows[b]]

IndexCreated(a, start, end) ==
  /\ a \notin DOMAIN rows
  /\ start < end
  /\ SetRow(a, [status |-> "pending", start |-> start, end |-> end])
  /\ UNCHANGED now
  /\ Watch

(* Events reach the table some time after they happened.                   *)
IndexBid(a) ==
  /\ a \in DOMAIN rows
  /\ rows[a].status \notin Terminal
  /\ now >= rows[a].start
  /\ SetRow(a, [rows[a] EXCEPT !.status = "active"])
  /\ UNCHANGED now
  /\ Watch

IndexEnded(a) ==
  /\ a \in DOMAIN rows
  /\ rows[a].status \notin Terminal
  /\ now >= rows[a].end
  /\ SetRow(a, [rows[a] EXCEPT !.status = "ended"])
  /\ UNCHANGED now
  /\ Watch

IndexCancelled(a) ==
  /\ a \in DOMAIN rows
  /\ rows[a].status = "pending"
  /\ SetRow(a, [rows[a] EXCEPT !.status = "cancelled"])
  /\ UNCHANGED now
  /\ Watch

Tick ==
  /\ now < MaxTime
  /\ now' = now + 1
  /\ UNCHANGED rows
  /\ Watch
-----------------------------------------------------------------------------
(* The worker.                                                             *)

Begin ==
  /\ step = 0
  /\ step' = 1
  /\ counted' = [s \in Countable |-> {}]
  /\ shown' = [a \in Auctions |-> {Status(rows, now, a)}]
  /\ UNCHANGED <<rows, now, snapshots, failures>>

Matching(status) == {a \in DOMAIN rows : InFilter(rows[a], status, now)}

Count ==
  /\ step \in 1 .. 3
  /\ counted' = [counted EXCEPT ![CountOrder[step]] =
                   Matching(CountOrder[step])]
  /\ step' = step + 1
  /\ UNCHANGED <<rows, now, snapshots, shown, failures>>

SaveSnapshotMutant ==   \* leaves a row with the same key as it is
  snapshots' = [t \in DOMAIN snapshots \cup {now} |->
                  IF t \in DOMAIN snapshots THEN snapshots[t]
                  ELSE [s \in Countable |-> Cardinality(counted[s])]]

SaveSnapshot ==
  snapshots' = [t \in DOMAIN snapshots \cup {now} |->
                  IF t = now THEN [s \in Countable |-> Cardinality(counted[s])]
                  ELSE snapshots[t]]

Save ==
  /\ step = 4
  /\ SaveSnapshot
  /\ step' = 0
  /\ UNCHANGED <<rows, now, counted, shown, failures>>

(* A statement fails, before or after its effect, or the process restarts. *)
Fail ==
  /\ step # 0
  /\ failures < MaxFailures
  /\ failures' = failures + 1
  /\ step' = 0
  /\ UNCHANGED snapshots \/ (step = 4 /\ SaveSnapshot)
  /\ UNCHANGED <<rows, now, counted, shown>>
-----------------------------------------------------------------------------
WorkerStep == Begin \/ Count \/ Save

IndexerStep ==
  \E a \in Auctions :
    \/ \E start \in Starts, end \in Ends : IndexCreated(a, start, end)
    \/ IndexBid(a)
    \/ IndexEnded(a)
    \/ IndexCancelled(a)

Next == WorkerStep \/ Fail \/ IndexerStep \/ Tick

Spec == Init /\ [][Next]_vars

(* cmd/worker calls RunOnce every minute, whatever the last one returned.  *)
FairSpec == Spec /\ WF_vars(WorkerStep)
-----------------------------------------------------------------------------
(* Whatever the rows and the time, each of the four computations of a      *)
(* status gives the same answer, and each auction is in exactly one list.  *)
StatusesAgree == \A a \in DOMAIN rows : Agree(rows[a], now)

(* An auction that is neither pending nor unknown at any time of the pass  *)
(* is in the snapshot: the counts are made in the order in which an        *)
(* auction goes from status to status, so that none slips through between. *)
NoneMissed ==
  step = 4 =>
    \A a \in Auctions :
      \/ shown[a] \cap {"pending", "unknown"} # {}
      \/ \E s \in Countable : a \in counted[s]

(* An auction that is counted twice, or under a status it does not have at *)
(* the end of the pass, had each of these statuses in the course of it.    *)
CountedAsShown ==
  step # 0 => \A s \in Countable : \A a \in counted[s] : s \in shown[a]

(* The greatest snapshot_time, which the API serves.                       *)
Latest == snapshots[CHOOSE t \in DOMAIN snapshots :
                      \A u \in DOMAIN snapshots : u <= t]

(* Once failures, writes and changes by time stop, the snapshot that is    *)
(* served is what the table says.                                          *)
EventuallyFresh ==
  <>[](snapshots # <<>> /\
       Latest = [s \in Countable |->
                   Cardinality({a \in DOMAIN rows :
                                  Status(rows, now, a) = s})])
=============================================================================
