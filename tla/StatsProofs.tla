----------------------------- MODULE StatsProofs -----------------------------
(***************************************************************************)
(* Proofs about StatsWorker: the four computations of a status agree, and  *)
(* a snapshot misses no auction and counts none without cause.             *)
(***************************************************************************)
EXTENDS StatsWorker, FiniteSetTheorems, TLAPS

(* Every row is in exactly one list, the one of the status that the API,   *)
(* the domain model and the front end compute for it.                      *)
LEMMA RowsAgree ==
  ASSUME NEW row \in Row, NEW t \in Nat
  PROVE  Agree(row, t)
<1> DEFINE status == CurrentAuctionStatus(row, t)
<1>0. /\ row.status \in Statuses
      /\ row.start \in Nat \cup {NoStart}
      /\ row.end \in Nat
      /\ row.start < row.end
  BY DEF Row
<1>1. \A s \in Statuses : InFilter(row, s, t) <=> s = status
  BY <1>0 DEF Statuses, Terminal, InFilter, CurrentAuctionStatus, NoStart
<1>2. ResolveStatus(t, row.start, row.end, row.status = "ended",
                    row.status = "cancelled") = status
  BY <1>0 DEF Statuses, Terminal, ResolveStatus, CurrentAuctionStatus, NoStart
<1>3. ChainStatus(row.status \in Terminal, row.status = "cancelled",
                  IF row.start = NoStart THEN 0 ELSE row.start, row.end, t)
        = status
  BY <1>0 DEF Statuses, Terminal, ChainStatus, CurrentAuctionStatus, NoStart
<1>. QED  BY <1>1, <1>2, <1>3 DEF Agree
-----------------------------------------------------------------------------
(* An auction with status x may later have status y.                       *)
Later(x, y) ==
  /\ x = "ended" => y \in Terminal
  /\ x = "cancelled" => y = "cancelled"

Environment == IndexerStep \/ Tick

LEMMA StatusType ==
  ASSUME TypeOK
  PROVE  \A a \in Auctions : Status(rows, now, a) \in Statuses \cup {"unknown"}
  BY DEF TypeOK, Status, CurrentAuctionStatus, Row, Statuses, Terminal

(* Writing one row: its own status decides, the others keep theirs.        *)
LEMMA SetRowLater ==
  ASSUME TypeOK, NEW a \in Auctions, NEW row \in Row, SetRow(a, row),
         now' = now,
         a \in DOMAIN rows =>
           Later(CurrentAuctionStatus(rows[a], now),
                 CurrentAuctionStatus(row, now))
  PROVE  /\ DOMAIN rows' \subseteq Auctions
         /\ rows' \in [DOMAIN rows' -> Row]
         /\ \A b \in Auctions : Later(Status(rows, now, b),
                                      Status(rows', now', b))
<1>1. /\ DOMAIN rows' = DOMAIN rows \cup {a}
      /\ \A b \in DOMAIN rows' : rows'[b] = IF b = a THEN row ELSE rows[b]
  BY DEF SetRow
<1>2. DOMAIN rows' \subseteq Auctions /\ rows' \in [DOMAIN rows' -> Row]
  BY <1>1 DEF TypeOK, SetRow
<1>3. ASSUME NEW b \in Auctions
      PROVE  Later(Status(rows, now, b), Status(rows', now', b))
  <2>1. CASE b = a
    BY <1>1, <2>1 DEF Status, Later
  <2>2. CASE b # a
    BY <1>1, <2>2 DEF Status, Later, Terminal
  <2>. QED  BY <2>1, <2>2
<1>. QED  BY <1>2, <1>3

(* What the indexer and time do to the rows, as the worker sees it.        *)
OnlyForward ==
  /\ DOMAIN rows' \subseteq Auctions
  /\ rows' \in [DOMAIN rows' -> Row]
  /\ now' \in Nat
  /\ Watch
  /\ \A b \in Auctions : Later(Status(rows, now, b), Status(rows', now', b))

LEMMA EnvironmentStep ==
  ASSUME TypeOK, Environment
  PROVE  OnlyForward
<1>0. /\ \A a \in DOMAIN rows : a \in Auctions /\ rows[a] \in Row
      /\ now \in Nat
      /\ DOMAIN rows \subseteq Auctions /\ rows \in [DOMAIN rows -> Row]
  BY DEF TypeOK
<1>1. ASSUME NEW a \in Auctions, NEW row \in Row, SetRow(a, row),
             UNCHANGED now, Watch,
             a \in DOMAIN rows =>
               Later(CurrentAuctionStatus(rows[a], now),
                     CurrentAuctionStatus(row, now))
      PROVE  OnlyForward
  BY <1>0, <1>1, SetRowLater DEF OnlyForward
<1>2. ASSUME NEW a \in Auctions, NEW start \in Starts, NEW end \in Ends,
             IndexCreated(a, start, end)
      PROVE  OnlyForward
  <2>1. [status |-> "pending", start |-> start, end |-> end] \in Row
    BY <1>2, StatsAssumption DEF IndexCreated, Row, Statuses
  <2>. QED  BY <1>1, <1>2, <2>1 DEF IndexCreated
<1>3. ASSUME NEW a \in Auctions, IndexBid(a)
      PROVE  OnlyForward
  <2>1. rows[a] \in Row
    BY <1>0, <1>3 DEF IndexBid
  <2>2. [rows[a] EXCEPT !.status = "active"] \in Row
    BY <2>1 DEF Row, Statuses
  <2>3. Later(CurrentAuctionStatus(rows[a], now),
              CurrentAuctionStatus([rows[a] EXCEPT !.status = "active"], now))
    BY <1>0, <1>3, <2>1
       DEF IndexBid, Later, CurrentAuctionStatus, Row, Terminal
  <2>. QED  BY <1>1, <1>3, <2>2, <2>3 DEF IndexBid
<1>4. ASSUME NEW a \in Auctions, IndexEnded(a)
      PROVE  OnlyForward
  <2>1. rows[a] \in Row
    BY <1>0, <1>4 DEF IndexEnded
  <2>2. [rows[a] EXCEPT !.status = "ended"] \in Row
    BY <2>1 DEF Row, Statuses
  <2>3. Later(CurrentAuctionStatus(rows[a], now),
              CurrentAuctionStatus([rows[a] EXCEPT !.status = "ended"], now))
    BY <1>0, <1>4, <2>1
       DEF IndexEnded, Later, CurrentAuctionStatus, Row, Terminal
  <2>. QED  BY <1>1, <1>4, <2>2, <2>3 DEF IndexEnded
<1>5. ASSUME NEW a \in Auctions, IndexCancelled(a)
      PROVE  OnlyForward
  <2>1. rows[a] \in Row
    BY <1>0, <1>5 DEF IndexCancelled
  <2>2. [rows[a] EXCEPT !.status = "cancelled"] \in Row
    BY <2>1 DEF Row, Statuses
  <2>3. Later(CurrentAuctionStatus(rows[a], now),
              CurrentAuctionStatus([rows[a] EXCEPT !.status = "cancelled"], now))
    BY <1>0, <1>5, <2>1
       DEF IndexCancelled, Later, CurrentAuctionStatus, Row, Terminal
  <2>. QED  BY <1>1, <1>5, <2>2, <2>3 DEF IndexCancelled
<1>6. CASE Tick
  <2>1. rows' = rows /\ now' = now + 1 /\ Watch
    BY <1>6 DEF Tick
  <2>2. ASSUME NEW b \in Auctions
        PROVE  Later(Status(rows, now, b), Status(rows, now + 1, b))
    BY <1>0 DEF Later, Status, CurrentAuctionStatus, Row, Terminal
  <2>. QED  BY <1>0, <2>1, <2>2 DEF OnlyForward
<1>. QED  BY <1>2, <1>3, <1>4, <1>5, <1>6 DEF Environment, IndexerStep
-----------------------------------------------------------------------------
(* Type correctness: no row, count or snapshot leaves its range.           *)
THEOREM StatsTypeCorrect == Spec => []TypeOK
<1>1. Init => TypeOK
  BY DEF Init, TypeOK, Countable
<1>2. ASSUME TypeOK, [Next]_vars
      PROVE  TypeOK'
  <2>0. SaveSnapshot => /\ DOMAIN snapshots' \subseteq Nat
                        /\ snapshots' \in [DOMAIN snapshots' -> [Countable -> Nat]]
    <3>1. \A s \in Countable : Cardinality(counted[s]) \in Nat
      BY <1>2, StatsAssumption, FS_Subset, FS_CardinalityType DEF TypeOK
    <3>. DEFINE saved == [s \in Countable |-> Cardinality(counted[s])]
    <3>2. saved \in [Countable -> Nat]
      BY <3>1
    <3>. HIDE DEF saved
    <3>3. SaveSnapshot => snapshots' = [t \in DOMAIN snapshots \cup {now} |->
                                          IF t = now THEN saved ELSE snapshots[t]]
      BY DEF SaveSnapshot, saved
    <3>. QED  BY <1>2, <3>2, <3>3 DEF TypeOK
  <2>1. CASE Environment
    <3>1. OnlyForward
      BY <1>2, <2>1, EnvironmentStep
    <3>2. TypeOK' \/ \E a \in Auctions : Status(rows', now', a)
                       \notin Statuses \cup {"unknown"}
      BY <1>2, <3>1 DEF OnlyForward, Watch, TypeOK
    <3>3. \A a \in Auctions :
            Status(rows', now', a) \in Statuses \cup {"unknown"}
      BY <3>1 DEF OnlyForward, Status, CurrentAuctionStatus, Row, Statuses,
                  Terminal
    <3>. QED  BY <3>2, <3>3
  <2>2. CASE Begin
    BY <1>2, <2>2, StatusType DEF Begin, TypeOK
  <2>3. CASE Count
    <3>1. \A s \in Countable : Matching(s) \subseteq Auctions
      BY <1>2 DEF Matching, TypeOK
    <3>2. step \in 1 .. 3 => CountOrder[step] \in Countable
      BY DEF CountOrder, Countable
    <3>. QED  BY <1>2, <2>3, <3>1, <3>2 DEF Count, TypeOK
  <2>4. CASE Save
    BY <1>2, <2>0, <2>4 DEF Save, TypeOK
  <2>5. CASE Fail
    BY <1>2, <2>0, <2>5 DEF Fail, TypeOK
  <2>6. CASE UNCHANGED vars
    BY <1>2, <2>6 DEF vars, TypeOK
  <2>. QED
    BY <1>2, <2>1, <2>2, <2>3, <2>4, <2>5, <2>6
       DEF Next, WorkerStep, Environment
<1>. QED  BY <1>1, <1>2, PTL DEF Spec

(* The API, the lists, the domain model and the front end never disagree   *)
(* about the status of a row.                                              *)
THEOREM StatusesAlwaysAgree == Spec => []StatusesAgree
<1>1. TypeOK => StatusesAgree
  BY RowsAgree DEF TypeOK, StatusesAgree
<1>. QED  BY <1>1, StatsTypeCorrect, PTL
-----------------------------------------------------------------------------
(* The invariant behind the counts.  The auction that has not been counted *)
(* yet is still ahead of the counts that are to come.                      *)
ShownNow == step # 0 => \A a \in Auctions : Status(rows, now, a) \in shown[a]

Begun(a) == "pending" \notin shown[a] /\ "unknown" \notin shown[a]

StillAhead ==
  \A a \in Auctions : Begun(a) =>
    /\ step = 2 => \/ a \in counted["active"]
                   \/ Status(rows, now, a) \in Terminal
    /\ step = 3 => \/ a \in counted["active"] \cup counted["ended"]
                   \/ Status(rows, now, a) = "cancelled"
    /\ step = 4 => a \in counted["active"] \cup counted["ended"]
                           \cup counted["cancelled"]

CountInv == TypeOK /\ ShownNow /\ CountedAsShown /\ StillAhead

(* A query returns the auctions that have the status right now.            *)
LEMMA MatchingStatus ==
  ASSUME TypeOK, NEW a \in Auctions, NEW s \in Countable
  PROVE  a \in Matching(s) <=> Status(rows, now, a) = s
<1>1. CASE a \in DOMAIN rows
  <2>1. InFilter(rows[a], s, now) <=> s = CurrentAuctionStatus(rows[a], now)
    BY <1>1, RowsAgree DEF TypeOK, Agree, Countable, Statuses
  <2>. QED  BY <1>1, <2>1 DEF Matching, Status
<1>2. CASE a \notin DOMAIN rows
  BY <1>2 DEF Matching, Status, Countable
<1>. QED  BY <1>1, <1>2

LEMMA CountInvStep ==
  ASSUME CountInv, TypeOK', [Next]_vars
  PROVE  CountInv'
<1>. USE DEF CountInv
<1>1. CASE Environment
  <2>1. OnlyForward
    BY <1>1, EnvironmentStep
  <2>2. /\ step' = step /\ counted' = counted
        /\ \A a \in Auctions :
             /\ shown'[a] = shown[a] \cup {Status(rows', now', a)}
             /\ Later(Status(rows, now, a), Status(rows', now', a))
    BY <2>1 DEF OnlyForward, Watch
  <2>3. ShownNow'
    BY <2>2 DEF ShownNow
  <2>4. CountedAsShown'
    BY <2>2 DEF CountedAsShown, TypeOK
  <2>5. ASSUME NEW a \in Auctions, Begun(a)'
        PROVE  Begun(a)
    BY <2>2, <2>5 DEF Begun
  <2>6. StillAhead'
    BY <2>2, <2>5 DEF StillAhead, Later, Terminal
  <2>. QED  BY <2>3, <2>4, <2>6
<1>2. CASE Begin
  <2>1. /\ step' = 1 /\ UNCHANGED <<rows, now>>
        /\ \A s \in Countable : counted'[s] = {}
        /\ \A a \in Auctions : shown'[a] = {Status(rows, now, a)}
    BY <1>2 DEF Begin
  <2>. QED  BY <2>1 DEF ShownNow, CountedAsShown, StillAhead
<1>3. CASE Count
  <2>1. UNCHANGED <<rows, now, shown>> /\ step' = step + 1 /\ step \in 1 .. 3
    BY <1>3 DEF Count
  <2>2. ShownNow'
    BY <2>1 DEF ShownNow
  <2>3. CountOrder[step] \in Countable
    BY <2>1 DEF CountOrder, Countable
  <2>4. \A s \in Countable :
          counted'[s] = IF s = CountOrder[step] THEN Matching(s)
                        ELSE counted[s]
    BY <1>3 DEF Count, TypeOK
  <2>5. CountedAsShown'
    <3>1. SUFFICES ASSUME NEW s \in Countable, NEW a \in counted'[s]
                   PROVE  s \in shown[a]
      BY <2>1 DEF CountedAsShown
    <3>2. CASE s = CountOrder[step]
      <4>1. a \in Matching(s) /\ a \in Auctions
        BY <2>4, <3>2 DEF Matching, TypeOK
      <4>. QED  BY <2>1, <4>1, MatchingStatus DEF ShownNow
    <3>3. CASE s # CountOrder[step]
      BY <2>1, <2>4, <3>3 DEF CountedAsShown
    <3>. QED  BY <3>2, <3>3
  <2>6. StillAhead'
    <3>1. SUFFICES ASSUME NEW a \in Auctions, Begun(a)
                   PROVE  /\ step' = 2 => \/ a \in counted'["active"]
                                          \/ Status(rows, now, a) \in Terminal
                          /\ step' = 3 => \/ a \in counted'["active"]
                                                     \cup counted'["ended"]
                                          \/ Status(rows, now, a) = "cancelled"
                          /\ step' = 4 => a \in counted'["active"]
                                            \cup counted'["ended"]
                                            \cup counted'["cancelled"]
      BY <2>1 DEF StillAhead, Begun
    <3>2. Status(rows, now, a) \in Countable
      BY <2>1, <3>1, StatusType DEF ShownNow, Begun, Statuses, Countable
    <3>3. \A s \in Countable : a \in Matching(s) <=> Status(rows, now, a) = s
      BY MatchingStatus
    <3>4. /\ step = 1 => CountOrder[step] = "active"
          /\ step = 2 => CountOrder[step] = "ended"
          /\ step = 3 => CountOrder[step] = "cancelled"
      BY DEF CountOrder
    <3>5. CASE step = 1
      BY <2>1, <2>4, <3>2, <3>3, <3>4, <3>5 DEF Countable, Terminal
    <3>6. CASE step = 2
      BY <2>1, <2>4, <3>1, <3>3, <3>4, <3>6 DEF Countable, Terminal, StillAhead
    <3>7. CASE step = 3
      BY <2>1, <2>4, <3>1, <3>3, <3>4, <3>7 DEF Countable, StillAhead
    <3>. QED  BY <2>1, <3>5, <3>6, <3>7
  <2>. QED  BY <2>2, <2>5, <2>6
<1>4. CASE Save \/ Fail
  BY <1>4 DEF Save, Fail, ShownNow, CountedAsShown, StillAhead
<1>5. CASE UNCHANGED vars
  BY <1>5 DEF vars, ShownNow, CountedAsShown, StillAhead, Begun
<1>. QED
  BY <1>1, <1>2, <1>3, <1>4, <1>5 DEF Next, WorkerStep, Environment

LEMMA CountInvAlways == Spec => []CountInv
<1>1. Init => CountInv
  <2>1. Init => TypeOK
    BY DEF Init, TypeOK, Countable
  <2>. QED
    BY <2>1 DEF Init, CountInv, ShownNow, CountedAsShown, StillAhead
<1>2. CountInv /\ TypeOK' /\ [Next]_vars => CountInv'
  BY CountInvStep
<1>. QED  BY <1>1, <1>2, StatsTypeCorrect, PTL DEF Spec

(* A snapshot misses no auction that was open or closed for the whole of   *)
(* the pass, however statuses change between the three counts.             *)
THEOREM NoAuctionMissed == Spec => []NoneMissed
<1>1. CountInv => NoneMissed
  BY DEF CountInv, NoneMissed, StillAhead, Begun, Countable
<1>. QED  BY <1>1, CountInvAlways, PTL

(* No auction is counted under a status it did not have during the pass.   *)
THEOREM CountsExplained == Spec => []CountedAsShown
<1>1. CountInv => CountedAsShown
  BY DEF CountInv
<1>. QED  BY <1>1, CountInvAlways, PTL
=============================================================================
