------------------------------ MODULE EvmRunner ------------------------------
(***************************************************************************)
(* evmindexer.Runner, the loop of cmd/indexer that copies the logs of a    *)
(* few contracts into MySQL, against a chain that grows and reorganises    *)
(* between any two of its calls.                                           *)
(*                                                                         *)
(* One action is one RPC or one database statement with the local work     *)
(* around it.  Any call can fail and the process can stop between any two: *)
(* the pass is abandoned and the next tick starts again from the first     *)
(* source.  A log is what a transaction emits; its unique key adds its      *)
(* index in the block, so a transaction mined again after a reorg may well *)
(* come back under another key.                                            *)
(***************************************************************************)
EXTENDS Integers, Sequences, FiniteSets

CONSTANTS
  NumSources,      \* the configured contracts, in the order RunOnce visits
  Logs,
  SourceOf,        \* the contract that emits a log
  StartBlock,      \* start_block of each source
  Skipped,         \* logs the decoder does not care about (ok = false)
  Undecodable,     \* logs the decoder rejects, every time
  Confirmations,
  BatchSize,
  ReorgDepth,      \* no reorg replaces a block this deep under the highest head
  Histories,       \* orders in which the transactions may be mined
  \* bounds
  MaxBlockLogs, MaxHeight, MaxReorgs, MaxFailures

Sources == 1 .. NumSources

ASSUME RunnerAssumption ==
  /\ NumSources \in Nat \ {0}
  /\ SourceOf \in [Logs -> Sources]
  /\ StartBlock \in [Sources -> Nat \ {0}]
  /\ Skipped \cap Undecodable = {}
  /\ Confirmations \in Nat
  /\ BatchSize \in Nat \ {0}
  /\ ReorgDepth \in Nat
  /\ \A h \in Histories :
       /\ h \in Seq(Logs)
       /\ \A i, j \in DOMAIN h : h[i] = h[j] => i = j
  /\ MaxBlockLogs \in Nat /\ MaxHeight \in Nat
  /\ MaxReorgs \in Nat /\ MaxFailures \in Nat

VARIABLES
  chain,         \* the canonical chain: chain[n] is block n
  peak,          \* the greatest height the chain has had
  reorgs,        \* how many reorgs there were
  rawEvents,     \* auction_events: the block hash stored under each key
  handled,       \* the keys each source's handler has applied, in order
  deadLetters,   \* indexer_failed_events
  cursors,       \* sync_cursors
  pc,            \* what the runner does next
  source,        \* the source it is at
  fromBlock, toBlock,
  batch,         \* the fetched logs it has not dealt with
  hashRead,      \* the hash of toBlock, as HeaderByNumber gave it
  failures       \* how many calls failed or were cut off

vars == <<chain, peak, reorgs, rawEvents, handled, deadLetters, cursors, pc,
          source, fromBlock, toBlock, batch, hashRead, failures>>
world == <<chain, peak, reorgs>>
tables == <<rawEvents, handled, deadLetters, cursors>>
locals == <<fromBlock, toBlock, batch, hashRead>>

NoHash == <<0, 0>>

(* A block, with the number of transactions mined up to its end.           *)
Block == [hash : Nat \X Nat, logs : Seq(Logs), end : Nat]

Keys == Logs \X (Nat \ {0})   \* tx_hash, log_index

(* A log as FilterLogs returns it.                                         *)
Fetched == [log : Logs, height : Nat \ {0}, index : Nat \ {0},
            hash : Nat \X Nat]

Steps == {"idle", "check", "head", "fetch", "logs", "handle", "save"}

TypeOK ==
  /\ chain \in Seq(Block)
  /\ peak \in Nat /\ Len(chain) <= peak
  /\ reorgs \in Nat
  /\ DOMAIN rawEvents \subseteq Keys
  /\ rawEvents \in [DOMAIN rawEvents -> Nat \X Nat]
  /\ handled \in [Sources -> Seq(Keys)]
  /\ deadLetters \subseteq Logs \X {"decode", "raw_event", "handler"}
  /\ cursors \in [Sources -> [block : Nat, hash : Nat \X Nat]]
  /\ pc \in Steps
  /\ source \in Sources
  /\ fromBlock \in Nat /\ toBlock \in Nat
  /\ batch \subseteq Fetched
  /\ hashRead \in Nat \X Nat
  /\ failures \in 0 .. MaxFailures

Init ==
  /\ chain = <<>>
  /\ peak = 0
  /\ reorgs = 0
  /\ rawEvents = [k \in {} |-> NoHash]
  /\ handled = [s \in Sources |-> <<>>]
  /\ deadLetters = {}
  /\ cursors = [s \in Sources |-> [block |-> 0, hash |-> NoHash]]
  /\ pc = "idle"
  /\ source = 1
  /\ fromBlock = 0 /\ toBlock = 0
  /\ batch = {}
  /\ hashRead = NoHash
  /\ failures = 0
-----------------------------------------------------------------------------
(* The chain.                                                              *)

Range1(seq) == {seq[i] : i \in DOMAIN seq}

(* The blocks of c are pieces of the history h.                            *)
Agrees(h, c) ==
  \A n \in DOMAIN c :
    /\ c[n].end <= Len(h)
    /\ c[n].logs = SubSeq(h, c[n].end - Len(c[n].logs) + 1, c[n].end)

Mined(c) == IF c = <<>> THEN 0 ELSE c[Len(c)].end

(* base with one more block, which goes on with a history base agrees with.*)
Extend(base) ==
  \E h \in Histories, n \in 0 .. MaxBlockLogs :
    /\ Agrees(h, base)
    /\ Mined(base) + n <= Len(h)
    /\ chain' = Append(base, [hash |-> <<Len(base) + 1, reorgs'>>,
                              logs |-> SubSeq(h, Mined(base) + 1,
                                              Mined(base) + n),
                              end |-> Mined(base) + n])

Mine ==
  /\ Len(chain) < MaxHeight
  /\ UNCHANGED reorgs
  /\ Extend(chain)
  /\ peak' = IF Len(chain) = peak THEN peak + 1 ELSE peak
  /\ UNCHANGED <<tables, pc, source, locals, failures>>

(* Fork choice moves to a branch that leaves the chain depth blocks below  *)
(* its head.  It weighs votes, not blocks, so the head may be lower.       *)
Reorg(depth) ==
  /\ reorgs < MaxReorgs
  /\ depth <= Len(chain)
  /\ Len(chain) - depth >= peak - ReorgDepth
  /\ reorgs' = reorgs + 1
  /\ Extend(SubSeq(chain, 1, Len(chain) - depth))
  /\ UNCHANGED <<peak, tables, pc, source, locals, failures>>
-----------------------------------------------------------------------------
(* The runner.                                                             *)

(* The pass ends here; the cursor stays and the next tick starts over.     *)
Abandon ==
  /\ pc' = "idle"
  /\ source' = 1
  /\ fromBlock' = 0 /\ toBlock' = 0
  /\ batch' = {}
  /\ hashRead' = NoHash

NextSource ==
  /\ IF source < NumSources
     THEN pc' = "check" /\ source' = source + 1
     ELSE pc' = "idle" /\ source' = 1
  /\ fromBlock' = 0 /\ toBlock' = 0
  /\ batch' = {}
  /\ hashRead' = NoHash

Begin ==
  /\ pc = "idle"
  /\ pc' = "check"
  /\ UNCHANGED <<world, tables, source, locals, failures>>

(* HeaderByNumber finds a block up to the head; block 0 is the genesis.     *)
HasHeader(n) == n <= Len(chain)
HashAt(n) == IF n = 0 THEN NoHash ELSE chain[n].hash

(* ensureCursorStillCanonical: no cursor yet, or its block is still there. *)
Canonical(cursor) ==
  \/ cursor.block = 0
  \/ HasHeader(cursor.block) /\ HashAt(cursor.block) = cursor.hash

CheckCursor ==
  /\ pc = "check"
  /\ IF Canonical(cursors[source])
     THEN pc' = "head" /\ UNCHANGED <<source, locals>>
     ELSE Abandon
  /\ UNCHANGED <<world, tables, failures>>

SafeHeadMutant(head) == head   \* forgets the confirmations
SafeHead(head) == head - Confirmations

FirstBlockMutant(s) ==   \* takes the start block for scanned
  IF cursors[s].block >= StartBlock[s] THEN cursors[s].block + 1
  ELSE StartBlock[s] + 1

FirstBlock(s) ==
  IF cursors[s].block >= StartBlock[s] THEN cursors[s].block + 1
  ELSE StartBlock[s]

UpToDateMutant(from, safe) == FALSE   \* scans anyway
UpToDateEarlyMutant(from, safe) == from >= safe   \* never the last safe block
UpToDate(from, safe) == from > safe

ReadHead ==
  /\ pc = "head"
  /\ LET safe == SafeHead(Len(chain))
         from == FirstBlock(source)
         end == from + BatchSize - 1
     IN  IF safe < 0 \/ UpToDate(from, safe) THEN NextSource
         ELSE /\ fromBlock' = from
              /\ toBlock' = IF end > safe THEN safe ELSE end
              /\ pc' = "fetch"
              /\ UNCHANGED <<source, batch, hashRead>>
  /\ UNCHANGED <<world, tables, failures>>

LogAt(n, i) ==
  [log |-> chain[n].logs[i], height |-> n, index |-> i, hash |-> chain[n].hash]

FilterLogs(s, from, to) ==
  UNION {{LogAt(n, i) : i \in {i \in DOMAIN chain[n].logs :
                                SourceOf[chain[n].logs[i]] = s}} :
           n \in {n \in DOMAIN chain : from <= n /\ n <= to}}

Fetch ==
  /\ pc = "fetch"
  /\ batch' = FilterLogs(source, fromBlock, toBlock)
  /\ pc' = "logs"
  /\ UNCHANGED <<world, tables, source, fromBlock, toBlock, hashRead, failures>>

FirstMutant(b) ==   \* newest block first
  CHOOSE e \in b : \A o \in b :
    e.height > o.height \/ (e.height = o.height /\ e.index <= o.index)

First(b) ==
  CHOOSE e \in b : \A o \in b :
    e.height < o.height \/ (e.height = o.height /\ e.index <= o.index)

Key(e) == <<e.log, e.index>>
Rest == batch \ {First(batch)}

DecodeFails ==
  /\ pc = "logs" /\ batch # {}
  /\ First(batch).log \in Undecodable
  /\ deadLetters' = deadLetters \cup {<<First(batch).log, "decode">>}
  /\ Abandon
  /\ UNCHANGED <<world, rawEvents, handled, cursors, failures>>

SkipLog ==
  /\ pc = "logs" /\ batch # {}
  /\ First(batch).log \in Skipped
  /\ batch' = Rest
  /\ UNCHANGED <<world, tables, pc, source, fromBlock, toBlock, hashRead,
                 failures>>

AlreadyStoredMutant(e) == FALSE   \* no unique key
AlreadyStored(e) == Key(e) \in DOMAIN rawEvents

StoreMutant(e) ==   \* the whole batch in one statement
  rawEvents' = [k \in DOMAIN rawEvents \cup {Key(o) : o \in batch} |-> e.hash]

Store(e) ==
  rawEvents' = [k \in DOMAIN rawEvents \cup {Key(e)} |->
                  IF k = Key(e) THEN e.hash ELSE rawEvents[k]]

(* InsertOnce; a log stored before is not handled again.                   *)
InsertOnce ==
  /\ pc = "logs" /\ batch # {}
  /\ First(batch).log \notin Skipped \cup Undecodable
  /\ LET e == First(batch)
     IN  IF AlreadyStored(e)
         THEN batch' = Rest /\ UNCHANGED <<rawEvents, pc>>
         ELSE Store(e) /\ pc' = "handle" /\ UNCHANGED batch
  /\ UNCHANGED <<world, handled, deadLetters, cursors, source, fromBlock,
                 toBlock, hashRead, failures>>

Apply(e) == handled' = [handled EXCEPT ![source] = Append(@, Key(e))]

Handle ==
  /\ pc = "handle"
  /\ Apply(First(batch))
  /\ batch' = Rest
  /\ pc' = "logs"
  /\ UNCHANGED <<world, rawEvents, deadLetters, cursors, source, fromBlock,
                 toBlock, hashRead, failures>>

ReadHash ==
  /\ pc = "logs" /\ batch = {}
  /\ IF HasHeader(toBlock)
     THEN /\ hashRead' = HashAt(toBlock)
          /\ pc' = "save"
          /\ UNCHANGED <<source, fromBlock, toBlock, batch>>
     ELSE Abandon
  /\ UNCHANGED <<world, tables, failures>>

SaveCursor ==
  /\ pc = "save"
  /\ cursors' = [cursors EXCEPT ![source] =
                   [block |-> toBlock, hash |-> hashRead]]
  /\ NextSource
  /\ UNCHANGED <<world, rawEvents, handled, deadLetters, failures>>

(* A call fails before or after it took effect, or the process is killed   *)
(* and started again.  A failure to write the dead letter is ignored.      *)
Fail ==
  /\ pc # "idle"
  /\ failures < MaxFailures
  /\ failures' = failures + 1
  /\ Abandon
  /\ \/ UNCHANGED <<rawEvents, handled, deadLetters>>
     \/ /\ pc = "logs" /\ batch # {}
        /\ First(batch).log \notin Skipped \cup Undecodable
        /\ \/ UNCHANGED rawEvents
           \/ ~AlreadyStored(First(batch)) /\ Store(First(batch))
        /\ deadLetters' = deadLetters \cup {<<First(batch).log, "raw_event">>}
        /\ UNCHANGED handled
     \/ /\ pc = "handle"
        /\ Apply(First(batch)) \/ UNCHANGED handled
        /\ deadLetters' = deadLetters \cup {<<First(batch).log, "handler">>}
        /\ UNCHANGED rawEvents
  /\ UNCHANGED <<world, cursors>>
-----------------------------------------------------------------------------
RunnerStep ==
  \/ Begin \/ CheckCursor \/ ReadHead \/ Fetch
  \/ DecodeFails \/ SkipLog \/ InsertOnce \/ Handle
  \/ ReadHash \/ SaveCursor

ChainStep == Mine \/ \E depth \in 1 .. MaxHeight : Reorg(depth)

Next == RunnerStep \/ Fail \/ ChainStep

Spec == Init /\ [][Next]_vars

(* cmd/indexer calls RunOnce on every tick, for ever, and no call hangs.   *)
FairSpec == Spec /\ WF_vars(RunnerStep)
-----------------------------------------------------------------------------
(* The key of a log of block n of the canonical chain.                     *)
Placed(k, n) ==
  /\ n \in DOMAIN chain /\ k[2] \in DOMAIN chain[n].logs
  /\ chain[n].logs[k[2]] = k[1]

Precedes(j, k) ==
  \E n, m \in DOMAIN chain :
    Placed(j, n) /\ Placed(k, m) /\ (n < m \/ (n = m /\ j[2] < k[2]))

(* The logs of s that its cursor says are done with.                       *)
Passed(s) ==
  {k \in (Logs \ Skipped) \X (1 .. Cardinality(Logs)) :
     /\ SourceOf[k[1]] = s
     /\ \E n \in StartBlock[s] .. cursors[s].block : Placed(k, n)}

(* No event is applied twice, and only stored events are applied: retries, *)
(* restarts and reorgs fetch logs again that were applied before, a reorg  *)
(* maybe under another key.                                                *)
HandledOnce ==
  \A s \in Sources :
    /\ Range1(handled[s]) \subseteq DOMAIN rawEvents
    /\ \A i, j \in DOMAIN handled[s] :
         handled[s][i][1] = handled[s][j][1] => i = j

(* As long as no reorg goes deeper than the confirmations, every stored    *)
(* event stays part of the chain, under the block hash it was stored with, *)
(* and so does the block of every cursor.                                  *)
StoredIsCanonical ==
  /\ \A k \in DOMAIN rawEvents :
       \E n \in DOMAIN chain : chain[n].hash = rawEvents[k] /\ Placed(k, n)
  /\ \A s \in Sources : Canonical(cursors[s])

(* The cursor never passes a log of its source that is not stored.         *)
CursorBacked == \A s \in Sources : Passed(s) \subseteq DOMAIN rawEvents

(* Handlers overwrite, so they must run in chain order: an older bid       *)
(* applied after a newer one would stand as the highest.                   *)
AppliedInOrder ==
  \A s \in Sources : \A i, j \in DOMAIN handled[s] :
    i < j => Precedes(handled[s][i], handled[s][j])

(* An interruption costs at most one event: events that are stored and     *)
(* will not be applied any more are no more than the failures so far.      *)
LossBounded ==
  LET applied == UNION {Range1(handled[s]) : s \in Sources}
      inHand == IF pc = "handle" THEN {Key(First(batch))} ELSE {}
  IN  Cardinality(DOMAIN rawEvents \ (applied \cup inHand)) <= failures

(* A cursor only moves forward, whatever the chain head does.              *)
CursorAdvances ==
  [][\A s \in Sources :
       cursors'[s] # cursors[s] => cursors'[s].block > cursors[s].block]_vars

(* cursor_repository.go:53-54: the source is completely in the tables up   *)
(* to the block of its cursor.                                             *)
CompleteToCursor ==
  \A s \in Sources : Passed(s) \subseteq Range1(handled[s])

(* The source has scanned every safe block from its start block on.        *)
CaughtUp(s) ==
  \A n \in StartBlock[s] .. SafeHead(Len(chain)) : n <= cursors[s].block

(* A log that decoding fails on, at or before its turn in a pass.          *)
HeldUp(s) ==
  \E r \in 1 .. s : \E n \in StartBlock[r] .. SafeHead(Len(chain)) :
    /\ n > cursors[r].block
    /\ \E l \in Undecodable : l \in Range1(chain[n].logs) /\ SourceOf[l] = r

(* Once calls stop failing and the chain stops, every source is indexed up *)
(* to the safe head, whatever failed and was reorganised before; all that  *)
(* can hold it up for ever is a log that its decoder, or that of a source  *)
(* before it, rejects.                                                     *)
EventuallyCaughtUp == <>[](\A s \in Sources : CaughtUp(s) \/ HeldUp(s))
=============================================================================
