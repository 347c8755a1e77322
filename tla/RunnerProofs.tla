---------------------------- MODULE RunnerProofs ----------------------------
(***************************************************************************)
(* Theorems about EvmRunner, for any sources, logs, start blocks, batches, *)
(* histories and bounds: what the tables hold stays true of the chain as   *)
(* long as no reorg goes deeper than the confirmations, and the handlers   *)
(* are called in the order of the chain.                                   *)
(***************************************************************************)
EXTENDS EvmRunner, SequenceTheorems, FiniteSetTheorems,
        WellFoundedInduction, TLAPS

(***************************************************************************)
(* The strengthening.  Between ReadHead and SaveCursor a pass works on the *)
(* blocks from the first one the cursor has not passed up to a block that  *)
(* was safe.                                                               *)
(***************************************************************************)
Active == pc \in {"fetch", "logs", "handle", "save"}

RangeOK ==
  Active => /\ fromBlock = FirstBlock(source)
            /\ fromBlock <= toBlock
            /\ toBlock <= peak - Confirmations

(* There is a batch only in the loop over logs, and no two logs of it are  *)
(* at the same place, so that one of them is the first.                    *)
BatchOK ==
  /\ pc \notin {"logs", "handle"} => batch = {}
  /\ pc = "handle" => batch # {}
  /\ \A e, o \in batch : e.height = o.height /\ e.index = o.index => e = o

(* Cursors are at blocks that no reorg will replace.                       *)
SafeOK ==
  /\ Len(chain) >= peak - ReorgDepth
  /\ \A s \in Sources :
       cursors[s].block = 0 \/ cursors[s].block <= peak - Confirmations

OnChain(k, hash, n) ==
  /\ n \in DOMAIN chain
  /\ n <= peak - Confirmations
  /\ chain[n].hash = hash
  /\ Placed(k, n)

(* What was fetched and stored is in blocks no reorg will replace.         *)
FetchedOK == \A e \in batch : OnChain(Key(e), e.hash, e.height)
StoredOK ==
  \A k \in DOMAIN rawEvents : \E n \in DOMAIN chain : OnChain(k, rawEvents[k], n)

HashesOK ==
  /\ pc = "save" => HasHeader(toBlock) /\ hashRead = HashAt(toBlock)
  /\ \A s \in Sources : Canonical(cursors[s])

(* The logs of block n the runner's source has to store.                   *)
Wanted(s, n) ==
  {k \in (Logs \ Skipped) \X (Nat \ {0}) : SourceOf[k[1]] = s /\ Placed(k, n)}

(* Each of them is stored or still in the batch.                           *)
PendingOK ==
  /\ pc \in {"logs", "handle", "save"} =>
       \A n \in fromBlock .. toBlock : \A k \in Wanted(source, n) :
         k \in DOMAIN rawEvents \/ \E e \in batch : Key(e) = k /\ e.height = n
  /\ pc = "handle" => Key(First(batch)) \in DOMAIN rawEvents

(* No cursor has passed one that is not stored.                            *)
BackedOK ==
  \A s \in Sources : \A n \in StartBlock[s] .. cursors[s].block :
    Wanted(s, n) \subseteq DOMAIN rawEvents
-----------------------------------------------------------------------------
(* Any nonempty set of naturals has a least element.                       *)
LEMMA LeastNatural ==
  ASSUME NEW S \in SUBSET Nat, S # {}
  PROVE  \E m \in S : \A n \in S : m <= n
<1> DEFINE Less == {ss \in Nat \X Nat : ss[1] < ss[2]}
<1>1. IsWellFoundedOn(Less, Nat)
  <2>1. Less = OpToRel(<, Nat)
    BY DEF OpToRel
  <2>2. QED  BY <2>1, NatLessThanWellFounded
<1>2. \E m \in S : \A n \in S : ~ (<<n, m>> \in Less)
  <2> HIDE DEF Less
  <2>1. QED  BY <1>1, WFMin
<1>3. PICK m \in S : \A n \in S : ~ (<<n, m>> \in Less)
  BY <1>2
<1>4. ASSUME NEW n \in S PROVE m <= n
  <2>1. n \in Nat /\ m \in Nat /\ ~ (<<n, m>> \in Less)
    BY <1>3
  <2>2. n < m => <<n, m>> \in Less
    BY <2>1
  <2>3. QED  BY <2>1, <2>2
<1>5. QED  BY <1>4

(* A block that is safe under a peak is safe under a later one.            *)
LEMMA Later == \A a, b, c, d \in Int : a <= b - c /\ b <= d => a <= d - c
OBVIOUS

(* A block is appended: what was there stays.                              *)
LEMMA ExtendKeeps ==
  ASSUME NEW base \in Seq(Block), reorgs' \in Nat, Extend(base)
  PROVE  /\ chain' \in Seq(Block)
         /\ Len(chain') = Len(base) + 1
         /\ \A n \in 1 .. Len(base) : chain'[n] = base[n]
         /\ chain'[Len(base) + 1].hash[1] = Len(base) + 1
<1>1. PICK h \in Histories, n \in 0 .. MaxBlockLogs :
        /\ Mined(base) + n <= Len(h)
        /\ chain' = Append(base, [hash |-> <<Len(base) + 1, reorgs'>>,
                                  logs |-> SubSeq(h, Mined(base) + 1,
                                                  Mined(base) + n),
                                  end |-> Mined(base) + n])
  BY DEF Extend
<1>2. h \in Seq(Logs) /\ Len(h) \in Nat /\ n \in Nat
  BY RunnerAssumption
<1>3. Mined(base) \in Nat /\ Len(base) \in Nat
  <2>1. CASE base = <<>>
    BY <2>1, LenProperties DEF Mined
  <2>2. CASE base # <<>>
    <3>1. Len(base) \in 1 .. Len(base)
      BY <2>2, EmptySeq, LenProperties
    <3>2. base[Len(base)] \in Block
      BY <3>1, ElementOfSeq
    <3>3. QED  BY <2>2, <3>1, <3>2 DEF Mined, Block
  <2>3. QED  BY <2>1, <2>2
<1> DEFINE block == [hash |-> <<Len(base) + 1, reorgs'>>,
                     logs |-> SubSeq(h, Mined(base) + 1, Mined(base) + n),
                     end |-> Mined(base) + n]
<1>4. SubSeq(h, Mined(base) + 1, Mined(base) + n) \in Seq(Logs)
  BY <1>1, <1>2, <1>3
<1>5. block \in Block /\ block.hash[1] = Len(base) + 1
  BY <1>2, <1>3, <1>4 DEF Block
<1>6. chain' = Append(base, block)
  BY <1>1
<1> HIDE DEF block
<1>7. QED  BY <1>5, <1>6, AppendProperties

(* A batch that is not empty has a first log.                              *)
LEMMA FirstInBatch ==
  ASSUME TypeOK, BatchOK, batch # {}
  PROVE  /\ First(batch) \in batch
         /\ \A o \in batch :
              \/ First(batch).height < o.height
              \/ /\ First(batch).height = o.height
                 /\ First(batch).index <= o.index
<1> DEFINE Heights == {e.height : e \in batch}
<1>1. \A e \in batch : e.height \in Nat /\ e.index \in Nat
  BY DEF TypeOK, Fetched
<1>2. PICK h \in Heights : \A n \in Heights : h <= n
  <2>1. Heights \in SUBSET Nat /\ Heights # {}
    BY <1>1
  <2> HIDE DEF Heights
  <2>2. QED  BY <2>1, LeastNatural
<1> DEFINE Indexes == {e.index : e \in {o \in batch : o.height = h}}
<1>3. PICK i \in Indexes : \A n \in Indexes : i <= n
  <2>1. Indexes \in SUBSET Nat /\ Indexes # {}
    BY <1>1, <1>2
  <2> HIDE DEF Indexes
  <2>2. QED  BY <2>1, LeastNatural
<1>4. PICK e \in batch : e.height = h /\ e.index = i
  BY <1>3
<1>5. ASSUME NEW o \in batch
      PROVE  e.height < o.height \/ (e.height = o.height /\ e.index <= o.index)
  <2>1. h <= o.height
    BY <1>2
  <2>2. o.height = h => i <= o.index
    BY <1>3
  <2>3. QED  BY <1>1, <1>4, <2>1, <2>2
<1>6. QED  BY <1>4, <1>5 DEF First

LEMMA FirstTyped ==
  ASSUME TypeOK, BatchOK, batch # {}
  PROVE  /\ First(batch) \in batch
         /\ First(batch) \in Fetched
         /\ Key(First(batch)) \in Keys
         /\ First(batch).log \in Logs
         /\ First(batch).hash \in Nat \X Nat
<1>1. First(batch) \in batch /\ First(batch) \in Fetched
  BY FirstInBatch DEF TypeOK
<1>2. QED  BY <1>1 DEF Fetched, Key, Keys

LEMMA DepthInt == TypeOK => peak - Confirmations \in Int
<1>1. Confirmations \in Nat
  BY RunnerAssumption
<1>2. TypeOK => peak \in Nat
  BY DEF TypeOK
<1>3. QED  BY <1>1, <1>2
-----------------------------------------------------------------------------
(* Type correctness.                                                       *)

TInv == TypeOK /\ BatchOK

LEMMA TypeInit == Init => TInv
<1> SUFFICES ASSUME Init PROVE TInv
  OBVIOUS
<1> USE RunnerAssumption DEF Init, Sources, NoHash, Steps
<1>1. chain \in Seq(Block) /\ peak \in Nat /\ Len(chain) <= peak
  OBVIOUS
<1>2. cursors \in [Sources -> [block : Nat, hash : Nat \X Nat]]
  OBVIOUS
<1>3. handled \in [Sources -> Seq(Keys)]
  OBVIOUS
<1>4. rawEvents \in [DOMAIN rawEvents -> Nat \X Nat]
      /\ DOMAIN rawEvents \subseteq Keys
  OBVIOUS
<1>5. QED  BY <1>1, <1>2, <1>3, <1>4 DEF TInv, TypeOK, BatchOK

(* An abandoned or finished pass leaves nothing behind.                    *)
LEMMA CleanType ==
  ASSUME TInv, Abandon \/ NextSource
  PROVE  /\ pc' \in {"idle", "check"}
         /\ source' \in Sources
         /\ fromBlock' \in Nat /\ toBlock' \in Nat
         /\ batch' = {}
         /\ hashRead' \in Nat \X Nat
<1>1. NumSources \in Nat \ {0} /\ source \in 1 .. NumSources
  BY RunnerAssumption DEF TInv, TypeOK, Sources
<1>2. pc' \in {"idle", "check"} /\ source' \in Sources
  BY <1>1 DEF Abandon, NextSource, Sources
<1>3. fromBlock' = 0 /\ toBlock' = 0 /\ batch' = {} /\ hashRead' = <<0, 0>>
  BY DEF Abandon, NextSource, NoHash
<1>4. QED  BY <1>2, <1>3

LEMMA HashType ==
  ASSUME TypeOK, NEW n \in Nat, HasHeader(n)
  PROVE  HashAt(n) \in Nat \X Nat
<1>1. CASE n = 0
  BY <1>1 DEF HashAt, NoHash
<1>2. CASE n # 0
  <2>1. chain[n] \in Block
    BY <1>2, ElementOfSeq DEF TypeOK, HasHeader
  <2>2. QED  BY <1>2, <2>1 DEF HashAt, Block
<1>3. QED  BY <1>1, <1>2

LEMMA StoreType ==
  ASSUME TypeOK, NEW e \in Fetched, Store(e)
  PROVE  /\ DOMAIN rawEvents' = DOMAIN rawEvents \cup {Key(e)}
         /\ rawEvents'[Key(e)] = e.hash
         /\ \A k \in DOMAIN rawEvents :
              k # Key(e) => rawEvents'[k] = rawEvents[k]
         /\ DOMAIN rawEvents' \subseteq Keys
         /\ rawEvents' \in [DOMAIN rawEvents' -> Nat \X Nat]
<1>1. Key(e) \in Keys /\ e.hash \in Nat \X Nat
  BY DEF Fetched, Key, Keys
<1> DEFINE dom == DOMAIN rawEvents \cup {Key(e)}
           raw == [k \in dom |-> IF k = Key(e) THEN e.hash ELSE rawEvents[k]]
<1>2. rawEvents' = raw
  BY DEF Store
<1>3. dom \subseteq Keys
  BY <1>1 DEF TypeOK
<1>4. raw \in [dom -> Nat \X Nat]
  BY <1>1 DEF TypeOK
<1>5. QED  BY <1>2, <1>3, <1>4

LEMMA ApplyType ==
  ASSUME TypeOK, NEW e \in Fetched, Apply(e)
  PROVE  handled' \in [Sources -> Seq(Keys)]
<1>1. Key(e) \in Keys
  BY DEF Fetched, Key, Keys
<1>2. Append(handled[source], Key(e)) \in Seq(Keys)
  BY <1>1, AppendProperties DEF TypeOK
<1>3. QED  BY <1>2 DEF TypeOK, Apply

LEMMA FetchedType ==
  ASSUME TypeOK, NEW s, NEW from, NEW to
  PROVE  /\ FilterLogs(s, from, to) \subseteq Fetched
         /\ \A e \in FilterLogs(s, from, to) :
              /\ e.height \in DOMAIN chain
              /\ from <= e.height /\ e.height <= to
              /\ e.index \in DOMAIN chain[e.height].logs
              /\ e = LogAt(e.height, e.index)
              /\ SourceOf[e.log] = s
<1> SUFFICES ASSUME NEW e \in FilterLogs(s, from, to)
             PROVE  /\ e \in Fetched
                    /\ e.height \in DOMAIN chain
                    /\ from <= e.height /\ e.height <= to
                    /\ e.index \in DOMAIN chain[e.height].logs
                    /\ e = LogAt(e.height, e.index)
                    /\ SourceOf[e.log] = s
  OBVIOUS
<1>0. PICK n \in DOMAIN chain :
        /\ from <= n /\ n <= to
        /\ \E i \in DOMAIN chain[n].logs :
             e = LogAt(n, i) /\ SourceOf[chain[n].logs[i]] = s
  BY DEF FilterLogs
<1>1. PICK i \in DOMAIN chain[n].logs :
        e = LogAt(n, i) /\ SourceOf[chain[n].logs[i]] = s
  BY <1>0
<1>2. e.height = n /\ e.index = i /\ e.log = chain[n].logs[i]
  BY <1>1 DEF LogAt
<1>3. n \in Nat \ {0} /\ chain[n] \in Block
  BY LenProperties, ElementOfSeq DEF TypeOK
<1>4. chain[n].logs \in Seq(Logs) /\ chain[n].hash \in Nat \X Nat
  BY <1>3 DEF Block
<1>5. i \in Nat \ {0} /\ chain[n].logs[i] \in Logs
  BY <1>4, LenProperties, ElementOfSeq
<1>6. e \in Fetched
  BY <1>1, <1>3, <1>4, <1>5 DEF LogAt, Fetched
<1>7. QED  BY <1>0, <1>1, <1>2, <1>6

(* The chain grows or loses at most ReorgDepth blocks below its peak.      *)
LEMMA ChainMoves ==
  ASSUME TypeOK, ChainStep
  PROVE  /\ chain' \in Seq(Block)
         /\ peak' \in Nat /\ peak <= peak' /\ Len(chain') <= peak'
         /\ reorgs' \in Nat
         /\ \E n \in 0 .. Len(chain) :
              /\ Len(chain') = n + 1
              /\ n = Len(chain) \/ (n >= peak - ReorgDepth /\ peak' = peak)
              /\ n = Len(chain) => peak' <= peak + 1
              /\ \A i \in 1 .. n : chain'[i] = chain[i]
              /\ chain'[n + 1].hash[1] = n + 1
         /\ UNCHANGED <<tables, pc, source, locals, failures>>
<1>0. /\ chain \in Seq(Block) /\ Len(chain) \in Nat
      /\ peak \in Nat /\ Len(chain) <= peak
      /\ reorgs \in Nat /\ MaxHeight \in Nat /\ ReorgDepth \in Nat
  BY RunnerAssumption, LenProperties DEF TypeOK
<1>1. CASE Mine
  <2>1. /\ chain' \in Seq(Block)
        /\ Len(chain') = Len(chain) + 1
        /\ \A n \in 1 .. Len(chain) : chain'[n] = chain[n]
        /\ chain'[Len(chain) + 1].hash[1] = Len(chain) + 1
    BY <1>0, <1>1, ExtendKeeps DEF Mine
  <2>2. /\ peak' \in Nat /\ peak <= peak' /\ peak' <= peak + 1
        /\ Len(chain) + 1 <= peak'
        /\ reorgs' \in Nat
    BY <1>0, <1>1 DEF Mine
  <2>3. \E n \in 0 .. Len(chain) :
          /\ Len(chain') = n + 1
          /\ n = Len(chain)
          /\ \A i \in 1 .. n : chain'[i] = chain[i]
          /\ chain'[n + 1].hash[1] = n + 1
    <3>1. Len(chain) \in 0 .. Len(chain)
      BY <1>0
    <3>2. QED  BY <2>1, <3>1
  <2>4. Len(chain') <= peak'
    BY <2>1, <2>2
  <2>5. UNCHANGED <<tables, pc, source, locals, failures>>
    BY <1>1 DEF Mine
  <2>6. QED  BY <2>1, <2>2, <2>3, <2>4, <2>5
<1>2. ASSUME NEW depth \in 1 .. MaxHeight, Reorg(depth)
      PROVE  /\ chain' \in Seq(Block)
             /\ peak' = peak /\ Len(chain') <= peak
             /\ reorgs' \in Nat
             /\ Len(chain) - depth \in 0 .. Len(chain)
             /\ Len(chain) - depth >= peak - ReorgDepth
             /\ Len(chain') = Len(chain) - depth + 1
             /\ \A i \in 1 .. Len(chain) - depth : chain'[i] = chain[i]
             /\ chain'[Len(chain) - depth + 1].hash[1] = Len(chain) - depth + 1
  <2> DEFINE n == Len(chain) - depth
             base == SubSeq(chain, 1, n)
  <2>1. n \in Nat /\ n < Len(chain) /\ n >= peak - ReorgDepth
    BY <1>0, <1>2 DEF Reorg
  <2>2. base \in Seq(Block) /\ Len(base) = n
        /\ \A i \in 1 .. n : base[i] = chain[i]
    <3>1. \A i \in 1 .. n : chain[i] \in Block
      BY <1>0, <2>1, ElementOfSeq
    <3> HIDE DEF n
    <3>2. QED  BY <2>1, <3>1, SubSeqProperties
  <2>3. reorgs' \in Nat /\ Extend(base) /\ peak' = peak
    BY <1>0, <1>2 DEF Reorg
  <2>4. /\ chain' \in Seq(Block)
        /\ Len(chain') = n + 1
        /\ \A i \in 1 .. n : chain'[i] = chain[i]
        /\ chain'[n + 1].hash[1] = n + 1
    <3> HIDE DEF n, base
    <3>1. QED  BY <2>1, <2>2, <2>3, ExtendKeeps
  <2>5. QED  BY <1>0, <2>1, <2>3, <2>4
<1>3. CASE \E depth \in 1 .. MaxHeight : Reorg(depth)
  <2>1. PICK depth \in 1 .. MaxHeight : Reorg(depth)
    BY <1>3
  <2>2. UNCHANGED <<tables, pc, source, locals, failures>>
    BY <2>1 DEF Reorg
  <2> DEFINE n == Len(chain) - depth
  <2>3. /\ chain' \in Seq(Block)
        /\ peak' = peak /\ Len(chain') <= peak
        /\ reorgs' \in Nat
        /\ n \in 0 .. Len(chain) /\ n # Len(chain)
        /\ n >= peak - ReorgDepth
        /\ Len(chain') = n + 1
        /\ \A i \in 1 .. n : chain'[i] = chain[i]
        /\ chain'[n + 1].hash[1] = n + 1
    BY <1>0, <1>2, <2>1
  <2> HIDE DEF n
  <2>4. QED  BY <1>0, <2>2, <2>3
<1>4. QED  BY <1>1, <1>3 DEF ChainStep

LEMMA TypeStep == TInv /\ [Next]_vars => TInv'
<1> SUFFICES ASSUME TypeOK, BatchOK, [Next]_vars PROVE TInv'
  BY DEF TInv
<1> USE DEF Steps
<1>t. TInv
  BY DEF TInv
<1>1. CASE ChainStep
  <2>1. /\ chain' \in Seq(Block) /\ peak' \in Nat /\ Len(chain') <= peak'
        /\ reorgs' \in Nat
        /\ UNCHANGED <<tables, pc, source, locals, failures>>
    BY <1>1, ChainMoves
  <2>2. QED  BY <2>1 DEF TInv, TypeOK, BatchOK, tables, locals
<1>2. CASE Begin
  BY <1>2 DEF Begin, TInv, TypeOK, BatchOK, world, tables, locals
<1>3. CASE CheckCursor
  <2>1. CASE Canonical(cursors[source])
    BY <1>3, <2>1 DEF CheckCursor, TInv, TypeOK, BatchOK, world, tables, locals
  <2>2. CASE ~ Canonical(cursors[source])
    <3>1. Abandon
      BY <1>3, <2>2 DEF CheckCursor
    <3>2. QED  BY <1>3, <1>t, <3>1, CleanType
          DEF CheckCursor, TInv, TypeOK, BatchOK, world, tables
  <2>3. QED  BY <2>1, <2>2
<1>4. CASE ReadHead
  <2>1. UNCHANGED <<world, tables, failures>> /\ batch = {}
    BY <1>4 DEF ReadHead, BatchOK
  <2>2. CASE NextSource
    BY <1>t, <2>1, <2>2, CleanType DEF TInv, TypeOK, BatchOK, world, tables
  <2>3. CASE ~ NextSource
    <3>1. FirstBlock(source) \in Nat \ {0} /\ SafeHead(Len(chain)) \in Int
          /\ BatchSize \in Nat \ {0}
      <4>1. /\ cursors[source].block \in Nat /\ StartBlock[source] \in Nat \ {0}
            /\ Len(chain) \in Nat /\ Confirmations \in Nat
            /\ BatchSize \in Nat \ {0}
        BY RunnerAssumption, LenProperties DEF TypeOK
      <4>2. QED  BY <4>1 DEF FirstBlock, SafeHead
    <3>2. /\ fromBlock' \in Nat /\ toBlock' \in Nat
          /\ pc' = "fetch" /\ UNCHANGED <<source, batch, hashRead>>
      BY <1>4, <2>3, <3>1 DEF ReadHead, UpToDate
    <3>3. QED  BY <2>1, <3>2 DEF TInv, TypeOK, BatchOK, world, tables
  <2>4. QED  BY <2>2, <2>3
<1>5. CASE Fetch
  <2>1. /\ batch' \subseteq Fetched
        /\ \A e \in batch' : e = LogAt(e.height, e.index)
    BY <1>5, FetchedType DEF Fetch
  <2>2. pc' = "logs"
        /\ UNCHANGED <<world, tables, source, fromBlock, toBlock, hashRead,
                       failures>>
    BY <1>5 DEF Fetch
  <2>3. QED  BY <2>1, <2>2 DEF TInv, TypeOK, BatchOK, world, tables
<1>6. CASE DecodeFails
  <2>1. First(batch).log \in Logs /\ Abandon
        /\ deadLetters' = deadLetters \cup {<<First(batch).log, "decode">>}
        /\ UNCHANGED <<world, rawEvents, handled, cursors, failures>>
    BY <1>6, FirstTyped DEF DecodeFails
  <2>2. deadLetters' \subseteq Logs \X {"decode", "raw_event", "handler"}
    BY <2>1 DEF TypeOK
  <2>3. QED  BY <1>t, <2>1, <2>2, CleanType DEF TInv, TypeOK, BatchOK, world
<1>7. CASE SkipLog
  BY <1>7 DEF SkipLog, Rest, TInv, TypeOK, BatchOK, world, tables
<1>8. CASE InsertOnce
  <2>1. First(batch) \in Fetched /\ pc = "logs" /\ batch # {}
    BY <1>8, FirstTyped DEF InsertOnce
  <2>2. UNCHANGED <<world, handled, deadLetters, cursors, source, fromBlock,
                    toBlock, hashRead, failures>>
    BY <1>8 DEF InsertOnce
  <2>3. CASE AlreadyStored(First(batch))
    <3>1. batch' = Rest /\ UNCHANGED <<rawEvents, pc>>
      BY <1>8, <2>3 DEF InsertOnce
    <3>2. QED  BY <2>1, <2>2, <3>1 DEF Rest, TInv, TypeOK, BatchOK, world
  <2>4. CASE ~ AlreadyStored(First(batch))
    <3>1. Store(First(batch)) /\ pc' = "handle" /\ UNCHANGED batch
      BY <1>8, <2>4 DEF InsertOnce
    <3>2. /\ DOMAIN rawEvents' \subseteq Keys
          /\ rawEvents' \in [DOMAIN rawEvents' -> Nat \X Nat]
      BY <2>1, <3>1, StoreType
    <3>3. QED  BY <2>1, <2>2, <3>1, <3>2 DEF TInv, TypeOK, BatchOK, world
  <2>5. QED  BY <2>3, <2>4
<1>9. CASE Handle
  <2>1. First(batch) \in Fetched
    BY <1>9, FirstTyped DEF Handle, BatchOK
  <2>2. handled' \in [Sources -> Seq(Keys)]
    BY <1>9, <2>1, ApplyType DEF Handle
  <2>3. QED  BY <1>9, <2>2 DEF Handle, Rest, TInv, TypeOK, BatchOK, world
<1>10. CASE ReadHash
  <2>1. CASE HasHeader(toBlock)
    <3>1. hashRead' \in Nat \X Nat
      BY <1>10, <2>1, HashType DEF ReadHash, TypeOK
    <3>2. QED  BY <1>10, <2>1, <3>1
               DEF ReadHash, TInv, TypeOK, BatchOK, world, tables
  <2>2. CASE ~ HasHeader(toBlock)
    <3>1. Abandon /\ UNCHANGED <<world, tables, failures>>
      BY <1>10, <2>2 DEF ReadHash
    <3>2. QED  BY <1>t, <3>1, CleanType DEF TInv, TypeOK, BatchOK, world, tables
  <2>3. QED  BY <2>1, <2>2
<1>11. CASE SaveCursor
  <2>1. /\ cursors' = [cursors EXCEPT ![source] =
                         [block |-> toBlock, hash |-> hashRead]]
        /\ NextSource
        /\ UNCHANGED <<world, rawEvents, handled, deadLetters, failures>>
    BY <1>11 DEF SaveCursor
  <2>2. cursors' \in [Sources -> [block : Nat, hash : Nat \X Nat]]
    BY <2>1 DEF TypeOK
  <2>3. QED  BY <1>t, <2>1, <2>2, CleanType DEF TInv, TypeOK, BatchOK, world
<1>12. CASE Fail
  <2>1. Abandon /\ failures' \in 0 .. MaxFailures /\ UNCHANGED <<world, cursors>>
    <3>1. failures \in 0 .. MaxFailures /\ MaxFailures \in Nat
      BY RunnerAssumption DEF TypeOK
    <3>2. failures < MaxFailures /\ failures' = failures + 1 /\ Abandon
          /\ UNCHANGED <<world, cursors>>
      BY <1>12 DEF Fail
    <3>3. QED  BY <3>1, <3>2
  <2>2. /\ DOMAIN rawEvents' \subseteq Keys
        /\ rawEvents' \in [DOMAIN rawEvents' -> Nat \X Nat]
        /\ handled' \in [Sources -> Seq(Keys)]
        /\ deadLetters' \subseteq Logs \X {"decode", "raw_event", "handler"}
    <3>1. CASE UNCHANGED <<rawEvents, handled, deadLetters>>
      BY <3>1 DEF TypeOK
    <3>2. ASSUME batch # {}, UNCHANGED rawEvents \/ Store(First(batch)),
                 deadLetters' = deadLetters \cup
                   {<<First(batch).log, "raw_event">>},
                 UNCHANGED handled
          PROVE  <2>2!:
      <4>1. First(batch) \in Fetched /\ First(batch).log \in Logs
        BY <3>2, FirstTyped
      <4>2. deadLetters' \subseteq Logs \X {"decode", "raw_event", "handler"}
        BY <3>2, <4>1 DEF TypeOK
      <4>3. /\ DOMAIN rawEvents' \subseteq Keys
            /\ rawEvents' \in [DOMAIN rawEvents' -> Nat \X Nat]
        BY <3>2, <4>1, StoreType DEF TypeOK
      <4>4. QED  BY <3>2, <4>2, <4>3 DEF TypeOK
    <3>3. ASSUME pc = "handle", Apply(First(batch)) \/ UNCHANGED handled,
                 deadLetters' = deadLetters \cup
                   {<<First(batch).log, "handler">>},
                 UNCHANGED rawEvents
          PROVE  <2>2!:
      <4>1. First(batch) \in Fetched /\ First(batch).log \in Logs
        BY <3>3, FirstTyped DEF BatchOK
      <4>2. deadLetters' \subseteq Logs \X {"decode", "raw_event", "handler"}
        BY <3>3, <4>1 DEF TypeOK
      <4>3. handled' \in [Sources -> Seq(Keys)]
        BY <3>3, <4>1, ApplyType DEF TypeOK
      <4>4. QED  BY <3>3, <4>2, <4>3 DEF TypeOK
    <3>4. QED  BY <1>12, <3>1, <3>2, <3>3 DEF Fail
  <2>3. QED  BY <1>t, <2>1, <2>2, CleanType DEF TInv, TypeOK, BatchOK, world
<1>13. CASE UNCHANGED vars
  BY <1>13 DEF vars, world, tables, locals, TInv, TypeOK, BatchOK
<1>14. QED
  BY <1>1, <1>2, <1>3, <1>4, <1>5, <1>6, <1>7, <1>8, <1>9, <1>10, <1>11, <1>12,
     <1>13 DEF Next, RunnerStep

(* The tables and the state of a pass have their types, whatever the chain *)
(* does.                                                                   *)
THEOREM RunnerTypeCorrect == Spec => []TypeOK
<1>1. TInv => TypeOK
  BY DEF TInv
<1>2. QED  BY TypeInit, TypeStep, <1>1, PTL DEF Spec
-----------------------------------------------------------------------------
(* The range of a pass.                                                    *)

LEMMA FirstBlockAbove ==
  ASSUME TypeOK, NEW s \in Sources
  PROVE  /\ FirstBlock(s) \in Nat \ {0}
         /\ FirstBlock(s) > cursors[s].block
<1>1. cursors[s].block \in Nat /\ StartBlock[s] \in Nat \ {0}
  BY RunnerAssumption DEF TypeOK
<1>2. QED  BY <1>1 DEF FirstBlock

(* A step of a pass leaves its range alone, ends the pass, or reads it.    *)
LEMMA PassKeepsRange ==
  ASSUME TInv, Begin \/ CheckCursor \/ Fetch \/ DecodeFails \/ SkipLog \/ InsertOnce
               \/ Handle \/ ReadHash \/ SaveCursor \/ Fail
  PROVE  \/ pc' \in {"idle", "check", "head"}
         \/ Active /\ UNCHANGED <<cursors, source, fromBlock, toBlock, peak, chain>>
BY CleanType DEF Active, Begin, CheckCursor, Fetch, DecodeFails, SkipLog, InsertOnce, Handle,
       ReadHash, SaveCursor, Fail, Abandon, NextSource, world, tables, locals

LEMMA RangeStep == TInv /\ RangeOK /\ [Next]_vars => RangeOK'
<1> SUFFICES ASSUME TInv, RangeOK, [Next]_vars PROVE RangeOK'
  OBVIOUS
<1>t. TypeOK
  BY DEF TInv
<1>1. CASE ChainStep
  <2>1. /\ peak \in Nat /\ peak' \in Nat /\ peak <= peak'
        /\ UNCHANGED <<cursors, pc, source, fromBlock, toBlock>>
    BY <1>1, <1>t, ChainMoves DEF TypeOK, tables, locals
  <2>2. toBlock \in Nat /\ Confirmations \in Nat
    BY <1>t, RunnerAssumption DEF TypeOK
  <2>3. FirstBlock(source)' = FirstBlock(source) /\ Active' = Active
    BY <2>1 DEF FirstBlock, Active
  <2>4. ASSUME Active PROVE toBlock <= peak' - Confirmations
    <3>1. toBlock <= peak - Confirmations
      BY <2>4 DEF RangeOK
    <3>2. toBlock \in Int /\ Confirmations \in Int
      BY <2>2
    <3>3. peak \in Int /\ peak' \in Int /\ peak <= peak'
      BY <2>1
    <3>4. QED  BY <3>1, <3>2, <3>3, Later
  <2>5. QED  BY <2>1, <2>3, <2>4 DEF RangeOK
<1>2. CASE ReadHead
  <2>1. CASE NextSource
    BY <2>1 DEF NextSource, RangeOK, Active
  <2>2. CASE ~ NextSource
    <3> DEFINE safe == SafeHead(Len(chain))
               from == FirstBlock(source)
    <3>1. /\ ~ (from > safe)
          /\ fromBlock' = from
          /\ toBlock' = IF from + BatchSize - 1 > safe THEN safe
                        ELSE from + BatchSize - 1
          /\ UNCHANGED <<world, cursors, source>>
      BY <1>2, <2>2 DEF ReadHead, UpToDate, tables
    <3>2. /\ from \in Nat /\ Len(chain) \in Nat /\ peak \in Nat
          /\ Len(chain) <= peak /\ Confirmations \in Nat
          /\ BatchSize \in Nat \ {0}
      BY <1>t, FirstBlockAbove, RunnerAssumption, LenProperties DEF TypeOK
    <3>3. FirstBlock(source)' = from /\ peak' = peak
      BY <3>1 DEF FirstBlock, world
    <3>4. safe = Len(chain) - Confirmations
      BY DEF SafeHead
    <3> HIDE DEF from, safe
    <3>5. fromBlock' <= toBlock' /\ toBlock' <= peak' - Confirmations
      BY <3>1, <3>2, <3>3, <3>4
    <3>6. QED  BY <3>1, <3>3, <3>5 DEF RangeOK
  <2>3. QED  BY <2>1, <2>2
<1>3. CASE UNCHANGED vars
  BY <1>3 DEF vars, RangeOK, Active, FirstBlock
<1>4. CASE \/ Begin \/ CheckCursor \/ Fetch \/ DecodeFails \/ SkipLog \/ InsertOnce
           \/ Handle \/ ReadHash \/ SaveCursor \/ Fail
  BY <1>4, PassKeepsRange DEF RangeOK, Active, FirstBlock
<1>5. QED
  BY <1>1, <1>2, <1>3, <1>4 DEF Next, RunnerStep

LEMMA RangeInit == Init => RangeOK
BY DEF Init, RangeOK, Active

(* Only SaveCursor moves a cursor.                                         *)
LEMMA CursorStep ==
  TInv /\ RangeOK /\ [Next]_vars =>
    \A s \in Sources :
      cursors'[s] # cursors[s] => cursors'[s].block > cursors[s].block
<1> SUFFICES ASSUME TInv, RangeOK, [Next]_vars, NEW s \in Sources,
                    cursors'[s] # cursors[s]
             PROVE  cursors'[s].block > cursors[s].block
  OBVIOUS
<1>t. TypeOK
  BY DEF TInv
<1>1. SaveCursor
  <2>1. ChainStep => UNCHANGED cursors
    BY <1>t, ChainMoves DEF tables
  <2>2. Begin \/ CheckCursor \/ ReadHead \/ Fetch \/ DecodeFails \/ SkipLog
          \/ InsertOnce \/ Handle \/ ReadHash \/ Fail \/ UNCHANGED vars
        => UNCHANGED cursors
    BY DEF Begin, CheckCursor, ReadHead, Fetch, DecodeFails, SkipLog,
           InsertOnce, Handle, ReadHash, Fail, vars, tables
  <2>3. QED  BY <2>1, <2>2 DEF Next, RunnerStep
<1>2. pc = "save" /\ source \in Sources
      /\ cursors' = [cursors EXCEPT ![source] =
                       [block |-> toBlock, hash |-> hashRead]]
  BY <1>1, <1>t DEF SaveCursor, TypeOK
<1>3. s = source /\ cursors'[s].block = toBlock
  BY <1>t, <1>2 DEF TypeOK
<1>4. FirstBlock(s) <= toBlock /\ toBlock \in Nat
  BY <1>t, <1>2, <1>3 DEF RangeOK, Active, TypeOK
<1>5. cursors[s].block \in Nat
  BY <1>t DEF TypeOK
<1>6. QED  BY <1>t, <1>3, <1>4, <1>5, FirstBlockAbove

(* A cursor only moves forward: a shorter chain, a failure or a restart    *)
(* never takes it back.                                                    *)
THEOREM CursorOnlyAdvances == Spec => CursorAdvances
<1>1. Init => TInv /\ RangeOK
  BY TypeInit, RangeInit
<1>2. TInv /\ RangeOK /\ [Next]_vars => (TInv /\ RangeOK)'
  BY TypeStep, RangeStep
<1>3. QED  BY <1>1, <1>2, CursorStep, PTL DEF Spec, CursorAdvances
-----------------------------------------------------------------------------
(* Blocks as deep as the confirmations are there for good.                 *)

LEMMA SafeBlocksStay ==
  ASSUME TypeOK, SafeOK, ReorgDepth <= Confirmations, ChainStep
  PROVE  /\ peak \in Nat /\ peak' \in Nat /\ peak <= peak'
         /\ Len(chain') >= peak' - ReorgDepth
         /\ \A n \in Nat \ {0} : n <= peak - Confirmations =>
              /\ n \in DOMAIN chain /\ n \in DOMAIN chain'
              /\ n <= peak' - Confirmations
              /\ chain'[n] = chain[n]
<1>0. /\ ReorgDepth \in Nat /\ Confirmations \in Nat /\ peak \in Nat
      /\ Len(chain) \in Nat /\ DOMAIN chain = 1 .. Len(chain)
      /\ Len(chain) <= peak /\ Len(chain) >= peak - ReorgDepth
  BY RunnerAssumption, LenProperties DEF TypeOK, SafeOK
<1>1. peak' \in Nat /\ peak <= peak' /\ chain' \in Seq(Block)
  BY ChainMoves
<1>2. PICK n \in 0 .. Len(chain) :
        /\ Len(chain') = n + 1
        /\ n = Len(chain) \/ (n >= peak - ReorgDepth /\ peak' = peak)
        /\ n = Len(chain) => peak' <= peak + 1
        /\ \A i \in 1 .. n : chain'[i] = chain[i]
  BY ChainMoves
<1>3. DOMAIN chain' = 1 .. n + 1
  BY <1>1, <1>2, LenProperties
<1>4. n >= peak - ReorgDepth
  BY <1>0, <1>2
<1>5. Len(chain') >= peak' - ReorgDepth
  <2>1. \A a, b, c, d \in Int : a >= b - c /\ d <= b + 1 => a + 1 >= d - c
    OBVIOUS
  <2>2. n \in Int /\ peak \in Int /\ peak' \in Int /\ ReorgDepth \in Int
    BY <1>0, <1>1
  <2>3. peak' <= peak + 1
    <3>1. CASE n = Len(chain)
      BY <1>2, <3>1
    <3>2. CASE n # Len(chain)
      <4>1. peak' = peak
        BY <1>2, <3>2
      <4>2. QED  BY <2>2, <4>1
    <3>3. QED  BY <3>1, <3>2
  <2>4. n + 1 >= peak' - ReorgDepth
    BY <1>4, <2>1, <2>2, <2>3
  <2>5. QED  BY <1>2, <2>4
<1>6. ASSUME NEW i \in Nat \ {0}, i <= peak - Confirmations
      PROVE  /\ i \in DOMAIN chain /\ i \in DOMAIN chain'
             /\ i <= peak' - Confirmations
             /\ chain'[i] = chain[i]
  <2>1. i \in 1 .. n
    BY <1>0, <1>4, <1>6
  <2>2. i <= peak' - Confirmations
    <3>1. i \in Int /\ peak \in Int /\ peak' \in Int /\ Confirmations \in Int
          /\ i <= peak - Confirmations /\ peak <= peak'
      BY <1>0, <1>1, <1>6
    <3>2. QED  BY <3>1, Later
  <2>3. i \in 1 .. Len(chain) /\ i \in 1 .. n + 1
    <3>1. Len(chain) \in Int /\ n \in 0 .. Len(chain)
      BY <1>0
    <3>2. QED  BY <2>1, <3>1
  <2>4. QED  BY <1>0, <1>2, <1>3, <2>1, <2>2, <2>3
<1>7. QED  BY <1>0, <1>1, <1>5, <1>6

LEMMA OnChainStays ==
  ASSUME TypeOK, SafeOK, ReorgDepth <= Confirmations, ChainStep,
         NEW k, NEW hash, NEW n, OnChain(k, hash, n)
  PROVE  OnChain(k, hash, n)'
<1>1. n \in Nat \ {0} /\ n <= peak - Confirmations
  BY LenProperties DEF TypeOK, OnChain
<1>2. /\ n \in DOMAIN chain' /\ n <= peak' - Confirmations
      /\ chain'[n] = chain[n]
  BY <1>1, SafeBlocksStay
<1>3. QED  BY <1>2 DEF OnChain, Placed

(* Who changes what.                                                       *)
LEMMA WorldStays ==
  [Next]_vars => ChainStep \/ UNCHANGED <<chain, peak>>
BY DEF Next, RunnerStep, Begin, CheckCursor, ReadHead, Fetch, DecodeFails,
       SkipLog, InsertOnce, Handle, ReadHash, SaveCursor, Fail, vars, world

LEMMA CursorsStay ==
  TypeOK /\ [Next]_vars => SaveCursor \/ UNCHANGED cursors
<1> SUFFICES ASSUME TypeOK, [Next]_vars, ~ SaveCursor PROVE UNCHANGED cursors
  OBVIOUS
<1>1. ChainStep => UNCHANGED cursors
  BY ChainMoves DEF tables
<1>2. QED
  BY <1>1 DEF Next, RunnerStep, Begin, CheckCursor, ReadHead, Fetch, DecodeFails,
     SkipLog, InsertOnce, Handle, ReadHash, Fail, vars, tables

LEMMA RawStays ==
  TypeOK /\ BatchOK /\ [Next]_vars =>
    \/ UNCHANGED rawEvents
    \/ /\ pc = "logs" /\ batch # {}
       /\ UNCHANGED <<chain, peak>>
       /\ Store(First(batch))
<1> SUFFICES ASSUME TypeOK, BatchOK, [Next]_vars,
                    ~ UNCHANGED rawEvents
             PROVE  /\ pc = "logs" /\ batch # {}
                    /\ UNCHANGED <<chain, peak>>
                    /\ Store(First(batch))
  OBVIOUS
<1>1. ~ ChainStep
  BY ChainMoves DEF tables
<1>2. InsertOnce \/ Fail
  BY <1>1 DEF Next, RunnerStep, Begin, CheckCursor, ReadHead, Fetch, DecodeFails,
     SkipLog, Handle, ReadHash, SaveCursor, vars, tables
<1>3. QED  BY <1>2 DEF InsertOnce, Fail, world

LEMMA RawGrows ==
  TypeOK /\ BatchOK /\ [Next]_vars => DOMAIN rawEvents \subseteq DOMAIN rawEvents'
<1> SUFFICES ASSUME TypeOK, BatchOK, [Next]_vars
             PROVE  DOMAIN rawEvents \subseteq DOMAIN rawEvents'
  OBVIOUS
<1>1. CASE UNCHANGED rawEvents
  BY <1>1
<1>2. CASE batch # {} /\ Store(First(batch))
  BY <1>2, FirstTyped, StoreType
<1>3. QED  BY <1>1, <1>2, RawStays

LEMMA BatchShrinks ==
  TypeOK /\ BatchOK /\ [Next]_vars => Fetch \/ batch' \subseteq batch
<1> SUFFICES ASSUME TypeOK, BatchOK, [Next]_vars, ~ Fetch PROVE batch' \subseteq batch
  OBVIOUS
<1>1. ChainStep => UNCHANGED batch
  BY ChainMoves DEF locals
<1>2. QED
  BY <1>1 DEF Next, RunnerStep, Begin, CheckCursor, ReadHead, DecodeFails, SkipLog,
     InsertOnce, Handle, ReadHash, SaveCursor, Fail, vars, locals, Abandon,
     NextSource, Rest
-----------------------------------------------------------------------------
(* What is stored stays true of the chain.                                 *)

LEMMA SafeStep ==
  ASSUME TypeOK, BatchOK, RangeOK, SafeOK, ReorgDepth <= Confirmations,
         [Next]_vars
  PROVE  SafeOK'
<1>0. \A s \in Sources : cursors[s].block \in Nat
  BY DEF TypeOK
<1>1. CASE ChainStep
  <2>1. /\ peak \in Int /\ peak' \in Int /\ peak <= peak'
        /\ Len(chain') >= peak' - ReorgDepth
    BY <1>1, SafeBlocksStay
  <2>2. UNCHANGED cursors
    BY <1>1, ChainMoves DEF tables
  <2>3. ASSUME NEW s \in Sources, cursors[s].block # 0
        PROVE  cursors[s].block <= peak' - Confirmations
    <3>1. cursors[s].block \in Int /\ Confirmations \in Int
      BY <1>0, RunnerAssumption
    <3>2. cursors[s].block <= peak - Confirmations
      BY <2>3 DEF SafeOK
    <3>3. QED  BY <2>1, <3>1, <3>2, Later
  <2>4. QED  BY <2>1, <2>2, <2>3 DEF SafeOK
<1>2. CASE SaveCursor
  <2>1. cursors' = [cursors EXCEPT ![source] =
                     [block |-> toBlock, hash |-> hashRead]]
        /\ UNCHANGED <<chain, peak>>
    BY <1>2 DEF SaveCursor, world
  <2>2. toBlock <= peak - Confirmations
    BY <1>2 DEF SaveCursor, RangeOK, Active
  <2>3. ASSUME NEW s \in Sources
        PROVE  cursors'[s].block = 0 \/ cursors'[s].block <= peak - Confirmations
    <3>1. CASE s = source
      BY <2>1, <2>2, <3>1 DEF TypeOK
    <3>2. CASE s # source
      BY <2>1, <3>2 DEF SafeOK, TypeOK
    <3>3. QED  BY <3>1, <3>2
  <2>4. QED  BY <2>1, <2>3 DEF SafeOK
<1>3. CASE UNCHANGED <<chain, peak, cursors>>
  BY <1>3 DEF SafeOK
<1>4. QED  BY <1>1, <1>2, <1>3, WorldStays, CursorsStay

LEMMA FetchedStep ==
  ASSUME TypeOK, BatchOK, RangeOK, SafeOK, FetchedOK,
         ReorgDepth <= Confirmations, [Next]_vars
  PROVE  FetchedOK'
<1>1. CASE ChainStep
  <2>1. batch' = batch
    BY <1>1, ChainMoves DEF locals
  <2>2. ASSUME NEW e \in batch PROVE OnChain(Key(e), e.hash, e.height)'
    BY <1>1, OnChainStays DEF FetchedOK
  <2>3. QED  BY <2>1, <2>2 DEF FetchedOK
<1>2. CASE Fetch
  <2>1. batch' = FilterLogs(source, fromBlock, toBlock)
        /\ UNCHANGED <<chain, peak>>
    BY <1>2 DEF Fetch, world
  <2>2. toBlock <= peak - Confirmations
    BY <1>2 DEF Fetch, RangeOK, Active
  <2>3. ASSUME NEW e \in FilterLogs(source, fromBlock, toBlock)
        PROVE  OnChain(Key(e), e.hash, e.height)
    <3>1. /\ e.height \in DOMAIN chain /\ e.height <= toBlock
          /\ e.index \in DOMAIN chain[e.height].logs
          /\ e = LogAt(e.height, e.index)
      BY FetchedType
    <3>2. e.hash = chain[e.height].hash /\ e.log = chain[e.height].logs[e.index]
      BY <3>1 DEF LogAt
    <3>3. e.height <= peak - Confirmations
      <4>1. \A a, b, c \in Int : a <= b /\ b <= c => a <= c
        OBVIOUS
      <4>2. e.height \in Int /\ toBlock \in Int /\ peak - Confirmations \in Int
        <5>1. e.height \in Int /\ toBlock \in Int
          <6>1. e \in Fetched
            BY FetchedType
          <6>2. QED  BY <6>1 DEF TypeOK, Fetched
        <5>2. peak \in Nat /\ Confirmations \in Nat
          BY RunnerAssumption DEF TypeOK
        <5>3. QED  BY <5>1, <5>2
      <4>3. QED  BY <2>2, <3>1, <4>1, <4>2
    <3>4. Placed(Key(e), e.height)
      BY <3>1, <3>2 DEF Placed, Key
    <3>5. QED  BY <3>1, <3>2, <3>3, <3>4 DEF OnChain
  <2>4. QED  BY <2>1, <2>3 DEF FetchedOK, OnChain, Placed
<1>3. CASE batch' \subseteq batch /\ UNCHANGED <<chain, peak>>
  BY <1>3 DEF FetchedOK, OnChain, Placed
<1>4. QED  BY <1>1, <1>2, <1>3, WorldStays, BatchShrinks

LEMMA StoredStep ==
  ASSUME TypeOK, BatchOK, SafeOK, FetchedOK, StoredOK,
         ReorgDepth <= Confirmations, [Next]_vars
  PROVE  StoredOK'
<1>1. CASE ChainStep
  <2>1. rawEvents' = rawEvents
    BY <1>1, ChainMoves DEF tables
  <2>2. ASSUME NEW k \in DOMAIN rawEvents
        PROVE  \E n \in DOMAIN chain' : OnChain(k, rawEvents[k], n)'
    <3>1. PICK n \in DOMAIN chain : OnChain(k, rawEvents[k], n)
      BY DEF StoredOK
    <3>2. OnChain(k, rawEvents[k], n)'
      BY <1>1, <2>1, <3>1, OnChainStays
    <3>3. n \in DOMAIN chain'
      BY <3>2 DEF OnChain
    <3>4. QED  BY <3>2, <3>3
  <2>3. QED  BY <2>1, <2>2 DEF StoredOK
<1>2. CASE UNCHANGED <<rawEvents, chain, peak>>
  BY <1>2 DEF StoredOK, OnChain, Placed
<1>3. CASE batch # {} /\ UNCHANGED <<chain, peak>> /\ Store(First(batch))
  <2> DEFINE e == First(batch)
  <2>1. e \in batch /\ e \in Fetched
    BY <1>3, FirstTyped
  <2>2. /\ DOMAIN rawEvents' = DOMAIN rawEvents \cup {Key(e)}
        /\ rawEvents'[Key(e)] = e.hash
        /\ \A k \in DOMAIN rawEvents :
             k # Key(e) => rawEvents'[k] = rawEvents[k]
    BY <1>3, <2>1, StoreType
  <2>3. OnChain(Key(e), e.hash, e.height)
    BY <2>1 DEF FetchedOK
  <2> HIDE DEF e
  <2>4. ASSUME NEW k \in DOMAIN rawEvents'
        PROVE  \E n \in DOMAIN chain : OnChain(k, rawEvents'[k], n)
    <3>1. CASE k = Key(e)
      <4>1. e.height \in DOMAIN chain
        BY <2>3 DEF OnChain
      <4>2. QED  BY <2>2, <2>3, <3>1, <4>1
    <3>2. CASE k # Key(e)
      BY <2>2, <3>2 DEF StoredOK
    <3>3. QED  BY <3>1, <3>2
  <2>5. QED  BY <1>3, <2>4 DEF StoredOK, OnChain, Placed
<1>4. QED  BY <1>1, <1>2, <1>3, WorldStays, RawStays

LEMMA CanonicalStays ==
  ASSUME TypeOK, SafeOK, ReorgDepth <= Confirmations, ChainStep,
         NEW n \in Nat, n = 0 \/ n <= peak - Confirmations
  PROVE  /\ HasHeader(n)' /\ HasHeader(n)
         /\ HashAt(n)' = HashAt(n)
<1>1. chain \in Seq(Block) /\ chain' \in Seq(Block)
  BY ChainMoves DEF TypeOK
<1>2. CASE n = 0
  BY <1>1, <1>2, LenProperties DEF HasHeader, HashAt
<1>3. CASE n # 0
  <2>1. /\ n \in DOMAIN chain /\ n \in DOMAIN chain'
        /\ chain'[n] = chain[n]
    BY <1>3, SafeBlocksStay
  <2>2. n <= Len(chain) /\ n <= Len(chain')
    BY <1>1, <2>1, LenProperties
  <2>3. QED  BY <1>3, <2>1, <2>2 DEF HasHeader, HashAt
<1>4. QED  BY <1>2, <1>3

LEMMA HashesStep ==
  ASSUME TypeOK, BatchOK, RangeOK, SafeOK, HashesOK,
         ReorgDepth <= Confirmations, [Next]_vars
  PROVE  HashesOK'
<1>1. CASE ChainStep
  <2>1. UNCHANGED <<cursors, pc, toBlock, hashRead>>
    BY <1>1, ChainMoves DEF tables, locals
  <2>2. ASSUME pc = "save"
        PROVE  HasHeader(toBlock)' /\ hashRead = HashAt(toBlock)'
    <3>1. toBlock \in Nat /\ toBlock <= peak - Confirmations
      BY <2>2 DEF TypeOK, RangeOK, Active
    <3>2. hashRead = HashAt(toBlock)
      BY <2>2 DEF HashesOK
    <3>3. QED  BY <1>1, <2>1, <3>1, <3>2, CanonicalStays DEF HasHeader, HashAt
  <2>3. ASSUME NEW s \in Sources
        PROVE  Canonical(cursors[s])'
    <3> DEFINE n == cursors[s].block
    <3>1. n \in Nat /\ (n = 0 \/ n <= peak - Confirmations)
      BY DEF TypeOK, SafeOK
    <3>2. n = 0 \/ HashAt(n) = cursors[s].hash
      BY DEF HashesOK, Canonical
    <3>3. /\ HasHeader(n)' /\ HashAt(n)' = HashAt(n)
      <4> HIDE DEF n
      <4>1. n' = n
        BY <2>1 DEF n
      <4>2. QED  BY <1>1, <3>1, <4>1, CanonicalStays DEF HasHeader, HashAt
    <3>4. QED  BY <2>1, <3>2, <3>3 DEF Canonical
  <2>4. QED  BY <2>1, <2>2, <2>3 DEF HashesOK
<1>2. CASE SaveCursor
  <2>1. /\ cursors' = [cursors EXCEPT ![source] =
                         [block |-> toBlock, hash |-> hashRead]]
        /\ UNCHANGED chain
        /\ pc' # "save"
    BY <1>2 DEF SaveCursor, world, NextSource
  <2>2. HasHeader(toBlock) /\ hashRead = HashAt(toBlock)
    BY <1>2 DEF SaveCursor, HashesOK
  <2>3. ASSUME NEW s \in Sources PROVE Canonical(cursors'[s])
    <3>1. CASE s = source
      <4>1. cursors'[s] = [block |-> toBlock, hash |-> hashRead]
        BY <2>1, <3>1 DEF TypeOK
      <4>2. QED  BY <2>2, <4>1 DEF Canonical
    <3>2. CASE s # source
      BY <2>1, <3>2 DEF HashesOK, TypeOK
    <3>3. QED  BY <3>1, <3>2
  <2>4. QED  BY <2>1, <2>3 DEF HashesOK, Canonical, HasHeader, HashAt
<1>3. CASE ReadHash
  <2>1. UNCHANGED <<chain, cursors>>
    BY <1>3 DEF ReadHash, world, tables
  <2>2. pc' = "save" =>
          HasHeader(toBlock) /\ hashRead' = HashAt(toBlock) /\ toBlock' = toBlock
    BY <1>3 DEF ReadHash, Abandon
  <2>3. QED  BY <2>1, <2>2 DEF HashesOK, Canonical, HasHeader, HashAt
<1>4. CASE UNCHANGED vars
  BY <1>4 DEF vars, HashesOK, Canonical, HasHeader, HashAt
<1>5. CASE /\ ~ ChainStep /\ ~ SaveCursor /\ ~ ReadHash
           /\ ~ UNCHANGED vars
  <2>1. UNCHANGED <<chain, cursors>>
    BY <1>5, WorldStays, CursorsStay
  <2>2. pc' # "save"
    BY <1>5 DEF Next, RunnerStep, Begin, CheckCursor, ReadHead, Fetch,
       DecodeFails, SkipLog, InsertOnce, Handle, Fail, Abandon, NextSource
  <2>3. QED  BY <2>1, <2>2 DEF HashesOK, Canonical, HasHeader, HashAt
<1>6. QED  BY <1>1, <1>2, <1>3, <1>4, <1>5

LEMMA SafeInit ==
  Init => SafeOK /\ FetchedOK /\ StoredOK /\ HashesOK
<1> SUFFICES ASSUME Init PROVE SafeOK /\ FetchedOK /\ StoredOK /\ HashesOK
  OBVIOUS
<1>1. SafeOK
  BY RunnerAssumption DEF Init, SafeOK
<1>2. FetchedOK
  BY DEF Init, FetchedOK
<1>3. StoredOK
  BY DEF Init, StoredOK
<1>4. HashesOK
  BY DEF Init, HashesOK, Canonical
<1>5. QED  BY <1>1, <1>2, <1>3, <1>4

SInv == TInv /\ RangeOK /\ SafeOK /\ FetchedOK /\ StoredOK /\ HashesOK

LEMMA SafetyStep ==
  ASSUME ReorgDepth <= Confirmations
  PROVE  SInv /\ [Next]_vars => SInv'
<1> SUFFICES ASSUME SInv, [Next]_vars PROVE SInv'
  OBVIOUS
<1>1. TypeOK /\ BatchOK
  BY DEF SInv, TInv
<1>2. TInv' /\ RangeOK'
  BY TypeStep, RangeStep DEF SInv
<1>3. SafeOK' /\ FetchedOK'
  BY <1>1, SafeStep, FetchedStep DEF SInv
<1>4. StoredOK' /\ HashesOK'
  BY <1>1, StoredStep, HashesStep DEF SInv
<1>5. QED  BY <1>2, <1>3, <1>4 DEF SInv

(* Where no reorg goes deeper than the confirmations, every stored event   *)
(* stays part of the chain under the hash it was stored with, and so does  *)
(* the block of every cursor: ensureCursorStillCanonical never stops a     *)
(* source.                                                                 *)
THEOREM StoredStaysCanonical ==
  ASSUME ReorgDepth <= Confirmations
  PROVE  Spec => []StoredIsCanonical
<1>1. Init => SInv
  BY TypeInit, RangeInit, SafeInit DEF SInv
<1>2. SInv => StoredIsCanonical
  BY DEF SInv, StoredOK, HashesOK, OnChain, StoredIsCanonical
<1>3. SInv /\ [Next]_vars => SInv'
  BY SafetyStep
<1>4. QED  BY <1>1, <1>2, <1>3, PTL DEF Spec
-----------------------------------------------------------------------------
(* No log is passed over.                                                  *)

(* Blocks as deep as the confirmations keep the logs a source wants.       *)
LEMMA WantedStays ==
  ASSUME TypeOK, SafeOK, ReorgDepth <= Confirmations, ChainStep,
         NEW k, NEW n \in Nat \ {0}, n <= peak - Confirmations
  PROVE  Placed(k, n)' <=> Placed(k, n)
<1>1. n \in DOMAIN chain /\ n \in DOMAIN chain' /\ chain'[n] = chain[n]
  BY SafeBlocksStay
<1>2. QED  BY <1>1 DEF Placed

(* Fetch gets every log the source wants of the blocks of its range.       *)
LEMMA FetchesAll ==
  ASSUME TypeOK, NEW from \in Nat, NEW to \in Nat,
         NEW n \in from .. to, NEW k \in Wanted(source, n)
  PROVE  \E e \in FilterLogs(source, from, to) : Key(e) = k /\ e.height = n
<1>1. /\ n \in DOMAIN chain /\ k[2] \in DOMAIN chain[n].logs
      /\ chain[n].logs[k[2]] = k[1] /\ SourceOf[k[1]] = source
      /\ k = <<k[1], k[2]>>
  BY DEF Wanted, Placed
<1>2. LogAt(n, k[2]) \in FilterLogs(source, from, to)
  <2>1. from <= n /\ n <= to
    OBVIOUS
  <2>2. QED  BY <1>1, <2>1 DEF FilterLogs
<1>3. Key(LogAt(n, k[2])) = k /\ LogAt(n, k[2]).height = n
  BY <1>1 DEF Key, LogAt
<1>4. QED  BY <1>2, <1>3

LEMMA PendingStep ==
  ASSUME TypeOK, BatchOK, RangeOK, SafeOK, PendingOK,
         ReorgDepth <= Confirmations, [Next]_vars
  PROVE  PendingOK'
<1>g. DOMAIN rawEvents \subseteq DOMAIN rawEvents'
  BY RawGrows
<1>1. CASE ChainStep
  <2>1. UNCHANGED <<rawEvents, pc, source, fromBlock, toBlock, batch>>
    BY <1>1, ChainMoves DEF tables, locals
  <2>2. ASSUME pc \in {"logs", "handle", "save"},
               NEW n \in fromBlock .. toBlock,
               NEW k \in Wanted(source, n)'
        PROVE  k \in Wanted(source, n)
    <3>1. n \in Nat \ {0} /\ n <= peak - Confirmations
      <4>1. /\ fromBlock \in Nat \ {0} /\ toBlock \in Int
            /\ toBlock <= peak - Confirmations
        <5>1. source \in Sources /\ toBlock \in Int
          BY DEF TypeOK
        <5>2. FirstBlock(source) \in Nat \ {0}
          BY <5>1, FirstBlockAbove
        <5>3. QED  BY <2>2, <5>1, <5>2 DEF RangeOK, Active
      <4>2. peak - Confirmations \in Int
        BY DepthInt
      <4>3. QED  BY <4>1, <4>2
    <3>2. Placed(k, n)' /\ SourceOf[k[1]] = source
          /\ k \in (Logs \ Skipped) \X (Nat \ {0})
      BY <2>1, <2>2 DEF Wanted, Placed
    <3>3. Placed(k, n)
      BY <1>1, <3>1, <3>2, WantedStays
    <3>4. QED  BY <3>2, <3>3 DEF Wanted
  <2>3. pc = "handle" => Key(First(batch)) \in DOMAIN rawEvents
    BY DEF PendingOK
  <2>4. ASSUME pc \in {"logs", "handle", "save"},
               NEW n \in fromBlock .. toBlock,
               NEW k \in Wanted(source, n)'
        PROVE  k \in DOMAIN rawEvents \/ \E e \in batch : Key(e) = k /\ e.height = n
    BY <2>2, <2>4 DEF PendingOK
  <2>5. QED  BY <2>1, <2>3, <2>4 DEF PendingOK, Wanted, First, Key
<1>2. CASE Fetch
  <2>1. /\ batch' = FilterLogs(source, fromBlock, toBlock) /\ pc' = "logs"
        /\ UNCHANGED <<chain, source, fromBlock, toBlock>>
    BY <1>2 DEF Fetch, world
  <2>2. \A n \in fromBlock .. toBlock : \A k \in Wanted(source, n) :
          \E e \in FilterLogs(source, fromBlock, toBlock) : Key(e) = k /\ e.height = n
    BY FetchesAll DEF TypeOK
  <2>3. QED  BY <2>1, <2>2 DEF PendingOK, Wanted, Placed
<1>3. CASE SkipLog
  <2>1. /\ pc = "logs" /\ First(batch).log \in Skipped /\ batch' = batch \ {First(batch)}
        /\ UNCHANGED <<chain, rawEvents, pc, source, fromBlock, toBlock>>
    BY <1>3 DEF SkipLog, Rest, world, tables
  <2>2. ASSUME NEW n \in fromBlock .. toBlock, NEW k \in Wanted(source, n)
        PROVE  k \in DOMAIN rawEvents \/ \E e \in batch' : Key(e) = k /\ e.height = n
    <3>1. k[1] \notin Skipped
      BY DEF Wanted
    <3>2. \A e \in batch : Key(e) = k => e # First(batch)
      BY <2>1, <3>1 DEF Key
    <3>3. QED  BY <2>1, <3>2 DEF PendingOK
  <2>3. QED  BY <2>1, <2>2 DEF PendingOK, Wanted, Placed
<1>4. CASE InsertOnce
  <2>1. /\ pc = "logs" /\ batch # {}
        /\ UNCHANGED <<chain, source, fromBlock, toBlock>>
    BY <1>4 DEF InsertOnce, world
  <2>2. CASE AlreadyStored(First(batch))
    <3>1. batch' = batch \ {First(batch)} /\ UNCHANGED <<rawEvents, pc>>
          /\ Key(First(batch)) \in DOMAIN rawEvents
      BY <1>4, <2>2 DEF InsertOnce, Rest, AlreadyStored
    <3>2. ASSUME NEW n \in fromBlock .. toBlock, NEW k \in Wanted(source, n)
          PROVE  k \in DOMAIN rawEvents \/ \E e \in batch' : Key(e) = k /\ e.height = n
      BY <2>1, <3>1 DEF PendingOK
    <3>3. QED  BY <2>1, <3>1, <3>2 DEF PendingOK, Wanted, Placed
  <2>3. CASE ~ AlreadyStored(First(batch))
    <3>1. Store(First(batch)) /\ batch' = batch
      BY <1>4, <2>3 DEF InsertOnce
    <3>2. Key(First(batch)) \in DOMAIN rawEvents'
      BY <2>1, <3>1, FirstTyped, StoreType
    <3>3. ASSUME NEW n \in fromBlock .. toBlock, NEW k \in Wanted(source, n)
          PROVE  k \in DOMAIN rawEvents' \/ \E e \in batch' : Key(e) = k /\ e.height = n
      BY <1>g, <2>1, <3>1 DEF PendingOK
    <3>4. Key(First(batch))' = Key(First(batch))
      BY <3>1 DEF First, Key
    <3>5. QED  BY <2>1, <3>2, <3>3, <3>4 DEF PendingOK, Wanted, Placed
  <2>4. QED  BY <2>2, <2>3
<1>5. CASE Handle
  <2>1. /\ pc = "handle" /\ pc' = "logs" /\ batch' = batch \ {First(batch)}
        /\ UNCHANGED <<chain, rawEvents, source, fromBlock, toBlock>>
    BY <1>5 DEF Handle, Rest, world
  <2>2. ASSUME NEW n \in fromBlock .. toBlock, NEW k \in Wanted(source, n)
        PROVE  k \in DOMAIN rawEvents \/ \E e \in batch' : Key(e) = k /\ e.height = n
    BY <2>1 DEF PendingOK
  <2>3. QED  BY <2>1, <2>2 DEF PendingOK, Wanted, Placed
<1>6. CASE ReadHash
  <2>1. pc = "logs" /\ UNCHANGED <<chain, rawEvents>>
    BY <1>6 DEF ReadHash, world, tables
  <2>2. \/ pc' = "idle"
        \/ pc' = "save" /\ UNCHANGED <<source, fromBlock, toBlock, batch>>
    BY <1>6 DEF ReadHash, Abandon
  <2>3. QED  BY <2>1, <2>2 DEF PendingOK, Wanted, Placed
<1>7. CASE UNCHANGED vars
  BY <1>7 DEF vars, PendingOK, Wanted, Placed, First, Key
<1>8. CASE Begin \/ CheckCursor \/ ReadHead \/ DecodeFails \/ SaveCursor \/ Fail
  <2>1. pc' \notin {"logs", "handle", "save"}
    BY <1>8 DEF Begin, CheckCursor, ReadHead, DecodeFails, SaveCursor, Fail,
       Abandon, NextSource
  <2>2. QED  BY <2>1 DEF PendingOK
<1>9. QED
  BY <1>1, <1>2, <1>3, <1>4, <1>5, <1>6, <1>7, <1>8 DEF Next, RunnerStep

LEMMA BackedStep ==
  ASSUME TypeOK, BatchOK, RangeOK, SafeOK, PendingOK, BackedOK,
         ReorgDepth <= Confirmations, [Next]_vars
  PROVE  BackedOK'
<1> SUFFICES ASSUME NEW s \in Sources,
                    NEW n \in StartBlock[s] .. cursors'[s].block,
                    NEW k \in Wanted(s, n)'
             PROVE  k \in DOMAIN rawEvents'
  BY DEF BackedOK
<1>1. DOMAIN rawEvents \subseteq DOMAIN rawEvents'
  BY RawGrows
<1>2. /\ k \in (Logs \ Skipped) \X (Nat \ {0})
      /\ SourceOf[k[1]] = s /\ Placed(k, n)'
  BY DEF Wanted
<1>4. /\ StartBlock[s] \in Nat \ {0} /\ cursors[s].block \in Nat
      /\ cursors'[s].block \in Nat
  BY RunnerAssumption, TypeStep DEF TypeOK, TInv
<1>5. n \in Nat \ {0} /\ StartBlock[s] <= n /\ n <= cursors'[s].block
  BY <1>4
<1>6. ASSUME n <= cursors[s].block, Placed(k, n) PROVE k \in DOMAIN rawEvents'
  <2>1. n \in StartBlock[s] .. cursors[s].block
    BY <1>4, <1>5, <1>6
  <2>2. k \in Wanted(s, n)
    BY <1>2, <1>6 DEF Wanted
  <2>3. QED  BY <1>1, <2>1, <2>2 DEF BackedOK
<1>7. CASE ChainStep
  <2>1. UNCHANGED cursors
    BY <1>7, ChainMoves DEF tables
  <2>2. n <= cursors[s].block /\ n <= peak - Confirmations
    <3>1. n <= cursors[s].block
      BY <1>5, <2>1
    <3>2. cursors[s].block <= peak - Confirmations
      BY <1>4, <1>5, <3>1 DEF SafeOK
    <3>3. peak - Confirmations \in Int
      BY DepthInt
    <3>4. QED  BY <1>4, <1>5, <3>1, <3>2, <3>3
  <2>3. Placed(k, n)
    BY <1>2, <1>5, <1>7, <2>2, WantedStays
  <2>4. QED  BY <1>6, <2>2, <2>3
<1>8. CASE ~ ChainStep
  <2>1. Placed(k, n)
    BY <1>2, <1>8, WorldStays DEF Placed
  <2>2. CASE n <= cursors[s].block
    BY <1>6, <2>1, <2>2
  <2>3. CASE n > cursors[s].block
    <3>1. SaveCursor
      BY <1>4, <1>5, <2>3, CursorsStay
    <3>2. /\ pc = "save"
          /\ cursors' = [cursors EXCEPT ![source] =
                           [block |-> toBlock, hash |-> hashRead]]
      BY <3>1 DEF SaveCursor
    <3>3. s = source /\ cursors'[s].block = toBlock
      <4>1. cursors'[s].block # cursors[s].block
        BY <1>4, <1>5, <2>3
      <4>2. DOMAIN cursors = Sources /\ s \in Sources
        BY DEF TypeOK
      <4>3. s = source
        BY <3>2, <4>1, <4>2
      <4>4. QED  BY <3>2, <4>2, <4>3
    <3>4. fromBlock = FirstBlock(s) /\ batch = {}
      BY <3>2, <3>3 DEF RangeOK, Active, BatchOK
    <3>5. n \in fromBlock .. toBlock
      <4>1. FirstBlock(s) <= n
        BY <1>4, <1>5, <2>3 DEF FirstBlock
      <4>2. fromBlock \in Nat /\ toBlock \in Nat
        BY DEF TypeOK
      <4>3. fromBlock <= n /\ n <= toBlock /\ n \in Nat
        BY <1>5, <3>3, <3>4, <4>1
      <4>4. QED  BY <4>2, <4>3
    <3>6. k \in Wanted(source, n)
      BY <1>2, <2>1, <3>3 DEF Wanted
    <3>7. QED  BY <1>1, <3>2, <3>4, <3>5, <3>6 DEF PendingOK
  <2>4. QED  BY <1>4, <1>5, <2>2, <2>3
<1>9. QED  BY <1>7, <1>8

BInv == SInv /\ PendingOK /\ BackedOK

LEMMA BackedInit == Init => BInv
<1>1. Init => SInv
  BY TypeInit, RangeInit, SafeInit DEF SInv
<1>2. Init => PendingOK
  BY DEF Init, PendingOK
<1>3. Init => BackedOK
  <2> SUFFICES ASSUME Init, NEW s \in Sources, NEW n, NEW k \in Wanted(s, n)
               PROVE  FALSE
    BY DEF BackedOK
  <2>1. chain = <<>>
    BY DEF Init
  <2>2. QED  BY <2>1 DEF Wanted, Placed
<1>4. QED  BY <1>1, <1>2, <1>3 DEF BInv

LEMMA BackedKept ==
  ASSUME ReorgDepth <= Confirmations
  PROVE  BInv /\ [Next]_vars => BInv'
<1> SUFFICES ASSUME BInv, [Next]_vars PROVE BInv'
  OBVIOUS
<1>1. TypeOK /\ BatchOK /\ RangeOK /\ SafeOK
  BY DEF BInv, SInv, TInv
<1>2. SInv'
  BY SafetyStep DEF BInv
<1>3. PendingOK' /\ BackedOK'
  BY <1>1, PendingStep, BackedStep DEF BInv
<1>4. QED  BY <1>2, <1>3 DEF BInv

(* Under the same condition the cursor never passes a log of its source    *)
(* that is not stored, whatever fails, restarts and is fetched again.      *)
THEOREM CursorStaysBacked ==
  ASSUME ReorgDepth <= Confirmations
  PROVE  Spec => []CursorBacked
<1>1. BInv => CursorBacked
  <2> SUFFICES ASSUME BInv, NEW s \in Sources, NEW k \in Passed(s)
               PROVE  k \in DOMAIN rawEvents
    BY DEF CursorBacked
  <2>1. PICK n \in StartBlock[s] .. cursors[s].block : Placed(k, n)
    BY DEF Passed
  <2>2. k \in Wanted(s, n)
    BY <2>1 DEF Passed, Wanted
  <2>3. QED  BY <2>1, <2>2 DEF BInv, BackedOK
<1>2. BInv /\ [Next]_vars => BInv'
  BY BackedKept
<1>3. QED  BY <1>1, <1>2, BackedInit, PTL DEF Spec
-----------------------------------------------------------------------------
(***************************************************************************)
(* The handlers of EvmRunner are called in the order of the chain.         *)
(***************************************************************************)
(* The block a stored event is in: a hash tells its height.                *)
At(k) == rawEvents[k][1]
HeightsOK == \A n \in DOMAIN chain : chain[n].hash[1] = n

(* The batch is of the source and the range of the pass.                   *)
InRangeOK ==
  \A e \in batch :
    SourceOf[e.log] = source /\ fromBlock <= e.height /\ e.height <= toBlock

Before(n, i, m, j) == n < m \/ (n = m /\ i < j)

(* Whatever its source wants before a stored event is stored.              *)
PrefixOK ==
  \A k \in DOMAIN rawEvents :
    \A n \in StartBlock[SourceOf[k[1]]] .. At(k) :
      \A j \in Wanted(SourceOf[k[1]], n) :
        Before(n, j[2], At(k), k[2]) => j \in DOMAIN rawEvents

(* A source has applied stored events of its own, in the order of the      *)
(* chain, and the one in hand comes after them.                            *)
OrderOK ==
  /\ \A s \in Sources : \A i \in DOMAIN handled[s] :
       /\ handled[s][i] \in DOMAIN rawEvents
       /\ SourceOf[handled[s][i][1]] = s
  /\ \A s \in Sources : \A i, j \in DOMAIN handled[s] :
       i < j => Before(At(handled[s][i]), handled[s][i][2],
                       At(handled[s][j]), handled[s][j][2])
  /\ pc = "handle" =>
       /\ At(Key(First(batch))) = First(batch).height
       /\ \A i \in DOMAIN handled[source] :
            Before(At(handled[source][i]), handled[source][i][2],
                   First(batch).height, First(batch).index)
-----------------------------------------------------------------------------
(* Heights, and the logs of the batch.                                     *)

LEMMA HeightsStep ==
  ASSUME TypeOK, HeightsOK, [Next]_vars
  PROVE  HeightsOK'
<1>1. CASE ChainStep
  <2>1. PICK n \in 0 .. Len(chain) :
          /\ Len(chain') = n + 1
          /\ \A i \in 1 .. n : chain'[i] = chain[i]
          /\ chain'[n + 1].hash[1] = n + 1
    BY <1>1, ChainMoves
  <2>2. DOMAIN chain = 1 .. Len(chain) /\ Len(chain) \in Nat
    BY LenProperties DEF TypeOK
  <2>3. DOMAIN chain' = 1 .. n + 1
    <3>1. chain' \in Seq(Block)
      BY <1>1, ChainMoves
    <3>2. QED  BY <2>1, <3>1, LenProperties
  <2>4. ASSUME NEW i \in 1 .. n + 1 PROVE chain'[i].hash[1] = i
    <3>1. CASE i = n + 1
      BY <2>1, <3>1
    <3>2. CASE i # n + 1
      <4>1. i \in 1 .. n /\ i \in 1 .. Len(chain)
        BY <2>2, <3>2
      <4>2. QED  BY <2>1, <2>2, <4>1 DEF HeightsOK
    <3>3. QED  BY <3>1, <3>2
  <2>5. QED  BY <2>3, <2>4 DEF HeightsOK
<1>2. CASE UNCHANGED chain
  BY <1>2 DEF HeightsOK
<1>3. QED  BY <1>1, <1>2, WorldStays

LEMMA StoredAt ==
  ASSUME StoredOK, HeightsOK, NEW k \in DOMAIN rawEvents
  PROVE  OnChain(k, rawEvents[k], At(k))
<1>1. PICK n \in DOMAIN chain : OnChain(k, rawEvents[k], n)
  BY DEF StoredOK
<1>2. At(k) = n
  BY <1>1 DEF OnChain, HeightsOK, At
<1>3. QED  BY <1>1, <1>2

LEMMA FetchedAt ==
  ASSUME FetchedOK, HeightsOK, NEW e \in batch
  PROVE  e.hash[1] = e.height
BY DEF FetchedOK, OnChain, HeightsOK

(* A pass drops its batch or keeps its source and range.                   *)
LEMMA BatchKeeps ==
  TypeOK /\ BatchOK /\ [Next]_vars =>
    \/ Fetch
    \/ batch' = {}
    \/ batch' \subseteq batch /\ UNCHANGED <<source, fromBlock, toBlock>>
<1> SUFFICES ASSUME TypeOK, BatchOK, [Next]_vars, ~ Fetch
             PROVE  \/ batch' = {}
                    \/ batch' \subseteq batch
                       /\ UNCHANGED <<source, fromBlock, toBlock>>
  OBVIOUS
<1>1. ChainStep => UNCHANGED <<batch, source, fromBlock, toBlock>>
  BY ChainMoves DEF locals
<1>2. QED
  BY <1>1 DEF Next, RunnerStep, Begin, CheckCursor, ReadHead, DecodeFails, SkipLog,
     InsertOnce, Handle, ReadHash, SaveCursor, Fail, vars, locals, Abandon,
     NextSource, Rest, BatchOK

LEMMA InRangeStep ==
  ASSUME TypeOK, BatchOK, InRangeOK, [Next]_vars
  PROVE  InRangeOK'
<1>1. CASE Fetch
  <2>1. /\ batch' = FilterLogs(source, fromBlock, toBlock)
        /\ UNCHANGED <<source, fromBlock, toBlock>>
    BY <1>1 DEF Fetch
  <2>2. \A e \in FilterLogs(source, fromBlock, toBlock) :
          SourceOf[e.log] = source /\ fromBlock <= e.height /\ e.height <= toBlock
    BY FetchedType
  <2>3. QED  BY <2>1, <2>2 DEF InRangeOK
<1>2. CASE batch' = {}
  BY <1>2 DEF InRangeOK
<1>3. CASE batch' \subseteq batch /\ UNCHANGED <<source, fromBlock, toBlock>>
  BY <1>3 DEF InRangeOK
<1>4. QED  BY <1>1, <1>2, <1>3, BatchKeeps
-----------------------------------------------------------------------------
(* Stores.                                                                 *)

LEMMA FreshStore ==
  TypeOK /\ BatchOK /\ [Next]_vars =>
    \/ UNCHANGED rawEvents
    \/ /\ pc = "logs" /\ batch # {}
       /\ First(batch).log \notin Skipped \cup Undecodable
       /\ Key(First(batch)) \notin DOMAIN rawEvents
       /\ UNCHANGED <<chain, peak, handled>>
       /\ Store(First(batch))
<1> SUFFICES ASSUME TypeOK, BatchOK, [Next]_vars, ~ UNCHANGED rawEvents
             PROVE  /\ pc = "logs" /\ batch # {}
                    /\ First(batch).log \notin Skipped \cup Undecodable
                    /\ Key(First(batch)) \notin DOMAIN rawEvents
                    /\ UNCHANGED <<chain, peak, handled>>
                    /\ Store(First(batch))
  OBVIOUS
<1>1. ~ ChainStep
  BY ChainMoves DEF tables
<1>2. InsertOnce \/ Fail
  BY <1>1 DEF Next, RunnerStep, Begin, CheckCursor, ReadHead, Fetch, DecodeFails,
     SkipLog, Handle, ReadHash, SaveCursor, vars, tables
<1>3. QED  BY <1>2 DEF InsertOnce, Fail, world, AlreadyStored

(* A stored event keeps its block.                                         *)
LEMMA AtStays ==
  ASSUME TypeOK, BatchOK, [Next]_vars, NEW k \in DOMAIN rawEvents
  PROVE  k \in DOMAIN rawEvents' /\ At(k)' = At(k)
<1>1. CASE UNCHANGED rawEvents
  BY <1>1 DEF At
<1>2. CASE /\ batch # {}
           /\ Key(First(batch)) \notin DOMAIN rawEvents
           /\ Store(First(batch))
  <2>1. /\ DOMAIN rawEvents' = DOMAIN rawEvents \cup {Key(First(batch))}
        /\ rawEvents'[k] = rawEvents[k]
    BY <1>2, FirstTyped, StoreType
  <2>2. QED  BY <2>1 DEF At
<1>3. QED  BY <1>1, <1>2, FreshStore

(* What the source wants before the first log of the batch is stored.      *)
LEMMA AllBefore ==
  ASSUME TypeOK, BatchOK, RangeOK, PendingOK, BackedOK, InRangeOK,
         pc = "logs", batch # {},
         NEW n \in StartBlock[source] .. First(batch).height,
         NEW j \in Wanted(source, n),
         Before(n, j[2], First(batch).height, First(batch).index)
  PROVE  j \in DOMAIN rawEvents
<1> DEFINE e == First(batch)
<1>1. /\ e \in batch /\ e.height \in Nat /\ e.index \in Nat
      /\ e.height <= toBlock
  BY FirstTyped DEF Fetched, InRangeOK
<1>2. /\ source \in Sources /\ cursors[source].block \in Nat
      /\ StartBlock[source] \in Nat \ {0} /\ toBlock \in Nat
  BY RunnerAssumption DEF TypeOK
<1>3. n \in Nat /\ StartBlock[source] <= n /\ n <= e.height
  BY <1>1, <1>2
<1>4. CASE n <= cursors[source].block
  <2>1. n \in StartBlock[source] .. cursors[source].block
    BY <1>2, <1>3, <1>4
  <2>2. QED  BY <1>2, <2>1 DEF BackedOK
<1>5. CASE ~ (n <= cursors[source].block)
  <2>1. fromBlock = FirstBlock(source)
    BY DEF RangeOK, Active
  <2>2. fromBlock <= n
    BY <1>2, <1>3, <1>5, <2>1 DEF FirstBlock
  <2>3. n \in fromBlock .. toBlock
    <3>1. fromBlock \in Nat
      BY DEF TypeOK
    <3>2. n <= toBlock
      BY <1>1, <1>2, <1>3
    <3>3. QED  BY <1>2, <1>3, <2>2, <3>1, <3>2
  <2>4. ASSUME NEW b \in batch, Key(b) = j, b.height = n PROVE FALSE
    <3>1. b.index = j[2]
      BY <2>4 DEF Key
    <3>2. \/ e.height < b.height
          \/ e.height = b.height /\ e.index <= b.index
      BY FirstInBatch
    <3>3. b.index \in Nat
      BY DEF TypeOK, Fetched
    <3>4. QED  BY <1>1, <1>3, <2>4, <3>1, <3>2, <3>3 DEF Before
  <2>5. QED  BY <2>3, <2>4 DEF PendingOK
<1>6. QED  BY <1>4, <1>5

(* The log that is stored, of the source, at the height it was fetched at. *)
LEMMA StoreFacts ==
  ASSUME TypeOK, BatchOK, FetchedOK, HeightsOK, InRangeOK,
         batch # {}, Store(First(batch))
  PROVE  /\ DOMAIN rawEvents' = DOMAIN rawEvents \cup {Key(First(batch))}
         /\ rawEvents'[Key(First(batch))][1] = First(batch).height
         /\ SourceOf[First(batch).log] = source
         /\ Placed(Key(First(batch)), First(batch).height)
         /\ First(batch).height \in DOMAIN chain
<1> DEFINE e == First(batch)
<1>1. e \in batch /\ e \in Fetched
  BY FirstTyped
<1>2. /\ DOMAIN rawEvents' = DOMAIN rawEvents \cup {Key(e)}
      /\ rawEvents'[Key(e)] = e.hash
  BY <1>1, StoreType
<1>3. e.hash[1] = e.height
  BY <1>1, FetchedAt
<1>4. OnChain(Key(e), e.hash, e.height)
  BY <1>1 DEF FetchedOK
<1>5. QED  BY <1>1, <1>2, <1>3, <1>4 DEF InRangeOK, OnChain

LEMMA PrefixStep ==
  ASSUME TypeOK, BatchOK, RangeOK, SafeOK, FetchedOK, StoredOK, PendingOK,
         BackedOK, HeightsOK, InRangeOK, PrefixOK,
         ReorgDepth <= Confirmations, [Next]_vars
  PROVE  PrefixOK'
<1> SUFFICES ASSUME NEW k \in DOMAIN rawEvents',
                    NEW n \in StartBlock[SourceOf[k[1]]] .. At(k)',
                    NEW j \in Wanted(SourceOf[k[1]], n)',
                    Before(n, j[2], At(k)', k[2])
             PROVE  j \in DOMAIN rawEvents'
  BY DEF PrefixOK
<1> DEFINE s == SourceOf[k[1]]
<1>g. DOMAIN rawEvents \subseteq DOMAIN rawEvents'
  BY RawGrows
<1>1. CASE ChainStep
  <2>1. rawEvents' = rawEvents /\ At(k)' = At(k)
    BY <1>1, ChainMoves DEF tables, At
  <2>2. OnChain(k, rawEvents[k], At(k))
    BY <2>1, StoredAt
  <2>3. s \in Sources /\ StartBlock[s] \in Nat \ {0}
    <3>1. k[1] \in Logs
      BY <2>1 DEF TypeOK, Keys
    <3>2. QED  BY <3>1, RunnerAssumption
  <2>4. n \in Nat \ {0} /\ n <= peak - Confirmations
    <3>1. At(k) \in Nat /\ At(k) <= peak - Confirmations
      BY <2>1, <2>2, LenProperties DEF OnChain, TypeOK
    <3>2. peak - Confirmations \in Int
      BY DepthInt
    <3>3. QED  BY <2>1, <2>3, <3>1, <3>2
  <2>5. Placed(j, n)' /\ SourceOf[j[1]] = s
        /\ j \in (Logs \ Skipped) \X (Nat \ {0})
    BY DEF Wanted
  <2>6. j \in Wanted(s, n)
    BY <1>1, <2>4, <2>5, WantedStays DEF Wanted
  <2>7. QED  BY <2>1, <2>6 DEF PrefixOK
<1>2. CASE ~ ChainStep
  <2>1. j \in Wanted(s, n)
    BY <1>2, WorldStays DEF Wanted, Placed
  <2>2. CASE k \in DOMAIN rawEvents
    <3>1. At(k)' = At(k)
      BY <2>2, AtStays
    <3>2. QED  BY <1>g, <2>1, <2>2, <3>1 DEF PrefixOK
  <2>3. CASE k \notin DOMAIN rawEvents
    <3> DEFINE e == First(batch)
    <3>1. pc = "logs" /\ batch # {} /\ Store(e)
      BY <2>3, FreshStore
    <3>2. /\ DOMAIN rawEvents' = DOMAIN rawEvents \cup {Key(e)}
          /\ rawEvents'[Key(e)][1] = e.height
          /\ SourceOf[e.log] = source
      BY <3>1, StoreFacts
    <3>3. k = Key(e) /\ At(k)' = e.height
      BY <2>3, <3>2 DEF At
    <3>4. k[1] = e.log /\ k[2] = e.index /\ s = source
      BY <3>2, <3>3 DEF Key
    <3>5. j \in DOMAIN rawEvents
      BY <2>1, <3>1, <3>3, <3>4, AllBefore
    <3>6. QED  BY <1>g, <3>5
  <2>4. QED  BY <2>2, <2>3
<1>3. QED  BY <1>1, <1>2
-----------------------------------------------------------------------------
(* The order in which events are applied.                                  *)

(* A log that is not stored comes after all that its source has applied.   *)
LEMMA ComesLast ==
  ASSUME TypeOK, BatchOK, RangeOK, FetchedOK, StoredOK, HeightsOK, InRangeOK,
         PrefixOK, OrderOK,
         pc = "logs", batch # {}, First(batch).log \notin Skipped,
         Key(First(batch)) \notin DOMAIN rawEvents,
         NEW i \in DOMAIN handled[source]
  PROVE  Before(At(handled[source][i]), handled[source][i][2],
                First(batch).height, First(batch).index)
<1> DEFINE e == First(batch)
           k == handled[source][i]
<1>1. /\ e \in batch /\ e \in Fetched /\ Key(e) \in Keys
      /\ source \in Sources
  BY FirstTyped DEF TypeOK
<1>2. k \in DOMAIN rawEvents /\ SourceOf[k[1]] = source /\ k \in Keys
  BY <1>1 DEF OrderOK, TypeOK
<1>3. OnChain(k, rawEvents[k], At(k))
  BY <1>2, StoredAt
<1>4. OnChain(Key(e), e.hash, e.height)
  BY <1>1 DEF FetchedOK
<1>5. /\ At(k) \in Nat /\ k[2] \in Nat /\ e.height \in Nat /\ e.index \in Nat
  <2>1. At(k) \in Nat
    BY <1>3, LenProperties DEF OnChain, TypeOK
  <2>2. QED  BY <1>1, <1>2, <2>1 DEF Fetched, Keys
<1>6. ~ (At(k) = e.height /\ k[2] = e.index)
  <2> SUFFICES ASSUME At(k) = e.height, k[2] = e.index PROVE FALSE
    OBVIOUS
  <2>1. k[1] = e.log
    BY <1>3, <1>4 DEF OnChain, Placed, Key
  <2>2. k = Key(e)
    BY <1>2, <2>1 DEF Key, Keys
  <2>3. QED  BY <1>2, <2>2
<1>7. ~ Before(e.height, e.index, At(k), k[2])
  <2> SUFFICES ASSUME Before(e.height, e.index, At(k), k[2]) PROVE FALSE
    OBVIOUS
  <2>1. Key(e) \in Wanted(source, e.height)
    BY <1>1, <1>4 DEF Wanted, OnChain, Key, Keys, Fetched, InRangeOK
  <2>2. e.height \in StartBlock[source] .. At(k)
    <3>1. StartBlock[source] \in Nat \ {0} /\ cursors[source].block \in Nat
      BY <1>1, RunnerAssumption DEF TypeOK
    <3>2. StartBlock[source] <= fromBlock
      BY <3>1 DEF RangeOK, Active, FirstBlock
    <3>3. fromBlock <= e.height /\ fromBlock \in Nat
      BY <1>1 DEF InRangeOK, TypeOK
    <3>4. e.height <= At(k)
      BY <1>5 DEF Before
    <3>5. QED  BY <1>5, <3>1, <3>2, <3>3, <3>4
  <2>3. Key(e)[2] = e.index
    BY DEF Key
  <2> HIDE DEF e, k
  <2>4. QED  BY <1>2, <2>1, <2>2, <2>3 DEF PrefixOK, e
<1> HIDE DEF e, k
<1>8. Before(At(k), k[2], e.height, e.index)
  BY <1>5, <1>6, <1>7 DEF Before
<1>9. QED  BY <1>8 DEF e, k

LEMMA HandledStays ==
  TypeOK /\ BatchOK /\ [Next]_vars =>
    \/ UNCHANGED handled
    \/ /\ pc = "handle" /\ pc' # "handle" /\ UNCHANGED rawEvents
       /\ Apply(First(batch))
<1> SUFFICES ASSUME TypeOK, BatchOK, [Next]_vars, ~ UNCHANGED handled
             PROVE  /\ pc = "handle" /\ pc' # "handle" /\ UNCHANGED rawEvents
                    /\ Apply(First(batch))
  OBVIOUS
<1>1. ~ ChainStep
  BY ChainMoves DEF tables
<1>2. Handle \/ Fail
  BY <1>1 DEF Next, RunnerStep, Begin, CheckCursor, ReadHead, Fetch, DecodeFails,
     SkipLog, InsertOnce, ReadHash, SaveCursor, vars, tables
<1>3. QED  BY <1>2 DEF Handle, Fail, Abandon

LEMMA InHandStays ==
  TypeOK /\ BatchOK /\ [Next]_vars /\ pc' = "handle" =>
    /\ UNCHANGED <<handled, batch, source>>
    /\ \/ pc = "handle" /\ UNCHANGED rawEvents
       \/ /\ pc = "logs" /\ batch # {}
          /\ First(batch).log \notin Skipped \cup Undecodable
          /\ Key(First(batch)) \notin DOMAIN rawEvents
          /\ Store(First(batch))
<1> SUFFICES ASSUME TypeOK, BatchOK, [Next]_vars, pc' = "handle"
             PROVE  /\ UNCHANGED <<handled, batch, source>>
                    /\ \/ pc = "handle" /\ UNCHANGED rawEvents
                       \/ /\ pc = "logs" /\ batch # {}
                          /\ First(batch).log \notin Skipped \cup Undecodable
                          /\ Key(First(batch)) \notin DOMAIN rawEvents
                          /\ Store(First(batch))
  OBVIOUS
<1>1. CASE ChainStep
  BY <1>1, ChainMoves DEF tables, locals
<1>2. CASE UNCHANGED vars
  BY <1>2 DEF vars
<1>3. CASE InsertOnce
  BY <1>3 DEF InsertOnce, AlreadyStored
<1>4. CASE SkipLog
  BY <1>4 DEF SkipLog
<1>5. QED
  BY <1>1, <1>2, <1>3, <1>4 DEF Next, RunnerStep, Begin, CheckCursor, ReadHead,
     Fetch, DecodeFails, Handle, ReadHash, SaveCursor, Fail, Abandon, NextSource

LEMMA OrderStep ==
  ASSUME TypeOK, BatchOK, RangeOK, FetchedOK, StoredOK, PendingOK, HeightsOK,
         InRangeOK, PrefixOK, OrderOK, [Next]_vars
  PROVE  OrderOK'
<1>1. ASSUME pc' = "handle"
      PROVE  /\ At(Key(First(batch)))' = First(batch)'.height
             /\ \A i \in DOMAIN handled'[source'] :
                  Before(At(handled[source][i]), handled[source][i][2],
                         First(batch).height, First(batch).index)'
  <2> DEFINE e == First(batch)
  <2>1. UNCHANGED <<handled, batch, source>>
    BY <1>1, InHandStays
  <2>2. First(batch)' = e
    BY <2>1 DEF First
  <2>3. CASE pc = "handle" /\ UNCHANGED rawEvents
    BY <2>1, <2>2, <2>3 DEF OrderOK, Before, At, Key
  <2>4. CASE /\ pc = "logs" /\ batch # {} /\ e.log \notin Skipped
             /\ Key(e) \notin DOMAIN rawEvents /\ Store(e)
    <3>1. rawEvents'[Key(e)][1] = e.height
      BY <2>4, StoreFacts
    <3>2. At(Key(First(batch)))' = First(batch)'.height
      BY <2>2, <3>1 DEF At, Key
    <3>3. ASSUME NEW i \in DOMAIN handled[source]
          PROVE  Before(At(handled[source][i])', handled[source][i][2],
                        e.height, e.index)
      <4>1. handled[source][i] \in DOMAIN rawEvents
        BY DEF OrderOK, TypeOK
      <4>2. At(handled[source][i])' = At(handled[source][i])
        BY <2>1, <4>1, AtStays DEF At
      <4>3. QED  BY <2>4, <4>2, ComesLast
    <3>4. QED  BY <2>1, <2>2, <3>2, <3>3 DEF Before, At
  <2>5. QED  BY <1>1, <2>3, <2>4, InHandStays
<1>2. CASE UNCHANGED handled
  <2>1. \A s \in Sources : \A i \in DOMAIN handled[s] :
          /\ handled[s][i] \in DOMAIN rawEvents'
          /\ rawEvents'[handled[s][i]][1] = At(handled[s][i])
    BY AtStays DEF OrderOK, At
  <2>2. QED  BY <1>1, <1>2, <2>1 DEF OrderOK, At
<1>3. CASE /\ pc = "handle" /\ pc' # "handle" /\ UNCHANGED rawEvents
           /\ Apply(First(batch))
  <2> DEFINE e == First(batch)
             h == handled[source]
             last == Len(h) + 1
  <2>1. /\ source \in Sources /\ h \in Seq(Keys) /\ Key(e) \in Keys
        /\ e \in batch
    BY <1>3, FirstTyped DEF TypeOK, BatchOK
  <2>2. /\ DOMAIN h = 1 .. Len(h) /\ Len(h) \in Nat
        /\ DOMAIN handled'[source] = 1 .. last
        /\ handled'[source][last] = Key(e)
        /\ \A i \in 1 .. Len(h) : handled'[source][i] = h[i]
    <3>1. handled'[source] = Append(h, Key(e))
      BY <1>3, <2>1 DEF Apply, TypeOK
    <3> HIDE DEF e, h
    <3>2. Append(h, Key(e)) \in Seq(Keys) /\ Len(Append(h, Key(e))) = last
      BY <2>1, AppendProperties
    <3>3. QED  BY <2>1, <3>1, <3>2, AppendProperties, LenProperties
  <2>3. \A s \in Sources \ {source} : handled'[s] = handled[s]
    BY <1>3 DEF Apply, TypeOK
  <2>4. /\ Key(e) \in DOMAIN rawEvents /\ SourceOf[Key(e)[1]] = source
        /\ At(Key(e)) = e.height /\ Key(e)[2] = e.index
        /\ \A i \in 1 .. Len(h) : Before(At(h[i]), h[i][2], e.height, e.index)
    BY <1>3, <2>1, <2>2 DEF PendingOK, InRangeOK, OrderOK, Key
  <2>5. /\ \A i \in 1 .. Len(h) : /\ h[i] \in DOMAIN rawEvents
                                  /\ SourceOf[h[i][1]] = source
        /\ \A i, j \in 1 .. Len(h) :
             i < j => Before(At(h[i]), h[i][2], At(h[j]), h[j][2])
    BY <2>1, <2>2 DEF OrderOK
  <2> DEFINE new == handled'[source]
  <2>6. \A i \in DOMAIN new : new[i] \in DOMAIN rawEvents
                              /\ SourceOf[new[i][1]] = source
    <3> HIDE DEF e, h
    <3>1. \A i \in 1 .. last : i = last \/ i \in 1 .. Len(h)
      BY <2>2
    <3>2. QED  BY <2>2, <2>4, <2>5, <3>1
  <2>7. \A i, j \in DOMAIN new :
          i < j => Before(At(new[i]), new[i][2], At(new[j]), new[j][2])
    <3> HIDE DEF e, h
    <3>1. \A i, j \in 1 .. last :
            i < j => i \in 1 .. Len(h) /\ (j = last \/ j \in 1 .. Len(h))
      BY <2>2
    <3>2. QED  BY <2>2, <2>4, <2>5, <3>1
  <2> HIDE DEF new
  <2>8. \A s \in Sources : \A i \in DOMAIN handled'[s] :
          /\ handled'[s][i] \in DOMAIN rawEvents
          /\ SourceOf[handled'[s][i][1]] = s
    BY <2>3, <2>6 DEF OrderOK, new
  <2>9. \A s \in Sources : \A i, j \in DOMAIN handled'[s] :
          i < j => Before(At(handled'[s][i]), handled'[s][i][2],
                          At(handled'[s][j]), handled'[s][j][2])
    BY <2>3, <2>7 DEF OrderOK, new
  <2>10. QED  BY <1>3, <2>8, <2>9 DEF OrderOK, At
<1>4. QED  BY <1>2, <1>3, HandledStays

OInv == BInv /\ HeightsOK /\ InRangeOK /\ PrefixOK /\ OrderOK

LEMMA OrderInit == Init => OInv
<1>1. Init => HeightsOK /\ InRangeOK /\ PrefixOK /\ OrderOK
  BY DEF Init, HeightsOK, InRangeOK, PrefixOK, OrderOK
<1>2. QED  BY <1>1, BackedInit DEF OInv

LEMMA OrderKept ==
  ASSUME ReorgDepth <= Confirmations, OInv, [Next]_vars
  PROVE  OInv'
<1>1. /\ BInv /\ TypeOK /\ BatchOK /\ RangeOK /\ SafeOK /\ FetchedOK
      /\ StoredOK /\ PendingOK /\ BackedOK
      /\ HeightsOK /\ InRangeOK /\ PrefixOK /\ OrderOK
  BY DEF OInv, BInv, SInv, TInv
<1>2. BInv'
  BY <1>1, BackedKept
<1>3. HeightsOK' /\ InRangeOK'
  BY <1>1, HeightsStep, InRangeStep
<1>4. PrefixOK'
  BY <1>1, PrefixStep
<1>5. OrderOK'
  BY <1>1, OrderStep
<1>6. QED  BY <1>2, <1>3, <1>4, <1>5 DEF OInv

(* Handlers overwrite, so they must run in the order of the chain; they do *)
(* as long as no reorg goes deeper than the confirmations, through retries *)
(* and restarts that fetch the same blocks again.                          *)
THEOREM HandlersRunInOrder ==
  ASSUME ReorgDepth <= Confirmations
  PROVE  Spec => []AppliedInOrder
<1>1. Init => OInv
  BY OrderInit
<1>2. OInv /\ [Next]_vars => OInv'
  BY OrderKept
<1>3. OInv => AppliedInOrder
  <2> SUFFICES ASSUME OInv, NEW s \in Sources,
                      NEW i \in DOMAIN handled[s], NEW j \in DOMAIN handled[s],
                      i < j
               PROVE  Precedes(handled[s][i], handled[s][j])
    BY DEF AppliedInOrder
  <2> DEFINE a == handled[s][i]
             b == handled[s][j]
  <2>1. /\ a \in DOMAIN rawEvents /\ b \in DOMAIN rawEvents
        /\ Before(At(a), a[2], At(b), b[2])
    BY DEF OInv, OrderOK
  <2>2. OnChain(a, rawEvents[a], At(a)) /\ OnChain(b, rawEvents[b], At(b))
    BY <2>1, StoredAt DEF OInv, BInv, SInv
  <2>3. QED  BY <2>1, <2>2 DEF OnChain, Before, Precedes
<1>4. QED  BY <1>1, <1>2, <1>3, PTL DEF Spec
-----------------------------------------------------------------------------
(* No transaction is in the chain twice.                                   *)

EndsOK ==
  /\ \A n \in DOMAIN chain : Len(chain[n].logs) <= chain[n].end
  /\ \A n, m \in DOMAIN chain :
       n < m => chain[n].end <= chain[m].end - Len(chain[m].logs)
  /\ chain # <<>> => \E h \in Histories : Agrees(h, chain)

(* The new chain is a beginning of the old one and a block.                *)
LEMMA ChainExtends ==
  ASSUME TypeOK, ChainStep
  PROVE  \E base \in Seq(Block) :
           /\ Extend(base) /\ reorgs' \in Nat
           /\ Len(base) <= Len(chain)
           /\ \A i \in 1 .. Len(base) : base[i] = chain[i]
<1>0. /\ chain \in Seq(Block) /\ Len(chain) \in Nat /\ reorgs \in Nat
      /\ MaxHeight \in Nat
  BY RunnerAssumption, LenProperties DEF TypeOK
<1>1. CASE Mine
  <2>1. Extend(chain) /\ reorgs' \in Nat /\ Len(chain) <= Len(chain)
    BY <1>0, <1>1 DEF Mine
  <2>2. QED  BY <1>0, <2>1
<1>2. ASSUME NEW depth \in 1 .. MaxHeight, Reorg(depth)
      PROVE  \E base \in Seq(Block) :
               /\ Extend(base) /\ reorgs' \in Nat
               /\ Len(base) <= Len(chain)
               /\ \A i \in 1 .. Len(base) : base[i] = chain[i]
  <2> DEFINE n == Len(chain) - depth
             base == SubSeq(chain, 1, n)
  <2>1. n \in Nat /\ n < Len(chain)
    BY <1>0, <1>2 DEF Reorg
  <2>2. base \in Seq(Block) /\ Len(base) = n
        /\ \A i \in 1 .. n : base[i] = chain[i]
    <3>1. \A i \in 1 .. n : chain[i] \in Block
      BY <1>0, <2>1, ElementOfSeq
    <3> HIDE DEF n
    <3>2. QED  BY <2>1, <3>1, SubSeqProperties
  <2>3. reorgs' \in Nat /\ Extend(base)
    BY <1>0, <1>2 DEF Reorg
  <2> HIDE DEF n, base
  <2>4. Len(base) <= Len(chain)
    BY <1>0, <2>1, <2>2
  <2>5. QED  BY <2>2, <2>3, <2>4
<1>3. QED  BY <1>1, <1>2 DEF ChainStep

LEMMA EndsStep ==
  ASSUME TypeOK, EndsOK, [Next]_vars
  PROVE  EndsOK'
<1>1. CASE UNCHANGED chain
  BY <1>1 DEF EndsOK, Agrees
<1>2. CASE ChainStep
  <2>1. PICK base \in Seq(Block) :
          /\ Extend(base) /\ reorgs' \in Nat
          /\ Len(base) <= Len(chain)
          /\ \A i \in 1 .. Len(base) : base[i] = chain[i]
    BY <1>2, ChainExtends
  <2>2. PICK h \in Histories, n \in 0 .. MaxBlockLogs :
          /\ Agrees(h, base)
          /\ Mined(base) + n <= Len(h)
          /\ chain' = Append(base, [hash |-> <<Len(base) + 1, reorgs'>>,
                                    logs |-> SubSeq(h, Mined(base) + 1,
                                                    Mined(base) + n),
                                    end |-> Mined(base) + n])
    BY <2>1 DEF Extend
  <2> DEFINE last == Len(base) + 1
             start == Mined(base)
             new == SubSeq(h, start + 1, start + n)
  <2>3. /\ h \in Seq(Logs) /\ Len(h) \in Nat /\ n \in Nat
        /\ Len(base) \in Nat /\ DOMAIN base = 1 .. Len(base)
        /\ Len(chain) \in Nat /\ DOMAIN chain = 1 .. Len(chain)
    BY RunnerAssumption, LenProperties DEF TypeOK
  <2>4. \A i \in 1 .. Len(base) :
          /\ i \in DOMAIN chain /\ base[i] = chain[i]
          /\ base[i].end \in Nat /\ Len(base[i].logs) \in Nat
    <3>1. \A i \in 1 .. Len(base) : base[i] \in Block
      BY ElementOfSeq
    <3>2. \A i \in 1 .. Len(base) : i \in 1 .. Len(chain)
      BY <2>1, <2>3
    <3>3. QED  BY <2>1, <2>3, <3>1, <3>2, LenProperties DEF Block
  <2>5. start \in Nat /\ \A i \in 1 .. Len(base) : base[i].end <= start
    <3>1. CASE base = <<>>
      BY <2>3, <3>1 DEF Mined
    <3>2. CASE base # <<>>
      <4>1. Len(base) \in 1 .. Len(base)
        BY <3>2, EmptySeq, <2>3
      <4>2. start = base[Len(base)].end
        BY <3>2 DEF Mined
      <4>3. ASSUME NEW i \in 1 .. Len(base), i # Len(base)
            PROVE  base[i].end <= start
        <5>1. i < Len(base)
          <6>1. Len(base) \in Nat
            BY <2>3
          <6>2. QED  BY <4>3, <6>1
        <5>2. base[i].end <= base[Len(base)].end - Len(base[Len(base)].logs)
          BY <2>4, <4>1, <5>1 DEF EndsOK
        <5> HIDE DEF start
        <5>3. QED  BY <2>4, <4>1, <4>2, <5>2
      <4> HIDE DEF start
      <4>4. QED  BY <2>4, <4>1, <4>2, <4>3
    <3>3. QED  BY <3>1, <3>2
  <2>6. new \in Seq(Logs) /\ Len(new) = n
    <3> HIDE DEF start
    <3>1. \A i \in start + 1 .. start + n : h[i] \in Logs
      BY <2>2, <2>3, <2>5, ElementOfSeq DEF start
    <3>2. QED  BY <2>3, <2>5, <3>1, SubSeqProperties
  <2> DEFINE block == [hash |-> <<Len(base) + 1, reorgs'>>, logs |-> new,
                       end |-> start + n]
  <2>7. block \in Block /\ block.logs = new /\ block.end = start + n
    <3> HIDE DEF start, new
    <3>1. QED  BY <2>1, <2>3, <2>5, <2>6 DEF Block
  <2>8. /\ DOMAIN chain' = 1 .. last
        /\ \A i \in 1 .. Len(base) : chain'[i] = base[i]
        /\ chain'[last].logs = new /\ chain'[last].end = start + n
    <3>1. chain' = Append(base, block)
      BY <2>2
    <3> HIDE DEF block
    <3>2. /\ Append(base, block) \in Seq(Block)
          /\ Len(Append(base, block)) = last
          /\ \A i \in 1 .. Len(base) : Append(base, block)[i] = base[i]
          /\ Append(base, block)[last] = block
      BY <2>7, AppendProperties
    <3>3. QED  BY <2>7, <3>1, <3>2, LenProperties
  <2>9. \A i \in 1 .. last : i = last \/ i \in 1 .. Len(base)
    BY <2>3
  <2>10. start + n <= Len(h)
    BY <2>2
  <2> HIDE DEF last, start, new
  <2>11. \A i \in 1 .. last : Len(chain'[i].logs) <= chain'[i].end
    <3>1. ASSUME NEW i \in 1 .. Len(base)
          PROVE  Len(chain'[i].logs) <= chain'[i].end
      BY <2>4, <2>8 DEF EndsOK
    <3>2. Len(chain'[last].logs) <= chain'[last].end
      <4>1. n \in Nat /\ start \in Nat
        BY <2>3, <2>5
      <4>2. n <= start + n
        BY <4>1
      <4>3. QED  BY <2>6, <2>8, <4>2
    <3>3. QED  BY <2>9, <3>1, <3>2
  <2>12. ASSUME NEW i \in 1 .. last, NEW j \in 1 .. last, i < j
         PROVE  chain'[i].end <= chain'[j].end - Len(chain'[j].logs)
    <3>1. i \in 1 .. Len(base)
      BY <2>3, <2>12 DEF last
    <3>2. CASE j \in 1 .. Len(base)
      BY <2>4, <2>8, <2>12, <3>1, <3>2 DEF EndsOK
    <3>3. CASE j = last
      <4>1. chain'[i].end <= start /\ chain'[j].end - Len(chain'[j].logs) = start
        BY <2>3, <2>5, <2>6, <2>8, <3>1, <3>3
      <4>2. QED  BY <4>1
    <3>4. QED  BY <2>9, <3>2, <3>3
  <2>13. Agrees(h, chain')
    <3>1. ASSUME NEW i \in 1 .. last
          PROVE  /\ chain'[i].end <= Len(h)
                 /\ chain'[i].logs = SubSeq(h, chain'[i].end
                                               - Len(chain'[i].logs) + 1,
                                            chain'[i].end)
      <4>1. CASE i = last
        <5>0. chain'[i].logs = new
          BY <2>8, <4>1
        <5>2. Len(chain'[i].logs) = n /\ chain'[i].end = start + n
          BY <2>6, <2>8, <4>1
        <5>3. new = SubSeq(h, start + 1, start + n)
          BY DEF new
        <5>4. chain'[i].end - Len(chain'[i].logs) + 1 = start + 1
          BY <5>2, <2>3, <2>5
        <5>5. QED  BY <2>10, <5>0, <5>2, <5>3, <5>4
      <4>2. CASE i \in 1 .. Len(base)
        BY <2>2, <2>3, <2>8, <4>2 DEF Agrees
      <4>3. QED  BY <2>9, <4>1, <4>2
    <3>2. QED  BY <2>8, <3>1 DEF Agrees
  <2>14. QED  BY <2>8, <2>11, <2>12, <2>13 DEF EndsOK, Agrees
<1>3. QED  BY <1>1, <1>2, WorldStays

(* Where the log of key k in block n is in the history of the chain.       *)
PlaceIn(k, n) == chain[n].end - Len(chain[n].logs) + k[2]

LEMMA PlaceInHistory ==
  ASSUME TypeOK, EndsOK, NEW h \in Histories, Agrees(h, chain),
         NEW l, NEW i \in DOMAIN chain, Placed(l, i)
  PROVE  /\ l[2] \in 1 .. Len(chain[i].logs)
         /\ Len(chain[i].logs) \in Nat /\ chain[i].end \in Nat
         /\ i \in Nat
         /\ Len(chain[i].logs) <= chain[i].end
         /\ PlaceIn(l, i) \in DOMAIN h /\ h[PlaceIn(l, i)] = l[1]
<1>0. h \in Seq(Logs) /\ Len(h) \in Nat /\ DOMAIN h = 1 .. Len(h)
  BY RunnerAssumption, LenProperties
<1> DEFINE ls == chain[i].logs
           from == chain[i].end - Len(ls) + 1
<1>1. chain[i] \in Block /\ i \in Nat
  BY LenProperties, ElementOfSeq DEF TypeOK
<1>2. ls \in Seq(Logs) /\ chain[i].end \in Nat
  BY <1>1 DEF Block
<1>3. Len(ls) \in Nat /\ DOMAIN ls = 1 .. Len(ls)
  BY <1>2, LenProperties
<1>4. l[2] \in 1 .. Len(ls) /\ ls[l[2]] = l[1]
  BY <1>3 DEF Placed
<1>5. /\ Len(ls) <= chain[i].end /\ chain[i].end <= Len(h)
      /\ ls = SubSeq(h, from, chain[i].end)
  BY DEF EndsOK, Agrees
<1>6. from \in Int /\ from >= 1 /\ chain[i].end - from + 1 = Len(ls)
      /\ from + l[2] - 1 \in 1 .. Len(h)
      /\ from + l[2] - 1 = PlaceIn(l, i)
  <2>1. PICK end \in Nat : end = chain[i].end
    BY <1>2
  <2>2. PICK len \in Nat : len = Len(ls)
    BY <1>3
  <2>3. PICK all \in Nat : all = Len(h)
    BY <1>0
  <2>4. PICK x \in 1 .. len : x = l[2]
    BY <1>4, <2>2
  <2>5. len <= end /\ end <= all
    BY <1>5, <2>1, <2>2, <2>3
  <2>6. /\ end - len + 1 \in Int /\ end - len + 1 >= 1
        /\ end - (end - len + 1) + 1 = len
        /\ end - len + 1 + x - 1 \in 1 .. all
        /\ end - len + 1 + x - 1 = end - len + x
    BY <2>5
  <2>7. QED  BY <2>1, <2>2, <2>3, <2>4, <2>6 DEF PlaceIn
<1>7. \A x \in from .. chain[i].end : h[x] \in Logs
  BY <1>0, <1>2, <1>5, <1>6, ElementOfSeq
<1>8. \A x \in 1 .. chain[i].end - from + 1 :
        SubSeq(h, from, chain[i].end)[x] = h[from + x - 1]
  <2> HIDE DEF from
  <2>1. QED  BY <1>2, <1>6, <1>7, SubSeqProperties
<1>9. ls[l[2]] = h[from + l[2] - 1]
  BY <1>4, <1>5, <1>6, <1>8
<1>10. QED  BY <1>0, <1>1, <1>2, <1>3, <1>4, <1>5, <1>6, <1>9

LEMMA PlacesOrdered ==
  ASSUME TypeOK, EndsOK, NEW h \in Histories, Agrees(h, chain),
         NEW j, NEW n \in DOMAIN chain, Placed(j, n),
         NEW k, NEW m \in DOMAIN chain, Placed(k, m),
         Before(n, j[2], m, k[2])
  PROVE  PlaceIn(j, n) < PlaceIn(k, m)
<1>1. /\ chain[n].end \in Nat /\ Len(chain[n].logs) \in Nat
      /\ j[2] \in 1 .. Len(chain[n].logs)
  BY PlaceInHistory
<1>2. /\ chain[m].end \in Nat /\ Len(chain[m].logs) \in Nat
      /\ k[2] \in 1 .. Len(chain[m].logs)
  BY PlaceInHistory
<1>3. CASE n = m /\ j[2] < k[2]
  BY <1>1, <1>2, <1>3 DEF PlaceIn
<1>4. CASE n < m
  <2>1. chain[n].end <= chain[m].end - Len(chain[m].logs)
    BY <1>4 DEF EndsOK
  <2>2. \A endN, endM, lenN, lenM \in Nat :
          \A x \in 1 .. lenN, y \in 1 .. lenM :
            endN <= endM - lenM => endN - lenN + x < endM - lenM + y
    OBVIOUS
  <2>3. QED  BY <1>1, <1>2, <2>1, <2>2 DEF PlaceIn
<1>5. QED  BY <1>3, <1>4 DEF Before

LEMMA MinedOnce ==
  ASSUME TypeOK, EndsOK,
         NEW j, NEW n \in DOMAIN chain, Placed(j, n),
         NEW k, NEW m \in DOMAIN chain, Placed(k, m),
         Before(n, j[2], m, k[2])
  PROVE  j[1] # k[1]
<1>1. PICK h \in Histories : Agrees(h, chain)
  <2>1. chain # <<>>
    OBVIOUS
  <2>2. QED  BY <2>1 DEF EndsOK
<1>2. h \in Seq(Logs) /\ \A a, b \in DOMAIN h : h[a] = h[b] => a = b
  BY RunnerAssumption
<1>3. /\ PlaceIn(j, n) \in DOMAIN h /\ h[PlaceIn(j, n)] = j[1]
      /\ PlaceIn(k, m) \in DOMAIN h /\ h[PlaceIn(k, m)] = k[1]
  BY <1>1, PlaceInHistory
<1>4. PlaceIn(j, n) < PlaceIn(k, m)
  BY <1>1, PlacesOrdered
<1>5. PlaceIn(j, n) \in Nat /\ PlaceIn(k, m) \in Nat
  BY <1>2, <1>3, LenProperties
<1>6. QED  BY <1>2, <1>3, <1>4, <1>5

(* A retry, a restart or a reorg makes the runner fetch logs again, a reorg *)
(* maybe under another key; no event is applied twice, as long as no reorg *)
(* goes deeper than the confirmations.                                     *)
THEOREM EventsHandledOnce ==
  ASSUME ReorgDepth <= Confirmations
  PROVE  Spec => []HandledOnce
<1> DEFINE Inv == OInv /\ EndsOK
<1>1. Init => Inv
  <2>1. Init => EndsOK
    BY DEF Init, EndsOK
  <2>2. QED  BY <2>1, OrderInit
<1>2. Inv /\ [Next]_vars => Inv'
  <2> SUFFICES ASSUME Inv, [Next]_vars PROVE Inv'
    OBVIOUS
  <2>1. TypeOK
    BY DEF OInv, BInv, SInv, TInv
  <2>2. QED  BY <2>1, OrderKept, EndsStep
<1>3. Inv => HandledOnce
  <2> SUFFICES ASSUME Inv, NEW s \in Sources
               PROVE  /\ Range1(handled[s]) \subseteq DOMAIN rawEvents
                      /\ \A i, j \in DOMAIN handled[s] :
                           handled[s][i][1] = handled[s][j][1] => i = j
    BY DEF HandledOnce
  <2>1. TypeOK /\ OrderOK /\ StoredOK /\ HeightsOK /\ EndsOK
    BY DEF OInv, BInv, SInv, TInv
  <2>2. Range1(handled[s]) \subseteq DOMAIN rawEvents
    BY <2>1 DEF OrderOK, Range1
  <2>3. ASSUME NEW i \in DOMAIN handled[s], NEW j \in DOMAIN handled[s],
               i < j
        PROVE  handled[s][i][1] # handled[s][j][1]
    <3> DEFINE a == handled[s][i]
               b == handled[s][j]
    <3>1. /\ a \in DOMAIN rawEvents /\ b \in DOMAIN rawEvents
          /\ Before(At(a), a[2], At(b), b[2])
      BY <2>1, <2>3 DEF OrderOK
    <3>2. OnChain(a, rawEvents[a], At(a)) /\ OnChain(b, rawEvents[b], At(b))
      BY <2>1, <3>1, StoredAt
    <3>3. Placed(a, At(a)) /\ Placed(b, At(b))
          /\ At(a) \in DOMAIN chain /\ At(b) \in DOMAIN chain
      BY <3>2 DEF OnChain, Placed
    <3> HIDE DEF a, b
    <3>4. a[1] # b[1]
      BY <2>1, <3>1, <3>3, MinedOnce
    <3>5. QED  BY <3>4 DEF a, b
  <2>4. DOMAIN handled[s] \subseteq Nat
    BY <2>1, LenProperties DEF TypeOK
  <2>5. \A i, j \in DOMAIN handled[s] : i < j \/ i = j \/ j < i
    BY <2>4
  <2>6. \A i, j \in DOMAIN handled[s] :
          handled[s][i][1] = handled[s][j][1] => i = j
    BY <2>3, <2>5
  <2>7. QED  BY <2>2, <2>6
<1> HIDE DEF Inv
<1>4. QED  BY <1>1, <1>2, <1>3, PTL DEF Spec
-----------------------------------------------------------------------------
(* What interruptions cost.                                                *)

BeingApplied == IF pc = "handle" THEN {Key(First(batch))} ELSE {}
Applied == UNION {Range1(handled[s]) : s \in Sources}
Lost == DOMAIN rawEvents \ (Applied \cup BeingApplied)

(* What was applied stays so, and an event that is applied now is added.   *)
LEMMA AppliedGrows ==
  ASSUME TypeOK, BatchOK, [Next]_vars
  PROVE  /\ Applied \subseteq Applied'
         /\ batch # {} /\ Apply(First(batch)) => Key(First(batch)) \in Applied'
<1>1. ASSUME batch # {}, Apply(First(batch))
      PROVE  Applied \subseteq Applied' /\ Key(First(batch)) \in Applied'
  <2> DEFINE k == Key(First(batch))
             h == handled[source]
  <2>1. source \in Sources /\ h \in Seq(Keys) /\ k \in Keys
    BY <1>1, FirstTyped DEF TypeOK
  <2>2. /\ handled'[source] = Append(h, k)
        /\ \A s \in Sources \ {source} : handled'[s] = handled[s]
    BY <1>1, <2>1 DEF Apply, TypeOK
  <2> HIDE DEF k, h
  <2>3. Range1(h) \subseteq Range1(Append(h, k)) /\ k \in Range1(Append(h, k))
    <3>1. Len(h) \in Nat /\ DOMAIN h = 1 .. Len(h)
      BY <2>1, LenProperties
    <3>2. /\ DOMAIN Append(h, k) = 1 .. Len(h) + 1
          /\ \A i \in 1 .. Len(h) : Append(h, k)[i] = h[i]
          /\ Append(h, k)[Len(h) + 1] = k
      BY <2>1, AppendProperties, LenProperties
    <3>3. 1 .. Len(h) \subseteq 1 .. Len(h) + 1 /\ Len(h) + 1 \in 1 .. Len(h) + 1
      BY <3>1
    <3> HIDE DEF Range1
    <3>4. Range1(h) \subseteq Range1(Append(h, k))
      BY <3>1, <3>2, <3>3 DEF Range1
    <3>5. k \in Range1(Append(h, k))
      BY <3>2, <3>3 DEF Range1
    <3>6. QED  BY <3>4, <3>5
  <2>4. \A s \in Sources : Range1(handled[s]) \subseteq Range1(handled'[s])
    BY <2>2, <2>3 DEF h
  <2>5. k \in Range1(handled'[source])
    BY <2>2, <2>3
  <2>6. Applied' = UNION {Range1(handled'[s]) : s \in Sources}
    BY DEF Applied, Range1
  <2> HIDE DEF Range1
  <2>7. k \in Applied'
    BY <2>1, <2>5, <2>6
  <2>8. Applied \subseteq Applied'
    BY <2>4, <2>6 DEF Applied
  <2>9. QED  BY <2>7, <2>8 DEF k
<1>2. CASE UNCHANGED handled
  BY <1>1, <1>2 DEF Applied, Range1
<1>3. pc = "handle" => batch # {}
  BY DEF BatchOK
<1>4. QED  BY <1>1, <1>2, <1>3, HandledStays

LEMMA FailuresNat == TypeOK => failures \in Nat
<1>1. MaxFailures \in Nat
  BY RunnerAssumption
<1>2. TypeOK => failures \in 0 .. MaxFailures
  BY DEF TypeOK
<1>3. QED  BY <1>1, <1>2

LEMMA LossStep ==
  ASSUME TypeOK, BatchOK, [Next]_vars
  PROVE  \/ Lost' \subseteq Lost /\ failures' \in Nat /\ failures <= failures'
         \/ /\ Lost' \subseteq Lost \cup {Key(First(batch))}
            /\ failures' = failures + 1
<1>0. failures \in Nat /\ Applied \subseteq Applied'
  BY AppliedGrows, FailuresNat
<1>1. CASE Fail
  <2>1. failures' = failures + 1
    BY <1>1 DEF Fail
  <2>2. DOMAIN rawEvents' \subseteq DOMAIN rawEvents \cup {Key(First(batch))}
    <3>1. CASE UNCHANGED rawEvents
      BY <3>1
    <3>2. CASE Store(First(batch))
      BY <3>2 DEF Store
    <3>3. QED  BY <1>1, <3>1, <3>2 DEF Fail
  <2>3. QED  BY <1>0, <2>1, <2>2 DEF Lost, BeingApplied
<1>2. CASE ~ Fail
  <2>1. UNCHANGED failures
    BY <1>2, ChainMoves
       DEF Next, RunnerStep, Begin, CheckCursor, ReadHead, Fetch, DecodeFails,
           SkipLog, InsertOnce, Handle, ReadHash, SaveCursor, vars
  <2>2. CASE Handle
    <3>1. /\ UNCHANGED rawEvents /\ pc = "handle" /\ batch # {}
          /\ Apply(First(batch))
      BY <2>2 DEF Handle, BatchOK
    <3>2. Key(First(batch)) \in Applied'
      BY <3>1, AppliedGrows
    <3>3. QED  BY <1>0, <2>1, <3>1, <3>2 DEF Lost, BeingApplied
  <2>3. CASE InsertOnce /\ ~ UNCHANGED rawEvents
    <3>1. /\ pc' = "handle" /\ UNCHANGED batch
          /\ DOMAIN rawEvents' = DOMAIN rawEvents \cup {Key(First(batch))}
          /\ pc = "logs"
      BY <2>3 DEF InsertOnce, Store
    <3>2. BeingApplied' = {Key(First(batch))} /\ BeingApplied = {}
      BY <3>1 DEF BeingApplied
    <3>3. QED  BY <1>0, <2>1, <3>1, <3>2 DEF Lost
  <2>4. CASE ~ Handle /\ ~ (InsertOnce /\ ~ UNCHANGED rawEvents)
    <3>1. UNCHANGED rawEvents /\ (pc = "handle" => UNCHANGED <<pc, batch>>)
      BY <1>2, <2>4, ChainMoves
         DEF Next, RunnerStep, Begin, CheckCursor, ReadHead, Fetch, DecodeFails,
             SkipLog, InsertOnce, ReadHash, SaveCursor, vars, tables, locals
    <3>2. BeingApplied \subseteq BeingApplied'
      BY <3>1 DEF BeingApplied
    <3>3. QED  BY <1>0, <2>1, <3>1, <3>2 DEF Lost
  <2>5. QED  BY <2>2, <2>3, <2>4
<1>3. QED  BY <1>1, <1>2

LossOK == IsFiniteSet(Lost) /\ Cardinality(Lost) <= failures

LEMMA LossInit == Init => LossOK
<1> SUFFICES ASSUME Init PROVE LossOK
  OBVIOUS
<1>1. Lost = {} /\ failures = 0
  BY DEF Init, Lost
<1>2. QED  BY <1>1, FS_EmptySet DEF LossOK

LEMMA LossKept ==
  ASSUME TInv, LossOK, [Next]_vars
  PROVE  LossOK'
<1>0. /\ TypeOK /\ BatchOK /\ failures \in Nat
      /\ IsFiniteSet(Lost) /\ Cardinality(Lost) \in Nat
      /\ Cardinality(Lost) <= failures
  <2>1. TypeOK /\ BatchOK
    BY DEF TInv
  <2>2. QED  BY <2>1, FailuresNat, FS_CardinalityType DEF LossOK
<1>1. CASE /\ Lost' \subseteq Lost /\ failures' \in Nat
           /\ failures <= failures'
  <2>1. IsFiniteSet(Lost') /\ Cardinality(Lost') <= Cardinality(Lost)
    BY <1>0, <1>1, FS_Subset
  <2>2. Cardinality(Lost') \in Nat
    BY <2>1, FS_CardinalityType
  <2>3. QED  BY <1>0, <1>1, <2>1, <2>2 DEF LossOK
<1>2. CASE /\ Lost' \subseteq Lost \cup {Key(First(batch))}
           /\ failures' = failures + 1
  <2> DEFINE more == Lost \cup {Key(First(batch))}
  <2>1. IsFiniteSet(more) /\ Cardinality(more) <= Cardinality(Lost) + 1
    BY <1>0, FS_AddElement
  <2>2. IsFiniteSet(Lost') /\ Cardinality(Lost') <= Cardinality(more)
    BY <1>2, <2>1, FS_Subset
  <2>3. Cardinality(Lost') \in Nat /\ Cardinality(more) \in Nat
    BY <2>1, <2>2, FS_CardinalityType
  <2> HIDE DEF more
  <2>4. QED  BY <1>0, <1>2, <2>1, <2>2, <2>3 DEF LossOK
<1>3. QED  BY <1>0, <1>1, <1>2, LossStep

(* A call that fails or a stop of the process makes the runner drop at     *)
(* most one event that it has stored: one more is never applied only after *)
(* one more failure, however deep the chain reorganises.                   *)
THEOREM InterruptionsBoundLoss == Spec => []LossBounded
<1> DEFINE Inv == TInv /\ LossOK
<1>1. Init => Inv
  BY TypeInit, LossInit
<1>2. Inv /\ [Next]_vars => Inv'
  BY TypeStep, LossKept
<1>3. Inv => LossBounded
  BY DEF LossOK, LossBounded, Lost, Applied, BeingApplied
<1> HIDE DEF Inv
<1>4. QED  BY <1>1, <1>2, <1>3, PTL DEF Spec
-----------------------------------------------------------------------------
(***************************************************************************)
(* Why a pass ends: the sources are taken in order, the stages of one in   *)
(* order, and its batch only gets smaller.                                 *)
(***************************************************************************)
Stage(step) ==
  CASE step = "check" -> 1 [] step = "head" -> 2 [] step = "fetch" -> 3
    [] step \in {"logs", "handle"} -> 4 [] step = "save" -> 5

Smaller ==
  \/ batch' \subseteq batch /\ batch' # batch
  \/ batch' = batch /\ pc = "logs" /\ pc' = "handle"

Onward ==
  \/ pc' = "idle"
  \/ source < source'
  \/ /\ source' = source
     /\ Stage(pc) < Stage(pc') \/ (Stage(pc') = Stage(pc) /\ Smaller)

LEMMA StepIsOnward ==
  ASSUME TInv, RunnerStep, pc # "idle"
  PROVE  Onward
<1> USE DEF TInv
<1>1. source \in Nat /\ source' = source + 1 => source < source'
  OBVIOUS
<1>2. source \in Nat
  BY RunnerAssumption DEF TypeOK, Sources
<1>3. Abandon \/ NextSource => Onward
  BY <1>1, <1>2 DEF Abandon, NextSource, Onward
<1>4. CASE CheckCursor \/ ReadHead \/ Fetch \/ ReadHash
  <2>1. \/ Abandon \/ NextSource
        \/ /\ source' = source
           /\ \/ pc = "check" /\ pc' = "head"
              \/ pc = "head" /\ pc' = "fetch"
              \/ pc = "fetch" /\ pc' = "logs"
              \/ pc = "logs" /\ pc' = "save"
    <3> HIDE DEF TInv
    <3>1. CASE CheckCursor
      BY <3>1 DEF CheckCursor
    <3>2. CASE ReadHead
      BY <3>2 DEF ReadHead
    <3>3. CASE Fetch \/ ReadHash
      BY <3>3 DEF Fetch, ReadHash
    <3>4. QED
      BY <1>4, <3>1, <3>2, <3>3
  <2>2. Stage("check") < Stage("head") /\ Stage("head") < Stage("fetch")
        /\ Stage("fetch") < Stage("logs") /\ Stage("logs") < Stage("save")
    BY DEF Stage
  <2>3. QED
    BY <1>3, <2>1, <2>2 DEF Onward
<1>5. CASE DecodeFails \/ SaveCursor
  BY <1>3, <1>5 DEF DecodeFails, SaveCursor
<1>6. ASSUME pc \in {"logs", "handle"}, pc' \in {"logs", "handle"},
             source' = source, batch # {}, batch' = Rest
      PROVE  Onward
  <2>1. First(batch) \in batch
    BY <1>6, FirstTyped
  <2>2. Smaller
    BY <1>6, <2>1 DEF Rest, Smaller
  <2>3. QED
    BY <1>6, <2>2 DEF Onward, Stage
<1>7. CASE SkipLog \/ Handle
  <2>1. batch # {}
    BY <1>7 DEF SkipLog, Handle, BatchOK
  <2>2. QED
    BY <1>6, <1>7, <2>1 DEF SkipLog, Handle
<1>8. CASE InsertOnce
  BY <1>6, <1>8 DEF InsertOnce, Onward, Stage, Smaller
<1>9. QED
  BY <1>4, <1>5, <1>7, <1>8 DEF RunnerStep, Begin

(* RunOnce never repeats itself: every call of a pass takes it to its end, *)
(* to the next source, to a later stage, or leaves fewer logs in hand, and *)
(* neither a failure nor the chain takes it back.  A ticker that waits for *)
(* RunOnce waits for so many calls at most.                                *)
THEOREM PassesOnlyAdvance ==
  Spec => [][pc # "idle" =>
               /\ RunnerStep => Onward
               /\ UNCHANGED <<pc, source, batch>> \/ Onward]_vars
<1> DEFINE Advance == pc # "idle" =>
                        /\ RunnerStep => Onward
                        /\ UNCHANGED <<pc, source, batch>> \/ Onward
<1>1. ASSUME TInv, Next PROVE Advance
  <2>1. Fail => Onward
    BY DEF Fail, Abandon, Onward
  <2>2. ChainStep => UNCHANGED <<pc, source, batch>>
    BY DEF ChainStep, Mine, Reorg, locals
  <2>3. QED
    BY <1>1, <2>1, <2>2, StepIsOnward DEF Next
<1>2. TInv /\ [Next]_vars => [Advance]_vars
  BY <1>1
<1> HIDE DEF Advance
<1>3. Spec => [][Advance]_vars
  BY <1>2, TypeInit, TypeStep, PTL DEF Spec
<1>4. QED
  BY <1>3 DEF Advance
=============================================================================
