\* The tables under a reorg, and a failure between or after any two statements;
\* an auction from before V3, one that is cancelled, and events without a table.
SPECIFICATION FairIndexSpec
CONSTANTS
  upgraded = upgraded
  opened0 = opened0
  bid0 = bid0
  escrowed = escrowed
  opened1 = opened1
  low1 = low1
  high1 = high1
  taken = taken
  ended1 = ended1
  returned = returned
  cancelled1 = cancelled1
  fees = fees
  funded = funded
  alice = alice
  bob = bob
  house = house
  eth = eth
  nftContract = nftContract
  gem = gem
  NumSources = 3
  Logs = {upgraded, opened0, bid0, escrowed, opened1, low1, high1, taken, ended1, returned, cancelled1, fees, funded}
  SourceOf <- MCSourceOf
  StartBlock <- MCStartBlock
  Skipped = {upgraded}
  Undecodable = {}
  Confirmations = 1
  BatchSize = 2
  ReorgDepth = 1
  Histories <- MCHistories
  Abi <- MCAbi
  Emitted <- MCEmitted
  Absent = absent
  AuctionIds = {0, 1}
  Items = {gem}
  Accounts = {alice, bob, house}
  Nobody = nobody
  MaxBlockLogs = 3
  MaxHeight = 3
  MaxReorgs = 1
  MaxFailures = 1
INVARIANTS IndexTypeOK RowsBackedByHistory ExactWhenCaughtUp
PROPERTIES RowsOnlyAdvance EventuallyExact
