\* A call that fails after the raw event was stored.
SPECIFICATION Spec
CONSTANTS
  create = create
  bid = bid
  mint = mint
  approval = approval
  other = other
  NumSources = 2
  Logs = {create, bid, mint}
  SourceOf <- MCSourceOf
  StartBlock <- FromFirst
  Skipped = {}
  Undecodable = {}
  Confirmations = 1
  BatchSize = 2
  ReorgDepth = 1
  Histories <- MCHistories
  MaxBlockLogs = 2
  MaxHeight = 4
  MaxReorgs = 0
  MaxFailures = 1
INVARIANTS CompleteToCursor
