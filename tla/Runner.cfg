\* Two sources, reorgs no deeper than the confirmations, failures between any two
\* calls, logs that the decoders skip or reject.
SPECIFICATION FairSpec
CONSTANTS
  create = create
  bid = bid
  mint = mint
  approval = approval
  other = other
  NumSources = 2
  Logs = {create, bid, mint, approval, other}
  SourceOf <- MCSourceOf
  StartBlock <- Staggered
  Skipped = {approval}
  Undecodable = {other}
  Confirmations = 2
  BatchSize = 2
  ReorgDepth = 2
  Histories <- WithOther
  MaxBlockLogs = 2
  MaxHeight = 4
  MaxReorgs = 1
  MaxFailures = 1
INVARIANTS HandledOnce StoredIsCanonical CursorBacked AppliedInOrder LossBounded
PROPERTIES CursorAdvances EventuallyCaughtUp
