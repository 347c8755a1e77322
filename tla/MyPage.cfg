\* Two accounts, one of them the administrator; an auction of hers, a token of hers
\* and one of somebody else.
SPECIFICATION FairPageSpec
CONSTANTS
  alice = alice
  bob = bob
  carol = carol
  WalletAccounts = {alice, bob}
  Others = {carol}
  TokenAdmin = alice
  Refreshes = {r1}
  MaxScan = 2
  Start = 0
  End = 1
  Recipients = {bob}
  Nobody = nobody
  FirstSelected = {alice}
  NumTokens = 2
  FirstHolders <- MCFirstHolders
  NumLots = 1
  FirstSellers <- MCFirstSellers
  MaxTokens = 3
  MaxLots = 2
  MaxTime = 1
  MaxMoves = 1
  MaxSwitches = 1
  MaxFailures = 1
  MaxClicks = 3
INVARIANTS PageTypeOK ScannedRowsReal ScanComplete
PROPERTIES ConnectConsistent ButtonsReturn
CHECK_DEADLOCK FALSE
