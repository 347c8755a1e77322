\* A page that has shown one account, connecting again with another.
SPECIFICATION PageSpec
CONSTANTS
  alice = alice
  bob = bob
  carol = carol
  WalletAccounts = {alice, bob}
  Others = {carol}
  TokenAdmin = alice
  Refreshes = {r1}
  MaxScan = 2
  Start = 0
  End = 1
  Recipients = {bob}
  Nobody = nobody
  FirstSelected = {alice}
  NumTokens = 2
  FirstHolders <- MCFirstHolders
  NumLots = 1
  FirstSellers <- MCFirstSellers
  MaxTokens = 3
  MaxLots = 2
  MaxTime = 1
  MaxMoves = 0
  MaxSwitches = 1
  MaxFailures = 1
  MaxClicks = 3
INVARIANTS OneWallet
CHECK_DEADLOCK FALSE
