\* Auctions opened under V1 that are bid on and settled under V1, V2 and V3, and
\* a market deployed at V3: scheduled auctions of two items, two bidders,
\* cancellation and relisting, by the next owner too; bids in ETH and an ERC20,
\* with a fee.  The market's events are recorded.
SPECIFICATION EventSpec
CONSTANTS
  alice = alice
  bob = bob
  carol = carol
  usdt = usdt
  gem = gem
  ring = ring
  nft = nft
  usdt_feed = usdt_feed
  eth_feed = eth_feed
  Accounts = {alice, bob, carol}
  Market = market
  Zero = zero
  Native = eth
  Erc20s = {usdt}
  Items = {gem, ring}
  ContractOf <- MCContractOf
  Feeds = {usdt_feed}
  FeedUnit <- MCFeedUnit
  UsdUnit = 1
  BpsDenominator = 4
  EthReceivers = {alice, bob, carol}
  NftReceivers = {alice, bob, carol}
  Funding <- Rich
  InitialOwner <- MCInitialOwner
  InitialImpls = {1, 3}
  Deployers = {alice}
  Listings <- ListBoth
  FeeRecipients = {zero}
  FeeRates = {1}
  NewOwners = {}
  Renouncers = {}
  Durations = {1}
  StartTimes = {1, 2}
  EndTimes = {2, 3}
  StartingPrices = {0, 2}
  Amounts = {1, 2}
  Rounds <- OnePrice
  NftRecipients = {alice}
  Gifts = {}
  MaxAuctions = 2
  MaxTime = 3
INVARIANTS Custody ActiveIndexExact LotsConsistent EventsInOrder
PROPERTIES EndedIsFinal
CHECK_DEADLOCK FALSE
