\* A market from V1 or from V3 on: fee rates up to 100% changed while bids stand,
\* paid to an account, to the market itself or to the owner; ownership moves;
\* tokens sent to the market; bad rounds, delisting, an amount that rounds to 0
\* USD; an account that refuses ETH and one that refuses NFTs.
SPECIFICATION Spec
CONSTANTS
  alice = alice
  bob = bob
  carol = carol
  usdt = usdt
  gem = gem
  ring = ring
  nft = nft
  usdt_feed = usdt_feed
  eth_feed = eth_feed
  Accounts = {alice, bob, carol}
  Market = market
  Zero = zero
  Native = eth
  Erc20s = {usdt}
  Items = {gem}
  ContractOf <- MCContractOf
  Feeds = {usdt_feed}
  FeedUnit <- MCFeedUnit
  UsdUnit = 1
  BpsDenominator = 4
  EthReceivers = {alice, bob}
  NftReceivers = {alice, carol}
  Funding <- Rich
  InitialOwner <- MCInitialOwner
  InitialImpls = {1, 3}
  Deployers = {alice}
  Listings <- Relist
  FeeRecipients = {zero, carol, market}
  FeeRates = {0, 3, 4, 5}
  NewOwners = {bob}
  Renouncers = {bob}
  Durations = {1}
  StartTimes = {1, 2}
  EndTimes = {2, 3}
  StartingPrices = {0, 2}
  Amounts = {1, 2}
  Rounds <- AllRounds
  NftRecipients = {market}
  Gifts = {1}
  MaxAuctions = 1
  MaxTime = 2
INVARIANTS TypeOK EscrowExact NothingStuck
PROPERTIES BidsKeepWorth ImplementsEnglishAuction
CHECK_DEADLOCK FALSE
