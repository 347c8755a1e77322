\* Two flows of one browser, two accounts, one change of account; an outsider who
\* sells and is minted for.
SPECIFICATION FairClientSpec
CONSTANTS
  alice = alice
  bob = bob
  carol = carol
  usdt = usdt
  nft = nft
  feed = feed
  NumFlows = 2
  WalletAccounts = {alice, bob}
  Outsiders = {carol}
  NftAdmin = alice
  PaymentToken = usdt
  Minted = 2
  NoToken = none
  Accounts = {alice, bob, carol}
  Market = market
  Zero = zero
  Native = eth
  Erc20s = {usdt}
  Items = {0, 1, 2}
  ContractOf <- MCContractOf
  Feeds = {feed}
  FeedUnit <- MCFeedUnit
  UsdUnit = 1
  BpsDenominator = 4
  EthReceivers = {alice, bob, carol}
  NftReceivers = {alice, bob, carol}
  Funding <- MCFunding
  InitialOwner <- MCInitialOwner
  InitialImpls = {3}
  Deployers = {alice}
  Listings = {}
  FeeRecipients = {}
  FeeRates = {}
  NewOwners = {}
  Renouncers = {}
  Durations = {}
  StartTimes = {1}
  EndTimes = {2}
  StartingPrices = {0}
  Amounts = {1, 2}
  Rounds <- MCRounds
  NftRecipients = {}
  Gifts = {}
  MaxAuctions = 2
  MaxTime = 2
  MaxSwitches = 1
INVARIANTS ClientTypeOK OneRequest AllowanceBounded BidBacked
PROPERTIES MintedForAdmin FlowsFinish
CHECK_DEADLOCK FALSE
