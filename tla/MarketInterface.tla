--------------------------- MODULE MarketInterface ---------------------------
(***************************************************************************)
(* The interfaces of the contracts, as the compiler gave them to the       *)
(* TypeChain bindings of the scripts, and the ABI files that front end and *)
(* indexer read instead: of a function its arguments, results and          *)
(* mutability, of an event its arguments with those that are topics, of an *)
(* error its arguments.  A call is dispatched by name and argument types,  *)
(* its results are decoded by the caller's interface, a log by the         *)
(* reader's.  Names of arguments and bytecode are left out.                *)
(***************************************************************************)
EXTENDS Sequences

LOCAL U == "uint256"
LOCAL A == "address"

View(in, out) == [in |-> in, out |-> out, mutability |-> "view"]
Pure(in, out) == [View(in, out) EXCEPT !.mutability = "pure"]
Send(in) == [View(in, <<>>) EXCEPT !.mutability = "nonpayable"]
SendFor(in, out) == [View(in, out) EXCEPT !.mutability = "nonpayable"]
Payable(in) == [View(in, <<>>) EXCEPT !.mutability = "payable"]

Log(topics, data) == [topics |-> topics, data |-> data]

(* What a contract declares beside what it inherits, or instead of it.     *)
Inheriting(base, own) ==
  [name \in DOMAIN own \cup DOMAIN base |->
     IF name \in DOMAIN own THEN own[name] ELSE base[name]]
-----------------------------------------------------------------------------
(* AuctionMarket, the first implementation.                                *)

V1Functions ==
  [NATIVE_TOKEN |-> View(<<>>, <<A>>),
   UPGRADE_INTERFACE_VERSION |-> View(<<>>, <<"string">>),
   USD_DECIMALS |-> View(<<>>, <<"uint8">>),
   auctionCount |-> View(<<>>, <<U>>),
   auctions |-> View(<<U>>, <<A, A, U, "uint64", "bool", A, A, U, U>>),
   bidWithEth |-> Payable(<<U>>),
   bidWithToken |-> Payable(<<U, A, U>>),
   createAuction |-> SendFor(<<A, U, "uint64">>, <<U>>),
   endAuction |-> Send(<<U>>),
   initialize |-> Send(<<A>>),
   onERC721Received |-> SendFor(<<A, A, U, "bytes">>, <<"bytes4">>),
   owner |-> View(<<>>, <<A>>),
   paymentTokens |-> View(<<A>>, <<A, "uint8", "bool">>),
   proxiableUUID |-> View(<<>>, <<"bytes32">>),
   quoteBidUsd |-> View(<<A, U>>, <<U>>),
   renounceOwnership |-> Send(<<>>),
   setPaymentToken |-> Send(<<A, A, "uint8", "bool">>),
   transferOwnership |-> Send(<<A>>),
   upgradeToAndCall |-> Payable(<<A, "bytes">>)]

V1Events ==
  [AuctionCreated |-> Log(<<U, A, A>>, <<U>>),
   AuctionEnded |-> Log(<<U, A, A>>, <<U>>),
   BidPlaced |-> Log(<<U, A, A>>, <<U, U>>),
   Initialized |-> Log(<<>>, <<"uint64">>),
   OwnershipTransferred |-> Log(<<A, A>>, <<>>),
   PaymentTokenUpdated |-> Log(<<A, A>>, <<"uint8", "bool">>),
   Upgraded |-> Log(<<A>>, <<>>)]

V1Errors ==
  [AddressEmptyCode |-> <<A>>, AuctionAlreadyEnded |-> <<>>,
   AuctionDoesNotExist |-> <<>>, AuctionExpired |-> <<>>,
   AuctionStillActive |-> <<>>, BidTooLow |-> <<>>,
   ERC1967InvalidImplementation |-> <<A>>, ERC1967NonPayable |-> <<>>,
   FailedCall |-> <<>>, IncorrectEthValue |-> <<>>, InvalidAddress |-> <<>>,
   InvalidAmount |-> <<>>, InvalidDuration |-> <<>>,
   InvalidInitialization |-> <<>>, InvalidPriceFeed |-> <<>>,
   NotInitializing |-> <<>>, OwnableInvalidOwner |-> <<A>>,
   OwnableUnauthorizedAccount |-> <<A>>, SafeERC20FailedOperation |-> <<A>>,
   UUPSUnauthorizedCallContext |-> <<>>,
   UUPSUnsupportedProxiableUUID |-> <<"bytes32">>,
   UnsupportedPaymentToken |-> <<>>]
-----------------------------------------------------------------------------
(* AuctionMarketV2 inherits from AuctionMarket, AuctionMarketV3 from V2.   *)

V2Functions ==
  Inheriting(V1Functions,
    [BPS_DENOMINATOR |-> View(<<>>, <<"uint16">>),
     calculateSellerNetProceeds |-> View(<<U>>, <<U, U>>),
     feeRecipient |-> View(<<>>, <<A>>),
     platformFeeBps |-> View(<<>>, <<"uint16">>),
     setFeeConfig |-> Send(<<A, "uint16">>),
     version |-> Pure(<<>>, <<"string">>)])

V2Events ==
  Inheriting(V1Events,
    [AuctionSettledWithFees |-> Log(<<U, A, A>>, <<A, U, U, U>>),
     FeeConfigUpdated |-> Log(<<A>>, <<"uint16">>)])

V2Errors == Inheriting(V1Errors, [InvalidFeeBps |-> <<>>])

(* The old createAuction stays in the interface and only reverts.          *)
V3Functions ==
  Inheriting(V2Functions,
    [auctionNft |-> View(<<>>, <<A>>),
     auctionV3Extras |-> View(<<U>>, <<"uint64", U, "bool", "bool">>),
     cancelAuction |-> Send(<<U>>),
     createAuction |-> Pure(<<A, U, "uint64">>, <<U>>),
     createAuctionV3 |-> SendFor(<<U, "uint64", "uint64", U>>, <<U>>),
     initializeV3 |-> Send(<<A>>),
     nftToActiveAuctionIdPlusOne |-> View(<<A, U>>, <<U>>)])

V3Events ==
  Inheriting(V2Events,
    [AuctionCancelled |-> Log(<<U, A, U>>, <<>>),
     AuctionCreatedV3 |-> Log(<<U, A, U>>, <<"uint64", "uint64", U>>)])

V3Errors ==
  Inheriting(V2Errors,
    [e \in {"AuctionAlreadyActiveForNft", "AuctionCancelledAlready",
            "AuctionHasBid", "AuctionNotStarted", "BidBelowStartingPrice",
            "InvalidAuctionTime", "LegacyCreateAuctionDisabled",
            "NativeBidNotSupportedForV3", "NotAuctionSeller",
            "UnsupportedAuctionNft", "V3AlreadyInitialized"} |-> <<>>])
-----------------------------------------------------------------------------
NftFunctions ==
  [approve |-> Send(<<A, U>>),
   balanceOf |-> View(<<A>>, <<U>>),
   getApproved |-> View(<<U>>, <<A>>),
   isApprovedForAll |-> View(<<A, A>>, <<"bool">>),
   name |-> View(<<>>, <<"string">>),
   nextTokenId |-> View(<<>>, <<U>>),
   owner |-> View(<<>>, <<A>>),
   ownerOf |-> View(<<U>>, <<A>>),
   renounceOwnership |-> Send(<<>>),
   safeMint |-> SendFor(<<A, "string">>, <<U>>),
   safeTransferFrom |-> Send(<<A, A, U>>),
   safeTransferFromWithData |-> Send(<<A, A, U, "bytes">>),
   setApprovalForAll |-> Send(<<A, "bool">>),
   supportsInterface |-> View(<<"bytes4">>, <<"bool">>),
   symbol |-> View(<<>>, <<"string">>),
   tokenURI |-> View(<<U>>, <<"string">>),
   transferFrom |-> Send(<<A, A, U>>),
   transferOwnership |-> Send(<<A>>)]

NftEvents ==
  [Approval |-> Log(<<A, A, U>>, <<>>),
   ApprovalForAll |-> Log(<<A, A>>, <<"bool">>),
   BatchMetadataUpdate |-> Log(<<>>, <<U, U>>),
   MetadataUpdate |-> Log(<<>>, <<U>>),
   OwnershipTransferred |-> Log(<<A, A>>, <<>>),
   Transfer |-> Log(<<A, A, U>>, <<>>)]

NftErrors ==
  [ERC721IncorrectOwner |-> <<A, U, A>>,
   ERC721InsufficientApproval |-> <<A, U>>,
   ERC721InvalidApprover |-> <<A>>, ERC721InvalidOperator |-> <<A>>,
   ERC721InvalidOwner |-> <<A>>, ERC721InvalidReceiver |-> <<A>>,
   ERC721InvalidSender |-> <<A>>, ERC721NonexistentToken |-> <<U>>,
   OwnableInvalidOwner |-> <<A>>, OwnableUnauthorizedAccount |-> <<A>>]

TokenFunctions ==
  [allowance |-> View(<<A, A>>, <<U>>),
   approve |-> SendFor(<<A, U>>, <<"bool">>),
   balanceOf |-> View(<<A>>, <<U>>),
   decimals |-> View(<<>>, <<"uint8">>),
   mint |-> Send(<<A, U>>),
   name |-> View(<<>>, <<"string">>),
   owner |-> View(<<>>, <<A>>),
   renounceOwnership |-> Send(<<>>),
   symbol |-> View(<<>>, <<"string">>),
   totalSupply |-> View(<<>>, <<U>>),
   transfer |-> SendFor(<<A, U>>, <<"bool">>),
   transferFrom |-> SendFor(<<A, A, U>>, <<"bool">>),
   transferOwnership |-> Send(<<A>>)]

TokenEvents ==
  [Approval |-> Log(<<A, A>>, <<U>>),
   OwnershipTransferred |-> Log(<<A, A>>, <<>>),
   Transfer |-> Log(<<A, A>>, <<U>>)]

TokenErrors ==
  [ERC20InsufficientAllowance |-> <<A, U, U>>,
   ERC20InsufficientBalance |-> <<A, U, U>>,
   ERC20InvalidApprover |-> <<A>>, ERC20InvalidReceiver |-> <<A>>,
   ERC20InvalidSender |-> <<A>>, ERC20InvalidSpender |-> <<A>>,
   OwnableInvalidOwner |-> <<A>>, OwnableUnauthorizedAccount |-> <<A>>]

(* The proxy emits and reverts by itself when it is deployed or upgraded.  *)
ProxyEvents == [Upgraded |-> Log(<<A>>, <<>>)]

ProxyErrors ==
  [AddressEmptyCode |-> <<A>>, ERC1967InvalidImplementation |-> <<A>>,
   ERC1967NonPayable |-> <<>>, ERC1967ProxyUninitialized |-> <<>>,
   FailedCall |-> <<>>]

FeedFunctions ==
  [decimals |-> View(<<>>, <<"uint8">>),
   description |-> Pure(<<>>, <<"string">>),
   getRoundData |-> View(<<"uint80">>, <<"uint80", "int256", U, U, "uint80">>),
   latestRoundData |-> View(<<>>, <<"uint80", "int256", U, U, "uint80">>),
   updateAnswer |-> Send(<<"int256">>),
   version |-> Pure(<<>>, <<U>>)]

(* The functions of each contract.  The proxy has none: its fallback sends *)
(* every call to the implementation.                                       *)
Interface ==
  [AuctionMarket |-> V1Functions, AuctionMarketV2 |-> V2Functions,
   AuctionMarketV3 |-> V3Functions, AuctionMarketProxy |-> <<>>,
   AuctionNFT |-> NftFunctions, AuctionPaymentToken |-> TokenFunctions,
   MockV3Aggregator |-> FeedFunctions]

(* A call of f through the functions caller reaches f of callee and        *)
(* returns what caller decodes.                                            *)
Answers(callee, caller, f) ==
  /\ f \in DOMAIN caller \cap DOMAIN callee
  /\ caller[f].in = callee[f].in /\ caller[f].out = callee[f].out

(* A log or an error, one of those emitted, is one that reader decodes,    *)
(* with the same arguments in the same places.                             *)
Reads(reader, emitted) ==
  \A x \in DOMAIN emitted : x \in DOMAIN reader /\ reader[x] = emitted[x]
-----------------------------------------------------------------------------
(* The ABI files of the clients: what they declare of the functions that   *)
(* lib/contracts.ts calls, of errors, and of the indexer's events.         *)

FrontEndMarket ==
  [auctionCount |-> View(<<>>, <<U>>),
   auctionV3Extras |-> View(<<U>>, <<"uint64", U, "bool", "bool">>),
   auctions |-> View(<<U>>, <<A, A, U, "uint64", "bool", A, A, U, U>>),
   bidWithToken |-> Payable(<<U, A, U>>),
   cancelAuction |-> Send(<<U>>),
   createAuctionV3 |-> SendFor(<<U, "uint64", "uint64", U>>, <<U>>),
   endAuction |-> Send(<<U>>)]

FrontEndNft ==
  [approve |-> Send(<<A, U>>),
   nextTokenId |-> View(<<>>, <<U>>),
   owner |-> View(<<>>, <<A>>),
   ownerOf |-> View(<<U>>, <<A>>),
   safeMint |-> SendFor(<<A, "string">>, <<U>>),
   tokenURI |-> View(<<U>>, <<"string">>)]

FrontEndToken ==   \* erc20.json, written by hand
  [allowance |-> View(<<A, A>>, <<U>>),
   approve |-> SendFor(<<A, U>>, <<"bool">>),
   balanceOf |-> View(<<A>>, <<U>>),
   decimals |-> View(<<>>, <<"uint8">>),
   mint |-> Send(<<A, U>>),
   owner |-> View(<<>>, <<A>>),
   symbol |-> View(<<>>, <<"string">>)]

FrontEndErrors ==
  [e \in {"AuctionAlreadyActiveForNft", "AuctionAlreadyEnded",
          "AuctionCancelledAlready", "AuctionDoesNotExist", "AuctionExpired",
          "AuctionHasBid", "AuctionNotStarted", "AuctionStillActive",
          "BidBelowStartingPrice", "BidTooLow", "ERC1967NonPayable",
          "FailedCall", "IncorrectEthValue", "InvalidAddress",
          "InvalidAmount", "InvalidAuctionTime", "InvalidDuration",
          "InvalidFeeBps", "InvalidInitialization", "InvalidPriceFeed",
          "LegacyCreateAuctionDisabled", "NativeBidNotSupportedForV3",
          "NotAuctionSeller", "NotInitializing",
          "UUPSUnauthorizedCallContext", "UnsupportedAuctionNft",
          "UnsupportedPaymentToken", "V3AlreadyInitialized",
          "AddressEmptyCode", "ERC1967InvalidImplementation",
          "OwnableInvalidOwner", "OwnableUnauthorizedAccount",
          "SafeERC20FailedOperation", "UUPSUnsupportedProxiableUUID"} |->
     CASE e \in {"AddressEmptyCode", "ERC1967InvalidImplementation",
                 "OwnableInvalidOwner", "OwnableUnauthorizedAccount",
                 "SafeERC20FailedOperation"} -> <<A>>
       [] e = "UUPSUnsupportedProxiableUUID" -> <<"bytes32">>
       [] OTHER -> <<>>]

FrontEndNftErrors ==
  [e \in {"ERC721IncorrectOwner", "ERC721InsufficientApproval",
          "ERC721InvalidApprover", "ERC721InvalidOperator",
          "ERC721InvalidOwner", "ERC721InvalidReceiver",
          "ERC721InvalidSender", "ERC721NonexistentToken",
          "OwnableInvalidOwner", "OwnableUnauthorizedAccount"} |->
     CASE e = "ERC721IncorrectOwner" -> <<A, U, A>>
       [] e = "ERC721InsufficientApproval" -> <<A, U>>
       [] e = "ERC721NonexistentToken" -> <<U>>
       [] OTHER -> <<A>>]

IndexerEvents ==
  [AuctionCancelled |-> Log(<<U, A, U>>, <<>>),
   AuctionCreated |-> Log(<<U, A, A>>, <<U>>),
   AuctionCreatedV3 |-> Log(<<U, A, U>>, <<"uint64", "uint64", U>>),
   AuctionEnded |-> Log(<<U, A, A>>, <<U>>),
   AuctionSettledWithFees |-> Log(<<U, A, A>>, <<A, U, U, U>>),
   BidPlaced |-> Log(<<U, A, A>>, <<U, U>>),
   FeeConfigUpdated |-> Log(<<A>>, <<"uint16">>),
   Initialized |-> Log(<<>>, <<"uint64">>),
   OwnershipTransferred |-> Log(<<A, A>>, <<>>),
   PaymentTokenUpdated |-> Log(<<A, A>>, <<"uint8", "bool">>),
   Upgraded |-> Log(<<A>>, <<>>)]

IndexerNftTransfer == Log(<<A, A, U>>, <<>>)
IndexerTokenTransfer == Log(<<A, A>>, <<U>>)

(* Nothing generates these files; they are compared with what the compiler *)
(* gave: the functions with those of the contracts deployed last, events   *)
(* and errors with those of every version that the clients outlive.        *)
ASSUME AbiFilesAgree ==
  /\ \A f \in DOMAIN FrontEndMarket : Answers(V3Functions, FrontEndMarket, f)
  /\ \A f \in DOMAIN FrontEndNft : Answers(NftFunctions, FrontEndNft, f)
  /\ \A f \in DOMAIN FrontEndToken : Answers(TokenFunctions, FrontEndToken, f)
  /\ \A errors \in {V1Errors, V2Errors, V3Errors} :
       Reads(FrontEndErrors, errors)
  /\ Reads(FrontEndNftErrors, NftErrors)
  /\ \A events \in {V1Events, V2Events, V3Events, ProxyEvents} :
       Reads(IndexerEvents, events)
  /\ NftEvents.Transfer = IndexerNftTransfer
  /\ TokenEvents.Transfer = IndexerTokenTransfer

(* What they lack: a call of the market that one of its tokens reverts ends *)
(* in an error of that token, of which the front end's ABI of the market   *)
(* knows only those of Ownable; erc20.json has no errors at all.  Nor does *)
(* it know what the constructor of the proxy says without a call.          *)
ASSUME TokenErrorsUnread ==
  /\ DOMAIN FrontEndErrors \cap (DOMAIN NftErrors \cup DOMAIN TokenErrors)
       = {"OwnableInvalidOwner", "OwnableUnauthorizedAccount"}
  /\ DOMAIN ProxyErrors \ DOMAIN FrontEndErrors = {"ERC1967ProxyUninitialized"}
==============================================================================
