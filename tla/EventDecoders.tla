---------------------------- MODULE EventDecoders ----------------------------
(***************************************************************************)
(* contract/events.go: what the decoders of the three kinds of contract    *)
(* make of a log.  A log has topics, the name of the event (topic 0) and   *)
(* its indexed arguments in order, and data, the other arguments by name.  *)
(* Values stay what they are: numbers and addresses become strings that    *)
(* are read back where they are used.                                      *)
(***************************************************************************)
EXTENDS Integers, Sequences

CONSTANT Absent      \* the string "" of an argument that is not there

(* The indexed arguments of the events of each ABI, as the contracts       *)
(* declare them.                                                           *)
Indexed ==
  [auction_market_v3 |->
     [AuctionCreated |-> <<"auctionId", "seller", "nft">>,
      AuctionCreatedV3 |-> <<"auctionId", "seller", "tokenId">>,
      BidPlaced |-> <<"auctionId", "bidder", "paymentToken">>,
      AuctionCancelled |-> <<"auctionId", "seller", "tokenId">>,
      AuctionEnded |-> <<"auctionId", "winner", "paymentToken">>,
      AuctionSettledWithFees |-> <<"auctionId", "seller", "feeRecipient">>,
      FeeConfigUpdated |-> <<"feeRecipient">>,
      PaymentTokenUpdated |-> <<"token", "feed">>,
      Initialized |-> <<>>,
      OwnershipTransferred |-> <<"previousOwner", "newOwner">>,
      Upgraded |-> <<"implementation">>],
   auction_nft |->
     [Approval |-> <<"owner", "approved", "tokenId">>,
      ApprovalForAll |-> <<"owner", "operator">>,
      BatchMetadataUpdate |-> <<>>,
      MetadataUpdate |-> <<>>,
      OwnershipTransferred |-> <<"previousOwner", "newOwner">>,
      Transfer |-> <<"from", "to", "tokenId">>],
   erc20 |->
     [Approval |-> <<"owner", "spender">>,
      Transfer |-> <<"from", "to">>]]

(* The log of an event with arguments args, as the EVM makes it.           *)
Emit(abi, name, args) ==
  LET indexed == Indexed[abi][name]
      rest == DOMAIN args \ {indexed[i] : i \in DOMAIN indexed}
  IN  [topics |-> <<name>> \o [i \in DOMAIN indexed |-> args[indexed[i]]],
       data |-> [a \in rest |-> args[a]]]

Skip == [outcome |-> "skip"]
Reject == [outcome |-> "error"]
Decoded(name, payload) ==
  [outcome |-> "event", name |-> name, payload |-> payload]

Value(data, arg) == IF arg \in DOMAIN data THEN data[arg] ELSE Absent

Generic == {"AuctionSettledWithFees", "FeeConfigUpdated", "PaymentTokenUpdated"}

DecodeKnownMarketEvent(topics, data) ==
  CASE topics[1] = "AuctionCreatedV3" ->
         Decoded(topics[1],
                 [auction_id |-> topics[2], seller |-> topics[3],
                  token_id |-> topics[4],
                  start_time |-> Value(data, "startTime"),
                  end_time |-> Value(data, "endTime"),
                  starting_price_usd |-> Value(data, "startingPriceUsd")])
    [] topics[1] = "AuctionCreated" ->
         Decoded(topics[1],
                 [auction_id |-> topics[2], seller |-> topics[3],
                  nft |-> Value(data, "nft"),
                  token_id |-> Value(data, "tokenId")])
    [] topics[1] = "BidPlaced" ->
         Decoded(topics[1],
                 [auction_id |-> topics[2], bidder |-> topics[3],
                  payment_token |-> topics[4],
                  amount |-> Value(data, "amount"),
                  amount_usd |-> Value(data, "amountUsd")])
    [] topics[1] = "AuctionCancelled" ->
         Decoded(topics[1],
                 [auction_id |-> topics[2], seller |-> topics[3],
                  token_id |-> topics[4]])
    [] topics[1] = "AuctionEnded" ->
         Decoded(topics[1],
                 [auction_id |-> topics[2], winner |-> topics[3],
                  payment_token |-> topics[4],
                  amount |-> Value(data, "amount")])
    [] topics[1] \in Generic -> Decoded(topics[1], data)
    [] OTHER -> Skip

DecodeMarketLog(log) ==
  IF log.topics # <<>> /\ log.topics[1] \in DOMAIN Indexed.auction_market_v3
  THEN DecodeKnownMarketEvent(log.topics, log.data)
  ELSE Skip

DecodeAuctionNFTLogMutant(log) ==   \* topics counted from 1, not 0
  IF log.topics = <<>> \/ log.topics[1] # "Transfer" THEN Skip
  ELSE IF Len(log.topics) < 4 THEN Reject
  ELSE Decoded("Transfer", [from |-> log.topics[1], to |-> log.topics[2],
                            token_id |-> log.topics[3]])

DecodeAuctionNFTLog(log) ==
  IF log.topics = <<>> \/ log.topics[1] # "Transfer" THEN Skip
  ELSE IF Len(log.topics) < 4 THEN Reject
  ELSE Decoded("Transfer", [from |-> log.topics[2], to |-> log.topics[3],
                            token_id |-> log.topics[4]])

DecodeERC20TransferLog(log) ==
  IF log.topics = <<>> \/ log.topics[1] # "Transfer" THEN Skip
  ELSE IF Len(log.topics) < 3 THEN Reject
  ELSE Decoded("Transfer", [from |-> log.topics[2], to |-> log.topics[3],
                            amount |-> IF log.data = <<>> THEN 0
                                       ELSE log.data.value])

(* decoderAndHandlerForContract goes by the abi that config.yaml names.    *)
Decode(abi, log) ==
  CASE abi = "auction_market_v3" -> DecodeMarketLog(log)
    [] abi = "auction_nft" -> DecodeAuctionNFTLog(log)
    [] abi = "erc20" -> DecodeERC20TransferLog(log)
=============================================================================
