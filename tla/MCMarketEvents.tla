--------------------------- MODULE MCMarketEvents ---------------------------
(***************************************************************************)
(* MarketEvents with the values of MCAuctionMarket.                        *)
(***************************************************************************)
EXTENDS MCAuctionMarket, MarketEvents
=============================================================================
