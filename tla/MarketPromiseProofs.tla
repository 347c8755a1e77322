------------------------- MODULE MarketPromiseProofs -------------------------
(***************************************************************************)
(* What the market promises to those around it, for every value of the     *)
(* constants.  To its users: bids cost nothing until an auction settles,   *)
(* and every step of the market is a step of the English auction or none.  *)
(* To the back end: the events of an auction come in order.                *)
(***************************************************************************)
EXTENDS MarketRefinement, MarketEvents, AuctionMarketProofs

(* An amount that counts only when b holds.                                *)
Only(b, m) == IF b THEN m ELSE 0

(* A transfer, also to oneself.                                            *)
LEMMA MoveAt ==
  ASSUME NEW bal \in Balances, NEW t \in Tokens, NEW from \in Holders,
         NEW to \in Holders, NEW amount \in Nat,
         NEW u \in Tokens, NEW h \in Holders
  PROVE  Move(bal, t, from, to, amount)[u][h] =
           bal[u][h] - Only(u = t /\ h = from, amount)
                     + Only(u = t /\ h = to, amount)
<1>1. bal[u][h] \in Nat
  BY DEF Balances
<1>2. CASE from = to
  <2>1. CASE u = t /\ h = from
    BY <1>1, <1>2, <2>1, MoveSelf DEF Only
  <2>2. CASE ~(u = t /\ h = from)
    <3>1. Move(bal, t, from, to, amount)[u][h] = bal[u][h]
      BY <1>2, <2>2 DEF Move, Balances
    <3>2. QED
      BY <1>1, <1>2, <2>2, <3>1 DEF Only
  <2>3. QED
    BY <2>1, <2>2
<1>3. CASE from # to
  <2>1. Move(bal, t, from, to, amount)[u][h] =
          IF u = t /\ h = from THEN bal[u][h] - amount
          ELSE IF u = t /\ h = to THEN bal[u][h] + amount
          ELSE bal[u][h]
    BY <1>3, MoveEffect
  <2>2. QED
    BY <1>1, <1>3, <2>1 DEF Only
<1>4. QED
  BY <1>2, <1>3

(* What auction i holds for account a in token t.                          *)
LEMMA OwedToAt ==
  ASSUME TypeOK, NEW a \in Accounts, NEW t \in Tokens, NEW i \in AuctionIds
  PROVE  /\ OwedTo(a, t)[i] =
              Only(/\ ~auctions[i].ended /\ auctions[i].highestBidder = a
                   /\ auctions[i].paymentToken = t,
                   auctions[i].highestBid)
         /\ OwedTo(a, t)[i] \in Nat
<1>1. auctions[i].highestBid \in Nat
  BY DEF TypeOK, Auction
<1>2. QED
  BY <1>1 DEF OwedTo, Owed, IsOpen, Only

LEMMA OwedToAtNext ==
  ASSUME TypeOK', NEW a \in Accounts, NEW t \in Tokens, NEW i \in AuctionIds'
  PROVE  /\ OwedTo(a, t)'[i] =
              Only(/\ ~auctions'[i].ended /\ auctions'[i].highestBidder = a
                   /\ auctions'[i].paymentToken = t,
                   auctions'[i].highestBid)
         /\ OwedTo(a, t)'[i] \in Nat
<1>1. auctions'[i].highestBid \in Nat
  BY DEF TypeOK, Auction
<1>2. QED
  BY <1>1 DEF OwedTo, Owed, IsOpen, Only

LEMMA WorthNat ==
  ASSUME TypeOK, NEW a \in Accounts, NEW t \in Tokens
  PROVE  /\ Total(OwedTo(a, t), auctionCount) \in Nat
         /\ balance[t][a] \in Nat
         /\ Worth(a, t) \in Nat
<1>1. auctionCount \in Nat
  BY DEF TypeOK
<1>2. \A k \in 0 .. auctionCount - 1 : OwedTo(a, t)[k] \in Nat
  BY OwedToAt DEF AuctionIds
<1>3. Total(OwedTo(a, t), auctionCount) \in Nat
  BY <1>1, <1>2, TotalNat
<1>4. balance[t][a] \in Nat
  BY Addresses DEF TypeOK
<1>5. QED
  BY <1>3, <1>4 DEF Worth

(* A step that touches the one auction i changes what an account has by    *)
(* what it is paid and by i's share.                                       *)
LEMMA WorthUpdate ==
  ASSUME TypeOK, TypeOK', NEW i \in AuctionIds, NEW a \in Accounts,
         NEW t \in Tokens, auctionCount' = auctionCount,
         \A k \in AuctionIds : k # i => auctions'[k] = auctions[k]
  PROVE  Worth(a, t)' = Worth(a, t) + (balance'[t][a] - balance[t][a])
                          + (OwedTo(a, t)'[i] - OwedTo(a, t)[i])
<1> DEFINE f == OwedTo(a, t)
           g == OwedTo(a, t)'
           n == auctionCount
<1>1. AuctionIds = 0 .. n - 1 /\ AuctionIds' = AuctionIds
  BY DEF AuctionIds
<1>2. \A k \in 0 .. n - 1 : f[k] \in Nat
  BY <1>1, OwedToAt
<1>3. \A k \in 0 .. n - 1 : g[k] \in Nat
  BY <1>1, OwedToAtNext
<1>4. \A k \in 0 .. n - 1 : k # i => g[k] = f[k]
  BY <1>1 DEF OwedTo, Owed, IsOpen
<1>5. n \in Nat /\ i \in 0 .. n - 1
  BY <1>1 DEF TypeOK
<1>6. /\ Total(f, n) \in Nat /\ balance[t][a] \in Nat
      /\ balance'[t][a] \in Nat
  BY WorthNat, Addresses DEF TypeOK
<1>7. f[i] \in Nat /\ g[i] \in Nat
  BY <1>1, <1>2, <1>3
<1>8. /\ Worth(a, t) = balance[t][a] + Total(f, n)
      /\ Worth(a, t)' = balance'[t][a] + Total(g, n)
  BY DEF Worth
<1> HIDE DEF f, g, n
<1>9. Total(g, n) = Total(f, n) - f[i] + g[i]
  BY <1>2, <1>3, <1>4, <1>5, TotalUpdate
<1>10. Worth(a, t)' = Worth(a, t) + (balance'[t][a] - balance[t][a])
                        + (g[i] - f[i])
  BY <1>6, <1>7, <1>8, <1>9
<1>11. QED
  BY <1>10 DEF f, g

(* The books as they were: an account gains and loses only in its balance. *)
LEMMA WorthUntouched ==
  ASSUME TypeOK, TypeOK', book' = book, NEW a \in Accounts, NEW t \in Tokens
  PROVE  Worth(a, t)' = Worth(a, t) + (balance'[t][a] - balance[t][a])
<1>1. Total(OwedTo(a, t), auctionCount)' = Total(OwedTo(a, t), auctionCount)
  BY DEF OwedTo, Owed, IsOpen, AuctionIds, book
<1>2. /\ Total(OwedTo(a, t), auctionCount) \in Nat
      /\ balance[t][a] \in Nat /\ balance'[t][a] \in Nat
  BY WorthNat, Addresses DEF TypeOK
<1>3. QED
  BY <1>1, <1>2 DEF Worth

(* Whoever is outbid is refunded what counted as its own, and what the new *)
(* bidder pays counts as its own.                                          *)
LEMMA WorthBid ==
  ASSUME TypeOK, TypeOK', LotsConsistent,
         NEW s \in Accounts, NEW i \in AuctionIds, NEW t \in Tokens,
         NEW m \in Nat, NEW r \in Rounds, Bidding(s, i, t, m, r),
         NEW a \in Accounts, NEW u \in Tokens
  PROVE  Worth(a, u)' = Worth(a, u)
<1> DEFINE paid == Move(balance, t, s, Market, m)
           old == auctions[i]
           back == Only(old.highestBidder = a /\ old.paymentToken = u,
                        old.highestBid)
           spent == Only(s = a /\ t = u, m)
<1>1. old \in Auction /\ ~old.ended
  BY DEF Bidding, PlaceBid, TypeOK
<1>2. /\ auctionCount' = auctionCount
      /\ auctions' = [auctions EXCEPT ![i] =
                        [@ EXCEPT !.highestBidder = s, !.paymentToken = t,
                                  !.highestBid = m,
                                  !.highestBidUsd = QuoteBidUsd(t, m, r)]]
      /\ balance[t][s] >= m
      /\ balance' = IF old.highestBidder = Zero THEN paid
                    ELSE Move(paid, old.paymentToken, Market,
                              old.highestBidder, old.highestBid)
  BY DEF Bidding, PlaceBid, Refund
<1>3. /\ balance \in Balances /\ s \in Holders /\ Market \in Holders
      /\ a \in Holders /\ a # Market /\ a # Zero
  BY Addresses DEF TypeOK, Balances
<1>4. paid \in Balances
  BY <1>2, <1>3, MoveType
<1>5. paid[u][a] = balance[u][a] - spent
  <2>1. paid[u][a] = balance[u][a] - Only(u = t /\ a = s, m)
                                   + Only(u = t /\ a = Market, m)
    BY <1>3, MoveAt
  <2>2. balance[u][a] \in Nat
    BY <1>3 DEF Balances
  <2>3. QED
    BY <1>3, <2>1, <2>2 DEF Only
<1> HIDE DEF paid
<1>6. balance'[u][a] = paid[u][a] + back
  <2>1. paid[u][a] \in Nat
    BY <1>3, <1>4 DEF Balances
  <2>2. CASE old.highestBidder = Zero
    BY <1>2, <1>3, <2>1, <2>2 DEF Only
  <2>3. CASE old.highestBidder # Zero
    <3>1. /\ old.highestBidder \in Holders
          /\ old.paymentToken \in Tokens /\ old.highestBid \in Nat
      BY <1>1, <2>3, Addresses DEF Auction
    <3>2. balance' = Move(paid, old.paymentToken, Market, old.highestBidder,
                          old.highestBid)
      BY <1>2, <2>3
    <3>3. ASSUME NEW p \in Tokens, NEW b \in Holders, NEW q \in Nat
          PROVE  Move(paid, p, Market, b, q)[u][a] =
                   paid[u][a] + Only(b = a /\ p = u, q)
      <4>1. Move(paid, p, Market, b, q)[u][a] =
              paid[u][a] - Only(u = p /\ a = Market, q)
                         + Only(u = p /\ a = b, q)
        BY <1>3, <1>4, MoveAt
      <4>2. QED
        BY <1>3, <2>1, <4>1 DEF Only
    <3>4. QED
      BY <3>1, <3>2, <3>3
  <2>4. QED
    BY <2>2, <2>3
<1>7. OwedTo(a, u)[i] = back
  BY <1>1, OwedToAt DEF Only
<1>8. OwedTo(a, u)'[i] = spent
  <2>1. /\ auctions'[i].ended = FALSE /\ auctions'[i].paymentToken = t
        /\ auctions'[i].highestBidder = s /\ auctions'[i].highestBid = m
    BY <1>1, <1>2 DEF TypeOK, Auction
  <2>2. i \in AuctionIds'
    BY <1>2 DEF AuctionIds
  <2>3. QED
    BY <2>1, <2>2, OwedToAtNext DEF Only
<1>9. \A k \in AuctionIds : k # i => auctions'[k] = auctions[k]
  BY <1>2 DEF TypeOK
<1>10. Worth(a, u)' = Worth(a, u) + (balance'[u][a] - balance[u][a])
                        + (OwedTo(a, u)'[i] - OwedTo(a, u)[i])
  BY <1>2, <1>9, WorthUpdate
<1>11. /\ Worth(a, u) \in Nat /\ balance[u][a] \in Nat
       /\ spent \in Nat /\ back \in Nat
  BY <1>1, WorthNat DEF Auction, Only
<1> HIDE DEF old, back, spent
<1>12. QED
  BY <1>5, <1>6, <1>7, <1>8, <1>10, <1>11

(* A new auction owes nobody anything.                                     *)
LEMMA WorthOpen ==
  ASSUME TypeOK, TypeOK',
         NEW s \in Accounts, NEW x \in Items, NEW e \in Nat,
         NEW extra \in Extra, Creates(s, x, e, extra),
         NEW a \in Accounts, NEW u \in Tokens
  PROVE  Worth(a, u)' = Worth(a, u)
<1> DEFINE f == OwedTo(a, u)
           g == OwedTo(a, u)'
           n == auctionCount
<1>1. PushAuction(s, x, e, extra) /\ balance' = balance
  BY DEF Creates, purse
<1>2. n \in Nat /\ auctionCount' = n + 1
  BY <1>1 DEF PushAuction, TypeOK
<1>3. /\ AuctionIds' = AuctionIds \cup {n}
      /\ \A id \in AuctionIds : auctions'[id] = auctions[id]
      /\ auctions'[n] =
           [seller |-> s, item |-> x, endTime |-> e, ended |-> FALSE,
            highestBidder |-> Zero, paymentToken |-> Native,
            highestBid |-> 0, highestBidUsd |-> 0]
  BY <1>1, Appended
<1>4. \A k \in 0 .. n - 1 : f[k] = g[k]
  BY <1>3 DEF OwedTo, Owed, IsOpen, AuctionIds
<1>5. g[n] = 0
  <2>1. auctions'[n].highestBidder # a /\ n \in AuctionIds'
    BY <1>3, Addresses
  <2>2. QED
    BY <2>1, OwedToAtNext DEF Only
<1>6. Total(f, n) \in Nat
  BY WorthNat
<1> HIDE DEF f, g, n
<1>7. Total(g, n + 1) = Total(f, n)
  BY <1>2, <1>4, <1>5, <1>6, TotalAppend
<1>8. Worth(a, u)' = balance'[u][a] + Total(g, n + 1)
  BY <1>2 DEF g, Worth
<1>9. Worth(a, u) = balance[u][a] + Total(f, n)
  BY DEF Worth, f, n
<1>10. QED
  BY <1>1, <1>7, <1>8, <1>9

(* An auction nobody bid on owes nothing, open or closed.                  *)
LEMMA WorthUnsold ==
  ASSUME TypeOK, TypeOK', NEW i \in AuctionIds,
         auctionCount' = auctionCount, CloseAuction(i), purse' = purse,
         auctions[i].highestBidder = Zero,
         NEW a \in Accounts, NEW u \in Tokens
  PROVE  Worth(a, u)' = Worth(a, u)
<1>1. /\ auctions' = [auctions EXCEPT ![i] = [@ EXCEPT !.ended = TRUE]]
      /\ balance' = balance /\ AuctionIds' = AuctionIds
  BY DEF CloseAuction, purse, AuctionIds
<1>2. OwedTo(a, u)[i] = 0
  BY OwedToAt, Addresses DEF Only
<1>3. OwedTo(a, u)'[i] = 0
  BY <1>1, OwedToAtNext DEF Only, TypeOK, Auction
<1>4. \A k \in AuctionIds : k # i => auctions'[k] = auctions[k]
  BY <1>1 DEF TypeOK
<1>5. Worth(a, u)' = Worth(a, u) + (balance'[u][a] - balance[u][a])
                       + (OwedTo(a, u)'[i] - OwedTo(a, u)[i])
  BY <1>4, WorthUpdate
<1>6. Worth(a, u) \in Nat /\ balance[u][a] \in Nat
  BY WorthNat
<1>7. QED
  BY <1>1, <1>2, <1>3, <1>5, <1>6

(* A sale takes the amount from the leader and gives it to the seller and  *)
(* the fee recipient.                                                      *)
LEMMA WorthSale ==
  ASSUME TypeOK, TypeOK', NEW i \in AuctionIds, EndSold(i),
         NEW a \in Accounts, NEW u \in Tokens
  PROVE  LET gross == auctions[i].highestBid
             fee == FeeAmount(gross)
             t == auctions[i].paymentToken
         IN  Worth(a, u)' =
               Worth(a, u)
                 + Only(u = t /\ a = auctions[i].seller, gross - fee)
                 + Only(u = t /\ a = EffectiveFeeRecipient, fee)
                 - Only(u = t /\ a = auctions[i].highestBidder, gross)
<1> DEFINE old == auctions[i]
           t == old.paymentToken
           gross == old.highestBid
           fee == FeeAmount(gross)
           net == gross - fee
           recipient == EffectiveFeeRecipient
           sellerPaid == Move(balance, t, Market, old.seller, net)
           toSeller == Only(u = t /\ a = old.seller, net)
           toRecipient == Only(u = t /\ a = recipient, fee)
           ofLeader == Only(u = t /\ a = old.highestBidder, gross)
<1>1. /\ old \in Auction /\ ~old.ended /\ t \in Tokens /\ gross \in Nat
      /\ old.seller \in Holders
  BY Addresses DEF EndSold, CanEndSold, CanSettle, TypeOK, Auction
<1>2. fee \in Nat /\ net \in Nat /\ fee <= gross
  BY <1>1, FeeBound
<1>3. recipient \in Holders
  BY DEF EffectiveFeeRecipient, TypeOK, Holders
<1>4. /\ auctionCount' = auctionCount
      /\ auctions' = [auctions EXCEPT ![i] = [@ EXCEPT !.ended = TRUE]]
      /\ CanPay(balance, t, old.seller, net)
      /\ balance' = Move(sellerPaid, t, Market, recipient, fee)
  BY DEF EndSold, CanEndSold, SellerPaid, Net, CloseAuction
<1>5. /\ balance \in Balances /\ Market \in Holders
      /\ a \in Holders /\ a # Market
  BY Addresses DEF TypeOK, Balances
<1> HIDE DEF recipient, fee
<1>6. balance[t][Market] >= net
  BY <1>1, <1>2, <1>4, <1>5 DEF CanPay, Balances
<1>7. sellerPaid \in Balances
  BY <1>1, <1>2, <1>5, <1>6, MoveType
<1>8. sellerPaid[u][a] = balance[u][a] - Only(u = t /\ a = Market, net)
                           + toSeller
  <2>1. t \in Tokens /\ old.seller \in Holders /\ net \in Nat
    BY <1>1, <1>2
  <2> HIDE DEF old, t, gross, net
  <2>2. QED
    BY <1>5, <2>1, MoveAt DEF Only
<1> HIDE DEF sellerPaid
<1>9. balance'[u][a] = sellerPaid[u][a] - Only(u = t /\ a = Market, fee)
                         + toRecipient
  <2>1. t \in Tokens /\ fee \in Nat
        /\ balance' = Move(sellerPaid, t, Market, recipient, fee)
    BY <1>1, <1>2, <1>4 DEF sellerPaid
  <2> HIDE DEF old, t, gross, net
  <2>2. QED
    BY <1>3, <1>5, <1>7, <2>1, MoveAt DEF Only
<1>10. /\ Only(u = t /\ a = Market, net) = 0
       /\ Only(u = t /\ a = Market, fee) = 0
  BY <1>5 DEF Only
<1>11. OwedTo(a, u)[i] = ofLeader
  BY <1>1, OwedToAt DEF Only
<1>12. OwedTo(a, u)'[i] = 0
  <2>1. auctions'[i].ended /\ i \in AuctionIds'
    BY <1>1, <1>4 DEF TypeOK, Auction, AuctionIds
  <2>2. QED
    BY <2>1, OwedToAtNext DEF Only
<1>13. \A k \in AuctionIds : k # i => auctions'[k] = auctions[k]
  BY <1>4 DEF TypeOK
<1>14. Worth(a, u)' = Worth(a, u) + (balance'[u][a] - balance[u][a])
                        + (OwedTo(a, u)'[i] - OwedTo(a, u)[i])
  BY <1>4, <1>13, WorthUpdate
<1>15. /\ Worth(a, u) \in Nat /\ balance[u][a] \in Nat
       /\ toSeller \in Nat /\ toRecipient \in Nat /\ ofLeader \in Nat
  BY <1>1, <1>2, WorthNat DEF Only
<1> HIDE DEF old, t, toSeller, toRecipient, ofLeader
<1>16. Worth(a, u)' = Worth(a, u) + toSeller + toRecipient - ofLeader
  BY <1>8, <1>9, <1>10, <1>11, <1>12, <1>14, <1>15
<1>17. QED
  BY <1>16 DEF old, t, fee, recipient, toSeller, toRecipient, ofLeader

(* A gift to the market costs the one who makes it.                        *)
LEMMA WorthGift ==
  ASSUME TypeOK, TypeOK', NEW s \in Accounts, NEW t \in Erc20s, NEW m \in Nat,
         SendToken(s, t, m), NEW a \in Accounts, NEW u \in Tokens
  PROVE  Worth(a, u)' = Worth(a, u) - Only(u = t /\ a = s, m)
<1>1. book' = book /\ balance' = Move(balance, t, s, Market, m)
  BY DEF SendToken
<1>2. /\ balance \in Balances /\ s \in Holders /\ Market \in Holders
      /\ a \in Holders /\ a # Market /\ t \in Tokens
  BY Addresses DEF TypeOK, Balances
<1>3. balance'[u][a] = balance[u][a] - Only(u = t /\ a = s, m)
                         + Only(u = t /\ a = Market, m)
  BY <1>1, <1>2, MoveAt
<1>4. Only(u = t /\ a = Market, m) = 0 /\ Only(u = t /\ a = s, m) \in Nat
  BY <1>2 DEF Only
<1>5. Worth(a, u)' = Worth(a, u) + (balance'[u][a] - balance[u][a])
  BY <1>1, WorthUntouched
<1>6. Worth(a, u) \in Nat /\ balance[u][a] \in Nat
  BY WorthNat
<1>7. QED
  BY <1>3, <1>4, <1>5, <1>6
-----------------------------------------------------------------------------
LEMMA BidsKeepStep ==
  ASSUME TypeOK, LotsConsistent, [Next]_vars,
         \A id \in AuctionIds : auctions'[id].ended = auctions[id].ended,
         stray' = stray, NEW a \in Accounts, NEW u \in Tokens
  PROVE  Worth(a, u)' = Worth(a, u)
<1>1. TypeOK'
  BY TypeNext
<1>2. Worth(a, u) \in Nat /\ balance[u][a] \in Nat
  BY WorthNat
<1>3. CASE Idles
  <2>1. book' = book /\ balance' = balance
    BY <1>3 DEF Idles, purse
  <2>2. QED
    BY <1>1, <1>2, <2>1, WorthUntouched
<1>4. ASSUME NEW s \in Accounts, NEW x \in Items, NEW e \in Nat,
             NEW extra \in Extra, Creates(s, x, e, extra)
      PROVE  Worth(a, u)' = Worth(a, u)
  BY <1>1, <1>4, WorthOpen
<1>5. ASSUME NEW s \in Accounts, NEW i \in AuctionIds, NEW t \in Tokens,
             NEW m \in Nat, NEW r \in Rounds, Bidding(s, i, t, m, r)
      PROVE  Worth(a, u)' = Worth(a, u)
  BY <1>1, <1>5, WorthBid
<1>6. ASSUME NEW i \in AuctionIds,
             \/ EndUnsold(i) \/ EndSold(i)
             \/ \E s \in Accounts : CancelAuction(s, i)
      PROVE  FALSE
  <2>1. ~auctions[i].ended /\ CloseAuction(i)
    BY <1>6 DEF EndUnsold, CanEndUnsold, EndSold, CanEndSold, CanSettle,
      CancelAuction, CanCancel
  <2>2. auctions'[i].ended = TRUE
    BY <2>1 DEF CloseAuction, TypeOK, Auction
  <2>3. QED
    BY <2>1, <2>2
<1>7. ASSUME NEW s \in Accounts, NEW x \in Items, NEW to \in NftRecipients,
             SendNft(s, x, to)
      PROVE  Worth(a, u)' = Worth(a, u)
  <2>1. book' = book /\ balance' = balance
    BY <1>7 DEF SendNft, purse
  <2>2. QED
    BY <1>1, <1>2, <2>1, WorthUntouched
<1>8. ASSUME NEW s \in Accounts, NEW t \in Erc20s, NEW m \in Nat,
             SendToken(s, t, m)
      PROVE  FALSE
  <2>1. t \in Tokens /\ m # 0 /\ stray' = [stray EXCEPT ![t] = @ + m]
    BY <1>8, Addresses DEF SendToken
  <2>2. stray[t] \in Nat /\ stray'[t] = stray[t] + m
    BY <2>1 DEF TypeOK
  <2>3. QED
    BY <2>1, <2>2
<1>9. QED
  BY <1>3, <1>4, <1>5, <1>6, <1>7, <1>8, Steps

(* While no auction closes and nothing is given away, no account loses or  *)
(* gains anything, whoever outbids whom in whatever tokens.                *)
THEOREM BidsCostNothing == Spec => BidsKeepWorth
<1>1. Spec => []TypeOK
  BY TypeCorrect
<1>2. Spec => []LotsConsistent
  BY LotsCorrect
<1>3. TypeOK /\ LotsConsistent /\ [Next]_vars =>
        (/\ \A id \in AuctionIds : auctions'[id].ended = auctions[id].ended
         /\ stray' = stray
         => \A a \in Accounts, t \in Tokens : Worth(a, t)' = Worth(a, t))
  BY BidsKeepStep
<1>4. QED
  BY <1>1, <1>2, <1>3, PTL DEF Spec, BidsKeepWorth
-----------------------------------------------------------------------------
(* The abstract variables, as MarketRefinement maps them.                  *)
Book == [id \in AuctionIds |-> Lot(id)]
Wealth == [a \in Accounts |-> [t \in Tokens |-> Worth(a, t)]]

LEMMA LotSame ==
  ASSUME NEW id, auctions'[id] = auctions[id]
  PROVE  Lot(id)' = Lot(id)
BY DEF Lot, Phase, IsOpen

LEMMA WealthSame ==
  ASSUME \A a \in Accounts, t \in Tokens : Worth(a, t)' = Worth(a, t)
  PROVE  Wealth' = Wealth
BY DEF Wealth

(* A step that changes the one auction i changes the one lot i.            *)
LEMMA BookUpdate ==
  ASSUME NEW i \in AuctionIds, auctionCount' = auctionCount,
         \A k \in AuctionIds : k # i => auctions'[k] = auctions[k]
  PROVE  Book' = [Book EXCEPT ![i] = Lot(i)']
<1>1. AuctionIds' = AuctionIds
  BY DEF AuctionIds
<1>2. \A k \in AuctionIds : k # i => Lot(k)' = Lot(k)
  BY LotSame
<1>3. QED
  BY <1>1, <1>2 DEF Book

LEMMA RefineInit == Init => English!Init
<1> SUFFICES ASSUME Init PROVE English!Init
  OBVIOUS
<1>1. TypeOK
  BY TypeInit
<1>2. AuctionIds = {}
  BY DEF Init, AuctionIds
<1>3. Book = [id \in {} |-> 0]
  BY <1>2 DEF Book
<1>4. nftOwner \in [Items -> Accounts \cup {Zero}]
  BY InitialAssumption DEF Init
<1>5. Wealth \in [Accounts -> [Tokens -> Nat]]
  BY <1>1, WorthNat DEF Wealth
<1>6. QED
  BY <1>3, <1>4, <1>5 DEF English!Init, Book, Wealth

LEMMA RefineStutter ==
  ASSUME book' = book, nftOwner' = nftOwner,
         \A a \in Accounts, t \in Tokens : Worth(a, t)' = Worth(a, t)
  PROVE  English!vars' = English!vars
<1>1. AuctionIds' = AuctionIds /\ \A id \in AuctionIds : Lot(id)' = Lot(id)
  BY LotSame DEF book, AuctionIds
<1>2. Book' = Book
  BY <1>1 DEF Book
<1>3. Wealth' = Wealth
  BY WealthSame
<1>4. QED
  BY <1>2, <1>3 DEF English!vars, Book, Wealth

LEMMA RefineOpen ==
  ASSUME TypeOK, TypeOK',
         NEW s \in Accounts, NEW x \in Items, NEW e \in Nat,
         NEW extra \in Extra, Creates(s, x, e, extra)
  PROVE  English!Open(s, x)
<1>0. PICK n \in Nat : n = auctionCount
  BY DEF TypeOK
<1> DEFINE new == [seller |-> s, item |-> x, phase |-> "open",
                   leader |-> Zero, token |-> Native, amount |-> 0,
                   price |-> 0]
<1>1. PushAuction(s, x, e, extra)
  BY DEF Creates
<1>2. /\ n \notin AuctionIds
      /\ AuctionIds' = AuctionIds \cup {n}
      /\ \A id \in AuctionIds : auctions'[id] = auctions[id]
      /\ auctions'[n] =
           [seller |-> s, item |-> x, endTime |-> e, ended |-> FALSE,
            highestBidder |-> Zero, paymentToken |-> Native,
            highestBid |-> 0, highestBidUsd |-> 0]
  BY <1>0, <1>1, Appended
<1>3. Lot(n)' = new
  BY <1>2 DEF Lot, Phase, IsOpen
<1>4. \A id \in AuctionIds : Lot(id)' = Lot(id)
  BY <1>2, LotSame
<1> HIDE DEF new
<1>5. /\ DOMAIN Book = AuctionIds /\ DOMAIN Book' = AuctionIds \cup {n}
      /\ n \in DOMAIN Book' \ DOMAIN Book
      /\ Book'[n] = new
  BY <1>2, <1>3 DEF Book
<1>6. Book' = [k \in AuctionIds \cup {n} |->
                 IF k \in AuctionIds THEN Book[k] ELSE new]
  BY <1>2, <1>3, <1>4 DEF Book
<1>7. /\ nftOwner[x] = s
      /\ nftOwner' = [nftOwner EXCEPT ![x] = Market]
  BY DEF Creates, Escrow
<1>8. Wealth' = Wealth
  BY WorthOpen, WealthSame
<1>9. Book' = [k \in DOMAIN Book \cup {n} |->
                 IF k \in DOMAIN Book THEN Book[k]
                 ELSE [seller |-> s, item |-> x, phase |-> "open",
                       leader |-> Zero, token |-> Book'[k].token,
                       amount |-> 0, price |-> 0]]
  <2>1. new.token = Native
    BY DEF new
  <2>2. QED
    BY <1>5, <1>6, <2>1 DEF new
<1>10. QED
  BY <1>5, <1>7, <1>8, <1>9 DEF English!Open, English!Lots, Book, Wealth

LEMMA RefineBid ==
  ASSUME TypeOK, TypeOK', LotsConsistent,
         NEW s \in Accounts, NEW i \in AuctionIds, NEW t \in Tokens,
         NEW m \in Nat, NEW r \in Rounds, Bidding(s, i, t, m, r)
  PROVE  English!Raise(i, s)
<1> DEFINE usd == QuoteBidUsd(t, m, r)
           old == auctions[i]
<1>1. /\ ~old.ended /\ m # 0 /\ usd > old.highestBidUsd
      /\ auctionCount' = auctionCount /\ nftOwner' = nftOwner
      /\ auctions' = [auctions EXCEPT ![i] =
                        [@ EXCEPT !.highestBidder = s, !.paymentToken = t,
                                  !.highestBid = m, !.highestBidUsd = usd]]
  BY DEF Bidding, PlaceBid, Outbids
<1> HIDE DEF usd
<1>2. old \in Auction /\ auctions \in [AuctionIds -> Auction]
  BY DEF TypeOK
<1>3. auctions'[i] = [old EXCEPT !.highestBidder = s,
                        !.paymentToken = t, !.highestBid = m,
                        !.highestBidUsd = usd]
  BY <1>1, <1>2
<1>4. /\ auctions'[i].seller = old.seller
      /\ auctions'[i].item = old.item
      /\ auctions'[i].ended = old.ended
      /\ auctions'[i].highestBidder = s /\ auctions'[i].paymentToken = t
      /\ auctions'[i].highestBid = m /\ auctions'[i].highestBidUsd = usd
  BY <1>2, <1>3 DEF Auction
<1>5. Lot(i)' = [seller |-> old.seller, item |-> old.item,
                 phase |-> "open", leader |-> s, token |-> t, amount |-> m,
                 price |-> usd]
  BY <1>1, <1>4 DEF Lot, Phase, IsOpen
<1>6. /\ Lot(i).phase = "open" /\ Lot(i).price = old.highestBidUsd
      /\ Lot(i).seller = old.seller /\ Lot(i).item = old.item
  BY <1>1 DEF Lot, Phase, IsOpen
<1>7. Book' = [Book EXCEPT ![i] = Lot(i)']
  BY <1>1, BookUpdate
<1>8. Book[i] = Lot(i) /\ i \in DOMAIN Book
  BY DEF Book
<1>9. Book'[i] = Lot(i)'
  BY <1>7, <1>8
<1>10. /\ Book'[i].token = t /\ Book'[i].amount = m /\ Book'[i].price = usd
  BY <1>5, <1>9
<1>11. Wealth' = Wealth
  BY WorthBid, WealthSame
<1>12. Book' = [Book EXCEPT ![i] =
                  [seller |-> Book[i].seller, item |-> Book[i].item,
                   phase |-> "open", leader |-> s, token |-> Book'[i].token,
                   amount |-> Book'[i].amount, price |-> Book'[i].price]]
  BY <1>5, <1>6, <1>7, <1>8, <1>10
<1>13. /\ Book[i].phase = "open" /\ Book'[i].price > Book[i].price
       /\ Book'[i].amount > 0
  BY <1>1, <1>6, <1>8, <1>10
<1>14. QED
  BY <1>1, <1>11, <1>12, <1>13 DEF English!Raise, Book, Wealth

(* What closing does to the lot.                                           *)
LEMMA RefineClose ==
  ASSUME TypeOK, NEW i \in AuctionIds, auctionCount' = auctionCount,
         CloseAuction(i), ~auctions[i].ended
  PROVE  /\ i \in DOMAIN Book /\ Book[i] = Lot(i) /\ Lot(i).phase = "open"
         /\ Book' = [Book EXCEPT ![i] =
                       [@ EXCEPT !.phase =
                          IF auctions[i].highestBidder = Zero THEN "returned"
                          ELSE "sold"]]
<1>1. auctions' = [auctions EXCEPT ![i] = [@ EXCEPT !.ended = TRUE]]
  BY DEF CloseAuction
<1>2. auctions[i] \in Auction /\ auctions \in [AuctionIds -> Auction]
  BY DEF TypeOK
<1>3. auctions'[i] = [auctions[i] EXCEPT !.ended = TRUE]
  BY <1>1, <1>2
<1>4. /\ auctions'[i].seller = auctions[i].seller
      /\ auctions'[i].item = auctions[i].item
      /\ auctions'[i].ended = TRUE
      /\ auctions'[i].highestBidder = auctions[i].highestBidder
      /\ auctions'[i].paymentToken = auctions[i].paymentToken
      /\ auctions'[i].highestBid = auctions[i].highestBid
      /\ auctions'[i].highestBidUsd = auctions[i].highestBidUsd
  BY <1>2, <1>3 DEF Auction
<1>5. /\ Lot(i).phase = "open"
      /\ Lot(i)' = [Lot(i) EXCEPT !.phase =
                      IF auctions[i].highestBidder = Zero THEN "returned"
                      ELSE "sold"]
  BY <1>4 DEF Lot, Phase, IsOpen
<1>6. \A k \in AuctionIds : k # i => auctions'[k] = auctions[k]
  BY <1>1 DEF TypeOK
<1>7. Book' = [Book EXCEPT ![i] = Lot(i)']
  BY <1>6, BookUpdate
<1>8. Book[i] = Lot(i) /\ i \in DOMAIN Book
  BY DEF Book
<1>9. QED
  BY <1>5, <1>7, <1>8

LEMMA RefineUnsold ==
  ASSUME TypeOK, TypeOK', NEW i \in AuctionIds, ~auctions[i].ended,
         auctionCount' = auctionCount, CloseAuction(i), purse' = purse,
         auctions[i].highestBidder = Zero,
         nftOwner' = [nftOwner EXCEPT ![auctions[i].item] =
                        auctions[i].seller]
  PROVE  English!Return(i)
<1>1. /\ i \in DOMAIN Book /\ Book[i] = Lot(i) /\ Lot(i).phase = "open"
      /\ Book' = [Book EXCEPT ![i] = [@ EXCEPT !.phase = "returned"]]
  BY RefineClose
<1>2. /\ Lot(i).leader = Zero /\ Lot(i).item = auctions[i].item
      /\ Lot(i).seller = auctions[i].seller
  BY DEF Lot
<1>3. Wealth' = Wealth
  BY WorthUnsold, WealthSame
<1>4. QED
  BY <1>1, <1>2, <1>3 DEF English!Return, Book, Wealth

LEMMA RefineSale ==
  ASSUME TypeOK, TypeOK', NEW i \in AuctionIds, EndSold(i)
  PROVE  \E fee \in 0 .. Lot(i).amount : \E taker \in Accounts \cup {Zero} :
           English!Sell(i, fee, taker)
<1> DEFINE old == auctions[i]
           fee == FeeAmount(old.highestBid)
           taker == IF EffectiveFeeRecipient \in Accounts
                    THEN EffectiveFeeRecipient ELSE Zero
           Gain(a) == (IF a = Lot(i).seller THEN Lot(i).amount - fee ELSE 0)
                        + (IF a = taker THEN fee ELSE 0)
                        - (IF a = Lot(i).leader THEN Lot(i).amount ELSE 0)
<1>1. /\ CloseAuction(i) /\ auctionCount' = auctionCount /\ ~old.ended
      /\ old.highestBidder # Zero
      /\ nftOwner' = [nftOwner EXCEPT ![old.item] = old.highestBidder]
  BY DEF EndSold, CanEndSold, CanSettle, Release, CanRelease
<1>2. /\ Lot(i).seller = old.seller /\ Lot(i).item = old.item
      /\ Lot(i).leader = old.highestBidder
      /\ Lot(i).token = old.paymentToken /\ Lot(i).amount = old.highestBid
  BY DEF Lot
<1>3. /\ i \in DOMAIN Book /\ Book[i] = Lot(i) /\ Lot(i).phase = "open"
      /\ Book' = [Book EXCEPT ![i] = [@ EXCEPT !.phase = "sold"]]
  BY <1>1, RefineClose
<1>4. /\ fee \in 0 .. Lot(i).amount /\ fee \in Nat
      /\ old.highestBid \in Nat /\ old.paymentToken \in Tokens
  BY <1>2, FeeBound DEF TypeOK, Auction
<1>5. taker \in Accounts \cup {Zero}
  OBVIOUS
<1>6. ASSUME NEW a \in Accounts, NEW u \in Tokens
      PROVE  Worth(a, u)' = IF u = Lot(i).token THEN Worth(a, u) + Gain(a)
                            ELSE Worth(a, u)
  <2>1. a = EffectiveFeeRecipient <=> a = taker
    BY <1>6, Addresses
  <2>2. Worth(a, u)' =
          Worth(a, u)
            + Only(u = old.paymentToken /\ a = old.seller,
                   old.highestBid - fee)
            + Only(u = old.paymentToken /\ a = EffectiveFeeRecipient, fee)
            - Only(u = old.paymentToken /\ a = old.highestBidder,
                   old.highestBid)
    BY WorthSale
  <2>3. Worth(a, u) \in Nat
    BY WorthNat
  <2> HIDE DEF old, fee, taker
  <2>4. QED
    BY <1>2, <1>4, <2>1, <2>2, <2>3 DEF Only
<1> HIDE DEF fee, taker
<1>7. Wealth' =
        [a \in Accounts |->
           [Wealth[a] EXCEPT ![Book[i].token] =
              @ + ((IF a = Book[i].seller THEN Book[i].amount - fee ELSE 0)
                     + (IF a = taker THEN fee ELSE 0)
                     - (IF a = Book[i].leader THEN Book[i].amount ELSE 0))]]
  BY <1>2, <1>3, <1>4, <1>6 DEF Wealth
<1>8. English!Sell(i, fee, taker)
  <2>1. /\ Book[i].phase = "open" /\ Book[i].leader # Zero
        /\ nftOwner' = [nftOwner EXCEPT ![Book[i].item] = Book[i].leader]
    BY <1>1, <1>2, <1>3
  <2>2. QED
    BY <1>3, <1>7, <2>1, Zenon DEF English!Sell, Book, Wealth
<1>9. QED
  BY <1>4, <1>5, <1>8

LEMMA RefineGift ==
  ASSUME TypeOK, TypeOK', NEW s \in Accounts, NEW t \in Erc20s, NEW m \in Nat,
         SendToken(s, t, m)
  PROVE  English!Give(s, t)
<1>1. /\ m # 0 /\ book' = book /\ nftOwner' = nftOwner /\ t \in Tokens
  BY Addresses DEF SendToken
<1>2. AuctionIds' = AuctionIds /\ \A id \in AuctionIds : Lot(id)' = Lot(id)
  BY <1>1, LotSame DEF book, AuctionIds
<1>3. Book' = Book
  BY <1>2 DEF Book
<1>4. ASSUME NEW a \in Accounts, NEW u \in Tokens
      PROVE  Worth(a, u)' = IF u = t /\ a = s THEN Worth(a, u) - m
                            ELSE Worth(a, u)
  <2>1. Worth(a, u)' = Worth(a, u) - Only(u = t /\ a = s, m)
    BY WorthGift
  <2>2. Worth(a, u) \in Nat
    BY WorthNat
  <2>3. QED
    BY <2>1, <2>2 DEF Only
<1>5. Worth(s, t)' = Worth(s, t) - m /\ Worth(s, t) \in Nat
  BY <1>1, <1>4, WorthNat
<1>6. Wealth'[s][t] = Worth(s, t)' /\ Wealth[s][t] = Worth(s, t)
  BY <1>1 DEF Wealth
<1>7. Wealth' = [Wealth EXCEPT ![s] = [@ EXCEPT ![t] = Wealth'[s][t]]]
  BY <1>1, <1>4, <1>6 DEF Wealth
<1>8. Wealth'[s][t] < Wealth[s][t]
  BY <1>1, <1>5, <1>6
<1>9. QED
  BY <1>1, <1>3, <1>7, <1>8 DEF English!Give, Book, Wealth

LEMMA RefineNext ==
  ASSUME TypeOK, LotsConsistent, [Next]_vars
  PROVE  [English!Next]_(English!vars)
<1>1. TypeOK'
  BY TypeNext
<1>2. \A a \in Accounts, t \in Tokens :
        Worth(a, t) \in Nat /\ balance[t][a] \in Nat
  BY WorthNat
<1>3. DOMAIN Book = AuctionIds /\ \A i \in AuctionIds : Book[i] = Lot(i)
  BY DEF Book
<1>4. CASE Idles
  <2>1. book' = book /\ balance' = balance /\ nftOwner' = nftOwner
    BY <1>4 DEF Idles, purse
  <2>2. \A a \in Accounts, t \in Tokens : Worth(a, t)' = Worth(a, t)
    BY <1>1, <1>2, <2>1, WorthUntouched
  <2>3. QED
    BY <2>1, <2>2, RefineStutter
<1>5. ASSUME NEW s \in Accounts, NEW x \in Items, NEW e \in Nat,
             NEW extra \in Extra, Creates(s, x, e, extra)
      PROVE  English!Next
  <2>1. English!Open(s, x)
    BY <1>1, <1>5, RefineOpen
  <2>2. QED
    BY <2>1, Zenon DEF English!Next
<1>6. ASSUME NEW s \in Accounts, NEW i \in AuctionIds, NEW t \in Tokens,
             NEW m \in Nat, NEW r \in Rounds, Bidding(s, i, t, m, r)
      PROVE  English!Next
  <2>1. English!Raise(i, s)
    BY <1>1, <1>6, RefineBid
  <2>2. QED
    BY <1>3, <2>1, Zenon DEF English!Next, English!Lots, Book
<1>7. ASSUME NEW i \in AuctionIds,
             EndUnsold(i) \/ \E s \in Accounts : CancelAuction(s, i)
      PROVE  English!Next
  <2>1. /\ ~auctions[i].ended /\ auctionCount' = auctionCount
        /\ CloseAuction(i) /\ purse' = purse
        /\ auctions[i].highestBidder = Zero
        /\ nftOwner' = [nftOwner EXCEPT ![auctions[i].item] =
                          auctions[i].seller]
    BY <1>7 DEF EndUnsold, CanEndUnsold, CanSettle, CancelAuction, CanCancel,
      Release, CanRelease
  <2>2. English!Return(i)
    BY <1>1, <2>1, RefineUnsold
  <2>3. QED
    BY <1>3, <2>2, Zenon DEF English!Next, English!Lots, Book
<1>8. ASSUME NEW i \in AuctionIds, EndSold(i)
      PROVE  English!Next
  <2>1. \E fee \in 0 .. Book[i].amount : \E taker \in Accounts \cup {Zero} :
          English!Sell(i, fee, taker)
    BY <1>1, <1>3, <1>8, RefineSale
  <2>2. QED
    BY <1>3, <2>1, Zenon DEF English!Next, English!Lots, Book
<1>9. ASSUME NEW s \in Accounts, NEW x \in Items, NEW to \in NftRecipients,
             SendNft(s, x, to)
      PROVE  English!Next
  <2>1. /\ nftOwner[x] = s /\ nftOwner' = [nftOwner EXCEPT ![x] = to]
        /\ book' = book /\ balance' = balance
        /\ to \in Accounts \cup {Market}
    BY <1>9, ChoiceAssumption DEF SendNft, purse
  <2>2. AuctionIds' = AuctionIds /\ \A id \in AuctionIds : Lot(id)' = Lot(id)
    BY <2>1, LotSame DEF book, AuctionIds
  <2>3. Book' = Book
    BY <2>2 DEF Book
  <2>4. \A a \in Accounts, t \in Tokens : Worth(a, t)' = Worth(a, t)
    BY <1>1, <1>2, <2>1, WorthUntouched
  <2>5. Wealth' = Wealth
    BY <2>4, WealthSame
  <2>6. English!Carry(x, to)
    BY <2>1, <2>3, <2>5 DEF English!Carry, Book, Wealth
  <2>7. QED
    BY <2>1, <2>6, Zenon DEF English!Next
<1>10. ASSUME NEW s \in Accounts, NEW t \in Erc20s, NEW m \in Nat,
              SendToken(s, t, m)
       PROVE  English!Next
  <2>1. English!Give(s, t) /\ t \in Tokens
    BY <1>1, <1>10, RefineGift, Addresses
  <2>2. QED
    BY <2>1, Zenon DEF English!Next
<1>11. QED
  BY <1>4, <1>5, <1>6, <1>7, <1>8, <1>9, <1>10, Steps

(* Whatever the constants, each version of the market is an English        *)
(* auction: lots open with an item of the seller's, are led by strictly    *)
(* better offers, and money and item change hands only when one closes.    *)
THEOREM MarketIsEnglishAuction == Spec => ImplementsEnglishAuction
<1>1. Spec => []TypeOK
  BY TypeCorrect
<1>2. Spec => []LotsConsistent
  BY LotsCorrect
<1>3. TypeOK /\ LotsConsistent /\ [Next]_vars
        => [English!Next]_(English!vars)
  BY RefineNext
<1>4. QED
  BY <1>1, <1>2, <1>3, RefineInit, PTL
  DEF Spec, ImplementsEnglishAuction, English!Spec
-----------------------------------------------------------------------------
(* What a step that emits event e does.                                    *)
Emission(e) ==
  LET id == e.args.auctionId
  IN  \/ /\ e.name = "AuctionCreatedV3"
         /\ id = auctionCount /\ id \in AuctionIds'
         /\ e.args.seller \in Accounts /\ e.args.tokenId \in Items
      \/ /\ e.name = "BidPlaced"
         /\ id \in AuctionIds /\ ~auctions[id].ended
         /\ "amountUsd" \in DOMAIN e.args /\ e.args.bidder \in Accounts
         /\ e.args.amountUsd = auctions'[id].highestBidUsd
         /\ auctions[id].highestBidUsd < auctions'[id].highestBidUsd
      \/ /\ e.name \in {"AuctionEnded", "AuctionCancelled"}
         /\ id \in AuctionIds /\ ~auctions[id].ended
         /\ auctions'[id].ended

(* What an event of the past says still stands.                            *)
Stands(e) ==
  /\ OfAuction(e) /\ ArgsSound(e, AuctionIds, Accounts, Items)
  /\ e.name \in {"AuctionEnded", "AuctionCancelled"} =>
       auctions[e.args.auctionId].ended
  /\ e.name = "BidPlaced" =>
       e.args.amountUsd <= auctions[e.args.auctionId].highestBidUsd

LogInv ==
  /\ \E S : log \in Seq(S)
  /\ \A i \in DOMAIN log : Stands(log[i])
  /\ InOrder(log)

(* Auctions stay, an ended one stays ended, and the best bid never falls.  *)
LEMMA AuctionsGrow ==
  ASSUME TypeOK, TypeOK', [Next]_vars, NEW id \in AuctionIds
  PROVE  /\ id \in AuctionIds'
         /\ auctions[id].ended => auctions'[id].ended
         /\ auctions[id].highestBidUsd <= auctions'[id].highestBidUsd
<1> DEFINE Goal == /\ id \in AuctionIds'
                   /\ auctions[id].ended => auctions'[id].ended
                   /\ auctions[id].highestBidUsd <= auctions'[id].highestBidUsd
<1> USE DEF book
<1>1. auctions[id] \in Auction /\ auctions[id].highestBidUsd \in Nat
  BY DEF TypeOK, Auction
<1>2. ASSUME UNCHANGED <<auctionCount, auctions>> PROVE Goal
  BY <1>1, <1>2 DEF AuctionIds
<1>3. CASE Idles
  BY <1>2, <1>3 DEF Idles
<1>4. ASSUME NEW s \in Accounts, NEW x \in Items, NEW e \in Nat,
             NEW extra \in Extra, Creates(s, x, e, extra)
      PROVE  Goal
  <2>1. PushAuction(s, x, e, extra)
    BY <1>4 DEF Creates
  <2>2. AuctionIds' = AuctionIds \cup {auctionCount}
    BY <2>1, Appended
  <2>3. auctions'[id] = auctions[id]
    BY <2>1, Appended
  <2>4. QED
    BY <1>1, <2>2, <2>3
<1>5. ASSUME NEW s \in Accounts, NEW i \in AuctionIds, NEW t \in Tokens,
             NEW m \in Nat, NEW r \in Rounds, Bidding(s, i, t, m, r)
      PROVE  Goal
  <2> DEFINE usd == QuoteBidUsd(t, m, r)
  <2>1. /\ auctionCount' = auctionCount
        /\ auctions' = [auctions EXCEPT ![i] =
                          [@ EXCEPT !.highestBidder = s, !.paymentToken = t,
                                    !.highestBid = m, !.highestBidUsd = usd]]
        /\ usd > auctions[i].highestBidUsd /\ Quotable(t, r)
    BY <1>5 DEF Bidding, PlaceBid, Outbids
  <2>2. usd \in Int
    BY <2>1, QuoteInt
  <2> HIDE DEF usd
  <2>3. CASE id = i
    BY <1>1, <2>1, <2>2, <2>3 DEF AuctionIds, TypeOK, Auction
  <2>4. CASE id # i
    BY <1>1, <2>1, <2>4 DEF AuctionIds, TypeOK
  <2>5. QED
    BY <2>3, <2>4
<1>6. ASSUME NEW i \in AuctionIds,
             \/ EndUnsold(i) \/ EndSold(i)
             \/ \E s \in Accounts : CancelAuction(s, i)
      PROVE  Goal
  <2>1. /\ auctionCount' = auctionCount
        /\ auctions' = [auctions EXCEPT ![i] = [@ EXCEPT !.ended = TRUE]]
    BY <1>6 DEF EndUnsold, EndSold, CancelAuction, CloseAuction
  <2>2. AuctionIds' = AuctionIds /\ DOMAIN auctions = AuctionIds
    BY <2>1 DEF AuctionIds, TypeOK
  <2>3. auctions'[id].highestBidUsd = auctions[id].highestBidUsd
    BY <1>1, <2>1, <2>2 DEF Auction
  <2>4. auctions[id].ended => auctions'[id].ended
    BY <1>1, <2>1, <2>2 DEF Auction
  <2>5. QED
    BY <1>1, <2>2, <2>3, <2>4
<1>7. ASSUME NEW s \in Accounts, NEW x \in Items, NEW to \in NftRecipients,
             SendNft(s, x, to)
      PROVE  Goal
  BY <1>2, <1>7 DEF SendNft
<1>8. ASSUME NEW s \in Accounts, NEW t \in Erc20s, NEW m \in Nat,
             SendToken(s, t, m)
      PROVE  Goal
  BY <1>2, <1>8 DEF SendToken
<1>9. QED
  BY <1>3, <1>4, <1>5, <1>6, <1>7, <1>8, Steps

LEMMA EventSteps ==
  ASSUME TypeOK, [EventNext]_eventVars
  PROVE  /\ [Next]_vars
         /\ \/ log' = log
            \/ \E e : /\ e.abi = "auction_market_v3"
                      /\ log' = Append(log, e)
                      /\ Emission(e)
<1> DEFINE Told == \E e : /\ e.abi = "auction_market_v3"
                         /\ log' = Append(log, e)
                         /\ Emission(e)
           Event(name, args) == [abi |-> "auction_market_v3", name |-> name,
                                 args |-> args]
<1>1. ASSUME NEW s \in Accounts, CreateEmits(s)
      PROVE  SellerCall(s) /\ (log' = log \/ Told)
  <2>1. ASSUME NEW x \in Items, NEW d \in Durations, CreateAuction(s, x, d),
               log' = log
        PROVE  SellerCall(s)
    BY <2>1 DEF SellerCall
  <2>2. ASSUME NEW x \in Items, NEW b \in StartTimes, NEW e \in EndTimes,
               NEW p \in StartingPrices, CreateAuctionV3(s, x, b, e, p),
               Emit("AuctionCreatedV3", [auctionId |-> auctionCount,
                                         seller |-> s, tokenId |-> x])
        PROVE  SellerCall(s) /\ Told
    <3>1. auctionCount' = auctionCount + 1 /\ auctionCount \in Nat
      BY <2>2 DEF CreateAuctionV3, PushAuction, TypeOK
    <3>2. auctionCount \in AuctionIds'
      BY <3>1 DEF AuctionIds
    <3> DEFINE e1 == Event("AuctionCreatedV3",
                           [auctionId |-> auctionCount, seller |-> s,
                            tokenId |-> x])
    <3>3. Emission(e1)
      BY <3>2 DEF Emission
    <3>4. log' = Append(log, e1) /\ e1.abi = "auction_market_v3"
      BY <2>2 DEF Emit
    <3>5. Told
      BY <3>3, <3>4
    <3>6. QED
      BY <2>2, <3>5 DEF SellerCall
  <2>3. QED
    BY <1>1, <2>1, <2>2 DEF CreateEmits
<1>2. ASSUME NEW s \in Accounts, BidEmits(s)
      PROVE  BidderCall(s) /\ Told
  <2>1. PICK id \in AuctionIds, m \in Amounts, r \in Rounds :
          /\ \/ BidWithEth(s, id, m, r)
             \/ \E t \in Erc20s : BidWithToken(s, id, t, m, r)
          /\ Emit("BidPlaced", [auctionId |-> id, bidder |-> s,
                                amountUsd |-> auctions'[id].highestBidUsd])
    BY <1>2 DEF BidEmits
  <2>2. PICK t \in Tokens : PlaceBid(s, id, t, m, r)
    BY <2>1 DEF BidWithEth, BidWithToken, Tokens
  <2> DEFINE usd == QuoteBidUsd(t, m, r)
  <2>3. /\ ~auctions[id].ended
        /\ auctions' = [auctions EXCEPT ![id] =
                          [@ EXCEPT !.highestBidder = s, !.paymentToken = t,
                                    !.highestBid = m, !.highestBidUsd = usd]]
        /\ usd > auctions[id].highestBidUsd /\ Quotable(t, r)
    BY <2>2 DEF PlaceBid, Outbids
  <2>4. usd \in Int /\ auctions[id].highestBidUsd \in Nat
    <3>1. m \in Nat /\ auctions[id].highestBidUsd \in Nat
      BY NumberAssumption DEF TypeOK, Auction
    <3>2. QED
      BY <2>3, <3>1, QuoteInt
  <2> HIDE DEF usd
  <2>5. auctions'[id].highestBidUsd = usd
    BY <2>3 DEF TypeOK, Auction
  <2> DEFINE e1 == Event("BidPlaced",
                         [auctionId |-> id, bidder |-> s,
                          amountUsd |-> auctions'[id].highestBidUsd])
  <2>6. Emission(e1)
    BY <2>3, <2>4, <2>5 DEF Emission
  <2>7. log' = Append(log, e1) /\ e1.abi = "auction_market_v3"
    BY <2>1 DEF Emit
  <2>8. Told
    BY <2>6, <2>7
  <2>9. QED
    BY <2>1, <2>8 DEF BidderCall
<1>3. ASSUME NEW id \in AuctionIds, NEW name,
             \/ /\ name = "AuctionEnded"
                /\ EndAuction(id)
             \/ /\ name = "AuctionCancelled"
                /\ \E s \in Accounts : CancelAuction(s, id),
             Emit(name, [auctionId |-> id])
      PROVE  Told
  <2> DEFINE e1 == Event(name, [auctionId |-> id])
  <2>1. /\ ~auctions[id].ended
        /\ auctions' = [auctions EXCEPT ![id] = [@ EXCEPT !.ended = TRUE]]
    BY <1>3 DEF EndAuction, EndUnsold, CanEndUnsold, EndSold, CanEndSold,
       CanSettle, CancelAuction, CanCancel, CloseAuction
  <2>2. auctions'[id].ended
    BY <2>1 DEF TypeOK, Auction
  <2>3. Emission(e1)
    BY <1>3, <2>1, <2>2 DEF Emission
  <2>4. log' = Append(log, e1) /\ e1.abi = "auction_market_v3"
    BY <1>3 DEF Emit
  <2>5. QED
    BY <2>3, <2>4
<1>4. ASSUME NEW s \in Accounts, CancelEmits(s)
      PROVE  SellerCall(s) /\ Told
  <2>1. PICK id \in AuctionIds : /\ CancelAuction(s, id)
                                 /\ Emit("AuctionCancelled", [auctionId |-> id])
    BY <1>4 DEF CancelEmits
  <2>2. Told
    BY <1>3, <2>1
  <2>3. QED
    BY <2>1, <2>2 DEF SellerCall
<1> HIDE DEF Told
<1>5. ASSUME EndEmits PROVE [Next]_vars /\ (log' = log \/ Told)
  <2>1. PICK id \in AuctionIds : /\ EndAuction(id)
                                 /\ Emit("AuctionEnded", [auctionId |-> id])
    BY <1>5 DEF EndEmits
  <2>2. Told
    BY <1>3, <2>1
  <2>3. Next
    BY <2>1 DEF Next
  <2>4. QED
    BY <2>2, <2>3
<1>6. ASSUME \/ \E s \in Accounts :
                  (OwnerCall(s) \/ HolderCall(s)) /\ log' = log
             \/ Tick /\ log' = log
             \/ UNCHANGED eventVars
      PROVE  [Next]_vars /\ (log' = log \/ Told)
  BY <1>6 DEF Next, eventVars
<1>7. ASSUME \E s \in Accounts :
               CreateEmits(s) \/ BidEmits(s) \/ CancelEmits(s)
      PROVE  [Next]_vars /\ (log' = log \/ Told)
  <2>1. PICK s \in Accounts : CreateEmits(s) \/ BidEmits(s) \/ CancelEmits(s)
    BY <1>7
  <2>2. (SellerCall(s) \/ BidderCall(s)) /\ (log' = log \/ Told)
    BY <1>1, <1>2, <1>4, <2>1
  <2>3. Next
    BY <2>2 DEF Next
  <2>4. QED
    BY <2>2, <2>3
<1>8. [Next]_vars /\ (log' = log \/ Told)
  BY <1>5, <1>6, <1>7 DEF EventNext
<1>9. QED
  BY <1>8 DEF Told

LEMMA PastStands ==
  ASSUME TypeOK, TypeOK', [Next]_vars
  PROVE  \A e : Stands(e) => Stands(e)'
<1> SUFFICES ASSUME NEW e, Stands(e) PROVE Stands(e)'
  OBVIOUS
<1> DEFINE id == e.args.auctionId
<1>1. id \in AuctionIds
  BY DEF Stands, ArgsSound
<1>2. /\ id \in AuctionIds'
      /\ auctions[id].ended => auctions'[id].ended
      /\ auctions[id].highestBidUsd <= auctions'[id].highestBidUsd
  BY <1>1, AuctionsGrow
<1>3. auctions[id].highestBidUsd \in Nat /\ auctions'[id].highestBidUsd \in Nat
  BY <1>1, <1>2 DEF TypeOK, Auction
<1>4. ArgsSound(e, AuctionIds', Accounts, Items)
  BY <1>2 DEF Stands, ArgsSound
<1>5. e.name = "BidPlaced" => e.args.amountUsd \in Nat
  BY DEF Stands, ArgsSound
<1>6. QED
  BY <1>2, <1>3, <1>4, <1>5 DEF Stands

LEMMA EmittedStands ==
  ASSUME TypeOK, TypeOK', [Next]_vars,
         NEW e, e.abi = "auction_market_v3", Emission(e)
  PROVE  Stands(e)'
<1> DEFINE id == e.args.auctionId
<1>1. OfAuction(e)
  BY DEF Emission, OfAuction, AuctionEvents
<1>2. id \in AuctionIds'
  BY AuctionsGrow DEF Emission
<1>3. auctions'[id].highestBidUsd \in Nat
  BY <1>2 DEF TypeOK, Auction
<1>4. e.name = "BidPlaced" =>
        /\ auctions[id].highestBidUsd \in Nat
        /\ e.args.amountUsd = auctions'[id].highestBidUsd
        /\ auctions[id].highestBidUsd < auctions'[id].highestBidUsd
        /\ "amountUsd" \in DOMAIN e.args /\ e.args.bidder \in Accounts
  BY DEF Emission, TypeOK, Auction
<1>5. e.name = "BidPlaced" =>
        e.args.amountUsd \in Nat \ {0}
        /\ e.args.amountUsd <= auctions'[id].highestBidUsd
  BY <1>3, <1>4
<1>6. ArgsSound(e, AuctionIds', Accounts, Items)
  BY <1>2, <1>4, <1>5 DEF Emission, ArgsSound
<1>7. QED
  BY <1>1, <1>5, <1>6 DEF Emission, Stands

(* An event fits behind those of its auction that stand.                   *)
LEMMA EmittedInOrder ==
  ASSUME TypeOK, TypeOK', [Next]_vars, LogInv, NEW e, Emission(e)
  PROVE  InOrder(Append(log, e))
<1>1. PICK S : log \in Seq(S)
  BY DEF LogInv
<1> DEFINE n == Len(log)
           more == Append(log, e)
<1>2. /\ n \in Nat /\ DOMAIN log = 1 .. n /\ DOMAIN more = 1 .. n + 1
      /\ \A i \in 1 .. n : more[i] = log[i]
      /\ more[n + 1] = e
  <2>1. log \in Seq(S \cup {e}) /\ e \in S \cup {e}
    BY <1>1
  <2>2. QED
    BY <2>1
<1>3. \A i \in 1 .. n : log[i].args.auctionId = e.args.auctionId =>
        /\ log[i].name \notin {"AuctionEnded", "AuctionCancelled"}
        /\ e.name # "AuctionCreatedV3"
        /\ log[i].name = "BidPlaced" /\ e.name = "BidPlaced" =>
             log[i].args.amountUsd < e.args.amountUsd
  <2> SUFFICES ASSUME NEW i \in 1 .. n,
                      log[i].args.auctionId = e.args.auctionId
               PROVE  /\ log[i].name \notin {"AuctionEnded", "AuctionCancelled"}
                      /\ e.name # "AuctionCreatedV3"
                      /\ log[i].name = "BidPlaced" /\ e.name = "BidPlaced" =>
                           log[i].args.amountUsd < e.args.amountUsd
    OBVIOUS
  <2> DEFINE id == e.args.auctionId
  <2>1. Stands(log[i])
    BY <1>2 DEF LogInv
  <2>2. id \in AuctionIds /\ id # auctionCount
    BY <2>1 DEF Stands, ArgsSound, AuctionIds, TypeOK
  <2>3. e.name # "AuctionCreatedV3" /\ ~auctions[id].ended
    BY <2>2 DEF Emission
  <2>4. log[i].name \notin {"AuctionEnded", "AuctionCancelled"}
    BY <2>1, <2>3 DEF Stands
  <2>5. ASSUME log[i].name = "BidPlaced", e.name = "BidPlaced"
        PROVE  log[i].args.amountUsd < e.args.amountUsd
    <3>1. /\ log[i].args.amountUsd \in Nat
          /\ log[i].args.amountUsd <= auctions[id].highestBidUsd
      BY <2>1, <2>5 DEF Stands, ArgsSound
    <3>2. auctions[id].highestBidUsd < e.args.amountUsd
      BY <2>5 DEF Emission
    <3>3. auctions[id].highestBidUsd \in Nat
      BY <2>2 DEF TypeOK, Auction
    <3>4. e.args.amountUsd \in Int
      <4>1. auctions'[id].highestBidUsd \in Nat
        BY <2>2, AuctionsGrow DEF TypeOK, Auction
      <4>2. QED
        BY <2>5, <4>1 DEF Emission
    <3>5. QED
      BY <3>1, <3>2, <3>3, <3>4
  <2>6. QED
    BY <2>3, <2>4, <2>5
<1> HIDE DEF n, more
<1>4. SUFFICES ASSUME NEW c \in 1 .. n + 1, NEW i \in 1 .. n + 1,
                      NEW j \in 1 .. n + 1, i < j,
                      OfAuction(more[c]), more[c].name = "AuctionCreatedV3",
                      \A k \in {i, j} :
                        /\ OfAuction(more[k])
                        /\ more[k].args.auctionId = more[c].args.auctionId
               PROVE  /\ more[i].name \notin {"AuctionEnded", "AuctionCancelled"}
                      /\ more[j].name # "AuctionCreatedV3"
                      /\ more[i].name = "BidPlaced" /\ more[j].name = "BidPlaced"
                           => more[i].args.amountUsd < more[j].args.amountUsd
  BY <1>2 DEF InOrder, more
<1>5. i \in 1 .. n /\ more[i] = log[i]
  BY <1>2, <1>4
<1>6. CASE j = n + 1
  BY <1>2, <1>3, <1>4, <1>5, <1>6
<1>7. CASE j # n + 1
  <2>1. j \in 1 .. n
    BY <1>2, <1>7
  <2>2. CASE c = n + 1
    BY <1>2, <1>3, <1>4, <1>5, <2>2
  <2>3. CASE c # n + 1
    <3>1. c \in 1 .. n /\ more[c] = log[c] /\ more[j] = log[j]
      BY <1>2, <2>1, <2>3
    <3>2. QED
      BY <1>2, <1>4, <1>5, <2>1, <3>1 DEF LogInv, InOrder
  <2>4. QED
    BY <2>2, <2>3
<1>8. QED
  BY <1>6, <1>7

LEMMA LogInvNext ==
  ASSUME TypeOK, TypeOK', LogInv, [EventNext]_eventVars
  PROVE  LogInv'
<1>1. [Next]_vars
  BY EventSteps
<1>2. \A i \in DOMAIN log : Stands(log[i])
  BY DEF LogInv
<1>3. CASE log' = log
  <2>1. ASSUME NEW i \in DOMAIN log' PROVE Stands(log[i])'
    <3>1. PICK e : e = log[i]
      OBVIOUS
    <3>2. Stands(e)'
      BY <1>1, <1>2, <1>3, <3>1, PastStands
    <3>3. QED
      BY <1>3, <3>1, <3>2
  <2>2. QED
    BY <1>3, <2>1 DEF LogInv
<1>4. ASSUME NEW e, e.abi = "auction_market_v3", log' = Append(log, e),
             Emission(e)
      PROVE  LogInv'
  <2>1. PICK S : log \in Seq(S)
    BY DEF LogInv
  <2> DEFINE n == Len(log)
  <2>2. /\ log' \in Seq(S \cup {e}) /\ n \in Nat
        /\ DOMAIN log = 1 .. n /\ DOMAIN log' = 1 .. n + 1
        /\ \A i \in 1 .. n : log'[i] = log[i]
        /\ log'[n + 1] = e
    <3>1. log \in Seq(S \cup {e}) /\ e \in S \cup {e}
      BY <2>1
    <3>2. QED
      BY <1>4, <3>1
  <2> HIDE DEF n
  <2>3. ASSUME NEW i \in DOMAIN log' PROVE Stands(log[i])'
    <3>1. PICK d : d = log'[i]
      OBVIOUS
    <3>2. CASE i = n + 1
      BY <1>1, <1>4, <2>2, <3>1, <3>2, EmittedStands
    <3>3. CASE i # n + 1
      <4>1. i \in 1 .. n /\ d = log[i]
        BY <2>2, <3>1, <3>3
      <4>2. Stands(d)'
        BY <1>1, <1>2, <2>2, <4>1, PastStands
      <4>3. QED
        BY <3>1, <4>2
    <3>4. QED
      BY <3>2, <3>3
  <2>4. InOrder(log')
    BY <1>1, <1>4, EmittedInOrder
  <2>5. QED
    BY <2>2, <2>3, <2>4 DEF LogInv
<1>5. QED
  BY <1>3, <1>4, EventSteps

LEMMA LogInvInit == EventInit => LogInv
<1> SUFFICES ASSUME log = <<>> PROVE LogInv
  BY DEF EventInit
<1>1. log \in Seq({}) /\ DOMAIN log = {}
  OBVIOUS
<1>2. QED
  BY <1>1 DEF LogInv, InOrder

(* Recording its events changes nothing for the market, so that what is    *)
(* proved of Spec holds of the market with its events.                     *)
THEOREM EventsOnlyObserve == EventSpec => Spec
<1>1. EventInit => Init
  BY DEF EventInit
<1>2. TypeOK /\ [EventNext]_eventVars => [Next]_vars
  BY EventSteps
<1>3. EventInit => TypeOK
  BY <1>1, TypeInit
<1>4. TypeOK /\ [EventNext]_eventVars => TypeOK'
  BY <1>2, TypeNext
<1>5. QED
  BY <1>1, <1>2, <1>3, <1>4, PTL DEF EventSpec, Spec

(* Under every implementation and across upgrades, an auction's events     *)
(* come in the order, and with the arguments, that the handlers of the     *)
(* indexer rely on.                                                        *)
THEOREM EventsTellInOrder == EventSpec => []EventsInOrder
<1>1. EventSpec => []TypeOK
  BY EventsOnlyObserve, TypeCorrect, PTL
<1>2. TypeOK /\ TypeOK' /\ LogInv /\ [EventNext]_eventVars => LogInv'
  BY LogInvNext
<1>3. LogInv => EventsInOrder
  BY DEF LogInv, EventsInOrder, Stands
<1>4. QED
  BY <1>1, <1>2, <1>3, LogInvInit, PTL DEF EventSpec
=============================================================================
