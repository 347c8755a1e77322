------------------------- MODULE AuctionMarketProofs -------------------------
(***************************************************************************)
(* Theorems about AuctionMarket for every value of its constants: types,   *)
(* the safety invariants that are about the books alone, the sums of what  *)
(* is owed, and the balances.  Steps sorts the steps by what they do to    *)
(* the books; each invariant then has one case per kind.                   *)
(***************************************************************************)
EXTENDS AuctionMarket, WellFoundedInduction, TLAPS

(* Facts about Total.  The induction is by smallest counterexample, which  *)
(* is a first-order use of the library's WFMin.                            *)

(* A non-empty set of naturals has a least element.                        *)
LEMMA NatMin ==
  ASSUME NEW T \in SUBSET Nat, T # {}
  PROVE  \E m \in T : \A k \in T : m <= k
<1> DEFINE R == OpToRel(<, Nat)
<1>1. IsWellFoundedOn(R, Nat)
  BY NatLessThanWellFounded
<1>2. \A x, y \in Nat : x < y => <<x, y>> \in R
  BY DEF OpToRel
<1> HIDE DEF R
<1>3. PICK m \in T : \A k \in T : ~ (<<k, m>> \in R)
  BY <1>1, WFMin
<1>4. ASSUME NEW k \in T PROVE m <= k
  <2>1. k \in Nat /\ m \in Nat
    OBVIOUS
  <2>2. ~ (k < m)
    BY <1>2, <1>3, <2>1
  <2>3. QED
    BY <2>1, <2>2
<1>5. QED
  BY <1>4

(* p lists the prefix sums of f up to n.                                   *)
Lists(p, f, n) ==
  p = [k \in 0 .. n |-> IF k = 0 THEN 0 ELSE p[k - 1] + f[k - 1]]

(* Every function has its prefix sums: the recursive definition is not an  *)
(* arbitrary CHOOSE.                                                       *)
LEMMA PrefixesExist ==
  ASSUME NEW f, NEW n \in Nat
  PROVE  \E p : Lists(p, f, n)
<1> DEFINE Bad == {m \in Nat : ~ \E p : Lists(p, f, m)}
<1>1. SUFFICES ASSUME Bad # {} PROVE FALSE
  OBVIOUS
<1>2. PICK m \in Bad : \A k \in Bad : m <= k
  <2>1. Bad \in SUBSET Nat
    OBVIOUS
  <2>2. QED
    BY <1>1, <2>1, NatMin
<1>3. CASE m = 0
  <2> DEFINE p == [k \in 0 .. 0 |-> 0]
  <2>1. Lists(p, f, 0)
    BY DEF Lists
  <2>2. QED
    BY <1>2, <1>3, <2>1
<1>4. CASE m # 0
  <2>1. m \in Nat /\ m - 1 \in Nat /\ m - 1 \notin Bad
    BY <1>2, <1>4
  <2>2. PICK p : Lists(p, f, m - 1)
    BY <2>1
  <2> DEFINE q == [k \in 0 .. m |-> IF k = m THEN p[m - 1] + f[m - 1]
                                    ELSE p[k]]
  <2>3. ASSUME NEW k \in 0 .. m
        PROVE  q[k] = IF k = 0 THEN 0 ELSE q[k - 1] + f[k - 1]
    BY <1>4, <2>1, <2>2 DEF Lists
  <2>4. Lists(q, f, m)
    BY <2>3 DEF Lists
  <2>5. QED
    BY <1>2, <2>4
<1>5. QED
  BY <1>3, <1>4

LEMMA PrefixesList ==
  ASSUME NEW f, NEW n \in Nat
  PROVE  Lists(Prefixes(f, n), f, n)
BY PrefixesExist DEF Prefixes, Lists

LEMMA PrefixesStep ==
  ASSUME NEW f, NEW n \in Nat
  PROVE  /\ Prefixes(f, n)[0] = 0
         /\ \A k \in 1 .. n :
              Prefixes(f, n)[k] = Prefixes(f, n)[k - 1] + f[k - 1]
<1> DEFINE p == Prefixes(f, n)
<1>1. p = [k \in 0 .. n |-> IF k = 0 THEN 0 ELSE p[k - 1] + f[k - 1]]
  BY PrefixesList DEF Lists
<1> HIDE DEF p
<1>2. p[0] = 0 /\ \A k \in 1 .. n : p[k] = p[k - 1] + f[k - 1]
  BY <1>1
<1>3. QED
  BY <1>2 DEF p

Agree(f, g, j) == \A k \in 0 .. j - 1 : f[k] = g[k]

(* Functions that agree below k have the same sum there, whatever longer   *)
(* range either is summed over.                                            *)
LEMMA PrefixesAgree ==
  ASSUME NEW m \in Nat, NEW n \in Nat, NEW f, NEW g, NEW j \in Nat,
         j <= m, j <= n, Agree(f, g, j)
  PROVE  \A k \in 0 .. j : Prefixes(f, m)[k] = Prefixes(g, n)[k]
<1> DEFINE p == Prefixes(f, m)
           q == Prefixes(g, n)
           Bad == {k \in 0 .. j : p[k] # q[k]}
<1>1. SUFFICES ASSUME Bad # {} PROVE FALSE
  OBVIOUS
<1>2. PICK k \in Bad : \A i \in Bad : k <= i
  <2>1. Bad \in SUBSET Nat
    OBVIOUS
  <2>2. QED
    BY <1>1, <2>1, NatMin
<1>3. /\ p[0] = 0 /\ q[0] = 0
      /\ \A i \in 1 .. m : p[i] = p[i - 1] + f[i - 1]
      /\ \A i \in 1 .. n : q[i] = q[i - 1] + g[i - 1]
  BY PrefixesStep
<1> HIDE DEF p, q
<1>4. k # 0
  BY <1>2, <1>3
<1>5. k - 1 \in 0 .. j /\ k - 1 \notin Bad
  BY <1>2, <1>4
<1>6. QED
  BY <1>2, <1>3, <1>4, <1>5 DEF Agree

LEMMA TotalEmpty ==
  ASSUME NEW f
  PROVE  Total(f, 0) = 0
BY PrefixesStep DEF Total

(* Appending an element adds it.                                           *)
LEMMA TotalAppend ==
  ASSUME NEW f, NEW g, NEW n \in Nat, \A k \in 0 .. n - 1 : f[k] = g[k]
  PROVE  Total(g, n + 1) = Total(f, n) + g[n]
<1>1. Prefixes(g, n + 1)[n + 1] = Prefixes(g, n + 1)[n] + g[n]
  BY PrefixesStep
<1>2. \A k \in 0 .. n : Prefixes(f, n)[k] = Prefixes(g, n + 1)[k]
  <2> DEFINE m == n + 1
  <2>1. m \in Nat /\ n <= m /\ n <= n /\ Agree(f, g, n)
    BY DEF Agree
  <2> HIDE DEF m
  <2>2. \A k \in 0 .. n : Prefixes(f, n)[k] = Prefixes(g, m)[k]
    BY <2>1, PrefixesAgree
  <2>3. QED
    BY <2>2 DEF m
<1>3. QED
  BY <1>1, <1>2 DEF Total

LEMMA TotalSame ==
  ASSUME NEW f, NEW g, NEW n \in Nat, \A k \in 0 .. n - 1 : f[k] = g[k]
  PROVE  Total(f, n) = Total(g, n)
<1>1. Agree(f, g, n) /\ n <= n /\ n \in 0 .. n
  BY DEF Agree
<1>2. QED
  BY <1>1, PrefixesAgree DEF Total

LEMMA PrefixesNat ==
  ASSUME NEW f, NEW n \in Nat, \A k \in 0 .. n - 1 : f[k] \in Nat
  PROVE  \A k \in 0 .. n : Prefixes(f, n)[k] \in Nat
<1> DEFINE p == Prefixes(f, n)
           Bad == {k \in 0 .. n : p[k] \notin Nat}
<1>1. SUFFICES ASSUME Bad # {} PROVE FALSE
  OBVIOUS
<1>2. PICK k \in Bad : \A i \in Bad : k <= i
  <2>1. Bad \in SUBSET Nat
    OBVIOUS
  <2>2. QED
    BY <1>1, <2>1, NatMin
<1>3. p[0] = 0 /\ \A i \in 1 .. n : p[i] = p[i - 1] + f[i - 1]
  BY PrefixesStep
<1> HIDE DEF p
<1>4. k # 0
  BY <1>2, <1>3
<1>5. k - 1 \in 0 .. n /\ k - 1 \notin Bad
  BY <1>2, <1>4
<1>6. QED
  BY <1>2, <1>3, <1>4, <1>5

LEMMA TotalNat ==
  ASSUME NEW f, NEW n \in Nat, \A k \in 0 .. n - 1 : f[k] \in Nat
  PROVE  Total(f, n) \in Nat
BY PrefixesNat DEF Total

(* Changing one element changes the sum by as much.                        *)
LEMMA TotalUpdate ==
  ASSUME NEW f, NEW g, NEW n \in Nat, NEW i \in 0 .. n - 1,
         \A k \in 0 .. n - 1 : f[k] \in Nat /\ g[k] \in Nat,
         \A k \in 0 .. n - 1 : k # i => g[k] = f[k]
  PROVE  Total(g, n) = Total(f, n) - f[i] + g[i]
<1> DEFINE p == Prefixes(f, n)
           q == Prefixes(g, n)
           Bad == {k \in i + 1 .. n : q[k] # p[k] - f[i] + g[i]}
<1>1. SUFFICES ASSUME Bad # {} PROVE FALSE
  BY DEF Total
<1>2. PICK k \in Bad : \A m \in Bad : k <= m
  <2>1. Bad \in SUBSET Nat
    OBVIOUS
  <2>2. QED
    BY <1>1, <2>1, NatMin
<1>3. /\ \A m \in 1 .. n : p[m] = p[m - 1] + f[m - 1]
      /\ \A m \in 1 .. n : q[m] = q[m - 1] + g[m - 1]
  BY PrefixesStep
<1>4. p[i] = q[i]
  <2>1. i \in Nat /\ i <= n /\ i \in 0 .. i /\ Agree(f, g, i)
    BY DEF Agree
  <2>2. \A m \in 0 .. i : Prefixes(f, n)[m] = Prefixes(g, n)[m]
    BY <2>1, PrefixesAgree
  <2>3. QED
    BY <2>1, <2>2
<1>5. \A m \in 0 .. n : p[m] \in Nat /\ q[m] \in Nat
  BY PrefixesNat
<1> HIDE DEF p, q
<1>6. k # i + 1
  <2>1. SUFFICES ASSUME k = i + 1 PROVE FALSE
    OBVIOUS
  <2>2. k \in 1 .. n /\ k - 1 = i /\ k \in Int
    BY <2>1
  <2>3. p[k] = p[i] + f[i] /\ q[k] = q[i] + g[i]
    BY <1>3, <2>2
  <2>4. q[k] = p[k] - f[i] + g[i]
    BY <1>4, <1>5, <2>3
  <2>5. QED
    BY <1>2, <2>4
<1>7. k - 1 \in i + 1 .. n /\ k - 1 \notin Bad /\ k \in 1 .. n
  BY <1>2, <1>6
<1>8. p[k] = p[k - 1] + f[k - 1] /\ q[k] = q[k - 1] + g[k - 1]
  BY <1>3, <1>7
<1>9. k - 1 # i /\ k - 1 \in 0 .. n - 1
  BY <1>7
<1>10. g[k - 1] = f[k - 1] /\ f[k - 1] \in Nat
  BY <1>9
<1>11. q[k - 1] = p[k - 1] - f[i] + g[i]
  BY <1>7
<1>12. QED
  BY <1>2, <1>5, <1>7, <1>8, <1>10, <1>11

(* No element exceeds the sum.                                             *)
LEMMA TotalCovers ==
  ASSUME NEW f, NEW n \in Nat, NEW i \in 0 .. n - 1,
         \A k \in 0 .. n - 1 : f[k] \in Nat
  PROVE  f[i] <= Total(f, n)
<1> DEFINE g == [f EXCEPT ![i] = 0]
           h == [k \in 0 .. n - 1 |-> IF k = i THEN 0 ELSE f[k]]
<1>1. Total(h, n) = Total(f, n) - f[i] + h[i]
  BY TotalUpdate
<1>2. Total(h, n) \in Nat /\ Total(f, n) \in Nat
  BY TotalNat
<1>3. QED
  BY <1>1, <1>2
-----------------------------------------------------------------------------

Balances == [Tokens -> [Holders -> Nat]]

(* A transfer somebody can afford yields balances again.                   *)
LEMMA MoveType ==
  ASSUME NEW bal \in Balances, NEW t \in Tokens, NEW from \in Holders,
         NEW to \in Holders, NEW amount \in Nat, bal[t][from] >= amount
  PROVE  Move(bal, t, from, to, amount) \in Balances
<1> DEFINE debited == [bal EXCEPT ![t][from] = @ - amount]
<1>1. debited \in Balances
  BY DEF Balances
<1> HIDE DEF debited
<1>2. [debited EXCEPT ![t][to] = @ + amount] \in Balances
  BY <1>1 DEF Balances
<1>3. QED
  BY <1>2 DEF Move, debited

(* What a transfer between two different holders does to every balance.    *)
LEMMA MoveEffect ==
  ASSUME NEW bal \in Balances, NEW t \in Tokens, NEW from \in Holders,
         NEW to \in Holders, NEW amount \in Nat, from # to,
         NEW u \in Tokens, NEW h \in Holders
  PROVE  Move(bal, t, from, to, amount)[u][h] =
           IF u = t /\ h = from THEN bal[u][h] - amount
           ELSE IF u = t /\ h = to THEN bal[u][h] + amount
           ELSE bal[u][h]
BY DEF Move, Balances

LEMMA QuoteInt ==
  ASSUME TypeOK, NEW t \in Tokens, NEW amount \in Nat, NEW round \in Rounds,
         Quotable(t, round)
  PROVE  QuoteBidUsd(t, amount, round) \in Int
<1>1. /\ paymentTokens[t].feed \in Feeds
      /\ paymentTokens[t].unit \in Nat \ {0}
      /\ FeedUnit[paymentTokens[t].feed] \in Nat \ {0}
  BY NumberAssumption DEF TypeOK, PaymentConfig, Quotable
<1>2. amount * round.answer * UsdUnit \in Int
  BY NumberAssumption
<1>3. ASSUME NEW x \in Int, NEW d \in Nat \ {0}, NEW e \in Nat \ {0}
      PROVE  (x \div d) \div e \in Int
  OBVIOUS
<1>4. QED
  BY <1>1, <1>2, <1>3 DEF QuoteBidUsd

LEMMA FeeBound ==
  ASSUME TypeOK, NEW gross \in Nat
  PROVE  FeeAmount(gross) \in 0 .. gross
<1> DEFINE product == gross * platformFeeBps
<1>1. /\ platformFeeBps \in Nat /\ platformFeeBps <= BpsDenominator
      /\ BpsDenominator \in Nat \ {0}
  BY NumberAssumption DEF TypeOK
<1>2. product \in Nat /\ product <= gross * BpsDenominator
  BY <1>1
<1>3. ASSUME NEW p \in Nat, NEW d \in Nat \ {0}, p <= gross * d
      PROVE  p \div d \in 0 .. gross
  <2>1. p \div d \in Int /\ p = d * (p \div d) + (p % d) /\ p % d \in 0 .. d - 1
    OBVIOUS
  <2>2. p \div d >= 0
    BY <2>1
  <2>3. p \div d <= gross
    <3>1. SUFFICES ASSUME p \div d >= gross + 1 PROVE FALSE
      BY <2>1
    <3>2. d * (p \div d) >= d * (gross + 1)
      BY <2>1, <3>1
    <3>3. d * (gross + 1) = gross * d + d
      OBVIOUS
    <3>4. QED
      BY <1>3, <2>1, <3>2, <3>3
  <2>4. QED
    BY <2>1, <2>2, <2>3
<1> HIDE DEF product
<1>4. product \div BpsDenominator \in 0 .. gross
  BY <1>1, <1>2, <1>3
<1>5. QED
  BY <1>4 DEF product, FeeAmount

LEMMA Addresses ==
  /\ Market \in Holders /\ Accounts \subseteq Holders
  /\ Native \in Tokens /\ Erc20s \subseteq Tokens
  /\ \A a \in Accounts : a # Market /\ a # Zero
  /\ Zero # Market
BY AddressAssumption DEF Holders, Tokens

LEMMA TypeInit == Init => TypeOK
<1> SUFFICES ASSUME Init PROVE TypeOK
  OBVIOUS
<1> USE DEF Init
<1>1. /\ impl \in 1 .. 3 /\ owner \in Accounts \cup {Zero}
      /\ feeRecipient \in Holders /\ platformFeeBps \in 0 .. BpsDenominator
      /\ auctionNft \in NftContracts \cup {Zero} /\ now \in Nat
  BY InitialAssumption, NumberAssumption DEF Holders
<1>2. /\ paymentTokens \in [Tokens -> PaymentConfig]
      /\ \A t \in Tokens : paymentTokens[t].enabled => paymentTokens[t].feed # Zero
  BY DEF PaymentConfig
<1>3. /\ auctionCount \in Nat /\ auctions \in [AuctionIds -> Auction]
      /\ extras \in [AuctionIds -> Extra] /\ active \in [Items -> Nat]
  BY DEF AuctionIds, EmptyArray
<1>4. nftOwner \in [Items -> Holders]
  BY InitialAssumption DEF Holders
<1>5. balance \in [Tokens -> [Holders -> Nat]] /\ stray \in [Tokens -> Nat]
  BY InitialAssumption DEF Holders
<1>6. QED
  BY <1>1, <1>2, <1>3, <1>4, <1>5 DEF TypeOK

LEMMA TypePush ==
  ASSUME TypeOK, NEW sender \in Accounts, NEW item \in Items,
         NEW endTime \in Nat, NEW extra \in Extra,
         PushAuction(sender, item, endTime, extra)
  PROVE  /\ auctionCount' \in Nat
         /\ auctions' \in [AuctionIds' -> Auction]
         /\ extras' \in [AuctionIds' -> Extra]
<1>1. AuctionIds' = 0 .. auctionCount /\ auctionCount' \in Nat
  BY DEF PushAuction, AuctionIds, TypeOK
<1>2. [seller |-> sender, item |-> item, endTime |-> endTime, ended |-> FALSE,
       highestBidder |-> Zero, paymentToken |-> Native, highestBid |-> 0,
       highestBidUsd |-> 0] \in Auction
  BY Addresses DEF Auction
<1>3. \A id \in 0 .. auctionCount : id < auctionCount => id \in AuctionIds
  BY DEF AuctionIds, TypeOK
<1>4. auctions' \in [0 .. auctionCount -> Auction]
  BY <1>2, <1>3 DEF PushAuction, TypeOK
<1>5. extras' \in [0 .. auctionCount -> Extra]
  BY <1>3 DEF PushAuction, TypeOK
<1>6. QED
  BY <1>1, <1>4, <1>5

LEMMA TypeClose ==
  ASSUME TypeOK, NEW id \in AuctionIds, CloseAuction(id)
  PROVE  /\ auctions' \in [AuctionIds -> Auction]
         /\ active' \in [Items -> Nat]
BY DEF CloseAuction, TypeOK, Auction

LEMMA TypeRelease ==
  ASSUME TypeOK, NEW item \in Items, NEW to, Release(item, to)
  PROVE  nftOwner' \in [Items -> Holders]
BY AddressAssumption DEF Release, CanRelease, TypeOK, Holders

LEMMA TypePlaceBid ==
  ASSUME TypeOK, NEW sender \in Accounts, NEW id \in AuctionIds,
         NEW t \in Tokens, NEW amount \in Nat, NEW round \in Rounds,
         PlaceBid(sender, id, t, amount, round)
  PROVE  TypeOK'
<1> DEFINE auction == auctions[id]
           usd == QuoteBidUsd(t, amount, round)
           paid == Move(balance, t, sender, Market, amount)
<1>1. auction \in Auction
  BY DEF TypeOK
<1>2. usd \in Nat
  <2>1. usd \in Int
    BY QuoteInt DEF PlaceBid
  <2>2. usd > auction.highestBidUsd /\ auction.highestBidUsd \in Nat
    BY <1>1 DEF PlaceBid, Outbids, Auction
  <2> HIDE DEF usd, auction
  <2>3. QED
    BY <2>1, <2>2
<1>3. auctions' \in [AuctionIds -> Auction]
  <2>1. auctions' = [auctions EXCEPT ![id] =
                       [@ EXCEPT !.highestBidder = sender, !.paymentToken = t,
                                 !.highestBid = amount, !.highestBidUsd = usd]]
    BY DEF PlaceBid
  <2> HIDE DEF usd
  <2>2. QED
    BY <1>1, <1>2, <2>1 DEF TypeOK, Auction
<1>4. balance \in Balances /\ sender \in Holders /\ Market \in Holders
  BY Addresses DEF TypeOK, Balances
<1>5. paid \in Balances
  BY <1>4, MoveType DEF PlaceBid
<1>6. balance' \in Balances
  <2>1. CASE auction.highestBidder = Zero
    BY <2>1, <1>5 DEF PlaceBid, Refund, CanRefund
  <2>2. CASE auction.highestBidder # Zero
    <3> DEFINE u == auction.paymentToken
               b == auction.highestBidder
               bid == auction.highestBid
    <3>1. u \in Tokens /\ b \in Holders /\ bid \in Nat
      BY <1>1, <2>2, Addresses DEF Auction
    <3>2. CanPay(paid, u, b, bid) /\ balance' = Move(paid, u, Market, b, bid)
      BY <2>2 DEF PlaceBid, Refund, CanRefund
    <3> HIDE DEF paid, u, b, bid
    <3>3. paid[u][Market] >= bid
      BY <1>4, <1>5, <3>1, <3>2 DEF CanPay, Balances
    <3>4. QED
      BY <1>4, <1>5, <3>1, <3>2, <3>3, MoveType
  <2>3. QED
    BY <2>1, <2>2
<1>7. QED
  BY <1>3, <1>6 DEF PlaceBid, TypeOK, admin, AuctionIds, Balances

LEMMA TypeEndSold ==
  ASSUME TypeOK, NEW id \in AuctionIds, EndSold(id)
  PROVE  TypeOK'
<1> DEFINE auction == auctions[id]
           t == auction.paymentToken
           fee == FeeAmount(auction.highestBid)
           net == auction.highestBid - fee
           paid == Move(balance, t, Market, auction.seller, net)
           recipient == EffectiveFeeRecipient
<1>1. /\ auction.item \in Items /\ t \in Tokens /\ auction.seller \in Holders
      /\ auction.highestBid \in Nat
  BY Addresses DEF TypeOK, Auction
<1>2. fee \in Nat /\ net \in Nat
  <2>1. fee \in 0 .. auction.highestBid
    BY <1>1, FeeBound
  <2> HIDE DEF fee
  <2>2. QED
    BY <1>1, <2>1
<1>3. recipient \in Holders
  BY DEF EffectiveFeeRecipient, TypeOK, Holders
<1>4. /\ CanPay(balance, t, auction.seller, net)
      /\ CanPay(paid, t, recipient, fee)
      /\ balance' = Move(paid, t, Market, recipient, fee)
      /\ stray' = IF recipient = Market
                  THEN [stray EXCEPT ![t] = @ + fee] ELSE stray
      /\ CloseAuction(id) /\ Release(auction.item, auction.highestBidder)
      /\ UNCHANGED <<admin, auctionCount, extras, now>>
  BY DEF EndSold, CanEndSold, SellerPaid, Net
<1>5. auctions' \in [AuctionIds -> Auction] /\ active' \in [Items -> Nat]
  BY <1>4, TypeClose
<1>6. nftOwner' \in [Items -> Holders]
  BY <1>1, <1>4, TypeRelease
<1> HIDE DEF fee, net, paid, recipient, t, auction
<1>7. balance \in Balances /\ Market \in Holders
  BY Addresses DEF TypeOK, Balances
<1>8. paid \in Balances
  <2>1. balance[t][Market] >= net
    BY <1>1, <1>2, <1>4, <1>7 DEF CanPay, Balances
  <2>2. QED
    BY <1>1, <1>2, <1>7, <2>1, MoveType DEF paid
<1>9. balance' \in Balances
  <2>1. paid[t][Market] >= fee
    BY <1>1, <1>2, <1>4, <1>7, <1>8 DEF CanPay, Balances
  <2>2. QED
    BY <1>1, <1>2, <1>3, <1>4, <1>7, <1>8, <2>1, MoveType
<1>10. stray' \in [Tokens -> Nat]
  BY <1>1, <1>2, <1>4 DEF TypeOK
<1>11. QED
  BY <1>4, <1>5, <1>6, <1>9, <1>10
  DEF TypeOK, admin, AuctionIds, Balances

LEMMA TypeNext == TypeOK /\ [Next]_vars => TypeOK'
<1> SUFFICES ASSUME TypeOK, [Next]_vars PROVE TypeOK'
  OBVIOUS
<1> USE DEF admin, book, purse
<1>1. ASSUME NEW s \in Accounts, NEW l \in Listings,
             SetPaymentToken(s, l.token, l.feed, l.unit, l.enabled)
      PROVE  TypeOK'
  <2>1. [feed |-> l.feed, unit |-> l.unit, enabled |-> l.enabled]
          \in PaymentConfig /\ l.token \in Tokens /\ l.feed # Zero
    BY <1>1, ChoiceAssumption DEF PaymentConfig, SetPaymentToken
  <2>2. /\ paymentTokens' \in [Tokens -> PaymentConfig]
        /\ \A t \in Tokens :
             paymentTokens'[t].enabled => paymentTokens'[t].feed # Zero
    BY <1>1, <2>1 DEF SetPaymentToken, TypeOK
  <2>3. QED
    BY <1>1, <2>2 DEF SetPaymentToken, TypeOK, AuctionIds
<1>2. ASSUME NEW s \in Accounts, NEW r \in FeeRecipients, NEW b \in FeeRates,
             SetFeeConfig(s, r, b)
      PROVE  TypeOK'
  BY <1>2, ChoiceAssumption, NumberAssumption
  DEF SetFeeConfig, TypeOK, AuctionIds
<1>3. ASSUME NEW s \in Accounts, NEW c \in NftContracts,
             InitializeV3(s, c) \/ UpgradeToV3(s, c)
      PROVE  TypeOK'
  BY <1>3 DEF InitializeV3, UpgradeToV3, TypeOK, AuctionIds
<1>4. ASSUME NEW s \in Accounts, UpgradeToV2(s)
      PROVE  TypeOK'
  BY <1>4 DEF UpgradeToV2, TypeOK, AuctionIds
<1>5. ASSUME NEW s \in Accounts, NEW a \in NewOwners, TransferOwnership(s, a)
      PROVE  TypeOK'
  BY <1>5, ChoiceAssumption DEF TransferOwnership, TypeOK, AuctionIds
<1>6. ASSUME NEW s \in Accounts, RenounceOwnership(s)
      PROVE  TypeOK'
  BY <1>6 DEF RenounceOwnership, TypeOK, AuctionIds
<1>7. ASSUME NEW s \in Accounts, NEW x \in Items, NEW d \in Durations,
             CreateAuction(s, x, d)
      PROVE  TypeOK'
  <2>1. now + d \in Nat /\ LegacyExtra \in Extra
    BY NumberAssumption DEF TypeOK, LegacyExtra, Extra
  <2>2. /\ auctionCount' \in Nat
        /\ auctions' \in [AuctionIds' -> Auction]
        /\ extras' \in [AuctionIds' -> Extra]
    BY <1>7, <2>1, TypePush DEF CreateAuction
  <2>3. nftOwner' \in [Items -> Holders]
    BY <1>7 DEF CreateAuction, Escrow, TypeOK, Holders
  <2>4. QED
    BY <1>7, <2>2, <2>3 DEF CreateAuction, TypeOK
<1>8. ASSUME NEW s \in Accounts, NEW x \in Items, NEW b \in StartTimes,
             NEW e \in EndTimes, NEW p \in StartingPrices,
             CreateAuctionV3(s, x, b, e, p)
      PROVE  TypeOK'
  <2>1. e \in Nat /\ [startTime |-> b, startingPriceUsd |-> p,
                      cancelled |-> FALSE, v3Created |-> TRUE] \in Extra
    BY NumberAssumption DEF Extra
  <2>2. /\ auctionCount' \in Nat
        /\ auctions' \in [AuctionIds' -> Auction]
        /\ extras' \in [AuctionIds' -> Extra]
    BY <1>8, <2>1, TypePush DEF CreateAuctionV3
  <2>3. nftOwner' \in [Items -> Holders]
    BY <1>8 DEF CreateAuctionV3, Escrow, TypeOK, Holders
  <2>4. active' \in [Items -> Nat]
    BY <1>8 DEF CreateAuctionV3, TypeOK
  <2>5. QED
    BY <1>8, <2>2, <2>3, <2>4 DEF CreateAuctionV3, TypeOK
<1>9. ASSUME NEW s \in Accounts, NEW id \in AuctionIds, CancelAuction(s, id)
      PROVE  TypeOK'
  <2>1. auctions' \in [AuctionIds -> Auction] /\ active' \in [Items -> Nat]
    BY <1>9, TypeClose DEF CancelAuction
  <2>2. nftOwner' \in [Items -> Holders]
    BY <1>9, TypeRelease DEF CancelAuction, TypeOK, Auction
  <2>3. extras' \in [AuctionIds -> Extra]
    BY <1>9 DEF CancelAuction, TypeOK, Extra
  <2>4. QED
    BY <1>9, <2>1, <2>2, <2>3 DEF CancelAuction, TypeOK, AuctionIds
<1>10. ASSUME NEW s \in Accounts, NEW id \in AuctionIds, NEW m \in Amounts,
              NEW r \in Rounds, BidWithEth(s, id, m, r)
       PROVE  TypeOK'
  BY <1>10, TypePlaceBid, NumberAssumption, Addresses DEF BidWithEth
<1>11. ASSUME NEW s \in Accounts, NEW id \in AuctionIds, NEW t \in Erc20s,
              NEW m \in Amounts, NEW r \in Rounds,
              BidWithToken(s, id, t, m, r)
       PROVE  TypeOK'
  BY <1>11, TypePlaceBid, NumberAssumption, Addresses DEF BidWithToken
<1>12. ASSUME NEW s \in Accounts, NEW x \in Items, NEW to \in NftRecipients,
              SendNft(s, x, to)
       PROVE  TypeOK'
  BY <1>12, ChoiceAssumption DEF SendNft, TypeOK, AuctionIds, Holders
<1>13. ASSUME NEW s \in Accounts, NEW t \in Erc20s, NEW m \in Gifts,
              SendToken(s, t, m)
       PROVE  TypeOK'
  <2>1. m \in Nat /\ t \in Tokens /\ s \in Holders /\ Market \in Holders
    BY NumberAssumption, Addresses
  <2>2. balance \in Balances /\ balance[t][s] >= m
    BY <1>13 DEF TypeOK, Balances, SendToken
  <2>3. balance' \in Balances
    BY <1>13, <2>1, <2>2, MoveType DEF SendToken
  <2>4. stray' \in [Tokens -> Nat]
    BY <1>13, <2>1 DEF SendToken, TypeOK
  <2>5. QED
    BY <1>13, <2>3, <2>4 DEF SendToken, TypeOK, AuctionIds, Balances
<1>14. ASSUME NEW id \in AuctionIds, EndUnsold(id)
       PROVE  TypeOK'
  <2>1. auctions' \in [AuctionIds -> Auction] /\ active' \in [Items -> Nat]
    BY <1>14, TypeClose DEF EndUnsold
  <2>2. nftOwner' \in [Items -> Holders]
    BY <1>14, TypeRelease DEF EndUnsold, TypeOK, Auction
  <2>3. QED
    BY <1>14, <2>1, <2>2 DEF EndUnsold, TypeOK, AuctionIds
<1>15. CASE Tick
  BY <1>15 DEF Tick, TypeOK, AuctionIds
<1>16. CASE UNCHANGED vars
  BY <1>16 DEF vars, TypeOK, AuctionIds
<1>17. QED
  BY <1>1, <1>2, <1>3, <1>4, <1>5, <1>6, <1>7, <1>8, <1>9, <1>10, <1>11,
     <1>12, <1>13, <1>14, <1>15, <1>16, TypeEndSold
  DEF Next, OwnerCall, SellerCall, BidderCall, HolderCall, EndAuction

(* Every variable keeps its type: no balance goes negative, the fee never  *)
(* exceeds the bid it is taken from, no field is ever undefined.           *)
THEOREM TypeCorrect == Spec => []TypeOK
<1>1. QED
  BY TypeInit, TypeNext, PTL DEF Spec
-----------------------------------------------------------------------------
(* createAuction and createAuctionV3.                                      *)
Creates(s, x, e, extra) ==
  /\ PushAuction(s, x, e, extra)
  /\ Escrow(s, x)
  /\ ~extra.cancelled
  /\ IF extra.v3Created
     THEN active[x] = 0 /\ active' = [active EXCEPT ![x] = auctionCount + 1]
     ELSE UNCHANGED active
  /\ UNCHANGED <<purse, now>>

(* bidWithEth and bidWithToken.                                            *)
Bidding(s, id, t, m, r) ==
  /\ m # 0
  /\ extras[id].v3Created => t # Native
  /\ PlaceBid(s, id, t, m, r)

(* The owner's calls, the clock, and stuttering.                           *)
Idles == UNCHANGED <<book, nftOwner, purse>> /\ now <= now'

LEMMA Steps ==
  ASSUME TypeOK, [Next]_vars
  PROVE  \/ Idles
         \/ \E s \in Accounts, x \in Items, e \in Nat, extra \in Extra :
              Creates(s, x, e, extra)
         \/ \E s \in Accounts, id \in AuctionIds, t \in Tokens, m \in Nat,
               r \in Rounds : Bidding(s, id, t, m, r)
         \/ \E id \in AuctionIds : EndUnsold(id)
         \/ \E id \in AuctionIds : EndSold(id)
         \/ \E s \in Accounts, id \in AuctionIds : CancelAuction(s, id)
         \/ \E s \in Accounts, x \in Items, to \in NftRecipients :
              SendNft(s, x, to)
         \/ \E s \in Accounts, t \in Erc20s, m \in Nat : SendToken(s, t, m)
<1> USE DEF admin, book, purse
<1>1. ASSUME NEW s \in Accounts, OwnerCall(s) PROVE Idles
  <2>1. UNCHANGED <<book, nftOwner, purse, now>>
    BY <1>1, Zenon DEF OwnerCall, SetPaymentToken, SetFeeConfig, InitializeV3,
       UpgradeToV2, UpgradeToV3, TransferOwnership, RenounceOwnership
  <2>2. now <= now'
    BY <2>1 DEF TypeOK
  <2>3. QED
    BY <2>1, <2>2 DEF Idles
<1>2. CASE Tick
  BY <1>2 DEF Tick, Idles, TypeOK
<1>3. CASE UNCHANGED vars
  BY <1>3 DEF vars, Idles, TypeOK
<1>4. ASSUME NEW s \in Accounts, NEW x \in Items, NEW d \in Durations,
             CreateAuction(s, x, d)
      PROVE  \E e \in Nat, extra \in Extra : Creates(s, x, e, extra)
  <2>1. now + d \in Nat /\ LegacyExtra \in Extra
    BY NumberAssumption DEF TypeOK, LegacyExtra, Extra
  <2>2. Creates(s, x, now + d, LegacyExtra)
    BY <1>4 DEF CreateAuction, Creates, LegacyExtra
  <2>3. QED
    BY <2>1, <2>2
<1>5. ASSUME NEW s \in Accounts, NEW x \in Items, NEW b \in StartTimes,
             NEW e \in EndTimes, NEW p \in StartingPrices,
             CreateAuctionV3(s, x, b, e, p)
      PROVE  \E end \in Nat, extra \in Extra : Creates(s, x, end, extra)
  <2> DEFINE extra == [startTime |-> b, startingPriceUsd |-> p,
                       cancelled |-> FALSE, v3Created |-> TRUE]
  <2>1. e \in Nat /\ extra \in Extra
    BY NumberAssumption DEF Extra
  <2>2. Creates(s, x, e, extra)
    BY <1>5 DEF CreateAuctionV3, Creates
  <2>3. QED
    BY <2>1, <2>2
<1>6. ASSUME NEW s \in Accounts, BidderCall(s)
      PROVE  \E id \in AuctionIds, t \in Tokens, m \in Nat, r \in Rounds :
               Bidding(s, id, t, m, r)
  BY <1>6, Addresses, NumberAssumption
  DEF BidderCall, BidWithEth, BidWithToken, Bidding
<1>7. ASSUME NEW s \in Accounts, HolderCall(s)
      PROVE  \/ \E x \in Items, to \in NftRecipients : SendNft(s, x, to)
             \/ \E t \in Erc20s, m \in Nat : SendToken(s, t, m)
  BY <1>7, NumberAssumption DEF HolderCall
<1>8. QED
  BY <1>1, <1>2, <1>3, <1>4, <1>5, <1>6, <1>7
  DEF Next, SellerCall, EndAuction

(* The ids an appended auction leaves alone, and the one it adds.          *)
LEMMA Appended ==
  ASSUME TypeOK, NEW s \in Accounts, NEW x \in Items, NEW e \in Nat,
         NEW extra \in Extra, PushAuction(s, x, e, extra)
  PROVE  /\ auctionCount \notin AuctionIds
         /\ AuctionIds' = AuctionIds \cup {auctionCount}
         /\ \A id \in AuctionIds : auctions'[id] = auctions[id]
                                   /\ extras'[id] = extras[id]
         /\ auctions'[auctionCount] =
              [seller |-> s, item |-> x, endTime |-> e, ended |-> FALSE,
               highestBidder |-> Zero, paymentToken |-> Native,
               highestBid |-> 0, highestBidUsd |-> 0]
         /\ extras'[auctionCount] = extra
<1>1. auctionCount \in Nat /\ auctionCount' = auctionCount + 1
  BY DEF PushAuction, TypeOK
<1>2. /\ AuctionIds = 0 .. auctionCount - 1
      /\ AuctionIds' = 0 .. auctionCount
  BY <1>1 DEF AuctionIds
<1>3. QED
  BY <1>1, <1>2 DEF PushAuction

LEMMA LotsInit == Init => LotsConsistent
BY DEF Init, LotsConsistent, AuctionIds

LEMMA LotsNext ==
  TypeOK /\ LotsConsistent /\ [Next]_vars => LotsConsistent'
<1> DEFINE Lot(id) ==
      LET auction == auctions[id]
          extra == extras[id]
      IN  /\ auction.highestBidder = Zero <=> auction.highestBid = 0
          /\ auction.highestBidder = Zero <=> auction.highestBidUsd = 0
          /\ extra.v3Created /\ auction.highestBidder # Zero
               => /\ auction.highestBidUsd >= extra.startingPriceUsd
                  /\ auction.paymentToken # Native
                  /\ extra.startTime <= now
          /\ extra.cancelled
               => /\ extra.v3Created
                  /\ auction.ended
                  /\ auction.highestBidder = Zero
          /\ auction.ended /\ ~extra.cancelled => now >= auction.endTime
<1> SUFFICES ASSUME TypeOK, LotsConsistent, [Next]_vars,
                    NEW id \in AuctionIds'
             PROVE  Lot(id)'
  BY DEF LotsConsistent
<1>1. \A i \in AuctionIds : Lot(i) /\ auctions[i] \in Auction
                            /\ extras[i] \in Extra
  BY DEF LotsConsistent, TypeOK
<1>2. now \in Nat
  BY DEF TypeOK
<1>3. ASSUME id \in AuctionIds, auctions'[id] = auctions[id],
             extras'[id] = extras[id], now <= now', now' \in Nat
      PROVE  Lot(id)'
  BY <1>1, <1>2, <1>3 DEF Auction, Extra
<1>4. now' \in Nat
  BY TypeNext DEF TypeOK
<1>5. CASE Idles
  BY <1>3, <1>4, <1>5 DEF Idles, book, AuctionIds
<1>6. ASSUME NEW s \in Accounts, NEW x \in Items, NEW e \in Nat,
             NEW extra \in Extra, Creates(s, x, e, extra)
      PROVE  Lot(id)'
  <2>1. now' = now
    BY <1>6 DEF Creates
  <2> PushAuction(s, x, e, extra)
    BY <1>6 DEF Creates
  <2>2. CASE id \in AuctionIds
    <3>1. auctions'[id] = auctions[id] /\ extras'[id] = extras[id]
      BY <2>2, Appended
    <3>2. QED
      BY <1>2, <1>3, <2>1, <2>2, <3>1
  <2>3. CASE id = auctionCount
    <3>1. /\ auctions'[id].highestBidder = Zero
          /\ auctions'[id].highestBid = 0
          /\ auctions'[id].highestBidUsd = 0
          /\ auctions'[id].ended = FALSE
          /\ extras'[id] = extra
      <4>1. auctions'[auctionCount] =
              [seller |-> s, item |-> x, endTime |-> e, ended |-> FALSE,
               highestBidder |-> Zero, paymentToken |-> Native,
               highestBid |-> 0, highestBidUsd |-> 0]
            /\ extras'[auctionCount] = extra
        BY Appended
      <4>2. QED
        BY <2>3, <4>1
    <3>2. ~extra.cancelled
      BY <1>6 DEF Creates
    <3>3. QED
      BY <3>1, <3>2
  <2>4. QED
    BY <2>2, <2>3, Appended
<1>7. ASSUME NEW s \in Accounts, NEW i \in AuctionIds, NEW t \in Tokens,
             NEW m \in Nat, NEW r \in Rounds, Bidding(s, i, t, m, r)
      PROVE  Lot(id)'
  <2> DEFINE usd == QuoteBidUsd(t, m, r)
  <2>1. /\ extras' = extras /\ now' = now /\ AuctionIds' = AuctionIds
        /\ ~auctions[i].ended
        /\ auctions' = [auctions EXCEPT ![i] =
                          [@ EXCEPT !.highestBidder = s, !.paymentToken = t,
                                    !.highestBid = m, !.highestBidUsd = usd]]
        /\ usd > auctions[i].highestBidUsd
        /\ m # 0 /\ s # Zero
        /\ extras[i].v3Created => /\ t # Native /\ now >= extras[i].startTime
                                  /\ ~extras[i].cancelled
                                  /\ usd >= extras[i].startingPriceUsd
    BY <1>7, Addresses DEF Bidding, PlaceBid, Outbids, BiddableV3, AuctionIds
  <2>2. usd \in Int
    BY <1>7, QuoteInt DEF Bidding, PlaceBid
  <2> HIDE DEF usd
  <2>3. CASE id = i
    <3>1. /\ auctions'[id].highestBidder = s /\ auctions'[id].paymentToken = t
          /\ auctions'[id].highestBid = m /\ auctions'[id].highestBidUsd = usd
          /\ auctions'[id].ended = FALSE
      BY <1>1, <2>1, <2>3 DEF TypeOK, Auction
    <3>2. usd # 0 /\ ~extras[id].cancelled
      BY <1>1, <2>1, <2>2, <2>3 DEF Auction
    <3>3. QED
      BY <1>2, <2>1, <2>2, <2>3, <3>1, <3>2
  <2>4. CASE id # i
    BY <1>2, <1>3, <2>1, <2>4 DEF TypeOK
  <2>5. QED
    BY <2>3, <2>4
<1>8. ASSUME NEW i \in AuctionIds, EndUnsold(i) \/ EndSold(i)
      PROVE  Lot(id)'
  <2>1. /\ extras' = extras /\ now' = now /\ AuctionIds' = AuctionIds
        /\ auctions' = [auctions EXCEPT ![i] = [@ EXCEPT !.ended = TRUE]]
        /\ now >= auctions[i].endTime
        /\ extras[i].v3Created => ~extras[i].cancelled
    BY <1>8 DEF EndUnsold, CanEndUnsold, EndSold, CanEndSold, CloseAuction,
      CanSettle,
      AuctionIds
  <2>2. CASE id = i
    <3>1. auctions'[id] = [auctions[i] EXCEPT !.ended = TRUE]
      BY <2>1, <2>2 DEF TypeOK
    <3>2. QED
      BY <1>1, <2>1, <2>2, <3>1 DEF Auction, Extra
  <2>3. CASE id # i
    BY <1>2, <1>3, <2>1, <2>3 DEF TypeOK
  <2>4. QED
    BY <2>2, <2>3
<1>9. ASSUME NEW s \in Accounts, NEW i \in AuctionIds, CancelAuction(s, i)
      PROVE  Lot(id)'
  <2>1. /\ now' = now /\ AuctionIds' = AuctionIds
        /\ auctions' = [auctions EXCEPT ![i] = [@ EXCEPT !.ended = TRUE]]
        /\ extras' = [extras EXCEPT ![i] = [@ EXCEPT !.cancelled = TRUE]]
        /\ extras[i].v3Created /\ auctions[i].highestBidder = Zero
    BY <1>9 DEF CancelAuction, CanCancel, CloseAuction, AuctionIds
  <2>2. CASE id = i
    <3>1. /\ auctions'[id] = [auctions[i] EXCEPT !.ended = TRUE]
          /\ extras'[id] = [extras[i] EXCEPT !.cancelled = TRUE]
      BY <2>1, <2>2 DEF TypeOK
    <3>2. QED
      BY <1>1, <2>1, <2>2, <3>1 DEF Auction, Extra
  <2>3. CASE id # i
    BY <1>2, <1>3, <2>1, <2>3 DEF TypeOK
  <2>4. QED
    BY <2>2, <2>3
<1>10. ASSUME NEW s \in Accounts, NEW x \in Items, NEW to \in NftRecipients,
              SendNft(s, x, to)
       PROVE  Lot(id)'
  BY <1>2, <1>3, <1>10 DEF SendNft, book, AuctionIds
<1>11. ASSUME NEW s \in Accounts, NEW t \in Erc20s, NEW m \in Nat,
              SendToken(s, t, m)
       PROVE  Lot(id)'
  BY <1>2, <1>3, <1>11 DEF SendToken, book, AuctionIds
<1>12. QED
  BY <1>5, <1>6, <1>7, <1>8, <1>9, <1>10, <1>11, Steps

(* The fields of every auction and of its V3 extra agree, whatever calls   *)
(* were made in whatever order and at whatever prices.                     *)
THEOREM LotsCorrect == Spec => []LotsConsistent
<1>1. Spec => []TypeOK
  BY TypeCorrect
<1>2. QED
  BY <1>1, LotsInit, LotsNext, PTL DEF Spec
-----------------------------------------------------------------------------
(* Custody.                                                                *)

LEMMA CustodyInit == Init => Custody
BY DEF Init, Custody, AuctionIds

(* The item of an unsettled auction leaves the market only by settling it, *)
(* so nobody can list it a second time: the lister must own it.            *)
LEMMA CustodyNext == TypeOK /\ Custody /\ [Next]_vars => Custody'
<1> SUFFICES ASSUME TypeOK, Custody, [Next]_vars PROVE Custody'
  OBVIOUS
<1> USE DEF IsOpen
<1>1. ASSUME book' = book, nftOwner' = nftOwner PROVE Custody'
  BY <1>1 DEF Custody, book, AuctionIds
<1>2. CASE Idles
  BY <1>1, <1>2 DEF Idles
<1>3. ASSUME NEW s \in Accounts, NEW x \in Items, NEW e \in Nat,
             NEW extra \in Extra, Creates(s, x, e, extra)
      PROVE  Custody'
  <2>1. PushAuction(s, x, e, extra) /\ nftOwner[x] = s /\ s # Market
        /\ nftOwner' = [nftOwner EXCEPT ![x] = Market]
    BY <1>3, Addresses DEF Creates, Escrow
  <2>2. /\ AuctionIds' = AuctionIds \cup {auctionCount}
        /\ \A id \in AuctionIds : auctions'[id] = auctions[id]
        /\ auctions'[auctionCount] =
             [seller |-> s, item |-> x, endTime |-> e, ended |-> FALSE,
              highestBidder |-> Zero, paymentToken |-> Native,
              highestBid |-> 0, highestBidUsd |-> 0]
    BY <2>1, Appended
  <2>3. auctions'[auctionCount].item = x
    BY <2>2
  <2>4. \A id \in AuctionIds : IsOpen(id) => auctions[id].item # x
    BY <2>1 DEF Custody
  <2>5. nftOwner'[x] = Market /\ \A y \in Items : y # x => nftOwner'[y] = nftOwner[y]
    BY <2>1 DEF TypeOK
  <2>6. \A id \in AuctionIds : auctions[id].item \in Items
    BY DEF TypeOK, Auction
  <2>7. ASSUME NEW id \in AuctionIds', IsOpen(id)'
        PROVE  nftOwner'[auctions'[id].item] = Market
    BY <2>2, <2>3, <2>5, <2>6, <2>7 DEF Custody
  <2>8. ASSUME NEW id \in AuctionIds', NEW other \in AuctionIds',
               IsOpen(id)', IsOpen(other)',
               auctions'[other].item = auctions'[id].item
        PROVE  other = id
    BY <2>2, <2>3, <2>4, <2>8 DEF Custody
  <2>9. QED
    BY <2>7, <2>8 DEF Custody
<1>4. ASSUME NEW s \in Accounts, NEW i \in AuctionIds, NEW t \in Tokens,
             NEW m \in Nat, NEW r \in Rounds, Bidding(s, i, t, m, r)
      PROVE  Custody'
  <2>1. nftOwner' = nftOwner /\ AuctionIds' = AuctionIds
    BY <1>4 DEF Bidding, PlaceBid, AuctionIds
  <2>2. \A id \in AuctionIds : /\ auctions'[id].item = auctions[id].item
                               /\ auctions'[id].ended = auctions[id].ended
    BY <1>4 DEF Bidding, PlaceBid, TypeOK, Auction
  <2>3. QED
    BY <2>1, <2>2 DEF Custody
<1>5. ASSUME NEW i \in AuctionIds, NEW to \in Accounts, ~auctions[i].ended,
             CloseAuction(i), Release(auctions[i].item, to),
             auctionCount' = auctionCount
      PROVE  Custody'
  <2>1. AuctionIds' = AuctionIds /\ auctions[i].item \in Items
    BY <1>5 DEF AuctionIds, TypeOK, Auction
  <2>2. \A id \in AuctionIds :
          /\ auctions'[id].item = auctions[id].item
          /\ IsOpen(id)' => IsOpen(id) /\ id # i
    BY <1>5 DEF CloseAuction, TypeOK, Auction
  <2>3. \A y \in Items : y # auctions[i].item => nftOwner'[y] = nftOwner[y]
    BY <1>5 DEF Release, CanRelease, TypeOK
  <2>4. \A id \in AuctionIds :
          IsOpen(id)' => /\ auctions[id].item # auctions[i].item
                         /\ auctions[id].item \in Items
    BY <1>5, <2>2 DEF Custody, TypeOK, Auction
  <2>5. QED
    BY <2>1, <2>2, <2>3, <2>4 DEF Custody
<1>6. ASSUME NEW i \in AuctionIds, EndUnsold(i) \/ EndSold(i)
      PROVE  Custody'
  BY <1>5, <1>6, AddressAssumption
  DEF EndUnsold, CanEndUnsold, EndSold, CanEndSold, CanSettle, Release,
      CanRelease
<1>7. ASSUME NEW s \in Accounts, NEW i \in AuctionIds, CancelAuction(s, i)
      PROVE  Custody'
  BY <1>5, <1>7 DEF CancelAuction, CanCancel
<1>8. ASSUME NEW s \in Accounts, NEW x \in Items, NEW to \in NftRecipients,
             SendNft(s, x, to)
      PROVE  Custody'
  <2>1. /\ nftOwner[x] # Market /\ book' = book
        /\ nftOwner' = [nftOwner EXCEPT ![x] = to]
    BY <1>8, Addresses DEF SendNft
  <2>2. \A id \in AuctionIds : IsOpen(id) => /\ auctions[id].item # x
                                            /\ auctions[id].item \in Items
    BY <2>1 DEF Custody, TypeOK, Auction
  <2>3. \A y \in Items : y # x => nftOwner'[y] = nftOwner[y]
    BY <2>1 DEF TypeOK
  <2>4. QED
    BY <2>1, <2>2, <2>3 DEF Custody, book, AuctionIds
<1>9. ASSUME NEW s \in Accounts, NEW t \in Erc20s, NEW m \in Nat,
             SendToken(s, t, m)
      PROVE  Custody'
  BY <1>1, <1>9 DEF SendToken
<1>10. QED
  BY <1>2, <1>3, <1>4, <1>6, <1>7, <1>8, <1>9, Steps

(* The market has the NFT of every unsettled auction and never sells one   *)
(* NFT twice.                                                              *)
THEOREM CustodyHolds == Spec => []Custody
<1>1. Spec => []TypeOK
  BY TypeCorrect
<1>2. QED
  BY <1>1, CustodyInit, CustodyNext, PTL DEF Spec
-----------------------------------------------------------------------------
(* The index from NFTs to active V3 auctions.                              *)

LEMMA IndexInit == Init => ActiveIndexExact
BY DEF Init, ActiveIndexExact, AuctionIds

LEMMA IndexNext ==
  TypeOK /\ Custody /\ ActiveIndexExact /\ [Next]_vars => ActiveIndexExact'
<1> SUFFICES ASSUME TypeOK, Custody, ActiveIndexExact, [Next]_vars
             PROVE  ActiveIndexExact'
  OBVIOUS
<1> DEFINE Listed(x, id) == /\ extras[id].v3Created
                            /\ IsOpen(id)
                            /\ auctions[id].item = x
<1> USE DEF IsOpen
<1>1. ASSUME book' = book PROVE ActiveIndexExact'
  BY <1>1 DEF ActiveIndexExact, book, AuctionIds
<1>2. CASE Idles
  BY <1>1, <1>2 DEF Idles
<1>3. ASSUME NEW s \in Accounts, NEW x \in Items, NEW e \in Nat,
             NEW extra \in Extra, Creates(s, x, e, extra)
      PROVE  ActiveIndexExact'
  <2>1. PushAuction(s, x, e, extra)
    BY <1>3 DEF Creates
  <2>2. /\ auctionCount \notin AuctionIds
        /\ AuctionIds' = AuctionIds \cup {auctionCount}
        /\ \A id \in AuctionIds : auctions'[id] = auctions[id]
                                  /\ extras'[id] = extras[id]
        /\ auctions'[auctionCount] =
             [seller |-> s, item |-> x, endTime |-> e, ended |-> FALSE,
              highestBidder |-> Zero, paymentToken |-> Native,
              highestBid |-> 0, highestBidUsd |-> 0]
        /\ extras'[auctionCount] = extra
    BY <2>1, Appended
  <2>3. /\ auctionCount \in Nat /\ auctionCount' = auctionCount + 1
        /\ \A id \in AuctionIds : id \in Nat /\ id < auctionCount
    BY <2>1 DEF PushAuction, TypeOK, AuctionIds
  <2>4. \A y \in Items : active[y] \in Nat /\ active[y] <= auctionCount
    BY DEF TypeOK, ActiveIndexExact
  <2>5. auctions'[auctionCount].item = x /\ ~auctions'[auctionCount].ended
    BY <2>2
  <2>6. CASE extra.v3Created
    <3>1. active[x] = 0 /\ active' = [active EXCEPT ![x] = auctionCount + 1]
      BY <1>3, <2>6 DEF Creates
    <3>2. active'[x] = auctionCount + 1
          /\ \A y \in Items : y # x => active'[y] = active[y]
      BY <3>1 DEF TypeOK
    <3>3. \A id \in AuctionIds : ~Listed(x, id)
      BY <2>3, <3>1 DEF ActiveIndexExact
    <3>4. ASSUME NEW y \in Items, NEW id \in AuctionIds'
          PROVE  /\ active'[y] <= auctionCount'
                 /\ active'[y] = id + 1 <=> Listed(y, id)'
      <4>1. CASE id \in AuctionIds /\ y = x
        BY <2>2, <2>3, <3>2, <3>3, <4>1
      <4>2. CASE id \in AuctionIds /\ y # x
        BY <2>2, <2>3, <2>4, <3>2, <4>2 DEF ActiveIndexExact
      <4>3. CASE id = auctionCount
        BY <2>2, <2>3, <2>4, <2>5, <2>6, <3>2, <4>3
      <4>4. QED
        BY <2>2, <4>1, <4>2, <4>3
    <3>5. auctionCount \in AuctionIds'
      BY <2>2
    <3>6. QED
      BY <3>4, <3>5 DEF ActiveIndexExact
  <2>7. CASE ~extra.v3Created
    <3>1. active' = active
      BY <1>3, <2>7 DEF Creates
    <3>2. ASSUME NEW y \in Items, NEW id \in AuctionIds'
          PROVE  /\ active'[y] <= auctionCount'
                 /\ active'[y] = id + 1 <=> Listed(y, id)'
      <4>1. CASE id \in AuctionIds
        BY <2>2, <2>3, <2>4, <3>1, <4>1 DEF ActiveIndexExact
      <4>2. CASE id = auctionCount
        BY <2>2, <2>3, <2>4, <2>7, <3>1, <4>2
      <4>3. QED
        BY <2>2, <4>1, <4>2
    <3>3. auctionCount \in AuctionIds'
      BY <2>2
    <3>4. QED
      BY <3>2, <3>3 DEF ActiveIndexExact
  <2>8. QED
    BY <2>6, <2>7 DEF Extra
<1>4. ASSUME NEW s \in Accounts, NEW i \in AuctionIds, NEW t \in Tokens,
             NEW m \in Nat, NEW r \in Rounds, Bidding(s, i, t, m, r)
      PROVE  ActiveIndexExact'
  <2>1. /\ active' = active /\ extras' = extras /\ AuctionIds' = AuctionIds
        /\ auctionCount' = auctionCount
    BY <1>4 DEF Bidding, PlaceBid, AuctionIds
  <2>2. \A id \in AuctionIds : /\ auctions'[id].item = auctions[id].item
                               /\ auctions'[id].ended = auctions[id].ended
    BY <1>4 DEF Bidding, PlaceBid, TypeOK, Auction
  <2>3. QED
    BY <2>1, <2>2 DEF ActiveIndexExact
<1>5. ASSUME NEW i \in AuctionIds, ~auctions[i].ended, CloseAuction(i),
             auctionCount' = auctionCount,
             \A id \in AuctionIds : extras'[id].v3Created = extras[id].v3Created
      PROVE  ActiveIndexExact'
  <2>1. AuctionIds' = AuctionIds /\ auctions[i].item \in Items
        /\ \A id \in AuctionIds : id \in Nat
    BY <1>5 DEF AuctionIds, TypeOK, Auction
  <2>2. \A id \in AuctionIds :
          /\ auctions'[id].item = auctions[id].item
          /\ IsOpen(id)' <=> IsOpen(id) /\ id # i
    BY <1>5 DEF CloseAuction, TypeOK, Auction
  <2>3. \A id \in AuctionIds :
          IsOpen(id) /\ id # i => auctions[id].item # auctions[i].item
    BY <1>5 DEF Custody
  <2>4. CASE extras[i].v3Created
    <3>1. active'[auctions[i].item] = 0
          /\ \A y \in Items : y # auctions[i].item => active'[y] = active[y]
      BY <1>5, <2>1, <2>4 DEF CloseAuction, TypeOK
    <3>2. auctionCount \in Nat
      BY DEF TypeOK
    <3>3. ASSUME NEW y \in Items
          PROVE  /\ active'[y] <= auctionCount'
                 /\ \A id \in AuctionIds' :
                      active'[y] = id + 1 <=> Listed(y, id)'
      <4>1. CASE y = auctions[i].item
        BY <1>5, <2>1, <2>2, <2>3, <3>1, <3>2, <4>1
      <4>2. CASE y # auctions[i].item
        BY <1>5, <2>1, <2>2, <3>1, <4>2 DEF ActiveIndexExact
      <4>3. QED
        BY <4>1, <4>2
    <3>4. QED
      BY <3>3 DEF ActiveIndexExact
  <2>5. CASE ~extras[i].v3Created
    <3>1. active' = active
      BY <1>5, <2>5 DEF CloseAuction
    <3>2. QED
      BY <1>5, <2>1, <2>2, <2>5, <3>1 DEF ActiveIndexExact
  <2>6. QED
    BY <2>4, <2>5
<1>6. ASSUME NEW i \in AuctionIds, EndUnsold(i) \/ EndSold(i)
      PROVE  ActiveIndexExact'
  BY <1>5, <1>6 DEF EndUnsold, CanEndUnsold, EndSold, CanEndSold, CanSettle
<1>7. ASSUME NEW s \in Accounts, NEW i \in AuctionIds, CancelAuction(s, i)
      PROVE  ActiveIndexExact'
  <2>1. \A id \in AuctionIds : extras'[id].v3Created = extras[id].v3Created
    BY <1>7 DEF CancelAuction, TypeOK, Extra
  <2>2. QED
    BY <1>5, <1>7, <2>1 DEF CancelAuction, CanCancel
<1>8. ASSUME NEW s \in Accounts, NEW x \in Items, NEW to \in NftRecipients,
             SendNft(s, x, to)
      PROVE  ActiveIndexExact'
  BY <1>1, <1>8 DEF SendNft
<1>9. ASSUME NEW s \in Accounts, NEW t \in Erc20s, NEW m \in Nat,
             SendToken(s, t, m)
      PROVE  ActiveIndexExact'
  BY <1>1, <1>9 DEF SendToken
<1>10. QED
  BY <1>2, <1>3, <1>4, <1>6, <1>7, <1>8, <1>9, Steps

(* nftToActiveAuctionIdPlusOne and the auctions array always agree, so a   *)
(* free NFT can be listed again and a listed one cannot.                   *)
THEOREM ActiveIndexCorrect == Spec => []ActiveIndexExact
<1>1. Spec => []TypeOK
  BY TypeCorrect
<1>2. Spec => []Custody
  BY CustodyHolds
<1>3. QED
  BY <1>1, <1>2, IndexInit, IndexNext, PTL DEF Spec
-----------------------------------------------------------------------------
(* The market's funds add up, and a settled auction never changes again.   *)

LEMMA OwedNat ==
  ASSUME TypeOK, NEW t \in Tokens
  PROVE  /\ \A k \in 0 .. auctionCount - 1 : Owed(t)[k] \in Nat
         /\ Total(Owed(t), auctionCount) \in Nat
<1>1. \A k \in 0 .. auctionCount - 1 : Owed(t)[k] \in Nat
  BY DEF Owed, AuctionIds, TypeOK, Auction
<1>2. QED
  BY <1>1, TotalNat DEF TypeOK

(* A step that touches the one auction i changes the debt by i's alone.    *)
LEMMA OwedUpdate ==
  ASSUME TypeOK, TypeOK', NEW i \in AuctionIds, NEW t \in Tokens,
         auctionCount' = auctionCount,
         \A k \in AuctionIds : k # i => auctions'[k] = auctions[k]
  PROVE  Total(Owed(t), auctionCount)' =
           Total(Owed(t), auctionCount) - Owed(t)[i] + Owed(t)'[i]
<1> DEFINE f == Owed(t)
           g == Owed(t)'
           n == auctionCount
<1>1. \A k \in 0 .. n - 1 : f[k] \in Nat
  BY OwedNat
<1>2. \A k \in 0 .. n - 1 : g[k] \in Nat
  BY DEF Owed, AuctionIds, TypeOK, Auction
<1>3. \A k \in 0 .. n - 1 : k # i => g[k] = f[k]
  BY DEF Owed, AuctionIds, IsOpen
<1>4. n \in Nat /\ i \in 0 .. n - 1
  BY DEF TypeOK, AuctionIds
<1> HIDE DEF f, g, n
<1>5. Total(g, n) = Total(f, n) - f[i] + g[i]
  BY <1>1, <1>2, <1>3, <1>4, TotalUpdate
<1>6. QED
  BY <1>5 DEF f, g, n

(* Paying oneself changes nothing.                                         *)
LEMMA MoveSelf ==
  ASSUME NEW bal \in Balances, NEW t \in Tokens, NEW h \in Holders,
         NEW amount \in Nat, NEW u \in Tokens
  PROVE  Move(bal, t, h, h, amount)[u][h] = bal[u][h]
BY DEF Move, Balances

(* What EscrowExact says of the books that a step does not touch.          *)
LEMMA EscrowUntouched ==
  ASSUME EscrowExact, book' = book,
         \A t \in Tokens : balance'[t][Market] - stray'[t]
                             = balance[t][Market] - stray[t],
         TypeOK, TypeOK'
  PROVE  EscrowExact'
<1> SUFFICES ASSUME NEW t \in Tokens
             PROVE  balance'[t][Market]
                      = Total(Owed(t), auctionCount)' + stray'[t]
  BY DEF EscrowExact
<1>1. Total(Owed(t), auctionCount)' = Total(Owed(t), auctionCount)
  BY DEF Owed, IsOpen, AuctionIds, book
<1>2. /\ balance[t][Market] = Total(Owed(t), auctionCount) + stray[t]
      /\ balance'[t][Market] - stray'[t] = balance[t][Market] - stray[t]
  BY DEF EscrowExact
<1>3. /\ balance[t][Market] \in Nat /\ balance'[t][Market] \in Nat
      /\ stray[t] \in Nat /\ stray'[t] \in Nat
  BY Addresses DEF TypeOK
<1>4. Total(Owed(t), auctionCount) \in Nat
  BY OwedNat
<1>5. QED
  BY <1>1, <1>2, <1>3, <1>4

LEMMA EscrowInit == Init => EscrowExact
<1> SUFFICES ASSUME Init, NEW t \in Tokens
             PROVE  balance[t][Market] = Total(Owed(t), auctionCount) + stray[t]
  BY DEF EscrowExact
<1>1. auctionCount = 0 /\ stray[t] = 0 /\ balance[t][Market] = 0
  BY Addresses DEF Init
<1>2. QED
  BY <1>1, TotalEmpty

(* A bid adds its amount to what is held and to what is owed, and takes    *)
(* the bid it replaces off both.                                           *)
LEMMA EscrowBid ==
  ASSUME TypeOK, TypeOK', LotsConsistent, EscrowExact,
         NEW s \in Accounts, NEW i \in AuctionIds, NEW t \in Tokens,
         NEW m \in Nat, NEW r \in Rounds, Bidding(s, i, t, m, r)
  PROVE  EscrowExact'
<1> SUFFICES ASSUME NEW u \in Tokens
             PROVE  balance'[u][Market]
                      = Total(Owed(u), auctionCount)' + stray'[u]
  BY DEF EscrowExact
<1> DEFINE paid == Move(balance, t, s, Market, m)
           old == auctions[i]
           oldAmount == IF old.paymentToken = u THEN old.highestBid ELSE 0
           newAmount == IF t = u THEN m ELSE 0
<1>1. /\ old \in Auction /\ ~old.ended
      /\ old.highestBidder = Zero <=> old.highestBid = 0
  BY DEF Bidding, PlaceBid, TypeOK, LotsConsistent
<1>2. /\ auctionCount' = auctionCount /\ stray' = stray
      /\ auctions' = [auctions EXCEPT ![i] =
                        [@ EXCEPT !.highestBidder = s, !.paymentToken = t,
                                  !.highestBid = m,
                                  !.highestBidUsd = QuoteBidUsd(t, m, r)]]
      /\ balance[t][s] >= m
      /\ IF old.highestBidder = Zero THEN balance' = paid
         ELSE /\ CanPay(paid, old.paymentToken, old.highestBidder,
                        old.highestBid)
              /\ balance' = Move(paid, old.paymentToken, Market,
                                 old.highestBidder, old.highestBid)
  BY DEF Bidding, PlaceBid, Refund, CanRefund
<1>3. balance \in Balances /\ s \in Holders /\ s # Market /\ Market \in Holders
  BY Addresses DEF TypeOK, Balances
<1>4. paid \in Balances
  BY <1>2, <1>3, MoveType
<1>5. paid[u][Market] = balance[u][Market] + newAmount
  BY <1>3, MoveEffect DEF Balances
<1> HIDE DEF paid
<1>6. balance'[u][Market] = paid[u][Market] - oldAmount
  <2>1. CASE old.highestBidder = Zero
    BY <1>1, <1>2, <1>3, <1>4, <2>1 DEF Balances
  <2>2. CASE old.highestBidder # Zero
    <3>1. /\ old.highestBidder \in Accounts /\ old.highestBidder \in Holders
          /\ old.highestBidder # Market
          /\ old.paymentToken \in Tokens /\ old.highestBid \in Nat
      BY <1>1, <2>2, Addresses DEF Auction
    <3>2. balance' = Move(paid, old.paymentToken, Market, old.highestBidder,
                          old.highestBid)
      BY <1>2, <2>2
    <3>3. balance'[u][Market] =
            IF u = old.paymentToken THEN paid[u][Market] - old.highestBid
            ELSE paid[u][Market]
      BY <1>3, <1>4, <3>1, <3>2, MoveEffect
    <3>4. QED
      BY <1>3, <1>4, <3>3 DEF Balances
  <2>3. QED
    BY <2>1, <2>2
<1>7. Owed(u)[i] = oldAmount
  BY <1>1 DEF Owed, IsOpen
<1>8. Owed(u)'[i] = newAmount
  <2>1. /\ auctions'[i].ended = FALSE /\ auctions'[i].paymentToken = t
        /\ auctions'[i].highestBid = m
    BY <1>1, <1>2 DEF TypeOK, Auction
  <2>2. i \in AuctionIds'
    BY <1>2 DEF AuctionIds
  <2>3. QED
    BY <2>1, <2>2 DEF Owed, IsOpen
<1>9. Total(Owed(u), auctionCount)' =
        Total(Owed(u), auctionCount) - oldAmount + newAmount
  <2>1. \A k \in AuctionIds : k # i => auctions'[k] = auctions[k]
    BY <1>2 DEF TypeOK
  <2>2. QED
    BY <1>2, <1>7, <1>8, <2>1, OwedUpdate
<1>10. balance[u][Market] = Total(Owed(u), auctionCount) + stray[u]
  BY DEF EscrowExact
<1>11. /\ Total(Owed(u), auctionCount) \in Nat /\ stray[u] \in Nat
       /\ balance[u][Market] \in Nat /\ oldAmount \in Nat /\ newAmount \in Nat
  BY <1>1, OwedNat, Addresses DEF TypeOK, Auction
<1> HIDE DEF old, oldAmount, newAmount
<1>12. QED
  BY <1>2, <1>5, <1>6, <1>9, <1>10, <1>11

(* A settlement pays out what it owed: the net to the seller, the fee to   *)
(* its recipient, and a fee the market pays itself becomes stray.          *)
LEMMA EscrowSale ==
  ASSUME TypeOK, TypeOK', EscrowExact, NEW i \in AuctionIds, EndSold(i)
  PROVE  EscrowExact'
<1> SUFFICES ASSUME NEW u \in Tokens
             PROVE  balance'[u][Market]
                      = Total(Owed(u), auctionCount)' + stray'[u]
  BY DEF EscrowExact
<1> DEFINE old == auctions[i]
           t == old.paymentToken
           fee == FeeAmount(old.highestBid)
           net == old.highestBid - fee
           recipient == EffectiveFeeRecipient
           sellerPaid == Move(balance, t, Market, old.seller, net)
           gross == IF t = u THEN old.highestBid ELSE 0
<1>1. /\ old \in Auction /\ ~old.ended /\ t \in Tokens
      /\ old.highestBid \in Nat
      /\ old.seller \in Holders /\ old.seller # Market
  BY Addresses DEF EndSold, CanEndSold, CanSettle, TypeOK, Auction
<1>2. fee \in Nat /\ net \in Nat /\ fee <= old.highestBid
  BY <1>1, FeeBound
<1>3. recipient \in Holders
  BY DEF EffectiveFeeRecipient, TypeOK, Holders
<1>4. /\ auctionCount' = auctionCount
      /\ auctions' = [auctions EXCEPT ![i] = [@ EXCEPT !.ended = TRUE]]
      /\ CanPay(balance, t, old.seller, net)
      /\ CanPay(sellerPaid, t, recipient, fee)
      /\ balance' = Move(sellerPaid, t, Market, recipient, fee)
      /\ stray' = IF recipient = Market
                  THEN [stray EXCEPT ![t] = @ + fee] ELSE stray
  BY DEF EndSold, CanEndSold, SellerPaid, Net, CloseAuction
<1>5. balance \in Balances /\ Market \in Holders
  BY Addresses DEF TypeOK, Balances
<1> HIDE DEF recipient, fee
<1>6. balance[t][Market] >= net
  BY <1>1, <1>2, <1>4, <1>5 DEF CanPay, Balances
<1>7. sellerPaid \in Balances
  BY <1>1, <1>2, <1>5, <1>6, MoveType
<1>8. sellerPaid[u][Market] =
        IF u = t THEN balance[u][Market] - net ELSE balance[u][Market]
  BY <1>1, <1>2, <1>5, MoveEffect
<1> HIDE DEF sellerPaid
<1>9. balance'[u][Market] - stray'[u]
        = sellerPaid[u][Market] - stray[u] - (IF u = t THEN fee ELSE 0)
  <2>1. stray[u] \in Nat /\ stray \in [Tokens -> Nat]
    BY DEF TypeOK
  <2>2. sellerPaid[u][Market] \in Nat
    BY <1>5, <1>7 DEF Balances
  <2>3. CASE recipient = Market
    <3>1. balance'[u][Market] = sellerPaid[u][Market]
      BY <1>1, <1>2, <1>4, <1>5, <1>7, <2>3, MoveSelf
    <3>2. stray'[u] = stray[u] + (IF u = t THEN fee ELSE 0)
      BY <1>1, <1>2, <1>4, <2>1, <2>3
    <3>3. QED
      BY <1>2, <2>1, <2>2, <3>1, <3>2
  <2>4. CASE recipient # Market
    <3>1. balance'[u][Market] =
            IF u = t THEN sellerPaid[u][Market] - fee
            ELSE sellerPaid[u][Market]
      BY <1>1, <1>2, <1>3, <1>4, <1>5, <1>7, <2>4, MoveEffect
    <3>2. QED
      BY <1>2, <1>4, <2>1, <2>2, <2>4, <3>1
  <2>5. QED
    BY <2>3, <2>4
<1>10. Owed(u)[i] = gross
  BY <1>1 DEF Owed, IsOpen
<1>11. Owed(u)'[i] = 0
  <2>1. auctions'[i].ended /\ i \in AuctionIds'
    BY <1>1, <1>4 DEF TypeOK, Auction, AuctionIds
  <2>2. QED
    BY <2>1 DEF Owed, IsOpen
<1>12. Total(Owed(u), auctionCount)' = Total(Owed(u), auctionCount) - gross + 0
  <2>1. \A k \in AuctionIds : k # i => auctions'[k] = auctions[k]
    BY <1>4 DEF TypeOK
  <2>2. QED
    BY <1>4, <1>10, <1>11, <2>1, OwedUpdate
<1>13. balance[u][Market] = Total(Owed(u), auctionCount) + stray[u]
  BY DEF EscrowExact
<1>14. /\ Total(Owed(u), auctionCount) \in Nat /\ stray[u] \in Nat
       /\ stray'[u] \in Nat /\ balance'[u][Market] \in Nat
       /\ balance[u][Market] \in Nat
  BY OwedNat, Addresses DEF TypeOK
<1>15. CASE u = t
  BY <1>1, <1>2, <1>8, <1>9, <1>12, <1>13, <1>14, <1>15
<1>16. CASE u # t
  BY <1>1, <1>2, <1>8, <1>9, <1>12, <1>13, <1>14, <1>16
<1>17. QED
  BY <1>15, <1>16

(* Opening an auction, and closing one nobody bid on, move no money.       *)
LEMMA EscrowOpen ==
  ASSUME TypeOK, TypeOK', EscrowExact,
         NEW s \in Accounts, NEW x \in Items, NEW e \in Nat,
         NEW extra \in Extra, Creates(s, x, e, extra)
  PROVE  EscrowExact'
<1> SUFFICES ASSUME NEW u \in Tokens
             PROVE  balance'[u][Market]
                      = Total(Owed(u), auctionCount)' + stray'[u]
  BY DEF EscrowExact
<1> DEFINE f == Owed(u)
           g == Owed(u)'
           n == auctionCount
<1>1. PushAuction(s, x, e, extra) /\ balance' = balance /\ stray' = stray
  BY DEF Creates, purse
<1>2. n \in Nat /\ auctionCount' = n + 1
  BY <1>1 DEF PushAuction, TypeOK
<1>3. /\ AuctionIds' = AuctionIds \cup {n}
      /\ \A id \in AuctionIds : auctions'[id] = auctions[id]
      /\ auctions'[n] =
           [seller |-> s, item |-> x, endTime |-> e, ended |-> FALSE,
            highestBidder |-> Zero, paymentToken |-> Native,
            highestBid |-> 0, highestBidUsd |-> 0]
  BY <1>1, Appended
<1>4. \A k \in 0 .. n - 1 : f[k] = g[k]
  BY <1>3 DEF Owed, IsOpen, AuctionIds
<1>5. g[n] = 0
  <2>1. auctions'[n].highestBid = 0
    BY <1>3
  <2>2. n \in AuctionIds'
    BY <1>3
  <2>3. QED
    BY <2>1, <2>2 DEF Owed
<1> HIDE DEF f, g, n
<1>6. Total(g, n + 1) = Total(f, n) + g[n]
  BY <1>2, <1>4, TotalAppend
<1>7. Total(Owed(u), auctionCount)' = Total(g, n + 1)
  BY <1>2 DEF g
<1>8. balance[u][Market] = Total(f, n) + stray[u] /\ Total(f, n) \in Nat
  BY OwedNat DEF EscrowExact, f, n
<1>9. QED
  BY <1>1, <1>5, <1>6, <1>7, <1>8

LEMMA EscrowUnsold ==
  ASSUME TypeOK, TypeOK', LotsConsistent, EscrowExact, NEW i \in AuctionIds,
         auctionCount' = auctionCount, CloseAuction(i), purse' = purse,
         auctions[i].highestBidder = Zero
  PROVE  EscrowExact'
<1> SUFFICES ASSUME NEW u \in Tokens
             PROVE  balance'[u][Market]
                      = Total(Owed(u), auctionCount)' + stray'[u]
  BY DEF EscrowExact
<1>1. auctions' = [auctions EXCEPT ![i] = [@ EXCEPT !.ended = TRUE]]
      /\ balance' = balance /\ stray' = stray /\ AuctionIds' = AuctionIds
  BY DEF CloseAuction, purse, AuctionIds
<1>2. Owed(u)[i] = 0
  BY DEF LotsConsistent, Owed
<1>3. Owed(u)'[i] = 0
  BY <1>1 DEF Owed, IsOpen, TypeOK, Auction
<1>4. \A k \in AuctionIds : k # i => auctions'[k] = auctions[k]
  BY <1>1 DEF TypeOK
<1>5. Total(Owed(u), auctionCount)' = Total(Owed(u), auctionCount) - 0 + 0
  BY <1>2, <1>3, <1>4, OwedUpdate
<1>6. balance[u][Market] = Total(Owed(u), auctionCount) + stray[u]
      /\ Total(Owed(u), auctionCount) \in Nat
  BY OwedNat DEF EscrowExact
<1>7. QED
  BY <1>1, <1>5, <1>6

LEMMA EscrowNext ==
  TypeOK /\ LotsConsistent /\ EscrowExact /\ [Next]_vars => EscrowExact'
<1> SUFFICES ASSUME TypeOK, LotsConsistent, EscrowExact, [Next]_vars
             PROVE  EscrowExact'
  OBVIOUS
<1>1. TypeOK'
  BY TypeNext
<1>2. CASE Idles
  BY <1>1, <1>2, EscrowUntouched DEF Idles, purse
<1>3. ASSUME NEW s \in Accounts, NEW x \in Items, NEW e \in Nat,
             NEW extra \in Extra, Creates(s, x, e, extra)
      PROVE  EscrowExact'
  BY <1>1, <1>3, EscrowOpen
<1>4. ASSUME NEW s \in Accounts, NEW i \in AuctionIds, NEW t \in Tokens,
             NEW m \in Nat, NEW r \in Rounds, Bidding(s, i, t, m, r)
      PROVE  EscrowExact'
  BY <1>1, <1>4, EscrowBid
<1>5. ASSUME NEW i \in AuctionIds, EndUnsold(i) PROVE EscrowExact'
  BY <1>1, <1>5, EscrowUnsold DEF EndUnsold, CanEndUnsold
<1>6. ASSUME NEW i \in AuctionIds, EndSold(i) PROVE EscrowExact'
  BY <1>1, <1>6, EscrowSale
<1>7. ASSUME NEW s \in Accounts, NEW i \in AuctionIds, CancelAuction(s, i)
      PROVE  EscrowExact'
  BY <1>1, <1>7, EscrowUnsold DEF CancelAuction, CanCancel
<1>8. ASSUME NEW s \in Accounts, NEW x \in Items, NEW to \in NftRecipients,
             SendNft(s, x, to)
      PROVE  EscrowExact'
  BY <1>1, <1>8, EscrowUntouched DEF SendNft, purse
<1>9. ASSUME NEW s \in Accounts, NEW t \in Erc20s, NEW m \in Nat,
             SendToken(s, t, m)
      PROVE  EscrowExact'
  <2>1. /\ book' = book /\ balance' = Move(balance, t, s, Market, m)
        /\ stray' = [stray EXCEPT ![t] = @ + m]
    BY <1>9 DEF SendToken
  <2>2. balance \in Balances /\ s \in Holders /\ Market \in Holders
        /\ s # Market /\ t \in Tokens
    BY Addresses DEF TypeOK, Balances
  <2>3. ASSUME NEW u \in Tokens
        PROVE  balance'[u][Market] - stray'[u] = balance[u][Market] - stray[u]
    <3>1. balance'[u][Market] = IF u = t THEN balance[u][Market] + m
                                ELSE balance[u][Market]
      BY <2>1, <2>2, MoveEffect
    <3>2. stray'[u] = IF u = t THEN stray[u] + m ELSE stray[u]
      BY <2>1 DEF TypeOK
    <3>3. balance[u][Market] \in Nat /\ stray[u] \in Nat
      BY Addresses DEF TypeOK
    <3>4. QED
      BY <3>1, <3>2, <3>3
  <2>4. QED
    BY <1>1, <2>1, <2>3, EscrowUntouched
<1>10. QED
  BY <1>2, <1>3, <1>4, <1>5, <1>6, <1>7, <1>8, <1>9, Steps

(* Of every payment asset the market holds exactly what it owes standing   *)
(* bidders and what was given to it, so no refund, payout or fee can ever  *)
(* lack its funds.                                                         *)
THEOREM EscrowHolds == Spec => []EscrowExact
<1>1. Spec => []TypeOK
  BY TypeCorrect
<1>2. Spec => []LotsConsistent
  BY LotsCorrect
<1>3. QED
  BY <1>1, <1>2, EscrowInit, EscrowNext, PTL DEF Spec
-----------------------------------------------------------------------------
LEMMA EndedStep ==
  TypeOK /\ [Next]_vars =>
    \A id \in AuctionIds : auctions[id].ended =>
      auctions'[id] = auctions[id] /\ extras'[id] = extras[id]
<1> SUFFICES ASSUME TypeOK, [Next]_vars,
                    NEW id \in AuctionIds, auctions[id].ended
             PROVE  auctions'[id] = auctions[id] /\ extras'[id] = extras[id]
  OBVIOUS
<1> USE DEF book
<1>1. CASE Idles
  BY <1>1 DEF Idles
<1>2. ASSUME NEW s \in Accounts, NEW x \in Items, NEW e \in Nat,
             NEW extra \in Extra, Creates(s, x, e, extra)
      PROVE  auctions'[id] = auctions[id] /\ extras'[id] = extras[id]
  BY <1>2, Appended DEF Creates
<1>3. ASSUME NEW s \in Accounts, NEW i \in AuctionIds, NEW t \in Tokens,
             NEW m \in Nat, NEW r \in Rounds, Bidding(s, i, t, m, r)
      PROVE  auctions'[id] = auctions[id] /\ extras'[id] = extras[id]
  BY <1>3 DEF Bidding, PlaceBid, TypeOK
<1>4. ASSUME NEW i \in AuctionIds, EndUnsold(i) \/ EndSold(i)
      PROVE  auctions'[id] = auctions[id] /\ extras'[id] = extras[id]
  BY <1>4 DEF EndUnsold, CanEndUnsold, EndSold, CanEndSold, CanSettle,
    CloseAuction, TypeOK
<1>5. ASSUME NEW s \in Accounts, NEW i \in AuctionIds, CancelAuction(s, i)
      PROVE  auctions'[id] = auctions[id] /\ extras'[id] = extras[id]
  BY <1>5 DEF CancelAuction, CanCancel, CloseAuction, TypeOK
<1>6. ASSUME NEW s \in Accounts, NEW x \in Items, NEW to \in NftRecipients,
             SendNft(s, x, to)
      PROVE  auctions'[id] = auctions[id] /\ extras'[id] = extras[id]
  BY <1>6 DEF SendNft
<1>7. ASSUME NEW s \in Accounts, NEW t \in Erc20s, NEW m \in Nat,
             SendToken(s, t, m)
      PROVE  auctions'[id] = auctions[id] /\ extras'[id] = extras[id]
  BY <1>7 DEF SendToken
<1>8. QED
  BY <1>1, <1>2, <1>3, <1>4, <1>5, <1>6, <1>7, Steps

(* No call of any version reopens or changes a settled auction.            *)
THEOREM EndedStaysFinal == Spec => EndedIsFinal
<1>1. Spec => []TypeOK
  BY TypeCorrect
<1>2. QED
  BY <1>1, EndedStep, PTL DEF Spec, EndedIsFinal
-----------------------------------------------------------------------------
(* The money a settlement pays is there, since the market holds what it    *)
(* owes: first the net for the seller, then the fee out of what is left.   *)
LEMMA SalePaid ==
  ASSUME TypeOK, EscrowExact, NEW i \in AuctionIds, IsOpen(i),
         CanReceive(auctions[i].paymentToken, auctions[i].seller),
         \/ FeeAmount(auctions[i].highestBid) = 0
         \/ CanReceive(auctions[i].paymentToken, EffectiveFeeRecipient)
  PROVE  /\ CanPay(balance, auctions[i].paymentToken, auctions[i].seller, Net(i))
         /\ CanPay(SellerPaid(i), auctions[i].paymentToken,
                   EffectiveFeeRecipient, FeeAmount(auctions[i].highestBid))
<1> DEFINE t == auctions[i].paymentToken
           gross == auctions[i].highestBid
           fee == FeeAmount(gross)
<1>1. /\ t \in Tokens /\ gross \in Nat
      /\ auctions[i].seller \in Holders /\ auctions[i].seller # Market
  BY Addresses DEF TypeOK, Auction
<1>2. fee \in Nat /\ fee <= gross
  BY <1>1, FeeBound
<1>3. Net(i) = gross - fee /\ Net(i) \in Nat /\ Net(i) <= gross
  BY <1>1, <1>2 DEF Net
<1>4. balance \in Balances /\ Market \in Holders
  BY Addresses DEF TypeOK, Balances
<1>5. balance[t][Market] >= gross
  <2> DEFINE f == Owed(t)
             n == auctionCount
  <2>1. f[i] = gross
    BY DEF Owed, IsOpen
  <2>2. n \in Nat /\ i \in 0 .. n - 1 /\ \A k \in 0 .. n - 1 : f[k] \in Nat
    BY <1>1, OwedNat DEF TypeOK, AuctionIds
  <2>3. balance[t][Market] = Total(f, n) + stray[t]
    BY <1>1 DEF EscrowExact
  <2>4. stray[t] \in Nat /\ Total(f, n) \in Nat
    BY <1>1, OwedNat DEF TypeOK
  <2> HIDE DEF f, n
  <2>5. f[i] <= Total(f, n)
    BY <2>2, TotalCovers
  <2>6. QED
    BY <1>1, <2>1, <2>3, <2>4, <2>5
<1>6. balance[t][Market] \in Nat
  BY <1>1, <1>4 DEF Balances
<1> HIDE DEF fee
<1>7. SellerPaid(i)[t][Market] = balance[t][Market] - Net(i)
  BY <1>1, <1>3, <1>4, MoveEffect DEF SellerPaid
<1>8. SellerPaid(i)[t][Market] >= fee
  BY <1>1, <1>2, <1>3, <1>5, <1>6, <1>7
<1>9. balance[t][Market] >= Net(i)
  BY <1>1, <1>3, <1>5, <1>6
<1>10. QED
  BY <1>8, <1>9 DEF CanPay, fee

LEMMA BooksNeverWedge ==
  ASSUME TypeOK, LotsConsistent, Custody, EscrowExact
  PROVE  NothingStuck
<1> SUFFICES ASSUME NEW i \in AuctionIds, IsOpen(i)
             PROVE
               LET auction == auctions[i]
                   t == auction.paymentToken
                   sold == auction.highestBidder # Zero
               IN  /\ /\ now >= auction.endTime
                      /\ (IF sold THEN auction.highestBidder
                          ELSE auction.seller) \in NftReceivers
                      /\ sold =>
                           /\ CanReceive(t, auction.seller)
                           /\ \/ FeeAmount(auction.highestBid) = 0
                              \/ CanReceive(t, EffectiveFeeRecipient)
                      => CanEndUnsold(i) \/ CanEndSold(i)
                   /\ /\ extras[i].v3Created /\ ~sold
                      /\ auction.seller \in NftReceivers
                      => /\ CanCancel(auction.seller, i)
                         /\ CanRelease(auction.item, auction.seller)
  BY DEF NothingStuck
<1>1. nftOwner[auctions[i].item] = Market
  BY DEF Custody
<1>2. ~auctions[i].ended /\ ~extras[i].cancelled
  BY DEF LotsConsistent, IsOpen
<1>3. QED
  BY <1>1, <1>2, SalePaid
  DEF CanEndUnsold, CanEndSold, CanSettle, CanCancel, CanRelease

(* endAuction and cancelAuction never wedge: whatever the market did for   *)
(* other auctions, under other implementations or fees, the NFT and the    *)
(* money of an auction are there when it is its turn.                      *)
THEOREM SettlementNeverStuck == Spec => []NothingStuck
<1>1. TypeOK /\ LotsConsistent /\ Custody /\ EscrowExact => NothingStuck
  BY BooksNeverWedge
<1>2. QED
  BY <1>1, TypeCorrect, LotsCorrect, CustodyHolds, EscrowHolds, PTL
=============================================================================
