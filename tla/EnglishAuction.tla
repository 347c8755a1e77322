--------------------------- MODULE EnglishAuction ---------------------------
(***************************************************************************)
(* What the market promises, with no escrow, no versions, no clock and no  *)
(* price feed: lots are opened by whoever holds the item, leaders take     *)
(* over by offering strictly more, and only the closing of a lot moves     *)
(* anything: the item to the leader and the leader's amount to the seller, *)
(* less a fee.  worth is what an account would have if it were outbid      *)
(* everywhere.                                                             *)
(***************************************************************************)
EXTENDS Integers

CONSTANTS Accounts, Market, NoOne, Items, Tokens

VARIABLES
  lots,     \* the lots so far, numbered from 0
  keeper,   \* who has each item
  worth     \* what each account has of each token

vars == <<lots, keeper, worth>>

Lots == DOMAIN lots
Phases == {"open", "sold", "returned"}

Init ==
  /\ lots = [id \in {} |-> 0]
  /\ keeper \in [Items -> Accounts \cup {NoOne}]   \* NoOne: not minted
  /\ worth \in [Accounts -> [Tokens -> Nat]]

(* The next number of the list is a new lot of an item its seller holds.   *)
Open(seller, item) ==
  /\ keeper[item] = seller
  /\ keeper' = [keeper EXCEPT ![item] = Market]
  /\ \E id \in DOMAIN lots' \ Lots :
       lots' = [n \in Lots \cup {id} |->
                  IF n \in Lots THEN lots[n]
                  ELSE [seller |-> seller, item |-> item, phase |-> "open",
                        leader |-> NoOne, token |-> lots'[n].token,
                        amount |-> 0, price |-> 0]]
  /\ UNCHANGED worth

(* A strictly better offer takes the lead and costs nobody anything.       *)
Raise(id, bidder) ==
  LET lot == lots[id]
      offer == lots'[id]
  IN  /\ lot.phase = "open"
      /\ offer.price > lot.price
      /\ offer.amount > 0
      /\ lots' = [lots EXCEPT ![id] =
                    [seller |-> lot.seller, item |-> lot.item,
                     phase |-> "open", leader |-> bidder,
                     token |-> offer.token, amount |-> offer.amount,
                     price |-> offer.price]]
      /\ UNCHANGED <<keeper, worth>>

Sell(id, fee, taker) ==
  LET lot == lots[id]
      Gain(a) == (IF a = lot.seller THEN lot.amount - fee ELSE 0)
                   + (IF a = taker THEN fee ELSE 0)
                   - (IF a = lot.leader THEN lot.amount ELSE 0)
  IN  /\ lot.phase = "open"
      /\ lot.leader # NoOne
      /\ lots' = [lots EXCEPT ![id] = [@ EXCEPT !.phase = "sold"]]
      /\ keeper' = [keeper EXCEPT ![lot.item] = lot.leader]
      /\ worth' = [a \in Accounts |->
                     [worth[a] EXCEPT ![lot.token] = @ + Gain(a)]]

Return(id) ==
  /\ lots[id].phase = "open"
  /\ lots[id].leader = NoOne
  /\ lots' = [lots EXCEPT ![id] = [@ EXCEPT !.phase = "returned"]]
  /\ keeper' = [keeper EXCEPT ![lots[id].item] = lots[id].seller]
  /\ UNCHANGED worth

(* Outside the market: an item not on sale changes hands, and an account   *)
(* gives tokens away.                                                      *)
Carry(item, to) ==
  /\ keeper[item] \in Accounts
  /\ keeper' = [keeper EXCEPT ![item] = to]
  /\ UNCHANGED <<lots, worth>>

Give(a, t) ==
  /\ worth'[a][t] < worth[a][t]
  /\ worth' = [worth EXCEPT ![a] = [@ EXCEPT ![t] = worth'[a][t]]]
  /\ UNCHANGED <<lots, keeper>>

Next ==
  \/ \E a \in Accounts, x \in Items : Open(a, x)
  \/ \E id \in Lots, a \in Accounts : Raise(id, a)
  \/ \E id \in Lots : \E fee \in 0 .. lots[id].amount :
       \E taker \in Accounts \cup {NoOne} : Sell(id, fee, taker)
  \/ \E id \in Lots : Return(id)
  \/ \E x \in Items, to \in Accounts \cup {Market} : Carry(x, to)
  \/ \E a \in Accounts, t \in Tokens : Give(a, t)

Spec == Init /\ [][Next]_vars
=============================================================================
