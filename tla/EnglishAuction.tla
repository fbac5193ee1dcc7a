--------------------------- MODULE EnglishAuction ---------------------------
(***************************************************************************)
(* What bidding promises, with no job, worker, sweep or notification: an   *)
(* ascending auction in which each bid takes the lead at a higher price,   *)
(* and one fall of the hammer that sells to the leader at the leading      *)
(* price when the reserve is reached and to nobody otherwise.              *)
(***************************************************************************)
EXTENDS Naturals

CONSTANTS Auctions, Buyers, Amounts, Reserves, StartPrice, MinIncrement, NoSale

VARIABLES
  stage,    \* of each auction
  leader,   \* the leading bidder, as a set of at most one buyer
  price,    \* the leading price, or the price asked
  reserve,  \* the reserve price; 0 is "no reserve"
  deal      \* who bought it and for how much, or NoSale

vars == <<stage, leader, price, reserve, deal>>

Init ==
  /\ stage = [a \in Auctions |-> "unlisted"]
  /\ leader = [a \in Auctions |-> {}]
  /\ price = [a \in Auctions |-> 0]
  /\ reserve = [a \in Auctions |-> 0]
  /\ deal = [a \in Auctions |-> NoSale]

\* The auction is opened at its starting price.
Announce(a) ==
  /\ stage[a] = "unlisted"
  /\ stage' = [stage EXCEPT ![a] = "open"]
  /\ price' = [price EXCEPT ![a] = StartPrice]
  /\ \E r \in Reserves : reserve' = [reserve EXCEPT ![a] = r]
  /\ UNCHANGED <<leader, deal>>

\* A buyer takes the lead: at the asking price first, then by a full increment.
Raise(a, b, amount) ==
  /\ stage[a] = "open"
  /\ amount >= IF leader[a] = {} THEN price[a] ELSE price[a] + MinIncrement
  /\ leader' = [leader EXCEPT ![a] = {b}]
  /\ price' = [price EXCEPT ![a] = amount]
  /\ UNCHANGED <<stage, reserve, deal>>

\* The auction is pulled: no more bids.
Stop(a) ==
  /\ stage[a] = "open"
  /\ stage' = [stage EXCEPT ![a] = "stopped"]
  /\ UNCHANGED <<leader, price, reserve, deal>>

\* The hammer falls, once.  It may fall on a stopped auction: the code's close
\* job does not look for CANCELLED (AuctionLifecycle's CancelledNeverSold).
Hammer(a) ==
  /\ stage[a] \in {"open", "stopped"}
  /\ \/ /\ leader[a] # {} /\ price[a] >= reserve[a]
        /\ stage' = [stage EXCEPT ![a] = "sold"]
        /\ \E b \in leader[a] :
             deal' = [deal EXCEPT ![a] = [winner |-> b, amount |-> price[a]]]
     \/ /\ leader[a] = {} \/ price[a] < reserve[a]
        /\ stage' = [stage EXCEPT ![a] = "unsold"]
        /\ UNCHANGED deal
  /\ UNCHANGED <<leader, price, reserve>>

Next == \E a \in Auctions :
  \/ Announce(a) \/ Stop(a) \/ Hammer(a)
  \/ \E b \in Buyers, amount \in Amounts : Raise(a, b, amount)

Spec == Init /\ [][Next]_vars
=============================================================================
