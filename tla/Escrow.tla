------------------------------- MODULE Escrow -------------------------------
(***************************************************************************)
(* What the sale of a won item promises, with no sweep, dispute, shipment  *)
(* or deadline: the item is asked of one buyer at a time, never of the     *)
(* same one twice; a buyer's money is held by the platform until it goes,  *)
(* whole and once, to the seller or back to that buyer; an item put up for *)
(* auction again is no longer offered under the old sale.                  *)
(***************************************************************************)
EXTENDS Naturals

CONSTANTS Listings, Buyers, Prices

VARIABLES
  purse,   \* where the price of each item is
  asked,   \* the buyers each item has been asked of
  price,   \* the price asked
  credit   \* what the seller has received for each item

vars == <<purse, asked, price, credit>>

Init ==
  /\ purse = [l \in Listings |-> "unsold"]
  /\ asked = [l \in Listings |-> {}]
  /\ price = [l \in Listings |-> 0]
  /\ credit = [l \in Listings |-> 0]

\* The item is asked of a buyer: first the winner, later somebody else.
Ask(l, b, p) ==
  /\ purse[l] \in {"unsold", "lapsed"}
  /\ b \notin asked[l]
  /\ purse[l] = "lapsed" => p < price[l]
  /\ purse' = [purse EXCEPT ![l] = "due"]
  /\ asked' = [asked EXCEPT ![l] = @ \cup {b}]
  /\ price' = [price EXCEPT ![l] = p]
  /\ UNCHANGED credit

Move(l, from, to) ==
  /\ purse[l] = from
  /\ purse' = [purse EXCEPT ![l] = to]
  /\ UNCHANGED <<asked, price, credit>>

Lapse(l) == Move(l, "due", "lapsed")
PutUpAgain(l) == Move(l, "lapsed", "relisted")
Deposit(l) == Move(l, "due", "held")
Return(l) == Move(l, "held", "buyer")

PayOut(l) ==
  /\ purse[l] = "held"
  /\ purse' = [purse EXCEPT ![l] = "seller"]
  /\ credit' = [credit EXCEPT ![l] = price[l]]
  /\ UNCHANGED <<asked, price>>

Next == \E l \in Listings :
  \/ Lapse(l) \/ PutUpAgain(l) \/ Deposit(l) \/ Return(l) \/ PayOut(l)
  \/ \E b \in Buyers, p \in Prices : Ask(l, b, p)

Spec == Init /\ [][Next]_vars
=============================================================================
