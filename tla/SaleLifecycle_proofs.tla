------------------------- MODULE SaleLifecycle_proofs -------------------------
(***************************************************************************)
(* Proofs about SaleLifecycle and about what My Items offers on its sales, *)
(* for any number of listings, buyers and sweeping workers, any deadlines  *)
(* and any bounds.                                                         *)
(***************************************************************************)
EXTENDS SellerItems, SequenceTheorems, FiniteSetTheorems, TLAPS

-----------------------------------------------------------------------------
(* Rows.                                                                   *)

\* A sale that starts, at the close of the auction or with an offer, is well-typed.
LEMMA OwedTyped ==
  ASSUME NEW b \in Buyers, NEW p \in Seq(Buyers), NEW a \in Amounts, NEW d \in Nat
  PROVE  Owed(b, p, a, d) \in Sale
BY DEF Owed, Sale, SaleStatuses

\* The changes the handlers make to a row keep it well-typed.
LEMMA RowTyped ==
  ASSUME NEW r \in Sale, NEW st \in SaleStatuses
  PROVE  /\ [r EXCEPT !.status = st] \in Sale
         /\ [r EXCEPT !.status = st, !.declined = FALSE] \in Sale
         /\ [r EXCEPT !.status = st, !.address = r.winner, !.declined = FALSE] \in Sale
         /\ [r EXCEPT !.address = r.winner, !.declined = TRUE] \in Sale
         /\ \A n \in Nat : [r EXCEPT !.status = st, !.shippedAt = n] \in Sale
BY DEF Sale

\* A handler that passes its status test has a sale before it.
LEMMA IsSale ==
  ASSUME TypeOK, NEW l \in Listings, NEW S, Is(l, S)
  PROVE  sale[l] \in Sale /\ sale[l] # NoSale /\ sale[l].status \in S
BY DEF TypeOK, Is

-----------------------------------------------------------------------------
(* Who is touched by a step.  A step of one listing leaves the rows of     *)
(* every other listing alone, so each invariant about a sale is shown for  *)
(* one listing k, which a step leaves alone or acts on.                    *)

Voids == {"TRANSACTION_VOIDED", "TRANSACTION_VOIDED_OVERDUE"}

Untouched(k) ==
  /\ sale'[k] = sale[k] /\ bid'[k] = bid[k] /\ dispute'[k] = dispute[k]
  /\ entry'[k] = entry[k] /\ log'[k] = log[k]
  /\ k \in releasing' => k \in releasing

\* The two ways to void a sale, and the three to deliver it, as the sale sees them.
Voided(k, action) ==
  /\ Is(k, {"PENDING"})
  /\ VoidWith(k, action)
  /\ UNCHANGED <<bid, dispute, money, releasing>>

Delivered(k, expected) ==
  /\ ConfirmDelivery(k, expected)
  /\ UNCHANGED <<bid, dispute, log>>
  /\ IF expected = "DISPUTED" THEN k \in releasing /\ releasing' = releasing \ {k}
                             ELSE UNCHANGED releasing

Acts(k) ==
  \/ AuctionSells(k) \/ Pay(k) \/ PayDeclined(k)
  \/ \E action \in Voids : Voided(k, action)
  \/ OfferToNextBidder(k)
  \/ MarkShipped(k)
  \/ \E expected \in {"SHIPPED", "DISPUTED"} : Delivered(k, expected)
  \/ RaiseDispute(k) \/ RespondToDispute(k) \/ ResolveRefund(k) \/ ResolveRelease(k)

LEMMA OneListing ==
  ASSUME TypeOK, [Next]_vars, NEW k \in Listings
  PROVE  Untouched(k) \/ Acts(k)
<1> USE DEF rows, money, sweeps, TypeOK, Untouched
<1>1. CASE UNCHANGED vars
  BY <1>1 DEF vars
<1>2. CASE Tick
  BY <1>2 DEF Tick
<1>3. ASSUME NEW l \in Listings,
             Approve(l) \/ TakeDown(l) \/ ReleaseDies(l) \/ \E m \in Listings : Relist(l, m)
      PROVE  Untouched(k)
  BY <1>3 DEF Approve, TakeDown, ReleaseDies, Relist
<1>4. ASSUME NEW s \in Sweepers,
             ListOverduePayments(s) \/ ListTimedOutShipments(s) \/ SweepDies(s)
      PROVE  Untouched(k)
  BY <1>4 DEF ListOverduePayments, ListTimedOutShipments, SweepDies
<1>5. ASSUME NEW l \in Listings, AuctionSells(l)
      PROVE  Untouched(k) \/ AuctionSells(k)
  BY <1>5 DEF AuctionSells
<1>6. ASSUME NEW l \in Listings, Pay(l) \/ PayDeclined(l) \/ MarkShipped(l)
      PROVE  Untouched(k) \/ Pay(k) \/ PayDeclined(k) \/ MarkShipped(k)
  <2>1. CASE l = k
    BY <1>6, <2>1
  <2>2. CASE l # k
    BY <1>6, <2>2 DEF Pay, PayDeclined, MarkShipped
  <2> QED
    BY <2>1, <2>2
<1>7. ASSUME NEW l \in Listings, NEW action \in Voids, Voided(l, action)
      PROVE  Untouched(k) \/ Voided(k, action)
  BY <1>7 DEF Voided, VoidWith
<1>8. ASSUME NEW l \in Listings, AdminVoid(l) PROVE Voided(l, "TRANSACTION_VOIDED")
  BY <1>8 DEF AdminVoid, Voided
<1>9. ASSUME NEW s \in Sweepers, NEW l \in Listings, VoidOverduePayment(s, l)
      PROVE  Untouched(k) \/ Voided(l, "TRANSACTION_VOIDED_OVERDUE")
  BY <1>9 DEF VoidOverduePayment, IsPaymentOverdue, Voided
<1>10. ASSUME NEW l \in Listings, OfferToNextBidder(l)
       PROVE  Untouched(k) \/ OfferToNextBidder(k)
  <2>1. CASE l = k
    BY <1>10, <2>1
  <2>2. CASE l # k
    BY <1>10, <2>2 DEF OfferToNextBidder
  <2> QED
    BY <2>1, <2>2
<1>11. ASSUME NEW l \in Listings, NEW expected, Delivered(l, expected)
       PROVE  Untouched(k) \/ Delivered(k, expected)
  <2>1. CASE l = k
    BY <1>11, <2>1
  <2>2. CASE l # k
    BY <1>11, <2>2 DEF Delivered, ConfirmDelivery
  <2> QED
    BY <2>1, <2>2
<1>12. ASSUME NEW l \in Listings, ConfirmReceipt(l) PROVE Delivered(l, "SHIPPED")
  BY <1>12 DEF ConfirmReceipt, Delivered
<1>13. ASSUME NEW l \in Listings, ReleasePays(l) PROVE Delivered(l, "DISPUTED")
  BY <1>13 DEF ReleasePays, Delivered
<1>14. ASSUME NEW s \in Sweepers, NEW l \in Listings, AutoConfirm(s, l)
       PROVE  Untouched(k) \/ Delivered(l, "SHIPPED")
  BY <1>14 DEF AutoConfirm, Delivered
<1>15. ASSUME NEW l \in Listings,
              RaiseDispute(l) \/ RespondToDispute(l) \/ ResolveRefund(l) \/ ResolveRelease(l)
       PROVE  Untouched(k) \/ RaiseDispute(k) \/ RespondToDispute(k) \/ ResolveRefund(k)
              \/ ResolveRelease(k)
  <2>1. CASE l = k
    BY <1>15, <2>1
  <2>2. CASE l # k
    BY <1>15, <2>2 DEF RaiseDispute, RespondToDispute, ResolveRefund, ResolveRelease
  <2> QED
    BY <2>1, <2>2
<1> HIDE DEF Untouched, TypeOK, rows, money, sweeps
<1>16. /\ "TRANSACTION_VOIDED" \in Voids /\ "TRANSACTION_VOIDED_OVERDUE" \in Voids
  BY DEF Voids
<1> QED
  BY <1>1, <1>2, <1>3, <1>4, <1>5, <1>6, <1>7, <1>8, <1>9, <1>10, <1>11, <1>12, <1>13,
     <1>14, <1>15, <1>16 DEF Acts, Next

\* TypeOK alone is not inductive: resolving a dispute writes to the sale, and without a
\* sale there it would make up a row.
DisputedWasSold ==
  \A l \in Listings : dispute[l].status # "none" => sale[l] # NoSale

TypeInv == TypeOK /\ DisputedWasSold

\* Whatever acts on a listing leaves a sale behind.
LEMMA ActedOnIsSale ==
  ASSUME TypeInv, NEW k \in Listings, Acts(k)
  PROVE  sale'[k] \in Sale
<1> USE DEF TypeInv
<1>1. CASE AuctionSells(k)
  <2>1. PICK best \in [Buyers -> 0 .. MaxAmount], w \in Buyers, d \in PaymentDeadlines :
          best[w] > 0 /\ sale' = [sale EXCEPT ![k] = Owed(w, <<>>, best[w], now + d)]
    BY <1>1 DEF AuctionSells
  <2>2. now + d \in Nat /\ best[w] \in Amounts /\ <<>> \in Seq(Buyers)
    BY <2>1, BoundAssumption DEF TypeOK, Amounts
  <2> QED
    BY <2>1, <2>2, OwedTyped DEF TypeOK
<1>2. CASE OfferToNextBidder(k)
  <2>1. PICK b \in Buyers, d \in PaymentDeadlines :
          IsNextBid(k, b) /\ sale' = [sale EXCEPT ![k] = Offer(k, b, d)]
    BY <1>2 DEF OfferToNextBidder
  <2>2. sale[k] \in Sale
    BY <1>2, IsSale DEF OfferToNextBidder
  <2>3. Append(sale[k].previous, sale[k].winner) \in Seq(Buyers)
    BY <2>2 DEF Sale
  <2>4. bid[k][b] \in Amounts /\ now + d \in Nat
    BY <2>1, BoundAssumption DEF IsNextBid, Candidates, Amounts, TypeOK
  <2> QED
    BY <2>1, <2>3, <2>4, OwedTyped DEF Offer, TypeOK
<1>3. CASE Pay(k)
  BY <1>3, IsSale, RowTyped DEF Pay, SaleStatuses, TypeOK
<1>8. CASE PayDeclined(k)
  BY <1>8, IsSale, RowTyped DEF PayDeclined, SaleStatuses, TypeOK
<1>9. CASE MarkShipped(k)
  BY <1>9, IsSale, RowTyped DEF MarkShipped, SaleStatuses, TypeOK
<1>4. ASSUME NEW action \in Voids, Voided(k, action) PROVE sale'[k] \in Sale
  BY <1>4, IsSale, RowTyped DEF Voided, VoidWith, SaleStatuses, TypeOK
<1>5. ASSUME NEW expected, Delivered(k, expected) PROVE sale'[k] \in Sale
  BY <1>5, IsSale, RowTyped DEF Delivered, ConfirmDelivery, SaleStatuses, TypeOK
<1>6. CASE RaiseDispute(k)
  BY <1>6, IsSale, RowTyped DEF RaiseDispute, SaleStatuses, TypeOK
<1>7. CASE RespondToDispute(k) \/ ResolveRefund(k) \/ ResolveRelease(k)
  <2>1. sale[k] \in Sale
    BY <1>7 DEF RespondToDispute, ResolveRefund, ResolveRelease, DisputedWasSold, TypeOK
  <2>2. sale'[k] = sale[k] \/ sale'[k] = [sale[k] EXCEPT !.status = "REFUNDED"]
    BY <1>7 DEF RespondToDispute, ResolveRefund, ResolveRelease, TypeOK
  <2> QED
    BY <2>1, <2>2, RowTyped DEF SaleStatuses
<1> QED
  BY <1>1, <1>2, <1>3, <1>4, <1>5, <1>6, <1>7, <1>8, <1>9 DEF Acts

-----------------------------------------------------------------------------
(* Types.                                                                  *)

LEMMA InitTyped == Init => TypeInv
<1> SUFFICES ASSUME Init PROVE TypeInv
  OBVIOUS
<1>1. <<>> \in Seq(AuditActions)
  OBVIOUS
<1>2. NoDispute \in [status : DisputeStatuses, answered : BOOLEAN]
  BY DEF NoDispute, DisputeStatuses
<1> QED
  BY <1>1, <1>2, BoundAssumption DEF Init, NoDispute, TypeInv, TypeOK, DisputedWasSold

LEMMA TypesAlways == Spec => []TypeInv
<1>1. Init => TypeInv
  BY InitTyped
<1>2. TypeInv /\ [Next]_vars => TypeOK'
  <2> SUFFICES ASSUME TypeInv, TypeOK, [Next]_vars PROVE TypeOK'
    BY DEF TypeInv
  <2> USE DEF rows, money, sweeps
  <2>1. CASE UNCHANGED vars
    BY <2>1 DEF vars, TypeOK
  <2>2. CASE Tick
    BY <2>2 DEF Tick, TypeOK
  <2>3. ASSUME NEW l \in Listings, Acts(l), NEW r, sale' = [sale EXCEPT ![l] = r]
        PROVE  sale' \in [Listings -> Sale \cup {NoSale}]
    <3>1. sale'[l] \in Sale
      BY <2>3, ActedOnIsSale
    <3> QED
      BY <2>3, <3>1 DEF TypeOK
  <2>4. ASSUME NEW l \in Listings, Approve(l) \/ TakeDown(l) \/ ReleaseDies(l) PROVE TypeOK'
    BY <2>4 DEF Approve, TakeDown, ReleaseDies, TypeOK
  <2>5. ASSUME NEW l \in Listings, NEW m \in Listings, Relist(l, m) PROVE TypeOK'
    BY <2>5 DEF Relist, TypeOK
  <2>6. ASSUME NEW l \in Listings, AuctionSells(l) PROVE TypeOK'
    <3>1. sale' \in [Listings -> Sale \cup {NoSale}]
      BY <2>3, <2>6 DEF Acts, AuctionSells
    <3> QED
      BY <2>6, <3>1 DEF AuctionSells, TypeOK
  <2>7. ASSUME NEW l \in Listings, Pay(l) \/ PayDeclined(l) \/ MarkShipped(l) PROVE TypeOK'
    <3>1. sale' \in [Listings -> Sale \cup {NoSale}]
      BY <2>3, <2>7 DEF Acts, Pay, PayDeclined, MarkShipped
    <3> QED
      BY <2>7, <3>1 DEF Pay, PayDeclined, MarkShipped, TypeOK
  <2>8. ASSUME NEW l \in Listings, NEW action \in Voids, Voided(l, action)
        PROVE  /\ sale' \in [Listings -> Sale \cup {NoSale}]
               /\ log' \in [Listings -> Seq(AuditActions)]
               /\ UNCHANGED <<bid, dispute, money, releasing>>
    <3>1. sale' \in [Listings -> Sale \cup {NoSale}]
      BY <2>3, <2>8 DEF Acts, Voided, VoidWith
    <3>2. log' \in [Listings -> Seq(AuditActions)]
      BY <2>8 DEF Voided, VoidWith, Voids, AuditActions, TypeOK
    <3> QED
      BY <2>8, <3>1, <3>2 DEF Voided
  <2>9. ASSUME NEW l \in Listings, AdminVoid(l) PROVE TypeOK'
    <3>1. Voided(l, "TRANSACTION_VOIDED") /\ "TRANSACTION_VOIDED" \in Voids
      BY <2>9 DEF AdminVoid, Voided, Voids
    <3> QED
      BY <2>8, <2>9, <3>1 DEF AdminVoid, TypeOK
  <2>10. ASSUME NEW s \in Sweepers, NEW l \in Listings, VoidOverduePayment(s, l) PROVE TypeOK'
    <3>1. voiding' \in [Sweepers -> SUBSET Listings]
      BY <2>10 DEF VoidOverduePayment, TypeOK
    <3>2. CASE IsPaymentOverdue(l) /\ VoidWith(l, "TRANSACTION_VOIDED_OVERDUE")
      <4>1. Voided(l, "TRANSACTION_VOIDED_OVERDUE") /\ "TRANSACTION_VOIDED_OVERDUE" \in Voids
        BY <2>10, <3>2 DEF VoidOverduePayment, IsPaymentOverdue, Voided, Voids
      <4> QED
        BY <2>8, <2>10, <3>1, <4>1 DEF VoidOverduePayment, TypeOK
    <3>3. CASE UNCHANGED <<sale, log>>
      BY <2>10, <3>1, <3>3 DEF VoidOverduePayment, TypeOK
    <3> QED
      BY <2>10, <3>2, <3>3 DEF VoidOverduePayment
  <2>11. ASSUME NEW l \in Listings, OfferToNextBidder(l) PROVE TypeOK'
    <3>1. sale' \in [Listings -> Sale \cup {NoSale}]
      BY <2>3, <2>11 DEF Acts, OfferToNextBidder
    <3> QED
      BY <2>11, <3>1 DEF OfferToNextBidder, TypeOK
  <2>12. ASSUME NEW l \in Listings, NEW expected \in {"SHIPPED", "DISPUTED"},
                Delivered(l, expected)
         PROVE  /\ sale' \in [Listings -> Sale \cup {NoSale}]
                /\ entry' \in [Listings -> 0 .. MaxAmount]
                /\ balance' \in Nat
                /\ releasing' \in SUBSET Listings
                /\ UNCHANGED <<bid, dispute, log>>
    <3>1. sale[l] \in Sale
      BY <2>12, IsSale DEF Delivered, ConfirmDelivery
    <3>2. sale' \in [Listings -> Sale \cup {NoSale}]
      BY <2>3, <2>12 DEF Acts, Delivered, ConfirmDelivery
    <3>3. sale[l].amount \in Nat /\ sale[l].amount \in 0 .. MaxAmount
      BY <3>1, BoundAssumption DEF Sale, Amounts
    <3> QED
      BY <2>12, <3>2, <3>3 DEF Delivered, ConfirmDelivery, TypeOK
  <2>13. ASSUME NEW l \in Listings, ConfirmReceipt(l) \/ ReleasePays(l) PROVE TypeOK'
    <3>1. \E expected \in {"SHIPPED", "DISPUTED"} : Delivered(l, expected)
      BY <2>13 DEF ConfirmReceipt, ReleasePays, Delivered
    <3> QED
      BY <2>12, <2>13, <3>1 DEF ConfirmReceipt, ReleasePays, TypeOK
  <2>14. ASSUME NEW s \in Sweepers, NEW l \in Listings, AutoConfirm(s, l) PROVE TypeOK'
    <3>1. confirming' \in [Sweepers -> SUBSET Listings]
      BY <2>14 DEF AutoConfirm, TypeOK
    <3>2. CASE ConfirmDelivery(l, "SHIPPED")
      <4>1. Delivered(l, "SHIPPED")
        BY <2>14, <3>2 DEF AutoConfirm, Delivered
      <4> QED
        BY <2>12, <2>14, <3>1, <4>1 DEF AutoConfirm, TypeOK
    <3>3. CASE UNCHANGED <<sale, money>>
      BY <2>14, <3>1, <3>3 DEF AutoConfirm, TypeOK
    <3> QED
      BY <2>14, <3>2, <3>3 DEF AutoConfirm
  <2>15. ASSUME NEW l \in Listings, RaiseDispute(l) PROVE TypeOK'
    <3>1. sale' \in [Listings -> Sale \cup {NoSale}]
      <4>1. sale' = [sale EXCEPT ![l] = [sale[l] EXCEPT !.status = "DISPUTED"]]
        BY <2>15 DEF RaiseDispute, TypeOK
      <4> QED
        BY <2>3, <2>15, <4>1 DEF Acts
    <3>2. dispute' \in [Listings -> [status : DisputeStatuses, answered : BOOLEAN]]
      BY <2>15 DEF RaiseDispute, TypeOK, DisputeStatuses
    <3> QED
      BY <2>15, <3>1, <3>2 DEF RaiseDispute, TypeOK
  <2>16. ASSUME NEW l \in Listings, RespondToDispute(l) PROVE TypeOK'
    <3>1. dispute' \in [Listings -> [status : DisputeStatuses, answered : BOOLEAN]]
      BY <2>16 DEF RespondToDispute, TypeOK
    <3> QED
      BY <2>16, <3>1 DEF RespondToDispute, TypeOK
  <2>17. ASSUME NEW l \in Listings, NEW st \in DisputeStatuses, NEW action \in AuditActions,
                dispute' = [dispute EXCEPT ![l].status = st],
                log' = [log EXCEPT ![l] = Append(@, action)]
         PROVE  /\ dispute' \in [Listings -> [status : DisputeStatuses, answered : BOOLEAN]]
                /\ log' \in [Listings -> Seq(AuditActions)]
    <3>1. [dispute[l] EXCEPT !.status = st] \in [status : DisputeStatuses, answered : BOOLEAN]
      <4>1. dispute[l] \in [status : DisputeStatuses, answered : BOOLEAN]
        BY DEF TypeOK
      <4> QED
        BY <4>1
    <3>2. dispute' \in [Listings -> [status : DisputeStatuses, answered : BOOLEAN]]
      BY <2>17, <3>1 DEF TypeOK
    <3>3. log' \in [Listings -> Seq(AuditActions)]
      BY <2>17 DEF TypeOK
    <3> QED
      BY <3>2, <3>3
  <2>18. ASSUME NEW l \in Listings, ResolveRefund(l) PROVE TypeOK'
    <3>1. sale' = [sale EXCEPT ![l] = [sale[l] EXCEPT !.status = "REFUNDED"]]
      BY <2>18 DEF ResolveRefund, TypeOK
    <3>2. sale' \in [Listings -> Sale \cup {NoSale}]
      BY <2>3, <2>18, <3>1 DEF Acts
    <3> QED
      BY <2>17, <2>18, <3>2 DEF ResolveRefund, DisputeStatuses, AuditActions, TypeOK
  <2>19. ASSUME NEW l \in Listings, ResolveRelease(l) PROVE TypeOK'
    BY <2>17, <2>19 DEF ResolveRelease, DisputeStatuses, AuditActions, TypeOK
  <2>20. ASSUME NEW s \in Sweepers,
                ListOverduePayments(s) \/ ListTimedOutShipments(s) \/ SweepDies(s)
         PROVE  TypeOK'
    BY <2>20 DEF ListOverduePayments, ListTimedOutShipments, SweepDies, TypeOK
  <2> QED
    BY <2>1, <2>2, <2>4, <2>5, <2>6, <2>7, <2>9, <2>10, <2>11, <2>13, <2>14, <2>15, <2>16,
       <2>18, <2>19, <2>20 DEF Next
<1>3. TypeInv /\ [Next]_vars => DisputedWasSold'
  <2> SUFFICES ASSUME TypeInv, [Next]_vars, NEW k \in Listings,
                      dispute'[k].status # "none", sale'[k] = NoSale
               PROVE  FALSE
    BY DEF DisputedWasSold
  <2>1. TypeOK' /\ NoSale \notin Sale
    BY <1>2, NoSaleAssumption
  <2>2. sale[k] = NoSale => dispute[k].status = "none"
    BY DEF TypeInv, DisputedWasSold
  <2>3. CASE Untouched(k)
    BY <2>2, <2>3 DEF Untouched
  <2>4. CASE Acts(k)
    BY <2>1, <2>4, ActedOnIsSale DEF TypeInv
  <2> QED
    BY <2>3, <2>4, OneListing DEF TypeInv
<1> QED
  BY <1>1, <1>2, <1>3, PTL DEF Spec, TypeInv

\* The type invariant of a sale, its listing, its dispute, its money and the sweeps.
THEOREM TypeCorrect == Spec => []TypeOK
BY TypesAlways, PTL DEF TypeInv

-----------------------------------------------------------------------------
(* The money and the dispute.                                              *)

\* What MoneyFollowsDispute says of one listing.
PayoutOf(k) ==
  /\ entry[k] # 0 <=> Is(k, {"DELIVERED"})
  /\ entry[k] # 0 => entry[k] = sale[k].amount

DisputeOf(k) ==
  /\ dispute[k].status = "OPEN" => Is(k, {"DISPUTED"})
  /\ Is(k, {"DISPUTED"}) => dispute[k].status \in {"OPEN", "RESOLVED_RELEASED"}
  /\ dispute[k].status = "RESOLVED_REFUNDED" <=> Is(k, {"REFUNDED"})
  /\ dispute[k].status = "RESOLVED_RELEASED" => Is(k, {"DISPUTED", "DELIVERED"})
  /\ k \in releasing => /\ dispute[k].status = "RESOLVED_RELEASED"
                        /\ Is(k, {"DISPUTED"})

LEMMA MoneyOfEach ==
  MoneyFollowsDispute <=> \A k \in Listings : PayoutOf(k) /\ DisputeOf(k)
BY DEF MoneyFollowsDispute, PaidOutWhenDelivered, DisputeMatchesSale, PayoutOf, DisputeOf

\* A handler passes one status test only.
LEMMA OneStatus ==
  ASSUME TypeOK, NEW k \in Listings, sale[k] \in Sale
  PROVE  /\ sale[k] # NoSale
         /\ \A S : Is(k, S) <=> sale[k].status \in S
BY NoSaleAssumption DEF Is

LEMMA MoneyStep ==
  ASSUME TypeInv, TypeOK', MoneyFollowsDispute, [Next]_vars
  PROVE  MoneyFollowsDispute'
<1> SUFFICES ASSUME NEW k \in Listings PROVE PayoutOf(k)' /\ DisputeOf(k)'
  BY DEF MoneyFollowsDispute, PaidOutWhenDelivered, DisputeMatchesSale, PayoutOf, DisputeOf
<1> USE DEF TypeInv, PayoutOf, DisputeOf, Is
<1>0. PayoutOf(k) /\ DisputeOf(k)
  BY MoneyOfEach
<1>1. CASE Untouched(k)
  BY <1>0, <1>1 DEF Untouched
<1>2. CASE Acts(k)
  <2> USE <1>0, NoSaleAssumption
  <2>0. sale'[k] \in Sale
    BY <1>2, ActedOnIsSale
  <2>1. CASE AuctionSells(k)
    <3>1. sale'[k].status = "PENDING" /\ sale[k] = NoSale
      BY <2>1 DEF AuctionSells, TypeOK, Owed
    <3> QED
      BY <2>0, <2>1, <3>1 DEF AuctionSells, money
  <2>2. CASE Pay(k)
    BY <2>0, <2>2 DEF Pay, TypeOK, Sale, money
  <2>3. CASE PayDeclined(k)
    BY <2>0, <2>3 DEF PayDeclined, TypeOK, Sale, money
  <2>4. ASSUME NEW action \in Voids, Voided(k, action)
        PROVE  PayoutOf(k)' /\ DisputeOf(k)'
    BY <2>0, <2>4 DEF Voided, VoidWith, TypeOK, Sale, money
  <2>5. CASE OfferToNextBidder(k)
    <3>1. sale'[k].status = "PENDING"
      BY <2>5 DEF OfferToNextBidder, Offer, Owed, TypeOK
    <3> QED
      BY <2>0, <2>5, <3>1 DEF OfferToNextBidder, money
  <2>6. CASE MarkShipped(k)
    BY <2>0, <2>6 DEF MarkShipped, TypeOK, Sale, money
  <2>7. ASSUME NEW expected \in {"SHIPPED", "DISPUTED"}, Delivered(k, expected)
        PROVE  PayoutOf(k)' /\ DisputeOf(k)'
    <3>1. sale[k] \in Sale
      BY <2>7, IsSale DEF Delivered, ConfirmDelivery
    <3>4. sale[k].amount # 0
      BY <3>1 DEF Sale, Amounts
    <3>2. sale'[k].status = "DELIVERED" /\ sale'[k].amount = sale[k].amount
      BY <2>7, <3>1 DEF Delivered, ConfirmDelivery, TypeOK, Sale
    <3>3. entry'[k] = sale[k].amount
      BY <2>7 DEF Delivered, ConfirmDelivery, TypeOK
    <3> QED
      BY <2>0, <2>7, <3>1, <3>2, <3>3, <3>4 DEF Delivered, ConfirmDelivery
  <2>8. CASE RaiseDispute(k)
    <3>1. sale'[k].status = "DISPUTED" /\ dispute'[k].status = "OPEN"
      BY <2>8 DEF RaiseDispute, TypeOK, Sale
    <3> QED
      BY <2>0, <2>8, <3>1 DEF RaiseDispute, money
  <2>9. CASE RespondToDispute(k)
    <3>1. dispute'[k].status = dispute[k].status
      BY <2>9 DEF RespondToDispute, TypeOK
    <3> QED
      BY <2>9, <3>1 DEF RespondToDispute, money
  <2>10. CASE ResolveRefund(k)
    <3>1. sale'[k].status = "REFUNDED" /\ dispute'[k].status = "RESOLVED_REFUNDED"
      BY <2>10 DEF ResolveRefund, TypeOK, Sale
    <3> QED
      BY <2>0, <2>10, <3>1 DEF ResolveRefund, money
  <2>11. CASE ResolveRelease(k)
    <3>1. dispute'[k].status = "RESOLVED_RELEASED"
      BY <2>11 DEF ResolveRelease, TypeOK
    <3> QED
      BY <2>11, <3>1 DEF ResolveRelease, money
  <2> QED
    BY <1>2, <2>1, <2>2, <2>3, <2>4, <2>5, <2>6, <2>7, <2>8, <2>9, <2>10, <2>11 DEF Acts
<1> QED
  BY <1>1, <1>2, OneListing

\* However confirmations, sweeps, disputes and decisions cross, the seller is paid for
\* exactly the delivered sales and the Dispute row agrees with the sale.
THEOREM MoneyFollowsDisputeAlways == Spec => []MoneyFollowsDispute
<1>1. Init => MoneyFollowsDispute
  BY DEF Init, NoDispute, MoneyFollowsDispute, PaidOutWhenDelivered, DisputeMatchesSale, Is
<1>2. TypeInv /\ TypeInv' /\ MoneyFollowsDispute /\ [Next]_vars => MoneyFollowsDispute'
  BY MoneyStep DEF TypeInv
<1> QED
  BY <1>1, <1>2, TypesAlways, PTL DEF Spec

\* Once an admin has decided, nothing touches the dispute again: an answer needs it open,
\* and a new one needs a shipped sale, which a decided dispute no longer has.
THEOREM DecisionFinalAlways == Spec => DecisionFinal
<1> DEFINE Kept == \A l \in Listings :
      dispute[l].status \in {"RESOLVED_REFUNDED", "RESOLVED_RELEASED"}
        => dispute'[l] = dispute[l]
<1>1. TypeInv /\ MoneyFollowsDispute /\ [Next]_vars => Kept
  <2> SUFFICES ASSUME TypeInv, MoneyFollowsDispute, [Next]_vars, NEW k \in Listings,
                      dispute[k].status \in {"RESOLVED_REFUNDED", "RESOLVED_RELEASED"}
               PROVE  dispute'[k] = dispute[k]
    OBVIOUS
  <2>1. DisputeOf(k)
    BY MoneyOfEach
  <2>2. ~RaiseDispute(k)
    BY <2>1 DEF RaiseDispute, DisputeOf, Is
  <2>3. ~RespondToDispute(k) /\ ~ResolveRefund(k) /\ ~ResolveRelease(k)
    BY DEF RespondToDispute, ResolveRefund, ResolveRelease
  <2>4. CASE Untouched(k)
    BY <2>4 DEF Untouched
  <2>5. CASE Acts(k)
    BY <2>2, <2>3, <2>5
    DEF Acts, AuctionSells, Pay, PayDeclined, Voided, OfferToNextBidder, MarkShipped, Delivered
  <2> QED
    BY <2>4, <2>5, OneListing DEF TypeInv
<1>2. TypeInv /\ MoneyFollowsDispute /\ [Next]_vars => [Kept]_vars
  BY <1>1
<1> QED
  BY <1>2, TypesAlways, MoneyFollowsDisputeAlways, PTL DEF Spec, DecisionFinal

-----------------------------------------------------------------------------
(* The row and its winner.                                                 *)

WinnerOf(k) ==
  sale[k] # NoSale =>
    /\ sale[k].address \in {NoBuyer, sale[k].winner}
    /\ sale[k].status \in PAID_STATUSES => sale[k].address = sale[k].winner
    /\ sale[k].declined => sale[k].status = "PENDING" /\ sale[k].address # NoBuyer

LEMMA WinnerStep ==
  ASSUME TypeInv, TypeOK', MoneyFollowsDispute, RowIsWinners, [Next]_vars
  PROVE  RowIsWinners'
<1> SUFFICES ASSUME NEW k \in Listings PROVE WinnerOf(k)'
  BY DEF RowIsWinners, WinnerOf
<1> USE DEF TypeInv, WinnerOf, PAID_STATUSES
<1>0. WinnerOf(k)
  BY DEF RowIsWinners
<1>1. CASE Untouched(k)
  BY <1>0, <1>1 DEF Untouched
<1>2. CASE Acts(k)
  <2> USE <1>0
  <2>1. CASE AuctionSells(k)
    BY <2>1 DEF AuctionSells, TypeOK, Owed
  <2>2. CASE OfferToNextBidder(k)
    BY <2>2 DEF OfferToNextBidder, Offer, Owed, TypeOK
  <2>3. CASE Pay(k)
    <3>1. /\ sale'[k].address = sale[k].winner /\ sale'[k].winner = sale[k].winner
          /\ ~sale'[k].declined
      BY <2>3, IsSale DEF Pay, TypeOK, Sale
    <3> QED
      BY <3>1
  <2>4. CASE PayDeclined(k)
    <3>1. sale[k] \in Sale /\ sale[k].status = "PENDING"
      BY <2>4, IsSale DEF PayDeclined
    <3>2. /\ sale'[k].address = sale[k].winner /\ sale'[k].winner = sale[k].winner
          /\ sale'[k].status = "PENDING" /\ sale[k].winner # NoBuyer
      BY <2>4, <3>1, IdAssumption DEF PayDeclined, TypeOK, Sale
    <3> QED
      BY <3>2
  <2>5. ASSUME NEW action \in Voids, Voided(k, action) PROVE WinnerOf(k)'
    <3>1. sale[k] \in Sale /\ sale[k] # NoSale
      BY <2>5, IsSale DEF Voided
    <3>2. /\ sale'[k].address = sale[k].address /\ sale'[k].winner = sale[k].winner
          /\ sale'[k].status = "VOIDED" /\ ~sale'[k].declined
      BY <2>5, <3>1 DEF Voided, VoidWith, TypeOK, Sale
    <3> QED
      BY <3>1, <3>2
  <2>6. ASSUME sale[k] \in Sale, sale[k] # NoSale, sale[k].status \in PAID_STATUSES,
               sale'[k].address = sale[k].address, sale'[k].winner = sale[k].winner,
               sale'[k].declined = sale[k].declined
        PROVE  WinnerOf(k)'
    BY <2>6
  <2>7. CASE MarkShipped(k)
    <3>1. sale[k] \in Sale /\ sale[k] # NoSale /\ sale[k].status \in PAID_STATUSES
      BY <2>7, IsSale DEF MarkShipped
    <3>2. /\ sale'[k].address = sale[k].address /\ sale'[k].winner = sale[k].winner
          /\ sale'[k].declined = sale[k].declined
      BY <2>7, <3>1 DEF MarkShipped, TypeOK, Sale
    <3> QED
      BY <2>6, <3>1, <3>2
  <2>8. ASSUME NEW st \in SaleStatuses, Is(k, PAID_STATUSES),
               sale'[k] = [sale[k] EXCEPT !.status = st]
        PROVE  WinnerOf(k)'
    <3>1. sale[k] \in Sale /\ sale[k] # NoSale /\ sale[k].status \in PAID_STATUSES
      BY <2>8, IsSale
    <3>2. /\ sale'[k].address = sale[k].address /\ sale'[k].winner = sale[k].winner
          /\ sale'[k].declined = sale[k].declined
      BY <2>8, <3>1 DEF Sale
    <3> QED
      BY <2>6, <3>1, <3>2
  <2>9. ASSUME NEW expected \in {"SHIPPED", "DISPUTED"}, Delivered(k, expected)
        PROVE  WinnerOf(k)'
    <3>1. sale'[k] = [sale[k] EXCEPT !.status = "DELIVERED"]
      BY <2>9 DEF Delivered, ConfirmDelivery, TypeOK
    <3> QED
      BY <2>8, <2>9, <3>1 DEF Delivered, ConfirmDelivery, Is, SaleStatuses
  <2>10. CASE RaiseDispute(k)
    <3>1. sale'[k] = [sale[k] EXCEPT !.status = "DISPUTED"]
      BY <2>10 DEF RaiseDispute, TypeOK
    <3> QED
      BY <2>8, <2>10, <3>1 DEF RaiseDispute, Is, SaleStatuses
  <2>11. CASE ResolveRefund(k)
    <3>1. Is(k, {"DISPUTED"})
      BY <2>11, MoneyOfEach DEF ResolveRefund, DisputeOf
    <3>2. sale'[k] = [sale[k] EXCEPT !.status = "REFUNDED"]
      BY <2>11 DEF ResolveRefund, TypeOK
    <3> QED
      BY <2>8, <3>1, <3>2 DEF Is, SaleStatuses
  <2>12. CASE RespondToDispute(k) \/ ResolveRelease(k)
    BY <2>12 DEF RespondToDispute, ResolveRelease
  <2> QED
    BY <1>2, <2>1, <2>2, <2>3, <2>4, <2>5, <2>7, <2>9, <2>10, <2>11, <2>12 DEF Acts
<1> QED
  BY <1>1, <1>2, OneListing

\* Nothing of a buyer who lost the item survives in its row, and no paid sale lacks an
\* address: an offer starts a row afresh, and only the winner's own payment fills it in.
THEOREM RowIsWinnersAlways == Spec => []RowIsWinners
<1>1. Init => RowIsWinners
  BY DEF Init, RowIsWinners
<1>2. TypeInv /\ TypeInv' /\ MoneyFollowsDispute /\ RowIsWinners /\ [Next]_vars
        => RowIsWinners'
  BY WinnerStep DEF TypeInv
<1> QED
  BY <1>1, <1>2, TypesAlways, MoneyFollowsDisputeAlways, PTL DEF Spec

-----------------------------------------------------------------------------
(* The offers.                                                             *)

\* Only the close and an offer say whose the item is and for how much.
LEMMA TermsKept ==
  ASSUME TypeInv, NEW k \in Listings, Acts(k), ~AuctionSells(k), ~OfferToNextBidder(k)
  PROVE  /\ sale[k] \in Sale /\ sale[k] # NoSale /\ bid'[k] = bid[k]
         /\ sale'[k].winner = sale[k].winner
         /\ sale'[k].previous = sale[k].previous
         /\ sale'[k].amount = sale[k].amount
         /\ sale'[k].dueAt = sale[k].dueAt
<1> USE DEF TypeInv
<1>1. sale[k] \in Sale /\ sale[k] # NoSale
  <2>1. \E S : Is(k, S) \/ dispute[k].status # "none"
    BY DEF Acts, Pay, PayDeclined, Voided, MarkShipped, Delivered, ConfirmDelivery,
           RaiseDispute, RespondToDispute, ResolveRefund, ResolveRelease
  <2> QED
    BY <2>1, IsSale DEF DisputedWasSold, TypeOK
<1>2. CASE Pay(k)
  BY <1>1, <1>2 DEF Pay, TypeOK, Sale, rows
<1>9. CASE PayDeclined(k)
  BY <1>1, <1>9 DEF PayDeclined, TypeOK, Sale, rows
<1>3. ASSUME NEW action \in Voids, Voided(k, action)
      PROVE  /\ sale'[k].winner = sale[k].winner /\ sale'[k].previous = sale[k].previous
             /\ sale'[k].amount = sale[k].amount /\ sale'[k].dueAt = sale[k].dueAt
             /\ bid'[k] = bid[k]
  BY <1>1, <1>3 DEF Voided, VoidWith, TypeOK, Sale
<1>4. CASE MarkShipped(k)
  BY <1>1, <1>4 DEF MarkShipped, TypeOK, Sale, rows
<1>5. CASE \E expected \in {"SHIPPED", "DISPUTED"} : Delivered(k, expected)
  BY <1>1, <1>5 DEF Delivered, ConfirmDelivery, TypeOK, Sale
<1>6. CASE RaiseDispute(k)
  BY <1>1, <1>6 DEF RaiseDispute, TypeOK, Sale, rows
<1>7. CASE RespondToDispute(k) \/ ResolveRelease(k)
  BY <1>1, <1>7 DEF RespondToDispute, ResolveRelease, rows
<1>8. CASE ResolveRefund(k)
  BY <1>1, <1>8 DEF ResolveRefund, TypeOK, Sale, rows
<1> QED
  BY <1>1, <1>2, <1>3, <1>4, <1>5, <1>6, <1>7, <1>8, <1>9 DEF Acts

\* The buyers already asked, and what OfferOrder says of one listing.
Before(k) == Range(sale[k].previous)

OrderOf(k) ==
  sale[k] # NoSale =>
    /\ sale[k].amount = bid[k][sale[k].winner]
    /\ Before(k) = {b \in Buyers : bid[k][b] > sale[k].amount}
    /\ \A i, j \in DOMAIN sale[k].previous :
         i < j => bid[k][sale[k].previous[i]] > bid[k][sale[k].previous[j]]

\* OfferOrder alone is not inductive: of two buyers with equal bids the second could be
\* asked at the same price.  No auction takes two equal bids.
BidsDiffer ==
  \A k \in Listings : \A b, c \in Buyers : bid[k][b] = bid[k][c] /\ bid[k][b] > 0 => b = c

\* Everyone asked so far bid at least the present price, and they are all who did.
LEMMA AskedAre ==
  ASSUME TypeOK, BidsDiffer, NEW k \in Listings, OrderOf(k), sale[k] \in Sale
  PROVE  Asked(k) = {b \in Buyers : bid[k][b] >= sale[k].amount}
<1>1. sale[k] # NoSale /\ sale[k].winner \in Buyers /\ sale[k].amount \in Nat \ {0}
  BY NoSaleAssumption, BoundAssumption DEF Sale, Amounts
<1>2. \A b \in Buyers : bid[k][b] \in Nat
  BY BoundAssumption DEF TypeOK
<1>3. Asked(k) = Before(k) \cup {sale[k].winner}
  BY DEF Asked, Before, Range
<1> QED
  BY <1>1, <1>2, <1>3 DEF OrderOf, BidsDiffer

\* What is in a sequence after an element is appended.
LEMMA AppendedElements ==
  ASSUME NEW S, NEW s \in Seq(S), NEW x \in S
  PROVE  Range(Append(s, x)) = Range(s) \cup {x}
<1>1. /\ Len(s) \in Nat /\ DOMAIN s = 1 .. Len(s)
      /\ DOMAIN Append(s, x) = 1 .. Len(s) + 1
      /\ \A i \in 1 .. Len(s) : Append(s, x)[i] = s[i]
      /\ Append(s, x)[Len(s) + 1] = x
  BY AppendProperties, LenProperties
<1>2. \A i \in DOMAIN Append(s, x) : i \in DOMAIN s \/ i = Len(s) + 1
  BY <1>1
<1>3. DOMAIN s \subseteq DOMAIN Append(s, x) /\ Len(s) + 1 \in DOMAIN Append(s, x)
  BY <1>1
<1> QED
  BY <1>1, <1>2, <1>3, Zenon DEF Range

LEMMA OrderStep ==
  ASSUME TypeInv, TypeOK', BidsDiffer, OfferOrder, [Next]_vars
  PROVE  OfferOrder' /\ BidsDiffer'
<1> SUFFICES ASSUME NEW k \in Listings
             PROVE  /\ OrderOf(k)'
                    /\ \A b, c \in Buyers : bid'[k][b] = bid'[k][c] /\ bid'[k][b] > 0 => b = c
  BY DEF OfferOrder, BidsDiffer, OrderOf, Before, Range
<1> USE DEF TypeInv
<1>0. /\ OrderOf(k)
      /\ \A b, c \in Buyers : bid[k][b] = bid[k][c] /\ bid[k][b] > 0 => b = c
  BY DEF OfferOrder, BidsDiffer, OrderOf, Before, Range
<1>1. CASE Untouched(k)
  BY <1>0, <1>1 DEF Untouched, OrderOf, Before, Range
<1>2. CASE AuctionSells(k)
  <2>1. PICK best \in [Buyers -> 0 .. MaxAmount], w \in Buyers, d \in PaymentDeadlines :
          /\ best[w] > 0
          /\ \A b \in Buyers \ {w} : best[b] < best[w]
          /\ \A b, c \in Buyers : best[b] = best[c] /\ best[b] > 0 => b = c
          /\ bid' = [bid EXCEPT ![k] = best]
          /\ sale' = [sale EXCEPT ![k] = Owed(w, <<>>, best[w], now + d)]
    BY <1>2 DEF AuctionSells
  <2>2. /\ bid'[k] = best /\ sale'[k].winner = w /\ sale'[k].amount = best[w]
        /\ sale'[k].previous = <<>>
    BY <2>1 DEF TypeOK, Owed
  <2>3. \A b \in Buyers : best[b] \in Nat /\ ~(best[b] > best[w])
    BY <2>1, BoundAssumption
  <2> QED
    BY <2>1, <2>2, <2>3 DEF OrderOf, Before, Range
<1>3. CASE OfferToNextBidder(k)
  <2>1. PICK b \in Buyers, d \in PaymentDeadlines :
          IsNextBid(k, b) /\ sale' = [sale EXCEPT ![k] = Offer(k, b, d)]
    BY <1>3 DEF OfferToNextBidder
  <2>2. sale[k] \in Sale /\ sale[k] # NoSale /\ bid' = bid
    BY <1>3, IsSale DEF OfferToNextBidder, rows
  <2> DEFINE old == sale[k].previous
             new == sale'[k].previous
             gone == sale[k].winner
  <2>3. /\ sale'[k].winner = b /\ sale'[k].amount = bid[k][b]
        /\ new = Append(old, gone)
    BY <2>1 DEF TypeOK, Offer, Owed
  <2>4. old \in Seq(Buyers) /\ gone \in Buyers /\ sale[k].amount \in Nat \ {0}
    BY <2>2, BoundAssumption DEF Sale, Amounts
  <2>5. /\ DOMAIN old = 1 .. Len(old) /\ DOMAIN new = 1 .. Len(old) + 1 /\ Len(old) \in Nat
        /\ \A i \in 1 .. Len(old) : new[i] = old[i]
        /\ new[Len(old) + 1] = gone
    BY <2>3, <2>4, AppendProperties, LenProperties
  <2>6. \A c \in Buyers : bid[k][c] \in Nat
    BY BoundAssumption DEF TypeOK
  <2>7. Asked(k) = {c \in Buyers : bid[k][c] >= sale[k].amount}
    BY <1>0, <2>2, AskedAre
  <2>8. /\ bid[k][b] > 0 /\ bid[k][b] < sale[k].amount
        /\ \A c \in Buyers : bid[k][c] > 0 /\ bid[k][c] < sale[k].amount
                              => bid[k][c] <= bid[k][b]
    BY <2>1, <2>4, <2>6, <2>7 DEF IsNextBid, Candidates
  <2>9. Asked(k) = {c \in Buyers : bid[k][c] > bid[k][b]}
    BY <2>4, <2>6, <2>7, <2>8
  <2>10. Range(new) = Asked(k)
    <3>1. Range(new) = Range(old) \cup {gone}
      BY <2>3, <2>4, AppendedElements
    <3> QED
      BY <3>1 DEF Asked, Range
  <2>11. ASSUME NEW i \in DOMAIN new, NEW j \in DOMAIN new, i < j
         PROVE  bid[k][new[i]] > bid[k][new[j]]
    <3>1. i \in 1 .. Len(old) /\ old[i] \in Buyers
      BY <2>4, <2>5, <2>11
    <3>2. CASE j = Len(old) + 1
      <4>1. old[i] \in Before(k)
        BY <2>5, <3>1 DEF Before, Range
      <4> QED
        BY <1>0, <2>2, <2>5, <3>1, <3>2, <4>1 DEF OrderOf
    <3>3. CASE j # Len(old) + 1
      <4>1. i \in DOMAIN old /\ j \in DOMAIN old /\ new[i] = old[i] /\ new[j] = old[j]
        BY <2>5, <2>11, <3>1, <3>3
      <4> QED
        BY <1>0, <2>2, <2>11, <4>1 DEF OrderOf
    <3> QED
      BY <3>2, <3>3
  <2> QED
    BY <1>0, <2>2, <2>3, <2>9, <2>10, <2>11 DEF OrderOf, Before
<1>4. CASE Acts(k) /\ ~AuctionSells(k) /\ ~OfferToNextBidder(k)
  BY <1>0, <1>4, TermsKept DEF OrderOf, Before, Range
<1> QED
  BY <1>1, <1>2, <1>3, <1>4, OneListing

\* No auction has two equal bids, which keeps the order of the offers strict.
LEMMA OrderAlways == Spec => [](OfferOrder /\ BidsDiffer)
<1>1. Init => OfferOrder /\ BidsDiffer
  BY DEF Init, OfferOrder, BidsDiffer
<1>2. TypeInv /\ TypeInv' /\ (OfferOrder /\ BidsDiffer) /\ [Next]_vars
        => (OfferOrder /\ BidsDiffer)'
  BY OrderStep DEF TypeInv
<1> QED
  BY <1>1, <1>2, TypesAlways, PTL DEF Spec

\* Offers go down the bids: each winner is asked their own bid, once, after everyone who
\* bid more and nobody else.
THEOREM OfferOrderAlways == Spec => []OfferOrder
BY OrderAlways, PTL

-----------------------------------------------------------------------------
(* The audit of the voids.                                                 *)

VoidsIn(s) == {i \in DOMAIN s : s[i] \in Voids}

\* A log that grows by one entry has one void more if that entry is one.
LEMMA VoidsCount ==
  ASSUME NEW s \in Seq(AuditActions), NEW x \in AuditActions
  PROVE  /\ IsFiniteSet(VoidsIn(s)) /\ Cardinality(VoidsIn(s)) \in Nat
         /\ Cardinality(VoidsIn(Append(s, x)))
              = Cardinality(VoidsIn(s)) + IF x \in Voids THEN 1 ELSE 0
<1> DEFINE n == Len(s)
<1>1. /\ n \in Nat /\ DOMAIN s = 1 .. n /\ DOMAIN Append(s, x) = 1 .. n + 1
      /\ \A i \in 1 .. n : Append(s, x)[i] = s[i]
      /\ Append(s, x)[n + 1] = x
  BY AppendProperties, LenProperties
<1>2. IsFiniteSet(VoidsIn(s)) /\ Cardinality(VoidsIn(s)) \in Nat
  <2>1. IsFiniteSet(1 .. n)
    BY <1>1, FS_Interval
  <2>2. VoidsIn(s) \subseteq 1 .. n
    BY <1>1 DEF VoidsIn
  <2> QED
    BY <2>1, <2>2, FS_Subset, FS_CardinalityType
<1>3. CASE x \in Voids
  <2>1. VoidsIn(Append(s, x)) = VoidsIn(s) \cup {n + 1}
    BY <1>1, <1>3 DEF VoidsIn
  <2>2. n + 1 \notin VoidsIn(s)
    BY <1>1 DEF VoidsIn
  <2> QED
    BY <1>2, <1>3, <2>1, <2>2, FS_AddElement
<1>4. CASE x \notin Voids
  <2>1. VoidsIn(Append(s, x)) = VoidsIn(s)
    BY <1>1, <1>4 DEF VoidsIn
  <2> QED
    BY <1>2, <1>4, <2>1
<1> QED
  BY <1>2, <1>3, <1>4

AuditOf(k) ==
  Cardinality(VoidsIn(log[k]))
    = IF sale[k] = NoSale THEN 0
      ELSE Len(sale[k].previous) + IF Is(k, {"VOIDED"}) THEN 1 ELSE 0

LEMMA AuditStep ==
  ASSUME TypeInv, TypeOK', MoneyFollowsDispute, VoidsAudited, [Next]_vars
  PROVE  VoidsAudited'
<1> SUFFICES ASSUME NEW k \in Listings PROVE AuditOf(k)'
  BY DEF VoidsAudited, AuditOf, VoidsIn, Voids
<1> USE DEF TypeInv
<1>0. AuditOf(k)
  BY DEF VoidsAudited, AuditOf, VoidsIn, Voids
<1>1. CASE Untouched(k)
  BY <1>0, <1>1 DEF Untouched, AuditOf, Is
<1>2. CASE Acts(k)
  <2>0. sale'[k] \in Sale /\ sale'[k] # NoSale
    BY <1>2, ActedOnIsSale, NoSaleAssumption
  <2>1. CASE AuctionSells(k)
    <3>1. /\ sale[k] = NoSale /\ log' = log
          /\ sale'[k].status = "PENDING" /\ sale'[k].previous = <<>>
      BY <2>1 DEF AuctionSells, TypeOK, Owed
    <3> QED
      BY <1>0, <2>0, <3>1 DEF AuditOf, Is
  <2>2. CASE OfferToNextBidder(k)
    <3>1. sale[k] \in Sale /\ sale[k] # NoSale /\ sale[k].status = "VOIDED" /\ log' = log
      BY <2>2, IsSale DEF OfferToNextBidder
    <3>2. /\ sale'[k].status = "PENDING"
          /\ sale'[k].previous = Append(sale[k].previous, sale[k].winner)
      BY <2>2 DEF OfferToNextBidder, Offer, Owed, TypeOK
    <3>3. Len(sale'[k].previous) = Len(sale[k].previous) + 1 /\ Len(sale[k].previous) \in Nat
      BY <3>1, <3>2, AppendProperties, LenProperties DEF Sale
    <3> QED
      BY <1>0, <2>0, <3>1, <3>2, <3>3 DEF AuditOf, Is
  <2>3. ASSUME NEW action \in Voids, Voided(k, action) PROVE AuditOf(k)'
    <3>1. sale[k].status = "PENDING" /\ sale[k] # NoSale /\ ~AuctionSells(k)
      BY <2>3 DEF Voided, Is, AuctionSells
    <3>2. ~OfferToNextBidder(k)
      BY <3>1 DEF OfferToNextBidder, Is
    <3>3. sale'[k].status = "VOIDED" /\ log'[k] = Append(log[k], action)
      BY <2>3, IsSale DEF Voided, VoidWith, TypeOK, Sale
    <3>4. Cardinality(VoidsIn(log'[k])) = Cardinality(VoidsIn(log[k])) + 1
      BY <3>3, VoidsCount DEF TypeOK, Voids, AuditActions
    <3>5. sale'[k].previous = sale[k].previous /\ Len(sale[k].previous) \in Nat
      BY <1>2, <3>1, <3>2, TermsKept, LenProperties DEF Sale
    <3>6. Cardinality(VoidsIn(log[k])) = Len(sale[k].previous)
      BY <1>0, <3>1, <3>5 DEF AuditOf, Is
    <3>7. Cardinality(VoidsIn(log'[k])) = Len(sale'[k].previous) + 1
      BY <3>4, <3>5, <3>6
    <3> QED
      BY <2>0, <3>3, <3>7 DEF AuditOf, Is
  <2>4. ASSUME ~AuctionSells(k), ~OfferToNextBidder(k),
               sale'[k].status = "VOIDED" <=> sale[k].status = "VOIDED",
               Cardinality(VoidsIn(log'[k])) = Cardinality(VoidsIn(log[k]))
        PROVE  AuditOf(k)'
    BY <1>0, <1>2, <2>0, <2>4, TermsKept DEF AuditOf, Is
  <2>5. CASE Pay(k) \/ PayDeclined(k) \/ MarkShipped(k) \/ RaiseDispute(k)
             \/ \E expected \in {"SHIPPED", "DISPUTED"} : Delivered(k, expected)
    <3>1. ~AuctionSells(k) /\ ~OfferToNextBidder(k) /\ log' = log
      BY <2>5 DEF AuctionSells, OfferToNextBidder, Pay, PayDeclined, MarkShipped, RaiseDispute,
                  Delivered, ConfirmDelivery, Is
    <3>2. sale[k] \in Sale /\ sale[k].status # "VOIDED"
      BY <2>5, IsSale DEF Pay, PayDeclined, MarkShipped, RaiseDispute, Delivered,
                          ConfirmDelivery, Is
    <3>3. sale'[k].status # "VOIDED"
      <4>1. CASE Pay(k)
        BY <3>2, <4>1 DEF Pay, TypeOK, Sale
      <4>2. CASE PayDeclined(k)
        BY <3>2, <4>2 DEF PayDeclined, TypeOK, Sale
      <4>3. CASE MarkShipped(k)
        BY <3>2, <4>3 DEF MarkShipped, TypeOK, Sale
      <4>4. CASE RaiseDispute(k)
        BY <3>2, <4>4 DEF RaiseDispute, TypeOK, Sale
      <4>5. CASE \E expected \in {"SHIPPED", "DISPUTED"} : Delivered(k, expected)
        BY <3>2, <4>5 DEF Delivered, ConfirmDelivery, TypeOK, Sale
      <4> QED
        BY <2>5, <4>1, <4>2, <4>3, <4>4, <4>5
    <3> QED
      BY <2>4, <3>1, <3>2, <3>3
  <2>6. CASE RespondToDispute(k) \/ ResolveRefund(k) \/ ResolveRelease(k)
    <3>1. Is(k, {"DISPUTED"}) \/ RespondToDispute(k)
      BY <2>6, MoneyOfEach DEF ResolveRefund, ResolveRelease, DisputeOf
    <3>2. sale[k] # NoSale /\ sale[k] \in Sale
      BY <2>6 DEF RespondToDispute, ResolveRefund, ResolveRelease, DisputedWasSold, TypeOK
    <3>3. ~AuctionSells(k) /\ ~OfferToNextBidder(k)
      <4>1. CASE RespondToDispute(k)
        BY <3>2, <4>1, MoneyOfEach
        DEF RespondToDispute, DisputeOf, AuctionSells, OfferToNextBidder, Is
      <4>2. CASE ~RespondToDispute(k)
        BY <3>1, <3>2, <4>2 DEF AuctionSells, OfferToNextBidder, Is
      <4> QED
        BY <4>1, <4>2
    <3>4. sale'[k].status = "VOIDED" <=> sale[k].status = "VOIDED"
      <4>1. CASE RespondToDispute(k) \/ ResolveRelease(k)
        BY <4>1 DEF RespondToDispute, ResolveRelease
      <4>2. CASE ResolveRefund(k)
        <5>1. sale[k].status = "DISPUTED"
          BY <4>2, MoneyOfEach DEF ResolveRefund, DisputeOf, Is
        <5>2. sale'[k].status = "REFUNDED"
          BY <3>2, <4>2 DEF ResolveRefund, TypeOK, Sale
        <5> QED
          BY <5>1, <5>2
      <4> QED
        BY <2>6, <4>1, <4>2
    <3>5. Cardinality(VoidsIn(log'[k])) = Cardinality(VoidsIn(log[k]))
      <4>1. CASE RespondToDispute(k)
        BY <4>1 DEF RespondToDispute
      <4>2. ASSUME NEW x \in {"DISPUTE_RESOLVED_REFUNDED", "DISPUTE_RESOLVED_RELEASED"},
                   log'[k] = Append(log[k], x)
            PROVE  Cardinality(VoidsIn(log'[k])) = Cardinality(VoidsIn(log[k]))
        BY <4>2, VoidsCount DEF TypeOK, Voids, AuditActions
      <4>3. CASE ResolveRefund(k) \/ ResolveRelease(k)
        BY <4>2, <4>3 DEF ResolveRefund, ResolveRelease, TypeOK
      <4> QED
        BY <2>6, <4>1, <4>3
    <3> QED
      BY <2>4, <3>3, <3>4, <3>5
  <2> QED
    BY <1>2, <2>1, <2>2, <2>3, <2>5, <2>6 DEF Acts
<1> QED
  BY <1>1, <1>2, OneListing

\* Each time a buyer loses the item the audit log says so, and only then, however the
\* admins' voids, the sweeps' and the offers follow each other.
THEOREM VoidsAuditedAlways == Spec => []VoidsAudited
<1>1. Init => VoidsAudited
  <2> SUFFICES ASSUME Init, NEW k \in Listings PROVE AuditOf(k)
    BY DEF VoidsAudited, AuditOf, VoidsIn, Voids
  <2>1. VoidsIn(log[k]) = {} /\ sale[k] = NoSale
    BY DEF Init, VoidsIn
  <2> QED
    BY <2>1, FS_EmptySet DEF AuditOf
<1>2. TypeInv /\ TypeInv' /\ MoneyFollowsDispute /\ VoidsAudited /\ [Next]_vars
        => VoidsAudited'
  BY AuditStep DEF TypeInv
<1> QED
  BY <1>1, <1>2, TypesAlways, MoneyFollowsDisputeAlways, PTL DEF Spec

-----------------------------------------------------------------------------
(* The relists.                                                            *)

\* A listing that is not there yet is nobody's relist.
Unborn == \A m \in Listings : listing[m] = "none" => from[m] = NoListing

\* Only Relist writes relistedFromId, and only of a listing that was not there.
LEMMA FromStep ==
  ASSUME TypeOK, [Next]_vars
  PROVE  \/ from' = from /\ \A m \in Listings : listing'[m] = "none" => listing[m] = "none"
         \/ \E l, m \in Listings : Relist(l, m)
<1> USE DEF rows, money, sweeps, TypeOK
<1>1. CASE UNCHANGED vars
  BY <1>1 DEF vars
<1>2. CASE Tick
  BY <1>2 DEF Tick
<1>3. ASSUME NEW l \in Listings,
             Approve(l) \/ TakeDown(l) \/ AuctionSells(l) \/ Pay(l) \/ PayDeclined(l)
             \/ AdminVoid(l) \/ OfferToNextBidder(l)
      PROVE  from' = from /\ \A m \in Listings : listing'[m] = "none" => listing[m] = "none"
  BY <1>3 DEF Approve, TakeDown, AuctionSells, Pay, PayDeclined, AdminVoid, OfferToNextBidder
<1>4. ASSUME NEW l \in Listings,
             MarkShipped(l) \/ ConfirmReceipt(l) \/ RaiseDispute(l) \/ RespondToDispute(l)
             \/ ResolveRefund(l) \/ ResolveRelease(l) \/ ReleasePays(l) \/ ReleaseDies(l)
      PROVE  from' = from /\ listing' = listing
  BY <1>4 DEF MarkShipped, ConfirmReceipt, RaiseDispute, RespondToDispute, ResolveRefund,
              ResolveRelease, ReleasePays, ReleaseDies
<1>5. ASSUME NEW s \in Sweepers, NEW l \in Listings,
             VoidOverduePayment(s, l) \/ AutoConfirm(s, l)
      PROVE  from' = from /\ listing' = listing
  BY <1>5 DEF VoidOverduePayment, AutoConfirm
<1>6. ASSUME NEW s \in Sweepers,
             ListOverduePayments(s) \/ ListTimedOutShipments(s) \/ SweepDies(s)
      PROVE  from' = from /\ listing' = listing
  BY <1>6 DEF ListOverduePayments, ListTimedOutShipments, SweepDies
<1> HIDE DEF rows, money, sweeps, TypeOK
<1> QED
  BY <1>1, <1>2, <1>3, <1>4, <1>5, <1>6 DEF Next

\* A relist touches no sale.
LEMMA RelistTouchesNoSale ==
  ASSUME NEW l, NEW m, Relist(l, m)
  PROVE  sale' = sale
BY DEF Relist

\* A given-up sale only comes back to life through an offer, which looks for a relist.
LEMMA GivenUpStays ==
  ASSUME TypeInv, MoneyFollowsDispute, [Next]_vars, NEW k \in Listings, Is(k, {"VOIDED"}),
         Relisted(k) \/ listing[k] = "REMOVED"
  PROVE  sale'[k] = sale[k]
<1> USE DEF TypeInv
<1>1. CASE Untouched(k)
  BY <1>1 DEF Untouched
<1>2. CASE Acts(k)
  <2>1. dispute[k].status \notin {"OPEN", "RESOLVED_REFUNDED", "RESOLVED_RELEASED"}
    BY MoneyOfEach DEF DisputeOf, Is
  <2>2. ~RespondToDispute(k) /\ ~ResolveRefund(k) /\ ~ResolveRelease(k)
    BY <2>1 DEF RespondToDispute, ResolveRefund, ResolveRelease
  <2> QED
    BY <1>2, <2>2 DEF Acts, Is, AuctionSells, Pay, PayDeclined, Voided, OfferToNextBidder,
                      MarkShipped, Delivered, ConfirmDelivery, RaiseDispute
<1> QED
  BY <1>1, <1>2, OneListing

LEMMA SoldOnceStep ==
  ASSUME TypeInv, TypeOK', MoneyFollowsDispute, ItemSoldOnce, Unborn, [Next]_vars
  PROVE  ItemSoldOnce' /\ Unborn'
<1> USE DEF TypeInv
<1>1. CASE from' = from /\ \A m \in Listings : listing'[m] = "none" => listing[m] = "none"
  <2>1. ASSUME NEW m \in Listings, from[m] # NoListing PROVE Is(from[m], {"VOIDED"})'
    <3>1. from[m] \in Listings /\ Is(from[m], {"VOIDED"}) /\ Relisted(from[m])
      BY <2>1 DEF TypeOK, ItemSoldOnce, Relisted
    <3>2. sale'[from[m]] = sale[from[m]]
      BY <3>1, GivenUpStays
    <3> QED
      BY <1>1, <3>1, <3>2 DEF Is
  <2> QED
    BY <1>1, <2>1 DEF ItemSoldOnce, Unborn
<1>2. ASSUME NEW l \in Listings, NEW m \in Listings, Relist(l, m)
      PROVE  ItemSoldOnce' /\ Unborn'
  <2>1. /\ Is(l, {"VOIDED"}) /\ ~Relisted(l) /\ listing[m] = "none" /\ sale' = sale
        /\ from'[m] = l /\ \A n \in Listings \ {m} : from'[n] = from[n]
        /\ listing'[m] = "APPROVED" /\ \A n \in Listings \ {m} : listing'[n] = listing[n]
    BY <1>2 DEF Relist, TypeOK
  <2>2. from[m] = NoListing
    BY <2>1 DEF Unborn
  <2>3. ItemSoldOnce'
    BY <2>1, <2>2, IdAssumption DEF ItemSoldOnce, Relisted, Is
  <2>4. Unborn'
    BY <2>1 DEF Unborn
  <2> QED
    BY <2>3, <2>4
<1> QED
  BY <1>1, <1>2, FromStep

LEMMA SoldOnceAlways == Spec => [](ItemSoldOnce /\ Unborn)
<1>1. Init => ItemSoldOnce /\ Unborn
  BY DEF Init, ItemSoldOnce, Unborn
<1>2. TypeInv /\ TypeInv' /\ MoneyFollowsDispute /\ (ItemSoldOnce /\ Unborn) /\ [Next]_vars
        => (ItemSoldOnce /\ Unborn)'
  BY SoldOnceStep DEF TypeInv
<1> QED
  BY <1>1, <1>2, TypesAlways, MoneyFollowsDisputeAlways, PTL DEF Spec

\* An item put up again was given up under its old sale for good and was put up once: the
\* offer looks for a relist, and the unique relistedFromId admits one.
THEOREM ItemSoldOnceAlways == Spec => []ItemSoldOnce
BY SoldOnceAlways, PTL

\* A given-up sale of an item that was taken down or put up again stays given up.
THEOREM DeadSaleStaysDeadAlways == Spec => DeadSaleStaysDead
<1> DEFINE Kept == \A l \in Listings :
      Is(l, {"VOIDED"}) /\ (Relisted(l) \/ listing[l] = "REMOVED") =>
        /\ sale'[l] = sale[l]
        /\ \A m \in Listings : from'[m] = l => from[m] = l
<1>1. TypeInv /\ MoneyFollowsDispute /\ [Next]_vars => Kept
  <2> SUFFICES ASSUME TypeInv, MoneyFollowsDispute, [Next]_vars, NEW k \in Listings,
                      Is(k, {"VOIDED"}), Relisted(k) \/ listing[k] = "REMOVED"
               PROVE  /\ sale'[k] = sale[k]
                      /\ \A m \in Listings : from'[m] = k => from[m] = k
    OBVIOUS
  <2>1. ASSUME NEW l \in Listings, NEW m \in Listings, Relist(l, m), NEW n \in Listings,
               from'[n] = k
        PROVE  from[n] = k
    BY <2>1 DEF Relist, TypeInv, TypeOK
  <2> QED
    BY <2>1, GivenUpStays, FromStep DEF TypeInv
<1>2. TypeInv /\ MoneyFollowsDispute /\ [Next]_vars => [Kept]_vars
  BY <1>1
<1> QED
  BY <1>2, TypesAlways, MoneyFollowsDisputeAlways, PTL DEF Spec, DeadSaleStaysDead

-----------------------------------------------------------------------------
(* The sweeps.                                                             *)

\* What a shipment sweep holds was shipped long enough ago when it read its list, and a
\* sale is shipped once, so it still is.
ListedIsDue ==
  \A s \in Sweepers : \A l \in confirming[s] :
    /\ Is(l, {"SHIPPED", "DELIVERED", "DISPUTED", "REFUNDED"})
    /\ \E t \in ReviewTimeouts : sale[l].shippedAt + t < now

\* What was shipped stays shipped, at the same time.
LEMMA ShippedStays ==
  ASSUME TypeInv, MoneyFollowsDispute, [Next]_vars, NEW k \in Listings,
         Is(k, {"SHIPPED", "DELIVERED", "DISPUTED", "REFUNDED"})
  PROVE  /\ Is(k, {"SHIPPED", "DELIVERED", "DISPUTED", "REFUNDED"})'
         /\ sale'[k].shippedAt = sale[k].shippedAt
<1> USE DEF TypeInv
<1>0. sale[k] \in Sale /\ sale[k] # NoSale
  BY IsSale
<1>1. CASE Untouched(k)
  BY <1>1 DEF Untouched, Is
<1>2. CASE Acts(k)
  <2>1. sale'[k] # NoSale
    BY <1>2, ActedOnIsSale, NoSaleAssumption
  <2>2. /\ ~AuctionSells(k) /\ ~Pay(k) /\ ~PayDeclined(k) /\ ~OfferToNextBidder(k)
        /\ ~MarkShipped(k) /\ \A action \in Voids : ~Voided(k, action)
    BY DEF AuctionSells, Pay, PayDeclined, OfferToNextBidder, MarkShipped, Voided, Is
  <2>3. ASSUME NEW expected \in {"SHIPPED", "DISPUTED"}, Delivered(k, expected)
        PROVE  sale'[k].shippedAt = sale[k].shippedAt /\ sale'[k].status = "DELIVERED"
    BY <1>0, <2>3 DEF Delivered, ConfirmDelivery, TypeOK, Sale
  <2>4. CASE RaiseDispute(k)
    <3>1. sale'[k].shippedAt = sale[k].shippedAt /\ sale'[k].status = "DISPUTED"
      BY <1>0, <2>4 DEF RaiseDispute, TypeOK, Sale
    <3> QED
      BY <2>1, <3>1 DEF Is
  <2>5. CASE ResolveRefund(k)
    <3>1. sale'[k].shippedAt = sale[k].shippedAt /\ sale'[k].status = "REFUNDED"
      BY <1>0, <2>5 DEF ResolveRefund, TypeOK, Sale
    <3> QED
      BY <2>1, <3>1 DEF Is
  <2>6. CASE RespondToDispute(k) \/ ResolveRelease(k)
    BY <2>6 DEF RespondToDispute, ResolveRelease, Is
  <2> QED
    BY <1>2, <2>1, <2>2, <2>3, <2>4, <2>5, <2>6 DEF Acts, Is
<1> QED
  BY <1>1, <1>2, OneListing

\* Time does not go back, and a sweep's list grows only when that sweep reads a new one; what
\* a shipment sweep adds has timed out.
LEMMA ListStep ==
  ASSUME TypeOK, [Next]_vars, NEW s \in Sweepers
  PROVE  /\ now' \in Nat /\ now' >= now
         /\ voiding'[s] \subseteq voiding[s] \/ ListOverduePayments(s)
         /\ confirming'[s] \subseteq confirming[s] \/ ListTimedOutShipments(s)
         /\ \A l \in confirming'[s] :
              \/ l \in confirming[s]
              \/ /\ sale' = sale /\ now' = now
                 /\ \E t \in ReviewTimeouts : TimedOut(l, t)
<1> USE DEF rows, money, sweeps, TypeOK
<1> DEFINE Grows == voiding'[s] \subseteq voiding[s] /\ confirming'[s] \subseteq confirming[s]
<1>1. ASSUME UNCHANGED vars PROVE now' = now /\ Grows
  BY <1>1 DEF vars
<1>2. ASSUME Tick PROVE now' = now + 1 /\ Grows
  BY <1>2 DEF Tick
<1>3. ASSUME NEW l \in Listings,
             Approve(l) \/ TakeDown(l) \/ AuctionSells(l) \/ Pay(l) \/ PayDeclined(l)
             \/ AdminVoid(l) \/ OfferToNextBidder(l) \/ \E m \in Listings : Relist(l, m)
      PROVE  now' = now /\ Grows
  BY <1>3 DEF Approve, TakeDown, AuctionSells, Pay, PayDeclined, AdminVoid, OfferToNextBidder,
              Relist
<1>4. ASSUME NEW l \in Listings,
             MarkShipped(l) \/ ConfirmReceipt(l) \/ RaiseDispute(l) \/ RespondToDispute(l)
             \/ ResolveRefund(l) \/ ResolveRelease(l) \/ ReleasePays(l) \/ ReleaseDies(l)
      PROVE  now' = now /\ Grows
  BY <1>4 DEF MarkShipped, ConfirmReceipt, RaiseDispute, RespondToDispute, ResolveRefund,
              ResolveRelease, ReleasePays, ReleaseDies
<1>5. ASSUME NEW r \in Sweepers, NEW l \in Listings,
             VoidOverduePayment(r, l) \/ AutoConfirm(r, l)
      PROVE  now' = now /\ Grows
  BY <1>5 DEF VoidOverduePayment, AutoConfirm
<1>6. ASSUME NEW r \in Sweepers, SweepDies(r)
      PROVE  now' = now /\ Grows
  BY <1>6 DEF SweepDies
<1>7. ASSUME NEW r \in Sweepers, ListTimedOutShipments(r)
      PROVE  /\ now' = now /\ sale' = sale /\ voiding' = voiding
             /\ confirming'[s] \subseteq confirming[s] \/ r = s
             /\ \A l \in confirming'[s] :
                  l \in confirming[s] \/ \E t \in ReviewTimeouts : TimedOut(l, t)
  BY <1>7 DEF ListTimedOutShipments
<1>8. ASSUME NEW r \in Sweepers, ListOverduePayments(r)
      PROVE  now' = now /\ confirming' = confirming /\ (voiding'[s] \subseteq voiding[s] \/ r = s)
  BY <1>8 DEF ListOverduePayments
<1>9. now \in Nat
  OBVIOUS
<1> HIDE DEF rows, money, sweeps, TypeOK
<1>10. \/ now' \in {now, now + 1} /\ Grows
       \/ \E r \in Sweepers : ListTimedOutShipments(r) \/ ListOverduePayments(r)
  BY <1>1, <1>2, <1>3, <1>4, <1>5, <1>6 DEF Next
<1> QED
  BY <1>7, <1>8, <1>9, <1>10

LEMMA ListedStep ==
  ASSUME TypeInv, TypeOK', MoneyFollowsDispute, ListedIsDue, [Next]_vars
  PROVE  ListedIsDue'
<1> USE DEF TypeInv
<1> SUFFICES ASSUME NEW s \in Sweepers, NEW l \in confirming'[s]
             PROVE  /\ Is(l, {"SHIPPED", "DELIVERED", "DISPUTED", "REFUNDED"})'
                    /\ \E t \in ReviewTimeouts : sale'[l].shippedAt + t < now'
  BY DEF ListedIsDue
<1>1. l \in Listings /\ now \in Nat /\ now' \in Nat /\ now' >= now
  BY ListStep DEF TypeOK
<1>2. \/ l \in confirming[s]
      \/ /\ sale' = sale /\ now' = now
         /\ \E t \in ReviewTimeouts : TimedOut(l, t)
  BY ListStep
<1>3. CASE l \in confirming[s]
  <2>1. Is(l, {"SHIPPED", "DELIVERED", "DISPUTED", "REFUNDED"})
    BY <1>3 DEF ListedIsDue
  <2>2. PICK t \in ReviewTimeouts : sale[l].shippedAt + t < now
    BY <1>3 DEF ListedIsDue
  <2>3. sale[l].shippedAt \in Nat /\ t \in Nat
    BY <1>1, <2>1, IsSale, BoundAssumption DEF Sale
  <2>4. /\ Is(l, {"SHIPPED", "DELIVERED", "DISPUTED", "REFUNDED"})'
        /\ sale'[l].shippedAt = sale[l].shippedAt
    BY <1>1, <2>1, ShippedStays
  <2>5. sale'[l].shippedAt + t < now'
    BY <1>1, <2>2, <2>3, <2>4
  <2> QED
    BY <2>4, <2>5
<1>4. CASE /\ sale' = sale /\ now' = now
           /\ \E t \in ReviewTimeouts : TimedOut(l, t)
  BY <1>4 DEF TimedOut, Is
<1> QED
  BY <1>2, <1>3, <1>4

\* A list read long ago still holds only what had its full review window.
LEMMA ListedAlways == Spec => []ListedIsDue
<1>1. Init => ListedIsDue
  BY DEF Init, ListedIsDue
<1>2. TypeInv /\ TypeInv' /\ MoneyFollowsDispute /\ ListedIsDue /\ [Next]_vars => ListedIsDue'
  BY ListedStep DEF TypeInv
<1> QED
  BY <1>1, <1>2, TypesAlways, MoneyFollowsDisputeAlways, PTL DEF Spec

\* Appending to a log changes it, and tells what was appended.
LEMMA AppendTells ==
  ASSUME NEW s \in Seq(AuditActions), NEW x \in AuditActions, NEW y \in AuditActions
  PROVE  /\ Append(s, x) # s
         /\ Append(s, x) = Append(s, y) => x = y
BY AppendProperties, LenProperties

\* Only the payment sweep writes TRANSACTION_VOIDED_OVERDUE, and it looks at the due date
\* of the moment under the row's lock.
LEMMA OverdueIsDue ==
  ASSUME TypeInv, [Next]_vars, NEW k \in Listings,
         log'[k] = Append(log[k], "TRANSACTION_VOIDED_OVERDUE")
  PROVE  sale[k].dueAt < now
<1> USE DEF TypeInv, rows, money, sweeps
<1> DEFINE overdue == "TRANSACTION_VOIDED_OVERDUE"
<1>1. log[k] \in Seq(AuditActions) /\ overdue \in AuditActions /\ log \in [Listings -> Seq(AuditActions)]
  BY DEF TypeOK, AuditActions
<1>2. log'[k] # log[k] /\ log' # log
  BY <1>1, AppendTells
<1>3. ASSUME NEW l \in Listings, NEW x \in AuditActions \ {overdue},
             log' = [log EXCEPT ![l] = Append(@, x)]
      PROVE  FALSE
  <2>1. l = k
    BY <1>1, <1>2, <1>3
  <2>2. log'[k] = Append(log[k], x)
    BY <1>1, <1>3, <2>1
  <2> QED
    BY <1>1, <1>3, <2>2, AppendTells
<1>4. ASSUME NEW s \in Sweepers, NEW l \in Listings, VoidOverduePayment(s, l)
      PROVE  sale[k].dueAt < now
  <2>1. log' = [log EXCEPT ![l] = Append(@, overdue)] /\ IsPaymentOverdue(l)
    BY <1>2, <1>4 DEF VoidOverduePayment, VoidWith
  <2>2. l = k
    BY <1>1, <1>2, <2>1
  <2> QED
    BY <2>1, <2>2 DEF IsPaymentOverdue
<1>5. ASSUME NEW l \in Listings,
             AdminVoid(l) \/ ResolveRefund(l) \/ ResolveRelease(l)
      PROVE  FALSE
  BY <1>3, <1>5 DEF AdminVoid, VoidWith, ResolveRefund, ResolveRelease, AuditActions
<1>6. ASSUME NEW l \in Listings,
             Approve(l) \/ TakeDown(l) \/ AuctionSells(l) \/ Pay(l) \/ PayDeclined(l)
             \/ OfferToNextBidder(l) \/ \E m \in Listings : Relist(l, m)
      PROVE  FALSE
  BY <1>2, <1>6 DEF Approve, TakeDown, AuctionSells, Pay, PayDeclined, OfferToNextBidder, Relist
<1>7. ASSUME NEW l \in Listings,
             MarkShipped(l) \/ ConfirmReceipt(l) \/ RaiseDispute(l) \/ RespondToDispute(l)
             \/ ReleasePays(l) \/ ReleaseDies(l)
      PROVE  FALSE
  BY <1>2, <1>7 DEF MarkShipped, ConfirmReceipt, RaiseDispute, RespondToDispute, ReleasePays,
                    ReleaseDies
<1>8. ASSUME NEW s \in Sweepers,
             \/ \E l \in Listings : AutoConfirm(s, l)
             \/ ListOverduePayments(s) \/ ListTimedOutShipments(s) \/ SweepDies(s)
      PROVE  FALSE
  BY <1>2, <1>8 DEF AutoConfirm, ListOverduePayments, ListTimedOutShipments, SweepDies
<1>9. ~Tick /\ ~UNCHANGED vars
  BY <1>2 DEF Tick, vars
<1> QED
  BY <1>4, <1>5, <1>6, <1>7, <1>8, <1>9 DEF Next

\* Neither sweep acts too early, however old the list it works from: the payment sweep
\* looks at the due date again, and what the shipment sweep holds stays due.
THEOREM SweepsNotEarlyAlways == Spec => SweepsNotEarly
<1> DEFINE Due == \A l \in Listings :
             log'[l] = Append(log[l], "TRANSACTION_VOIDED_OVERDUE") => sale[l].dueAt < now
           Reviewed == \A s \in Sweepers, l \in Listings :
             AutoConfirm(s, l) /\ sale'[l] # sale[l] =>
               \E t \in ReviewTimeouts : sale[l].shippedAt + t < now
<1>1. TypeInv /\ ListedIsDue /\ [Next]_vars => [Due]_vars /\ [Reviewed]_vars
  <2>1. TypeInv /\ [Next]_vars => Due
    BY OverdueIsDue
  <2>2. ListedIsDue => Reviewed
    BY DEF ListedIsDue, AutoConfirm
  <2> QED
    BY <2>1, <2>2
<1> QED
  BY <1>1, TypesAlways, ListedAlways, PTL
  DEF Spec, SweepsNotEarly, DeadlineHonoured, ReceiptNotAssumedEarly

-----------------------------------------------------------------------------
(* The rows implement Escrow.                                              *)

\* What Escrow sees of one listing.
AskedOf(k) == IF sale[k] = NoSale THEN {} ELSE Asked(k)
PriceOf(k) == IF sale[k] = NoSale THEN 0 ELSE sale[k].amount

\* Who acts on one listing leaves all the others alone.
LEMMA OthersUntouched ==
  ASSUME TypeOK, NEW k \in Listings, Acts(k), NEW j \in Listings \ {k}
  PROVE  Untouched(j)
<1> USE DEF rows, money, sweeps, TypeOK, Untouched
<1>1. CASE AuctionSells(k)
  BY <1>1 DEF AuctionSells
<1>2. CASE Pay(k)
  BY <1>2 DEF Pay
<1>3. CASE PayDeclined(k)
  BY <1>3 DEF PayDeclined
<1>4. CASE \E action \in Voids : Voided(k, action)
  BY <1>4 DEF Voided, VoidWith
<1>5. CASE OfferToNextBidder(k)
  BY <1>5 DEF OfferToNextBidder
<1>6. CASE MarkShipped(k)
  BY <1>6 DEF MarkShipped
<1>7. CASE \E expected \in {"SHIPPED", "DISPUTED"} : Delivered(k, expected)
  BY <1>7 DEF Delivered, ConfirmDelivery
<1>8. CASE RaiseDispute(k)
  BY <1>8 DEF RaiseDispute
<1>9. CASE RespondToDispute(k) \/ ResolveRefund(k) \/ ResolveRelease(k)
  BY <1>9 DEF RespondToDispute, ResolveRefund, ResolveRelease
<1> HIDE DEF rows, money, sweeps, TypeOK, Untouched
<1> QED
  BY <1>1, <1>2, <1>3, <1>4, <1>5, <1>6, <1>7, <1>8, <1>9 DEF Acts

\* What is left alone looks the same to Escrow.
LEMMA UntouchedLooksSame ==
  ASSUME NEW k \in Listings, Untouched(k), Relisted(k)' <=> Relisted(k)
  PROVE  /\ Purse(k)' = Purse(k) /\ AskedOf(k)' = AskedOf(k)
         /\ PriceOf(k)' = PriceOf(k) /\ entry'[k] = entry[k]
BY DEF Untouched, Purse, AskedOf, PriceOf, Asked, Is

\* Where the price is, by the status of the sale.
LEMMA PurseByStatus ==
  ASSUME NEW k
  PROVE  /\ sale[k] = NoSale => Purse(k) = "unsold"
         /\ Is(k, {"PENDING"}) => Purse(k) = "due"
         /\ Is(k, {"COMPLETED", "SHIPPED", "DISPUTED"}) => Purse(k) = "held"
         /\ Is(k, {"DELIVERED"}) => Purse(k) = "seller"
         /\ Is(k, {"REFUNDED"}) => Purse(k) = "buyer"
         /\ Is(k, {"VOIDED"}) => Purse(k) = IF Relisted(k) THEN "relisted" ELSE "lapsed"
BY DEF Purse, Is

LEMMA PurseByStatusNext ==
  ASSUME NEW k, sale'[k] # NoSale
  PROVE  /\ sale'[k].status = "PENDING" => Purse(k)' = "due"
         /\ sale'[k].status \in {"COMPLETED", "SHIPPED", "DISPUTED"} => Purse(k)' = "held"
         /\ sale'[k].status = "DELIVERED" => Purse(k)' = "seller"
         /\ sale'[k].status = "REFUNDED" => Purse(k)' = "buyer"
         /\ sale'[k].status = "VOIDED"
              => Purse(k)' = IF Relisted(k)' THEN "relisted" ELSE "lapsed"
BY DEF Purse, Is

\* A step that moves one price from one place to another and changes nothing else.
LEMMA MovesOne ==
  ASSUME NEW k \in Listings, NEW x, NEW y,
         \A j \in Listings \ {k} : Purse(j)' = Purse(j),
         \A j \in Listings : /\ AskedOf(j)' = AskedOf(j) /\ PriceOf(j)' = PriceOf(j)
                             /\ entry'[j] = entry[j],
         entry' = entry, Purse(k) = x, Purse(k)' = y
  PROVE  Promise!Move(k, x, y)
<1>1. [l \in Listings |-> Purse(l)]' = [[l \in Listings |-> Purse(l)] EXCEPT ![k] = y]
  OBVIOUS
<1>2. [l \in Listings |-> AskedOf(l)]' = [l \in Listings |-> AskedOf(l)]
  OBVIOUS
<1>3. [l \in Listings |-> PriceOf(l)]' = [l \in Listings |-> PriceOf(l)]
  OBVIOUS
<1>4. [l \in Listings |-> Purse(l)][k] = x
  OBVIOUS
<1> QED
  BY <1>1, <1>2, <1>3, <1>4 DEF Promise!Move, AskedOf, PriceOf

\* A step that looks the same of every listing.
LEMMA MovesNone ==
  ASSUME \A j \in Listings : /\ Purse(j)' = Purse(j) /\ AskedOf(j)' = AskedOf(j)
                             /\ PriceOf(j)' = PriceOf(j),
         entry' = entry
  PROVE  UNCHANGED Promise!vars
<1>1. [l \in Listings |-> Purse(l)]' = [l \in Listings |-> Purse(l)]
  OBVIOUS
<1>2. [l \in Listings |-> AskedOf(l)]' = [l \in Listings |-> AskedOf(l)]
  OBVIOUS
<1>3. [l \in Listings |-> PriceOf(l)]' = [l \in Listings |-> PriceOf(l)]
  OBVIOUS
<1> QED
  BY <1>1, <1>2, <1>3 DEF Promise!vars, AskedOf, PriceOf

\* A step that asks one more buyer for one item.
LEMMA AsksOne ==
  ASSUME NEW k \in Listings, NEW b, NEW p,
         \A j \in Listings \ {k} : /\ Purse(j)' = Purse(j) /\ AskedOf(j)' = AskedOf(j)
                                   /\ PriceOf(j)' = PriceOf(j),
         entry' = entry,
         Purse(k) \in {"unsold", "lapsed"}, Purse(k)' = "due",
         b \notin AskedOf(k), AskedOf(k)' = AskedOf(k) \cup {b},
         PriceOf(k)' = p, Purse(k) = "lapsed" => p < PriceOf(k)
  PROVE  Promise!Ask(k, b, p)
<1>1. [l \in Listings |-> Purse(l)]' = [[l \in Listings |-> Purse(l)] EXCEPT ![k] = "due"]
  OBVIOUS
<1>2. [l \in Listings |-> AskedOf(l)]'
        = [[l \in Listings |-> AskedOf(l)] EXCEPT ![k] = @ \cup {b}]
  OBVIOUS
<1>3. [l \in Listings |-> PriceOf(l)]' = [[l \in Listings |-> PriceOf(l)] EXCEPT ![k] = p]
  OBVIOUS
<1>4. /\ [l \in Listings |-> Purse(l)][k] = Purse(k)
      /\ [l \in Listings |-> AskedOf(l)][k] = AskedOf(k)
      /\ [l \in Listings |-> PriceOf(l)][k] = PriceOf(k)
  OBVIOUS
<1> QED
  BY <1>1, <1>2, <1>3, <1>4 DEF Promise!Ask, AskedOf, PriceOf

\* What holds between two steps, as far as the refinement needs it.
Sound == /\ TypeInv /\ MoneyFollowsDispute /\ OfferOrder /\ BidsDiffer
         /\ ItemSoldOnce /\ Unborn

\* An act on a sale that keeps its terms moves the price, pays it out, or is not seen.
LEMMA TermsKeptRefines ==
  ASSUME Sound, TypeOK', NEW k \in Listings, Acts(k), from' = from,
         ~AuctionSells(k), ~OfferToNextBidder(k)
  PROVE  [Promise!Next]_(Promise!vars)
<1> USE DEF Sound, TypeInv
<1>1. /\ sale[k] \in Sale /\ sale[k] # NoSale /\ sale'[k] # NoSale
      /\ AskedOf(k)' = AskedOf(k) /\ PriceOf(k)' = PriceOf(k)
  <2>1. sale'[k] # NoSale
    BY ActedOnIsSale, NoSaleAssumption
  <2> QED
    BY <2>1, TermsKept DEF AskedOf, PriceOf, Asked
<1>2. \A j \in Listings : Relisted(j)' <=> Relisted(j)
  BY DEF Relisted
<1>3. \A j \in Listings \ {k} : /\ Purse(j)' = Purse(j) /\ AskedOf(j)' = AskedOf(j)
                                 /\ PriceOf(j)' = PriceOf(j) /\ entry'[j] = entry[j]
  BY <1>2, OthersUntouched, UntouchedLooksSame
<1>4. ASSUME entry' = entry, NEW x, NEW y, Purse(k) = x, Purse(k)' = y
      PROVE  Promise!Move(k, x, y)
  BY <1>1, <1>3, <1>4, MovesOne
<1>5. ASSUME entry' = entry, Purse(k)' = Purse(k)
      PROVE  UNCHANGED Promise!vars
  BY <1>1, <1>3, <1>5, MovesNone
<1>6. CASE Pay(k)
  <2>1. entry' = entry /\ Purse(k) = "due" /\ sale'[k].status = "COMPLETED"
    BY <1>1, <1>6, PurseByStatus DEF Pay, money, TypeOK, Sale
  <2>2. Promise!Move(k, "due", "held")
    BY <1>1, <1>4, <2>1, PurseByStatusNext
  <2> QED
    BY <2>2 DEF Promise!Next, Promise!Deposit
<1>7. CASE PayDeclined(k)
  <2>1. entry' = entry /\ Purse(k) = "due" /\ sale'[k].status = "PENDING"
    BY <1>1, <1>7, PurseByStatus DEF PayDeclined, money, TypeOK, Sale, Is
  <2> QED
    BY <1>1, <1>5, <2>1, PurseByStatusNext
<1>8. ASSUME NEW action \in Voids, Voided(k, action) PROVE Promise!Next
  <2>1. entry' = entry /\ Purse(k) = "due" /\ sale'[k].status = "VOIDED"
    BY <1>1, <1>8, PurseByStatus DEF Voided, VoidWith, money, TypeOK, Sale
  <2>2. ~Relisted(k)
    BY <1>8, IdAssumption DEF Voided, ItemSoldOnce, Relisted, Is
  <2>3. Promise!Move(k, "due", "lapsed")
    BY <1>1, <1>2, <1>4, <2>1, <2>2, PurseByStatusNext
  <2> QED
    BY <2>3 DEF Promise!Next, Promise!Lapse
<1>9. CASE MarkShipped(k)
  <2>1. entry' = entry /\ Purse(k) = "held" /\ sale'[k].status = "SHIPPED"
    <3>1. Is(k, {"COMPLETED", "SHIPPED", "DISPUTED"})
      BY <1>9 DEF MarkShipped, Is
    <3> QED
      BY <1>1, <1>9, <3>1, PurseByStatus DEF MarkShipped, money, TypeOK, Sale
  <2> QED
    BY <1>1, <1>5, <2>1, PurseByStatusNext
<1>10. CASE RaiseDispute(k)
  <2>1. entry' = entry /\ Purse(k) = "held" /\ sale'[k].status = "DISPUTED"
    <3>1. Is(k, {"COMPLETED", "SHIPPED", "DISPUTED"})
      BY <1>10 DEF RaiseDispute, Is
    <3> QED
      BY <1>1, <1>10, <3>1, PurseByStatus DEF RaiseDispute, money, TypeOK, Sale
  <2> QED
    BY <1>1, <1>5, <2>1, PurseByStatusNext
<1>11. CASE RespondToDispute(k) \/ ResolveRelease(k)
  <2>1. entry' = entry /\ sale' = sale
    BY <1>11 DEF RespondToDispute, ResolveRelease, money
  <2>2. Purse(k)' = Purse(k)
    BY <1>2, <2>1 DEF Purse, Is
  <2> QED
    BY <1>5, <2>1, <2>2
<1>12. CASE ResolveRefund(k)
  <2>1. Is(k, {"COMPLETED", "SHIPPED", "DISPUTED"})
    BY <1>12, MoneyOfEach DEF ResolveRefund, DisputeOf, Is
  <2>2. entry' = entry /\ Purse(k) = "held" /\ sale'[k].status = "REFUNDED"
    BY <1>1, <1>12, <2>1, PurseByStatus DEF ResolveRefund, money, TypeOK, Sale
  <2>3. Promise!Move(k, "held", "buyer")
    BY <1>1, <1>4, <2>2, PurseByStatusNext
  <2> QED
    BY <2>3 DEF Promise!Next, Promise!Return
<1>13. ASSUME NEW expected \in {"SHIPPED", "DISPUTED"}, Delivered(k, expected)
       PROVE  Promise!Next
  <2>1. Is(k, {"COMPLETED", "SHIPPED", "DISPUTED"})
    BY <1>13 DEF Delivered, ConfirmDelivery, Is
  <2>2. /\ Purse(k) = "held" /\ sale'[k].status = "DELIVERED"
        /\ entry' = [entry EXCEPT ![k] = sale[k].amount]
    BY <1>1, <1>13, <2>1, PurseByStatus DEF Delivered, ConfirmDelivery, TypeOK, Sale
  <2>3. Purse(k)' = "seller"
    BY <1>1, <2>2, PurseByStatusNext
  <2>4. [l \in Listings |-> Purse(l)]' = [[l \in Listings |-> Purse(l)] EXCEPT ![k] = "seller"]
    BY <1>3, <2>3
  <2>5. [l \in Listings |-> AskedOf(l)]' = [l \in Listings |-> AskedOf(l)]
    BY <1>1, <1>3
  <2>6. [l \in Listings |-> PriceOf(l)]' = [l \in Listings |-> PriceOf(l)]
    BY <1>1, <1>3
  <2>7. /\ [l \in Listings |-> Purse(l)][k] = "held"
        /\ [l \in Listings |-> PriceOf(l)][k] = sale[k].amount
    BY <1>1, <2>2 DEF PriceOf
  <2>8. Promise!PayOut(k)
    BY <2>2, <2>4, <2>5, <2>6, <2>7 DEF Promise!PayOut, AskedOf, PriceOf
  <2> QED
    BY <2>8 DEF Promise!Next
<1> QED
  BY <1>6, <1>7, <1>8, <1>9, <1>10, <1>11, <1>12, <1>13 DEF Acts

\* The close asks the winner, at their own bid.
LEMMA SellingRefines ==
  ASSUME Sound, TypeOK', NEW k \in Listings, AuctionSells(k)
  PROVE  Promise!Next
<1> USE DEF Sound, TypeInv
<1>1. PICK best \in [Buyers -> 0 .. MaxAmount], w \in Buyers, d \in PaymentDeadlines :
        best[w] > 0 /\ sale' = [sale EXCEPT ![k] = Owed(w, <<>>, best[w], now + d)]
  BY DEF AuctionSells
<1>2. sale[k] = NoSale /\ entry' = entry /\ from' = from /\ Acts(k)
  BY DEF AuctionSells, Acts, money
<1>3. /\ sale'[k].winner = w /\ sale'[k].amount = best[w] /\ sale'[k].previous = <<>>
      /\ sale'[k].status = "PENDING"
  BY <1>1 DEF TypeOK, Owed
<1>4. sale'[k] # NoSale
  BY <1>2, ActedOnIsSale, NoSaleAssumption
<1>5. \A j \in Listings \ {k} : /\ Purse(j)' = Purse(j) /\ AskedOf(j)' = AskedOf(j)
                                 /\ PriceOf(j)' = PriceOf(j)
  <2>1. \A j \in Listings : Relisted(j)' <=> Relisted(j)
    BY <1>2 DEF Relisted
  <2> QED
    BY <1>2, <2>1, OthersUntouched, UntouchedLooksSame
<1>6. Purse(k) = "unsold" /\ Purse(k)' = "due"
  BY <1>2, <1>3, <1>4, PurseByStatus, PurseByStatusNext
<1>7. /\ AskedOf(k) = {} /\ AskedOf(k)' = {w} /\ PriceOf(k)' = best[w]
  BY <1>2, <1>3, <1>4 DEF AskedOf, Asked, PriceOf
<1>8. best[w] \in Amounts
  BY <1>1, BoundAssumption DEF Amounts
<1>9. Promise!Ask(k, w, best[w])
  BY <1>2, <1>5, <1>6, <1>7, AsksOne
<1> QED
  BY <1>8, <1>9 DEF Promise!Next

\* An offer asks somebody new, at a lower price.
LEMMA OfferingRefines ==
  ASSUME Sound, TypeOK', NEW k \in Listings, OfferToNextBidder(k)
  PROVE  Promise!Next
<1> USE DEF Sound, TypeInv
<1>1. PICK b \in Buyers, d \in PaymentDeadlines :
        IsNextBid(k, b) /\ sale' = [sale EXCEPT ![k] = Offer(k, b, d)]
  BY DEF OfferToNextBidder
<1>2. /\ sale[k] \in Sale /\ sale[k] # NoSale /\ entry' = entry /\ from' = from /\ Acts(k)
      /\ Is(k, {"VOIDED"}) /\ ~Relisted(k)
  BY IsSale DEF OfferToNextBidder, Acts, money, rows
<1>3. /\ sale'[k].winner = b /\ sale'[k].amount = bid[k][b]
      /\ sale'[k].previous = Append(sale[k].previous, sale[k].winner)
      /\ sale'[k].status = "PENDING"
  BY <1>1 DEF TypeOK, Offer, Owed
<1>4. sale'[k] # NoSale
  BY <1>2, ActedOnIsSale, NoSaleAssumption
<1>5. \A j \in Listings \ {k} : /\ Purse(j)' = Purse(j) /\ AskedOf(j)' = AskedOf(j)
                                 /\ PriceOf(j)' = PriceOf(j)
  <2>1. \A j \in Listings : Relisted(j)' <=> Relisted(j)
    BY <1>2 DEF Relisted
  <2> QED
    BY <1>2, <2>1, OthersUntouched, UntouchedLooksSame
<1>6. Purse(k) = "lapsed" /\ Purse(k)' = "due"
  BY <1>2, <1>3, <1>4, PurseByStatus, PurseByStatusNext
<1>7. AskedOf(k)' = AskedOf(k) \cup {b}
  <2>1. sale[k].previous \in Seq(Buyers) /\ sale[k].winner \in Buyers
    BY <1>2 DEF Sale
  <2>2. Range(sale'[k].previous) = Range(sale[k].previous) \cup {sale[k].winner}
    BY <1>3, <2>1, AppendedElements
  <2>3. Asked(k)' = Range(sale'[k].previous) \cup {b}
    BY <1>3 DEF Asked, Range
  <2>4. Asked(k) = Range(sale[k].previous) \cup {sale[k].winner}
    BY DEF Asked, Range
  <2> QED
    BY <1>2, <1>4, <2>2, <2>3, <2>4 DEF AskedOf
<1>8. /\ PriceOf(k)' = bid[k][b] /\ PriceOf(k) = sale[k].amount
  BY <1>2, <1>3, <1>4 DEF PriceOf
<1>9. /\ bid[k][b] \in Amounts /\ b \notin AskedOf(k)
  BY <1>1, <1>2, BoundAssumption DEF IsNextBid, Candidates, Amounts, AskedOf, TypeOK
<1>10. bid[k][b] < sale[k].amount
  <2>1. OrderOf(k)
    BY DEF OfferOrder, OrderOf, Before, Range
  <2>2. b \notin {c \in Buyers : bid[k][c] >= sale[k].amount}
    BY <1>2, <1>9, <2>1, AskedAre DEF AskedOf
  <2>3. sale[k].amount \in Nat /\ bid[k][b] \in Nat
    BY <1>2, <1>9, BoundAssumption DEF Sale, Amounts
  <2> QED
    BY <2>2, <2>3
<1>11. PICK p \in Amounts : p = bid[k][b]
  BY <1>9
<1>12. PriceOf(k)' = p /\ p < PriceOf(k)
  BY <1>8, <1>10, <1>11
<1>13. Promise!Ask(k, b, p)
  BY <1>2, <1>5, <1>6, <1>7, <1>9, <1>12, AsksOne
<1> QED
  BY <1>11, <1>13 DEF Promise!Next

\* A relist takes the old sale's item away; a relist of the relist is another sale's.
LEMMA RelistRefines ==
  ASSUME Sound, NEW l \in Listings, NEW m \in Listings, Relist(l, m)
  PROVE  Promise!Next
<1> USE DEF Sound, TypeInv
<1>1. /\ Is(l, {"VOIDED"}) /\ ~Relisted(l) /\ listing[m] = "none" /\ sale' = sale
      /\ entry' = entry /\ from'[m] = l /\ \A n \in Listings \ {m} : from'[n] = from[n]
  BY DEF Relist, money, TypeOK
<1>2. from[m] = NoListing
  BY <1>1 DEF Unborn
<1>3. \A j \in Listings \ {l} : Relisted(j)' <=> Relisted(j)
  BY <1>1, <1>2, IdAssumption DEF Relisted
<1>4. Relisted(l)'
  BY <1>1 DEF Relisted
<1>5. Purse(l) = "lapsed" /\ Purse(l)' = "relisted"
  BY <1>1, <1>4, PurseByStatus, PurseByStatusNext DEF Is
<1>6. \A j \in Listings \ {l} : Purse(j)' = Purse(j)
  BY <1>1, <1>3 DEF Purse, Is
<1>7. \A j \in Listings : AskedOf(j)' = AskedOf(j) /\ PriceOf(j)' = PriceOf(j)
  BY <1>1 DEF AskedOf, PriceOf, Asked
<1>8. Promise!Move(l, "lapsed", "relisted")
  BY <1>1, <1>5, <1>6, <1>7, MovesOne
<1> QED
  BY <1>8 DEF Promise!Next, Promise!PutUpAgain

\* Whatever sweeps, disputes and relists do, the rows behave like an escrow: one buyer at
\* a time is asked, at ever lower prices, and money held goes once and whole to one side.
THEOREM Refinement == Spec => ImplementsEscrow
<1>1. Init => Promise!Init
  <2> SUFFICES ASSUME Init PROVE Promise!Init
    OBVIOUS
  <2>1. \A l \in Listings : sale[l] = NoSale
    BY DEF Init
  <2>2. \A l \in Listings : Purse(l) = "unsold"
    BY <2>1, PurseByStatus
  <2> QED
    BY <2>1, <2>2 DEF Init, Promise!Init
<1>2. Sound /\ TypeOK' /\ [Next]_vars => [Promise!Next]_(Promise!vars)
  <2> SUFFICES ASSUME Sound, TypeOK', [Next]_vars PROVE [Promise!Next]_(Promise!vars)
    OBVIOUS
  <2>1. ASSUME NEW l \in Listings, NEW m \in Listings, Relist(l, m) PROVE Promise!Next
    BY <2>1, RelistRefines
  <2>2. ASSUME from' = from, NEW k \in Listings, Acts(k)
        PROVE  [Promise!Next]_(Promise!vars)
    BY <2>2, TermsKeptRefines, SellingRefines, OfferingRefines
  <2>3. ASSUME from' = from, \A k \in Listings : Untouched(k)
        PROVE  UNCHANGED Promise!vars
    <3>1. entry' = entry
      <4>1. entry \in [Listings -> 0 .. MaxAmount] /\ entry' \in [Listings -> 0 .. MaxAmount]
        BY DEF Sound, TypeInv, TypeOK
      <4> QED
        BY <2>3, <4>1 DEF Untouched
    <3>2. \A k \in Listings : Relisted(k)' <=> Relisted(k)
      BY <2>3 DEF Relisted
    <3> QED
      BY <2>3, <3>1, <3>2, UntouchedLooksSame, MovesNone
  <2> QED
    BY <2>1, <2>2, <2>3, FromStep, OneListing DEF Sound, TypeInv
<1> QED
  BY <1>1, <1>2, TypesAlways, MoneyFollowsDisputeAlways, OrderAlways, SoldOnceAlways, PTL
  DEF Spec, Sound, TypeInv, ImplementsEscrow, Promise!Spec

-----------------------------------------------------------------------------
(* The ledger.  MapThenSumSet is recursive over the set; the sum is shown  *)
(* to be the number of elements of a set built without recursion, which    *)
(* the facts about finite sets then account for.                           *)

\* The element a sum over a set takes next, and the recursion MapThenSumSet unfolds to.
Picked(s) == CHOOSE x \in s : TRUE

IsSumOn(g, f, S) ==
  g = [s \in SUBSET S |-> IF s = {} THEN 0 ELSE f[Picked(s)] + g[s \ {Picked(s)}]]

\* A sum without recursion: as many coins for each element as its amount, counted.
Coins(f, s) == {p \in s \X Nat : p[2] \in 0 .. f[p[1]] - 1}

\* The coins of finitely many elements are finitely many.
LEMMA CoinsFinite ==
  ASSUME NEW S, IsFiniteSet(S), NEW m \in Nat, NEW f \in [S -> 0 .. m], NEW s \in SUBSET S
  PROVE  /\ IsFiniteSet(Coins(f, s))
         /\ Cardinality(Coins(f, s)) \in Nat
<1>1. IsFiniteSet(s) /\ IsFiniteSet(0 .. m)
  BY FS_Subset, FS_Interval
<1>2. IsFiniteSet(s \X (0 .. m))
  BY <1>1, FS_Product
<1>3. Coins(f, s) \subseteq s \X (0 .. m)
  BY DEF Coins
<1> QED
  BY <1>2, <1>3, FS_Subset, FS_CardinalityType

\* There are n numbers below n.
LEMMA Below ==
  ASSUME NEW n \in Nat
  PROVE  IsFiniteSet(0 .. n - 1) /\ Cardinality(0 .. n - 1) = n
BY FS_Interval

\* Taking one element away takes its coins away.
LEMMA CoinsWithout ==
  ASSUME NEW S, IsFiniteSet(S), NEW m \in Nat, NEW f \in [S -> 0 .. m], NEW s \in SUBSET S,
         NEW x \in s
  PROVE  Cardinality(Coins(f, s)) = f[x] + Cardinality(Coins(f, s \ {x}))
<1> DEFINE a == {x} \X (0 .. f[x] - 1)
           b == Coins(f, s \ {x})
<1>1. f[x] \in Nat
  OBVIOUS
<1>2. IsFiniteSet({x}) /\ Cardinality({x}) = 1
  BY FS_Singleton
<1>3. IsFiniteSet(0 .. f[x] - 1) /\ Cardinality(0 .. f[x] - 1) = f[x]
  BY <1>1, Below
<1>4. IsFiniteSet(a) /\ Cardinality(a) = f[x]
  <2>1. IsFiniteSet(a) /\ Cardinality(a) = Cardinality({x}) * Cardinality(0 .. f[x] - 1)
    BY <1>2, <1>3, FS_Product
  <2> QED
    BY <1>1, <1>2, <1>3, <2>1
<1>5. IsFiniteSet(b) /\ Cardinality(b) \in Nat
  BY CoinsFinite
<1>6. Coins(f, s) = a \cup b
  BY <1>1 DEF Coins
<1>7. a \cap b = {}
  BY DEF Coins
<1>8. Cardinality(a \cup b) = Cardinality(a) + Cardinality(b) - Cardinality(a \cap b)
  BY <1>4, <1>5, FS_Union
<1>9. Cardinality(a \cap b) = 0
  BY <1>7, FS_EmptySet
<1> HIDE DEF a, b
<1>10. Cardinality(a \cup b) = f[x] + Cardinality(b)
  BY <1>1, <1>4, <1>5, <1>8, <1>9
<1> QED
  BY <1>6, <1>10 DEF b

\* No elements, no coins.
LEMMA CoinsOfNone ==
  ASSUME NEW f
  PROVE Cardinality(Coins(f, {})) = 0
<1>1. Coins(f, {}) = {}
  BY DEF Coins
<1> QED
  BY <1>1, FS_EmptySet

\* Counting the coins satisfies the recursion, so something does ...
LEMMA SumExists ==
  ASSUME NEW S, IsFiniteSet(S), NEW m \in Nat, NEW f \in [S -> 0 .. m]
  PROVE  \E g : IsSumOn(g, f, S)
<1> DEFINE g == [s \in SUBSET S |-> Cardinality(Coins(f, s))]
           h == [s \in SUBSET S |-> IF s = {} THEN 0 ELSE f[Picked(s)] + g[s \ {Picked(s)}]]
<1>1. ASSUME NEW s \in SUBSET S PROVE g[s] = h[s]
  <2>1. CASE s = {}
    BY <2>1, CoinsOfNone
  <2>2. CASE s # {}
    <3>1. Picked(s) \in s
      BY <2>2 DEF Picked
    <3>2. g[s \ {Picked(s)}] = Cardinality(Coins(f, s \ {Picked(s)}))
      OBVIOUS
    <3> QED
      BY <2>2, <3>1, <3>2, CoinsWithout
  <2> QED
    BY <2>1, <2>2
<1>2. g = h
  BY <1>1
<1> QED
  BY <1>2 DEF IsSumOn

\* ... and whatever satisfies it counts the coins: a smallest set where it did not would
\* have an element to take away.
LEMMA SumIsCoins ==
  ASSUME NEW S, IsFiniteSet(S), NEW m \in Nat, NEW f \in [S -> 0 .. m],
         NEW g, IsSumOn(g, f, S)
  PROVE  g[S] = Cardinality(Coins(f, S))
<1> DEFINE T == {s \in SUBSET S : g[s] # Cardinality(Coins(f, s))}
<1> SUFFICES ASSUME T # {} PROVE FALSE
  OBVIOUS
<1>1. FiniteSubsetsOf(S) = SUBSET S
  BY FS_FiniteSubsetsOfFinite
<1>2. PICK s \in T : \A r \in T : <<r, s>> \notin StrictSubsetOrdering(S)
  <2>1. IsWellFoundedOn(StrictSubsetOrdering(S), SUBSET S)
    BY <1>1, FS_StrictSubsetOrderingWellFounded
  <2>2. T \subseteq SUBSET S
    OBVIOUS
  <2> HIDE DEF T
  <2> QED
    BY <2>1, <2>2, WFMin
<1>3. g[s] = IF s = {} THEN 0 ELSE f[Picked(s)] + g[s \ {Picked(s)}]
  BY DEF IsSumOn
<1>4. s # {}
  BY <1>3, CoinsOfNone
<1>5. Picked(s) \in s
  BY <1>4 DEF Picked
<1>6. s \ {Picked(s)} \notin T
  <2>1. <<s \ {Picked(s)}, s>> \in StrictSubsetOrdering(S)
    BY <1>5 DEF StrictSubsetOrdering
  <2> QED
    BY <1>2, <2>1
<1>7. g[s \ {Picked(s)}] = Cardinality(Coins(f, s \ {Picked(s)}))
  BY <1>6
<1>8. Cardinality(Coins(f, s)) = f[Picked(s)] + Cardinality(Coins(f, s \ {Picked(s)}))
  BY <1>5, CoinsWithout
<1> QED
  BY <1>3, <1>4, <1>7, <1>8

\* So the ledger balances when the balance is the number of coins in the entries.
LEMMA LedgerIs ==
  ASSUME IsFiniteSet(Listings), TypeOK
  PROVE  LedgerBalances <=> balance = Cardinality(Coins(entry, Listings))
<1>1. LedgerBalances <=> balance = (CHOOSE g : IsSumOn(g, entry, Listings))[Listings]
  BY Zenon DEF LedgerBalances, MapThenSumSet, MapThenFoldSet, IsSumOn, Picked
<1>2. entry \in [Listings -> 0 .. MaxAmount] /\ MaxAmount \in Nat
  BY BoundAssumption DEF TypeOK
<1>3. IsSumOn(CHOOSE g : IsSumOn(g, entry, Listings), entry, Listings)
  BY <1>2, SumExists
<1>4. (CHOOSE g : IsSumOn(g, entry, Listings))[Listings] = Cardinality(Coins(entry, Listings))
  BY <1>2, <1>3, SumIsCoins
<1> QED
  BY <1>1, <1>4

\* The same, after a step.
LEMMA LedgerIsNext ==
  ASSUME IsFiniteSet(Listings), TypeOK'
  PROVE  LedgerBalances' <=> balance' = Cardinality(Coins(entry', Listings))
<1>1. LedgerBalances' <=> balance' = (CHOOSE g : IsSumOn(g, entry', Listings))[Listings]
  BY Zenon DEF LedgerBalances, MapThenSumSet, MapThenFoldSet, IsSumOn, Picked
<1>2. entry' \in [Listings -> 0 .. MaxAmount] /\ MaxAmount \in Nat
  BY BoundAssumption DEF TypeOK
<1>3. IsSumOn(CHOOSE g : IsSumOn(g, entry', Listings), entry', Listings)
  BY <1>2, SumExists
<1>4. (CHOOSE g : IsSumOn(g, entry', Listings))[Listings] = Cardinality(Coins(entry', Listings))
  BY <1>2, <1>3, SumIsCoins
<1> QED
  BY <1>1, <1>4

\* Money moves by one payout at a time, of a sale that had none.
LEMMA PayoutStep ==
  ASSUME TypeOK, [Next]_vars
  PROVE  \/ UNCHANGED money
         \/ \E k \in Listings : /\ entry[k] = 0
                                /\ entry' = [entry EXCEPT ![k] = sale[k].amount]
                                /\ balance' = balance + sale[k].amount
<1> USE DEF money
<1>1. CASE UNCHANGED vars \/ Tick
  BY <1>1 DEF vars, Tick
<1>2. ASSUME NEW l \in Listings,
             Approve(l) \/ TakeDown(l) \/ AuctionSells(l) \/ Pay(l) \/ PayDeclined(l)
             \/ AdminVoid(l) \/ OfferToNextBidder(l) \/ \E m \in Listings : Relist(l, m)
      PROVE  UNCHANGED money
  BY <1>2 DEF Approve, TakeDown, AuctionSells, Pay, PayDeclined, AdminVoid, OfferToNextBidder,
              Relist
<1>3. ASSUME NEW l \in Listings,
             MarkShipped(l) \/ RaiseDispute(l) \/ RespondToDispute(l) \/ ResolveRefund(l)
             \/ ResolveRelease(l) \/ ReleaseDies(l)
      PROVE  UNCHANGED money
  BY <1>3 DEF MarkShipped, RaiseDispute, RespondToDispute, ResolveRefund, ResolveRelease,
              ReleaseDies
<1>4. ASSUME NEW s \in Sweepers,
             \/ \E l \in Listings : VoidOverduePayment(s, l)
             \/ ListOverduePayments(s) \/ ListTimedOutShipments(s) \/ SweepDies(s)
      PROVE  UNCHANGED money
  BY <1>4 DEF VoidOverduePayment, ListOverduePayments, ListTimedOutShipments, SweepDies
<1>5. ASSUME NEW l \in Listings,
             \/ ConfirmReceipt(l) \/ ReleasePays(l) \/ \E s \in Sweepers : AutoConfirm(s, l)
      PROVE  \/ UNCHANGED money
             \/ /\ entry[l] = 0 /\ entry' = [entry EXCEPT ![l] = sale[l].amount]
                /\ balance' = balance + sale[l].amount
  BY <1>5 DEF ConfirmReceipt, ReleasePays, AutoConfirm, ConfirmDelivery
<1> HIDE DEF money
<1> QED
  BY <1>1, <1>2, <1>3, <1>4, <1>5 DEF Next

\* The running total kept on the seller's account equals the ledger entries, for any
\* finite number of listings.
THEOREM LedgerBalancesAlways ==
  ASSUME IsFiniteSet(Listings)
  PROVE  Spec => []LedgerBalances
<1>1. Init => LedgerBalances
  <2> SUFFICES ASSUME Init PROVE LedgerBalances
    OBVIOUS
  <2>1. TypeOK
    BY InitTyped DEF TypeInv
  <2>2. Coins(entry, Listings) = {}
    BY DEF Init, Coins
  <2> QED
    BY <2>1, <2>2, LedgerIs, FS_EmptySet DEF Init
<1>2. TypeInv /\ TypeInv' /\ LedgerBalances /\ [Next]_vars => LedgerBalances'
  <2> SUFFICES ASSUME TypeOK, TypeOK', LedgerBalances, [Next]_vars PROVE LedgerBalances'
    BY DEF TypeInv
  <2>1. balance = Cardinality(Coins(entry, Listings))
    BY LedgerIs
  <2>2. SUFFICES balance' = Cardinality(Coins(entry', Listings))
    BY LedgerIsNext
  <2>3. CASE UNCHANGED money
    BY <2>1, <2>3 DEF money
  <2>4. ASSUME NEW k \in Listings, entry[k] = 0,
               entry' = [entry EXCEPT ![k] = sale[k].amount],
               balance' = balance + sale[k].amount
        PROVE  balance' = Cardinality(Coins(entry', Listings))
    <3> DEFINE others == Listings \ {k}
    <3>1. /\ entry \in [Listings -> 0 .. MaxAmount] /\ entry' \in [Listings -> 0 .. MaxAmount]
          /\ MaxAmount \in Nat /\ balance \in Nat
      BY BoundAssumption DEF TypeOK
    <3>2. Cardinality(Coins(entry, Listings)) = entry[k] + Cardinality(Coins(entry, others))
      BY <3>1, CoinsWithout
    <3>3. Cardinality(Coins(entry', Listings)) = entry'[k] + Cardinality(Coins(entry', others))
      BY <3>1, CoinsWithout
    <3>4. Coins(entry', others) = Coins(entry, others)
      BY <2>4, <3>1 DEF Coins
    <3>5. entry'[k] = sale[k].amount /\ sale[k].amount \in Nat
      BY <2>4, <3>1
    <3>6. Cardinality(Coins(entry, others)) \in Nat
      BY <3>1, CoinsFinite
    <3> HIDE DEF others
    <3> QED
      BY <2>1, <2>4, <3>1, <3>2, <3>3, <3>4, <3>5, <3>6
  <2> QED
    BY <2>3, <2>4, PayoutStep
<1> QED
  BY <1>1, <1>2, TypesAlways, PTL DEF Spec
-----------------------------------------------------------------------------
(* What My Items offers.                                                   *)

\* OffersWork with the guards of the four endpoints in place of ENABLED: every variable an
\* action primes it sets to a value, so it is enabled exactly where its guard holds.
OffersPassGuards ==
  \A l \in Listings :
    /\ Offered(l, "MARK_SHIPPED") => Is(l, {"COMPLETED"}) /\ sale[l].address # NoBuyer
    /\ Offered(l, "RESPOND_TO_DISPUTE") =>
         \/ dispute[l] = [status |-> "OPEN", answered |-> FALSE]
         \/ dispute[l].status = "RESOLVED_RELEASED"
    /\ Offered(l, "OFFER_NEXT_BIDDER") =>
         /\ Is(l, {"VOIDED"}) /\ ~Relisted(l) /\ listing[l] # "REMOVED"
         /\ \E b \in Buyers, d \in PaymentDeadlines : IsNextBid(l, b)
    /\ Offered(l, "RELIST") => Is(l, {"VOIDED"}) /\ ~Relisted(l) /\ listing[l] # "REMOVED"

\* Where there is a candidate there is a next bid: some candidate leaves the least room
\* below the highest amount.
LEMMA SomeNextBid ==
  ASSUME TypeOK, NEW l \in Listings, Candidates(l) # {}
  PROVE  \E b \in Buyers : IsNextBid(l, b)
<1> DEFINE room(b) == MaxAmount - bid[l][b]
           Rooms == {room(b) : b \in Candidates(l)}
<1>1. \A b \in Candidates(l) : b \in Buyers /\ bid[l][b] \in Nat /\ room(b) \in Nat
  BY BoundAssumption DEF TypeOK, Candidates
<1>2. Rooms \subseteq Nat /\ Rooms # {}
  BY <1>1
<1>3. PICK n \in Rooms : \A m \in Rooms : <<m, n>> \notin OpToRel(<, Nat)
  <2> HIDE DEF Rooms
  <2> QED
    BY <1>2, WFMin, NatLessThanWellFounded, Zenon
<1>4. PICK b \in Candidates(l) : n = room(b)
  OBVIOUS
<1>5. ASSUME NEW c \in Candidates(l) PROVE bid[l][c] <= bid[l][b]
  <2>1. ~(room(c) < room(b))
    <3>1. room(c) \in Rooms /\ room(c) \in Nat /\ room(b) \in Nat
      BY <1>1
    <3> HIDE DEF room, Rooms
    <3> QED
      BY <1>3, <1>4, <3>1 DEF OpToRel
  <2> QED
    BY <1>1, <2>1, BoundAssumption
<1> QED
  BY <1>1, <1>5 DEF IsNextBid

\* Each of the four actions is offered in one stage of the sale only.
LEMMA OfferedWhen ==
  ASSUME TypeOK, NEW l \in Listings
  PROVE  /\ Offered(l, "MARK_SHIPPED") => Is(l, {"COMPLETED"})
         /\ Offered(l, "RESPOND_TO_DISPUTE") => Is(l, {"DISPUTED"}) /\ ~dispute[l].answered
         /\ Offered(l, "RELIST") \/ Offered(l, "OFFER_NEXT_BIDDER") =>
              Is(l, {"VOIDED"}) /\ ~Relisted(l) /\ listing[l] # "REMOVED"
         /\ Offered(l, "OFFER_NEXT_BIDDER") => Candidates(l) # {}
<1> DEFINE f == factsOf(l)
<1>1. CASE sale[l] = NoSale
  BY <1>1 DEF Offered
<1>2. CASE sale[l] # NoSale
  <2>1. /\ f.txn = sale[l].status /\ f.txn \in SaleStatuses
        /\ f.disputeResponded = dispute[l].answered /\ f.relisted = Relisted(l)
        /\ f.listing = listing[l] /\ f.hasNextBidder = (Candidates(l) # {})
    BY <1>2 DEF factsOf, TypeOK, Sale
  <2>2. deriveStage(f) = SaleStage(f)
    BY <2>1 DEF deriveStage, SaleStatuses
  <2>3. dispute[l].answered \in BOOLEAN /\ Relisted(l) \in BOOLEAN
    BY DEF TypeOK, Relisted
  <2> HIDE DEF f
  <2>4. "MARK_SHIPPED" \in allowedActions(SaleStage(f), f) => f.txn = "COMPLETED"
    BY <2>1, <2>3 DEF SaleStage, allowedActions, SaleStatuses
  <2>5. "RESPOND_TO_DISPUTE" \in allowedActions(SaleStage(f), f) =>
          f.txn = "DISPUTED" /\ ~f.disputeResponded
    BY <2>1, <2>3 DEF SaleStage, allowedActions, SaleStatuses
  <2>6. "RELIST" \in allowedActions(SaleStage(f), f) =>
          f.txn = "VOIDED" /\ ~f.relisted /\ f.listing # "REMOVED"
    BY <2>1, <2>3 DEF SaleStage, allowedActions, SaleStatuses
  <2>7. "OFFER_NEXT_BIDDER" \in allowedActions(SaleStage(f), f) =>
          f.txn = "VOIDED" /\ ~f.relisted /\ f.listing # "REMOVED" /\ f.hasNextBidder
    BY <2>1, <2>3 DEF SaleStage, allowedActions, SaleStatuses
  <2> QED
    BY <1>2, <2>1, <2>2, <2>4, <2>5, <2>6, <2>7 DEF Offered, Is, f
<1> QED
  BY <1>1, <1>2

\* What My Items offers on a sale its endpoint accepts at that moment, whatever buyers, sweeps
\* and admins do meanwhile: the four endpoints and the stage rules of seller-item-stage.ts state
\* the same preconditions twice.  The address of a sale to be shipped is there because only the
\* winner's payment completes a sale, and an open dispute stands on every disputed sale that is
\* not decided.  Offering needs that some payment deadline can be set.
THEOREM OffersPassGuardsAlways ==
  ASSUME PaymentDeadlines # {}
  PROVE  Spec => []OffersPassGuards
<1>1. TypeInv /\ MoneyFollowsDispute /\ RowIsWinners => OffersPassGuards
  <2> SUFFICES ASSUME TypeOK, MoneyFollowsDispute, RowIsWinners, NEW l \in Listings
               PROVE  OffersPassGuards!(l)
    BY DEF TypeInv, OffersPassGuards
  <2>1. Offered(l, "MARK_SHIPPED") => Is(l, {"COMPLETED"}) /\ sale[l].address # NoBuyer
    <3>1. Is(l, {"COMPLETED"}) => sale[l].address = sale[l].winner /\ sale[l].winner \in Buyers
      BY DEF Is, RowIsWinners, PAID_STATUSES, TypeOK, Sale
    <3> QED
      BY <3>1, OfferedWhen, IdAssumption
  <2>2. Offered(l, "RESPOND_TO_DISPUTE") =>
         \/ dispute[l] = [status |-> "OPEN", answered |-> FALSE]
         \/ dispute[l].status = "RESOLVED_RELEASED"
    <3>1. Is(l, {"DISPUTED"}) => dispute[l].status \in {"OPEN", "RESOLVED_RELEASED"}
      BY DEF MoneyFollowsDispute, DisputeMatchesSale
    <3> QED
      BY <3>1, OfferedWhen DEF TypeOK
  <2>3. Offered(l, "OFFER_NEXT_BIDDER") =>
         /\ Is(l, {"VOIDED"}) /\ ~Relisted(l) /\ listing[l] # "REMOVED"
         /\ \E b \in Buyers, d \in PaymentDeadlines : IsNextBid(l, b)
    BY OfferedWhen, SomeNextBid
  <2>4. Offered(l, "RELIST") => Is(l, {"VOIDED"}) /\ ~Relisted(l) /\ listing[l] # "REMOVED"
    BY OfferedWhen
  <2> QED
    BY <2>1, <2>2, <2>3, <2>4
<1> QED
  BY <1>1, TypesAlways, MoneyFollowsDisputeAlways, RowIsWinnersAlways, PTL DEF Spec

-----------------------------------------------------------------------------
(* Liveness.  Fairness speaks of steps that are enabled.  That an action   *)
(* is enabled when its guard holds is read off its text (what follows the  *)
(* guard gives each variable its next value) and is a premise here.  So is *)
(* that a sweep comes to the end of its list, again and again: each item   *)
(* leaves it by a fair step and none joins it meanwhile.                   *)

PaymentSweepIdle(s) == voiding[s] = {}
SomethingOverdue == \E l \in Listings : IsPaymentOverdue(l)
PaymentSweepsEnd(s) == []<>PaymentSweepIdle(s)

SweepFindsPayments(s) ==
  PaymentSweepIdle(s) /\ SomethingOverdue =>
    ENABLED <<ListOverduePayments(s)>>_vars
ListedForVoid(s, l) == l \in voiding[s]
SweepHandlesPayment(s, l) ==
  ListedForVoid(s, l) => ENABLED <<VoidOverduePayment(s, l)>>_vars

PaymentGuardsSuffice ==
  \A s \in Sweepers :
    SweepFindsPayments(s) /\ \A l \in Listings : SweepHandlesPayment(s, l)

\* One sweep, one sale.  If the sale stayed unpaid and overdue, the sweep would never void it,
\* so from some moment on it would not be on the list; then the sweep could not read a new list,
\* which would hold it; so once at its end it would stay there, with something to list.
LEMMA SweepGivesUp ==
  ASSUME NEW s \in Sweepers, NEW l \in Listings
  PROVE  /\ Spec /\ PaymentSweepStarts(s) /\ VoidGoesThrough(s, l)
         /\ []SweepFindsPayments(s) /\ []SweepHandlesPayment(s, l) /\ PaymentSweepsEnd(s)
         => (IsPaymentOverdue(l) ~> ~IsPaymentOverdue(l))
<1>1. TypeInv /\ [Next]_vars /\ <<VoidOverduePayment(s, l)>>_vars => ~IsPaymentOverdue(l)'
  <2> SUFFICES ASSUME TypeInv, VoidOverduePayment(s, l) PROVE ~IsPaymentOverdue(l)'
    OBVIOUS
  <2>1. CASE IsPaymentOverdue(l)
    <3>0. sale[l] \in Sale
      BY <2>1, IsSale DEF IsPaymentOverdue, TypeInv
    <3>1. VoidWith(l, "TRANSACTION_VOIDED_OVERDUE")
      BY <2>1 DEF VoidOverduePayment
    <3>2. sale'[l].status = "VOIDED"
      BY <3>0, <3>1 DEF VoidWith, TypeInv, TypeOK, Sale
    <3> QED
      BY <3>2 DEF IsPaymentOverdue, Is
  <2>2. CASE ~IsPaymentOverdue(l)
    BY <2>2 DEF VoidOverduePayment, IsPaymentOverdue, Is
  <2> QED
    BY <2>1, <2>2
<1>2. TypeInv /\ <<ListOverduePayments(s)>>_vars /\ IsPaymentOverdue(l) => ListedForVoid(s, l)'
  BY DEF ListOverduePayments, ListedForVoid, TypeInv, TypeOK
<1>3. TypeInv /\ [Next]_vars /\ PaymentSweepIdle(s) =>
        PaymentSweepIdle(s)' \/ <<ListOverduePayments(s)>>_vars
  <2> SUFFICES ASSUME TypeOK, [Next]_vars, PaymentSweepIdle(s), ~ListOverduePayments(s)
               PROVE  PaymentSweepIdle(s)'
    BY DEF TypeInv, vars, sweeps, PaymentSweepIdle, ListOverduePayments
  <2> QED
    BY ListStep DEF PaymentSweepIdle
<1>4. IsPaymentOverdue(l) => SomethingOverdue
  BY DEF SomethingOverdue
<1> QED
  BY <1>1, <1>2, <1>3, <1>4, TypesAlways, PTL
  DEF Spec, PaymentSweepStarts, VoidGoesThrough, SweepFindsPayments, SweepHandlesPayment,
      PaymentSweepsEnd

\* The item of a winner who never pays is given up, whatever the admin, the buyers and the
\* other sweeps do, whoever crashes, and however often a sweep fails half-way: it takes one
\* worker process that keeps sweeping.  Of the payment sweep, autoVoidOverduePayments.
THEOREM UnpaidGivenUpIfFair ==
  /\ FairSpec /\ []PaymentGuardsSuffice
  /\ \E s \in Sweepers : PaymentSweepsEnd(s)
  => UnpaidGivenUp
<1>1. ASSUME NEW s \in Sweepers, NEW l \in Listings
      PROVE  FairSpec /\ []PaymentGuardsSuffice /\ PaymentSweepsEnd(s) =>
               (IsPaymentOverdue(l) ~> ~IsPaymentOverdue(l))
  <2>1. Fairness => PaymentSweepStarts(s) /\ VoidGoesThrough(s, l)
    BY DEF Fairness
  <2>2. PaymentGuardsSuffice => SweepFindsPayments(s) /\ SweepHandlesPayment(s, l)
    BY DEF PaymentGuardsSuffice
  <2>3. []PaymentGuardsSuffice => []SweepFindsPayments(s) /\ []SweepHandlesPayment(s, l)
    BY <2>2, PTL
  <2> QED
    BY <2>1, <2>3, SweepGivesUp DEF FairSpec
<1> QED
  BY <1>1 DEF UnpaidGivenUp
\* The shipment sweep likewise.  It asks for the review timeout each time, so only a sale that
\* has waited longer than any timeout is on every list.
WaitedOut(l) == Is(l, {"SHIPPED"}) /\ \A t \in ReviewTimeouts : TimedOut(l, t)
SomethingWaited == \E t \in ReviewTimeouts, l \in Listings : TimedOut(l, t)

ShipmentSweepIdle(s) == confirming[s] = {}
ShipmentSweepsEnd(s) == []<>ShipmentSweepIdle(s)

SweepFindsShipments(s) ==
  ShipmentSweepIdle(s) /\ SomethingWaited => ENABLED <<ListTimedOutShipments(s)>>_vars
ListedForConfirm(s, l) == l \in confirming[s]
SweepHandlesShipment(s, l) ==
  ListedForConfirm(s, l) /\ (Is(l, {"SHIPPED"}) => entry[l] = 0) =>
    ENABLED <<AutoConfirm(s, l)>>_vars

ShipmentGuardsSuffice ==
  \A s \in Sweepers :
    SweepFindsShipments(s) /\ \A l \in Listings : SweepHandlesShipment(s, l)

IsShipped(l) == Is(l, {"SHIPPED"})
NothingPaidYet(l) == IsShipped(l) => entry[l] = 0

\* A shipment that waited too long goes on waiting too long.
LEMMA WaitsOn ==
  ASSUME TypeInv, MoneyFollowsDispute, [Next]_vars, NEW s \in Sweepers, NEW l \in Listings,
         WaitedOut(l), Is(l, {"SHIPPED"})'
  PROVE  WaitedOut(l)'
<1>1. sale'[l].shippedAt = sale[l].shippedAt
  BY ShippedStays DEF WaitedOut, Is
<1>2. now' \in Nat /\ now' >= now /\ now \in Nat
  BY ListStep DEF TypeInv, TypeOK
<1>3. sale[l].shippedAt \in Nat
  BY IsSale DEF WaitedOut, TypeInv, Sale
<1>4. ASSUME NEW t \in ReviewTimeouts PROVE TimedOut(l, t)'
  <2>1. sale[l].shippedAt + t < now /\ t \in Nat
    BY BoundAssumption DEF WaitedOut, TimedOut
  <2>2. sale[l].shippedAt + t < now'
    BY <1>2, <1>3, <2>1
  <2> QED
    BY <1>1, <2>2 DEF TimedOut
<1> QED
  BY <1>4 DEF WaitedOut

LEMMA SweepConfirms ==
  ASSUME NEW s \in Sweepers, NEW l \in Listings, ReviewTimeouts # {}
  PROVE  /\ Spec /\ ShipmentSweepStarts(s) /\ ConfirmGoesThrough(s, l)
         /\ []SweepFindsShipments(s) /\ []SweepHandlesShipment(s, l) /\ ShipmentSweepsEnd(s)
         => (WaitedOut(l) ~> ~IsShipped(l))
<1>1. TypeInv /\ [Next]_vars /\ <<AutoConfirm(s, l)>>_vars => ~IsShipped(l)'
  <2> SUFFICES ASSUME TypeInv, AutoConfirm(s, l) PROVE ~IsShipped(l)'
    OBVIOUS
  <2>1. CASE ConfirmDelivery(l, "SHIPPED")
    <3>0. sale[l] \in Sale
      BY <2>1, IsSale DEF ConfirmDelivery, TypeInv
    <3>1. sale'[l].status = "DELIVERED"
      BY <2>1, <3>0 DEF ConfirmDelivery, TypeInv, TypeOK, Sale
    <3> QED
      BY <3>1 DEF IsShipped, Is
  <2>2. CASE ~ConfirmDelivery(l, "SHIPPED")
    BY <2>2 DEF AutoConfirm, IsShipped, Is
  <2> QED
    BY <2>1, <2>2
<1>2. TypeInv /\ <<ListTimedOutShipments(s)>>_vars /\ WaitedOut(l) => ListedForConfirm(s, l)'
  BY DEF ListTimedOutShipments, WaitedOut, ListedForConfirm, TypeInv, TypeOK
<1>3. TypeInv /\ [Next]_vars /\ ShipmentSweepIdle(s) =>
        ShipmentSweepIdle(s)' \/ <<ListTimedOutShipments(s)>>_vars
  <2> SUFFICES ASSUME TypeOK, [Next]_vars, ShipmentSweepIdle(s), ~ListTimedOutShipments(s)
               PROVE  ShipmentSweepIdle(s)'
    BY DEF TypeInv, vars, sweeps, ShipmentSweepIdle, ListTimedOutShipments
  <2> QED
    BY ListStep DEF ShipmentSweepIdle
<1>4. WaitedOut(l) => SomethingWaited
  BY DEF WaitedOut, SomethingWaited
<1>5. TypeInv /\ MoneyFollowsDispute /\ [Next]_vars /\ WaitedOut(l) => WaitedOut(l)' \/ ~IsShipped(l)'
  BY WaitsOn DEF IsShipped
<1>6. MoneyFollowsDispute => NothingPaidYet(l)
  <2> SUFFICES ASSUME MoneyFollowsDispute, IsShipped(l) PROVE entry[l] = 0
    BY DEF NothingPaidYet
  <2> QED
    BY DEF MoneyFollowsDispute, PaidOutWhenDelivered, IsShipped, Is
<1>7. SweepHandlesShipment(s, l) /\ NothingPaidYet(l) =>
        (ListedForConfirm(s, l) => ENABLED <<AutoConfirm(s, l)>>_vars)
  BY DEF SweepHandlesShipment, NothingPaidYet, IsShipped
<1> QED
  BY <1>1, <1>2, <1>3, <1>4, <1>5, <1>6, <1>7, TypesAlways, MoneyFollowsDisputeAlways, PTL
  DEF Spec, ShipmentSweepStarts, ConfirmGoesThrough, SweepFindsShipments, ShipmentSweepsEnd

\* A shipment nobody confirms or disputes for longer than any review timeout in use is settled,
\* by the buyer or by a worker process that keeps sweeping (autoConfirmTimedOutShipments): the
\* balance is credited by a transaction that finds the sale still shipped and not paid out.
THEOREM ShipmentsResolveIfFair ==
  ASSUME ReviewTimeouts # {}
  PROVE  /\ FairSpec /\ []ShipmentGuardsSuffice
         /\ \E s \in Sweepers : ShipmentSweepsEnd(s)
         => \A l \in Listings : WaitedOut(l) ~> ~IsShipped(l)
<1>1. ASSUME NEW s \in Sweepers, NEW l \in Listings
      PROVE  FairSpec /\ []ShipmentGuardsSuffice /\ ShipmentSweepsEnd(s) =>
               (WaitedOut(l) ~> ~IsShipped(l))
  <2>1. Fairness => ShipmentSweepStarts(s) /\ ConfirmGoesThrough(s, l)
    BY DEF Fairness
  <2>2. ShipmentGuardsSuffice => SweepFindsShipments(s) /\ SweepHandlesShipment(s, l)
    BY DEF ShipmentGuardsSuffice
  <2>3. []ShipmentGuardsSuffice => []SweepFindsShipments(s) /\ []SweepHandlesShipment(s, l)
    BY <2>2, PTL
  <2> QED
    BY <2>1, <2>3, SweepConfirms DEF FairSpec
<1> QED
  BY <1>1

\* The same with one review timeout that no admin changes, in the words of the run.
THEOREM ShipmentsResolveIfFixed ==
  ASSUME NEW timeout, ReviewTimeouts = {timeout}
  PROVE  /\ FairSpec /\ []ShipmentGuardsSuffice
         /\ \E s \in Sweepers : ShipmentSweepsEnd(s)
         => ShipmentsResolve
<1>1. ASSUME NEW l \in Listings, NEW t \in ReviewTimeouts
      PROVE  (WaitedOut(l) ~> ~IsShipped(l)) =>
               (Is(l, {"SHIPPED"}) /\ sale[l].shippedAt + t < now ~> ~Is(l, {"SHIPPED"}))
  <2>1. Is(l, {"SHIPPED"}) /\ sale[l].shippedAt + t < now => WaitedOut(l)
    BY DEF WaitedOut, TimedOut
  <2>2. IsShipped(l) <=> Is(l, {"SHIPPED"})
    BY DEF IsShipped
  <2> QED
    BY <2>1, <2>2, PTL
<1>2. ReviewTimeouts # {}
  OBVIOUS
<1> QED
  BY <1>1, <1>2, ShipmentsResolveIfFair DEF ShipmentsResolve

\* A release decided is under way until it is paid out or dies.
Decided(l) == dispute[l].status = "RESOLVED_RELEASED"
IsDelivered(l) == Is(l, {"DELIVERED"})
PayoutUnderWay(l) == l \in releasing
UnderWayOrDone(l) == Decided(l) => PayoutUnderWay(l) \/ IsDelivered(l)
PaysWhenDecided(l) ==
  PayoutUnderWay(l) /\ Is(l, {"DISPUTED"}) /\ entry[l] = 0 => ENABLED <<ReleasePays(l)>>_vars
ReleaseGuardsSuffice == \A l \in Listings : PaysWhenDecided(l)
ReleaseLives(l) == [][~ReleaseDies(l)]_vars

\* A release leaves those under way when it is paid out or dies.
LEMMA LeavesReleasing ==
  ASSUME TypeOK, [Next]_vars, NEW l \in releasing
  PROVE  l \in releasing' \/ ReleasePays(l) \/ ReleaseDies(l)
<1> USE DEF rows, money, sweeps, TypeOK
<1>1. CASE UNCHANGED vars \/ Tick
  BY <1>1 DEF vars, Tick
<1>2. ASSUME NEW s \in Sweepers,
             \/ ListTimedOutShipments(s) \/ SweepDies(s) \/ ListOverduePayments(s)
             \/ \E k \in Listings : VoidOverduePayment(s, k) \/ AutoConfirm(s, k)
      PROVE  releasing' = releasing
  BY <1>2 DEF ListTimedOutShipments, SweepDies, ListOverduePayments, VoidOverduePayment, AutoConfirm
<1>3. ASSUME NEW k \in Listings,
             \/ Approve(k) \/ AuctionSells(k) \/ TakeDown(k) \/ Pay(k) \/ PayDeclined(k)
             \/ AdminVoid(k) \/ OfferToNextBidder(k) \/ \E m \in Listings : Relist(k, m)
      PROVE  releasing' = releasing
  BY <1>3 DEF Approve, AuctionSells, TakeDown, Pay, PayDeclined, AdminVoid, OfferToNextBidder,
              Relist
<1>4. ASSUME NEW k \in Listings,
             \/ MarkShipped(k) \/ ConfirmReceipt(k) \/ RaiseDispute(k) \/ RespondToDispute(k)
             \/ ResolveRefund(k) \/ ResolveRelease(k)
      PROVE  l \in releasing'
  BY <1>4 DEF MarkShipped, ConfirmReceipt, RaiseDispute, RespondToDispute, ResolveRefund,
              ResolveRelease
<1>5. ASSUME NEW k \in Listings, ReleasePays(k) \/ ReleaseDies(k)
      PROVE  l \in releasing' \/ k = l
  BY <1>5 DEF ReleasePays, ReleaseDies
<1> HIDE DEF rows, money, sweeps, TypeOK
<1> QED
  BY <1>1, <1>2, <1>3, <1>4, <1>5 DEF Next

\* A payout makes its sale a delivered one.
LEMMA PaysIsDelivered ==
  ASSUME TypeInv, NEW l \in Listings, ReleasePays(l)
  PROVE  IsDelivered(l)'
<1>1. sale[l] \in Sale
  BY IsSale DEF ReleasePays, ConfirmDelivery, TypeInv
<1>2. sale'[l] # NoSale
  <2>1. Delivered(l, "DISPUTED")
    BY DEF Delivered, ReleasePays, rows
  <2> QED
    BY <2>1, ActedOnIsSale, NoSaleAssumption DEF Acts
<1>3. sale'[l].status = "DELIVERED"
  BY <1>1 DEF ReleasePays, ConfirmDelivery, TypeInv, TypeOK, Sale
<1> QED
  BY <1>2, <1>3 DEF IsDelivered, Is

\* A decided release stays decided and, while it lives, is under way or done.
LEMMA ReleaseStep ==
  ASSUME TypeInv, MoneyFollowsDispute, NEW l \in Listings, UnderWayOrDone(l),
         [Next]_vars, [~ReleaseDies(l)]_vars
  PROVE  /\ UnderWayOrDone(l)'
         /\ Decided(l) => Decided(l)'
<1> USE DEF TypeInv
<1>1. PayoutUnderWay(l) => PayoutUnderWay(l)' \/ IsDelivered(l)'
  <2>1. CASE UNCHANGED vars
    BY <2>1 DEF vars, PayoutUnderWay
  <2>2. CASE ~UNCHANGED vars
    BY <2>2, LeavesReleasing, PaysIsDelivered DEF PayoutUnderWay
  <2> QED
    BY <2>1, <2>2
<1>2. CASE Untouched(l)
  BY <1>1, <1>2 DEF Untouched, UnderWayOrDone, Decided, IsDelivered, Is
<1>3. CASE Acts(l)
  <2>1. CASE ResolveRelease(l)
    BY <2>1 DEF ResolveRelease, UnderWayOrDone, Decided, PayoutUnderWay, TypeOK
  <2>2. CASE RespondToDispute(l) \/ ResolveRefund(l) \/ RaiseDispute(l)
    <3>1. ~Decided(l)'
      BY <2>2 DEF RespondToDispute, ResolveRefund, RaiseDispute, Decided, TypeOK
    <3>2. ~Decided(l)
      BY <2>2 DEF RespondToDispute, ResolveRefund, RaiseDispute, Decided, MoneyFollowsDispute,
                  DisputeMatchesSale, Is
    <3> QED
      BY <3>1, <3>2 DEF UnderWayOrDone
  <2>3. CASE /\ ~ResolveRelease(l) /\ ~RespondToDispute(l) /\ ~ResolveRefund(l)
             /\ ~RaiseDispute(l)
    <3>1. dispute' = dispute /\ ~IsDelivered(l)
      BY <1>3, <2>3 DEF Acts, AuctionSells, Pay, PayDeclined, Voided, OfferToNextBidder, MarkShipped,
                        Delivered, ConfirmDelivery, IsDelivered, Is
    <3> QED
      BY <1>1, <3>1 DEF Decided, UnderWayOrDone
  <2> QED
    BY <2>1, <2>2, <2>3
<1> QED
  BY <1>2, <1>3, OneListing

LEMMA ReleaseGetsPaid ==
  ASSUME NEW l \in Listings
  PROVE  Spec /\ ReleaseGoesOn(l) /\ []PaysWhenDecided(l) /\ ReleaseLives(l)
         => (Decided(l) ~> IsDelivered(l))
<1>1. Init => UnderWayOrDone(l)
  BY DEF Init, UnderWayOrDone, Decided, NoDispute
<1>2. TypeInv /\ MoneyFollowsDispute /\ UnderWayOrDone(l) /\ [Next]_vars /\ [~ReleaseDies(l)]_vars
        => UnderWayOrDone(l)'
  BY ReleaseStep
<1>3. TypeInv /\ MoneyFollowsDispute /\ UnderWayOrDone(l) /\ Decided(l)
      /\ [Next]_vars /\ [~ReleaseDies(l)]_vars => Decided(l)'
  BY ReleaseStep
<1>4. MoneyFollowsDispute /\ PaysWhenDecided(l) /\ PayoutUnderWay(l) =>
        ENABLED <<ReleasePays(l)>>_vars
  BY DEF MoneyFollowsDispute, DisputeMatchesSale, PaidOutWhenDelivered, PaysWhenDecided,
         PayoutUnderWay, Is
<1>5. UnderWayOrDone(l) /\ Decided(l) => PayoutUnderWay(l) \/ IsDelivered(l)
  BY DEF UnderWayOrDone
<1>6. TypeInv /\ <<ReleasePays(l)>>_vars => IsDelivered(l)'
  BY PaysIsDelivered
<1> QED
  BY <1>1, <1>2, <1>3, <1>4, <1>5, <1>6, TypesAlways, MoneyFollowsDisputeAlways, PTL
  DEF Spec, ReleaseGoesOn, ReleaseLives

\* What fails in release_lost, and nothing else: without a crash or an error between the commit
\* of a RELEASE decision and the payout (resolveDispute), every released sale is paid out.  No
\* step of anybody else can take the sale out of DISPUTED or write its ledger entry meanwhile.
THEOREM ReleasedIsPaidOutUnlessItDies ==
  FairSpec /\ []ReleaseGuardsSuffice /\ (\A l \in Listings : ReleaseLives(l)) => ReleasedIsPaidOut
<1>1. ASSUME NEW l \in Listings
      PROVE  FairSpec /\ []ReleaseGuardsSuffice /\ ReleaseLives(l) =>
               (Decided(l) ~> IsDelivered(l))
  <2>1. Fairness => ReleaseGoesOn(l)
    BY DEF Fairness
  <2>2. ReleaseGuardsSuffice => PaysWhenDecided(l)
    BY DEF ReleaseGuardsSuffice
  <2>3. []ReleaseGuardsSuffice => []PaysWhenDecided(l)
    BY <2>2, PTL
  <2> QED
    BY <2>1, <2>3, ReleaseGetsPaid DEF FairSpec
<1> QED
  BY <1>1 DEF ReleasedIsPaidOut, Decided, IsDelivered
===============================================================================
