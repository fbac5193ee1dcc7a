--------------------------- MODULE SaleLifecycle ---------------------------
(***************************************************************************)
(* The sale of a won item, from the AuctionTransaction row the closing of  *)
(* the auction creates to its end: payment (payments.routes.ts), the       *)
(* payment-deadline sweep, the offer to the next bidder, the relist and    *)
(* the takedown (auction-control.service.ts), shipping, receipt, disputes  *)
(* and the shipment sweep (fulfillment.service.ts), the admin's void       *)
(* (admin.routes.ts).                                                      *)
(*                                                                         *)
(* Auction.listingId and AuctionTransaction.auctionId are unique, so a     *)
(* listing stands for its auction and its sale too.  All listings here     *)
(* belong to one seller; sellers share no state.  Each transaction locks   *)
(* the row it decides on first and is one action; the two sweeps read      *)
(* their lists in one step and handle each item in a later one.            *)
(***************************************************************************)
EXTENDS Naturals, Sequences, FiniteSetsExt

CONSTANTS
  Listings,         \* listing ids
  Buyers,
  Sweepers,         \* worker processes, each with its own two sweeps
  MaxAmount,        \* bound on the amount of a bid
  PaymentDeadlines, \* the values an admin gives paymentDeadlineHours, in ticks
  ReviewTimeouts,   \* ... and reviewTimeoutHours
  MaxTime,          \* bound on the clock
  NoSale, NoListing, NoBuyer

ASSUME BoundAssumption ==
  /\ MaxAmount \in Nat /\ MaxTime \in Nat
  /\ PaymentDeadlines \subseteq Nat /\ ReviewTimeouts \subseteq Nat

ASSUME IdAssumption == NoListing \notin Listings /\ NoBuyer \notin Buyers

VARIABLES
  now,
  listing,    \* status of each Listing row
  from,       \* its relistedFromId, or NoListing
  bid,        \* each buyer's highest bid on the listing's auction; 0 is "none"
  sale,       \* the AuctionTransaction of each listing, or NoSale
  dispute,    \* the Dispute row of each sale
  entry,      \* amount of the sale's LedgerEntry; 0 is "none"
  balance,    \* the seller's ledgerBalance
  log,        \* AuditLog actions on each sale, in order
  releasing,  \* releases committed whose payout is still to be run
  voiding,    \* the list each payment sweep has left to do
  confirming  \* the list each shipment sweep has left to do

rows == <<listing, from, bid>>
money == <<entry, balance>>
sweeps == <<voiding, confirming>>
vars == <<now, rows, sale, dispute, money, log, releasing, sweeps>>

SaleStatuses == {"PENDING", "COMPLETED", "SHIPPED", "DELIVERED", "DISPUTED",
                 "REFUNDED", "VOIDED"}
DisputeStatuses == {"none", "OPEN", "RESOLVED_REFUNDED", "RESOLVED_RELEASED"}
AuditActions == {"TRANSACTION_VOIDED", "TRANSACTION_VOIDED_OVERDUE",
                 "DISPUTE_RESOLVED_REFUNDED", "DISPUTE_RESOLVED_RELEASED"}
PAID_STATUSES == {"COMPLETED", "SHIPPED", "DELIVERED", "DISPUTED", "REFUNDED"}

Amounts == 1 .. MaxAmount
\* A new sale and an offer start alike: unpaid, no address, a due date of its own.
Sale == [status : SaleStatuses, winner : Buyers, previous : Seq(Buyers),
         amount : Amounts, dueAt : Nat, address : Buyers \cup {NoBuyer},
         declined : BOOLEAN, shippedAt : Nat]
Owed(b, previous, amount, dueAt) ==
  [status |-> "PENDING", winner |-> b, previous |-> previous, amount |-> amount,
   dueAt |-> dueAt, address |-> NoBuyer, declined |-> FALSE, shippedAt |-> 0]

ASSUME NoSaleAssumption == NoSale \notin Sale

NoDispute == [status |-> "none", answered |-> FALSE]

TypeOK ==
  /\ now \in Nat
  /\ listing \in [Listings -> {"none", "APPROVED", "REMOVED"}]
  /\ from \in [Listings -> Listings \cup {NoListing}]
  /\ bid \in [Listings -> [Buyers -> 0 .. MaxAmount]]
  /\ sale \in [Listings -> Sale \cup {NoSale}]
  /\ dispute \in [Listings -> [status : DisputeStatuses, answered : BOOLEAN]]
  /\ entry \in [Listings -> 0 .. MaxAmount]
  /\ balance \in Nat
  /\ log \in [Listings -> Seq(AuditActions)]
  /\ releasing \in SUBSET Listings
  /\ voiding \in [Sweepers -> SUBSET Listings]
  /\ confirming \in [Sweepers -> SUBSET Listings]

Init ==
  /\ now = 0
  /\ listing = [l \in Listings |-> "none"]
  /\ from = [l \in Listings |-> NoListing]
  /\ bid = [l \in Listings |-> [b \in Buyers |-> 0]]
  /\ sale = [l \in Listings |-> NoSale]
  /\ dispute = [l \in Listings |-> NoDispute]
  /\ entry = [l \in Listings |-> 0]
  /\ balance = 0
  /\ log = [l \in Listings |-> <<>>]
  /\ releasing = {}
  /\ voiding = [s \in Sweepers |-> {}]
  /\ confirming = [s \in Sweepers |-> {}]

\* The sale exists and its status is one of S: what every handler tests first.
Is(l, S) == sale[l] # NoSale /\ sale[l].status \in S

-----------------------------------------------------------------------------
(* The listing and its auction.                                            *)

\* An admin approves a listing: its auction opens.
Approve(l) ==
  /\ listing[l] = "none"
  /\ listing' = [listing EXCEPT ![l] = "APPROVED"]
  /\ UNCHANGED <<now, from, bid, sale, dispute, money, log, releasing, sweeps>>

\* The auction closes sold: closeAuction creates the sale for the highest bidder.
\* It may do so on a listing taken down a moment ago.
AuctionSells(l) ==
  /\ listing[l] # "none"
  /\ sale[l] = NoSale
  /\ \E best \in [Buyers -> 0 .. MaxAmount], w \in Buyers, d \in PaymentDeadlines :
       /\ best[w] > 0
       /\ \A b \in Buyers \ {w} : best[b] < best[w]
       /\ \A b, c \in Buyers : best[b] = best[c] /\ best[b] > 0 => b = c
       /\ bid' = [bid EXCEPT ![l] = best]
       /\ sale' = [sale EXCEPT ![l] = Owed(w, <<>>, best[w], now + d)]
  /\ UNCHANGED <<now, listing, from, dispute, money, log, releasing, sweeps>>

\* takedownListing, as far as the Listing row goes.
TakeDown(l) ==
  /\ listing[l] = "APPROVED"
  /\ listing' = [listing EXCEPT ![l] = "REMOVED"]
  /\ UNCHANGED <<now, from, bid, sale, dispute, money, log, releasing, sweeps>>

-----------------------------------------------------------------------------
(* Payment, and giving up on it.                                           *)

\* POST /payments/:id/pay by the winner; the gateway takes the card or declines it.
Pay(l) ==
  /\ Is(l, {"PENDING"})
  /\ sale' = [sale EXCEPT ![l] = [sale[l] EXCEPT !.status = "COMPLETED",
                                                 !.address = sale[l].winner,
                                                 !.declined = FALSE]]
  /\ UNCHANGED <<now, rows, dispute, money, log, releasing, sweeps>>

PayDeclined(l) ==
  /\ Is(l, {"PENDING"})
  /\ sale' = [sale EXCEPT ![l] = [sale[l] EXCEPT !.address = sale[l].winner,
                                                 !.declined = TRUE]]
  /\ UNCHANGED <<now, rows, dispute, money, log, releasing, sweeps>>

\* Mutant of VoidWith: no AuditLog row.
VoidUnlogged(l, action) ==
  /\ sale' = [sale EXCEPT ![l] = [sale[l] EXCEPT !.status = "VOIDED", !.declined = FALSE]]
  /\ log' = log

VoidWith(l, action) ==
  /\ sale' = [sale EXCEPT ![l] = [sale[l] EXCEPT !.status = "VOIDED", !.declined = FALSE]]
  /\ log' = [log EXCEPT ![l] = Append(@, action)]

\* POST /admin/transactions/:id/void.
AdminVoid(l) ==
  /\ Is(l, {"PENDING"})
  /\ VoidWith(l, "TRANSACTION_VOIDED")
  /\ UNCHANGED <<now, rows, dispute, money, releasing, sweeps>>

IsPaymentOverdue(l) == Is(l, {"PENDING"}) /\ sale[l].dueAt < now

\* Mutant of ListOverduePayments: a declined payment is not looked for.
ListOverdueUndeclined(s) ==
  LET due == {l \in Listings : IsPaymentOverdue(l) /\ ~sale[l].declined}
  IN /\ voiding[s] = {}
     /\ due # {}
     /\ voiding' = [voiding EXCEPT ![s] = due]
     /\ UNCHANGED <<now, rows, sale, dispute, money, log, releasing, confirming>>

\* autoVoidOverduePayments reads its list (findOverduePayments); one at a time
\* per process (paymentSweepInFlight).
ListOverduePayments(s) ==
  /\ voiding[s] = {}
  /\ \E l \in Listings : IsPaymentOverdue(l)
  /\ voiding' = [voiding EXCEPT ![s] = {l \in Listings : IsPaymentOverdue(l)}]
  /\ UNCHANGED <<now, rows, sale, dispute, money, log, releasing, confirming>>

\* Mutant of VoidOverduePayment: the due date is not looked at again.
VoidListedPayment(s, l) ==
  /\ l \in voiding[s]
  /\ voiding' = [voiding EXCEPT ![s] = @ \ {l}]
  /\ \/ Is(l, {"PENDING"}) /\ VoidWith(l, "TRANSACTION_VOIDED_OVERDUE")
     \/ ~Is(l, {"PENDING"}) /\ UNCHANGED <<sale, log>>
  /\ UNCHANGED <<now, rows, dispute, money, releasing, confirming>>

\* voidOverduePayment, item by item: decided again under the row's lock.
VoidOverduePayment(s, l) ==
  /\ l \in voiding[s]
  /\ voiding' = [voiding EXCEPT ![s] = @ \ {l}]
  /\ \/ IsPaymentOverdue(l) /\ VoidWith(l, "TRANSACTION_VOIDED_OVERDUE")
     \/ ~IsPaymentOverdue(l) /\ UNCHANGED <<sale, log>>
  /\ UNCHANGED <<now, rows, dispute, money, releasing, confirming>>

\* An item throws, which ends that sweep, or the process dies.
SweepDies(s) ==
  \/ /\ voiding[s] # {}
     /\ voiding' = [voiding EXCEPT ![s] = {}]
     /\ UNCHANGED <<now, rows, sale, dispute, money, log, releasing, confirming>>
  \/ /\ confirming[s] # {}
     /\ confirming' = [confirming EXCEPT ![s] = {}]
     /\ UNCHANGED <<now, rows, sale, dispute, money, log, releasing, voiding>>

-----------------------------------------------------------------------------
(* Recovery of a sale nobody paid for.                                     *)

Asked(l) == {sale[l].previous[i] : i \in DOMAIN sale[l].previous} \cup {sale[l].winner}

\* Mutants of Candidates: people who never bid; everyone but the present winner.
CandidatesAnyBuyer(l) == {b \in Buyers : b \notin Asked(l)}
CandidatesButWinner(l) == {b \in Buyers : bid[l][b] > 0 /\ b # sale[l].winner}

\* Mutant of IsNextBid: sorted the wrong way.
IsLowestBid(l, b) == /\ b \in {c \in Buyers : bid[l][c] > 0 /\ c \notin Asked(l)}
                     /\ \A c \in Buyers : bid[l][c] > 0 /\ c \notin Asked(l)
                                            => bid[l][c] >= bid[l][b]

\* The bids findNextBid chooses from, and the one it picks.
Candidates(l) == {b \in Buyers : bid[l][b] > 0 /\ b \notin Asked(l)}
IsNextBid(l, b) == /\ b \in Candidates(l)
                   /\ \A c \in Candidates(l) : bid[l][c] <= bid[l][b]

Relisted(l) == \E m \in Listings : from[m] = l

\* Mutant of Offer: the delivery details of the last winner are left in the row.
OfferKeepingAddress(l, b, d) ==
  [Owed(b, Append(sale[l].previous, sale[l].winner), bid[l][b], now + d)
     EXCEPT !.address = sale[l].address]

\* The row pointed at the next bidder, at their own bid.
Offer(l, b, d) == Owed(b, Append(sale[l].previous, sale[l].winner), bid[l][b], now + d)

\* Mutant of OfferToNextBidder: a relist is not looked for.
OfferRelistedToo(l) ==
  /\ Is(l, {"VOIDED"})
  /\ listing[l] # "REMOVED"
  /\ \E b \in Buyers, d \in PaymentDeadlines :
       IsNextBid(l, b) /\ sale' = [sale EXCEPT ![l] = Offer(l, b, d)]
  /\ UNCHANGED <<now, rows, dispute, money, log, releasing, sweeps>>

OfferToNextBidder(l) ==
  /\ Is(l, {"VOIDED"})
  /\ ~Relisted(l)
  /\ listing[l] # "REMOVED"
  /\ \E b \in Buyers, d \in PaymentDeadlines :
       IsNextBid(l, b) /\ sale' = [sale EXCEPT ![l] = Offer(l, b, d)]
  /\ UNCHANGED <<now, rows, dispute, money, log, releasing, sweeps>>

\* Mutant of Relist: a takedown is not looked for.
RelistRemoved(l, m) ==
  /\ Is(l, {"VOIDED"})
  /\ ~Relisted(l)
  /\ listing[m] = "none"
  /\ listing' = [listing EXCEPT ![m] = "APPROVED"]
  /\ from' = [from EXCEPT ![m] = l]
  /\ UNCHANGED <<now, bid, sale, dispute, money, log, releasing, sweeps>>

\* relistFromVoidedTransaction: a new approved listing; relistedFromId is unique.
Relist(l, m) ==
  /\ Is(l, {"VOIDED"})
  /\ listing[l] # "REMOVED"
  /\ ~Relisted(l)
  /\ listing[m] = "none"
  /\ listing' = [listing EXCEPT ![m] = "APPROVED"]
  /\ from' = [from EXCEPT ![m] = l]
  /\ UNCHANGED <<now, bid, sale, dispute, money, log, releasing, sweeps>>

-----------------------------------------------------------------------------
(* Fulfilment.                                                             *)

MarkShipped(l) ==
  /\ Is(l, {"COMPLETED"})
  /\ sale[l].address # NoBuyer
  /\ sale' = [sale EXCEPT ![l] = [sale[l] EXCEPT !.status = "SHIPPED", !.shippedAt = now]]
  /\ UNCHANGED <<now, rows, dispute, money, log, releasing, sweeps>>

\* Mutants of ConfirmDelivery: fromDisputed is ignored; the balance is not credited.
ConfirmDeliveryEither(l, expectedState) ==
  /\ Is(l, {"SHIPPED", "DISPUTED"})
  /\ entry[l] = 0
  /\ sale' = [sale EXCEPT ![l].status = "DELIVERED"]
  /\ entry' = [entry EXCEPT ![l] = sale[l].amount]
  /\ balance' = balance + sale[l].amount

ConfirmDeliveryUncredited(l, expectedState) ==
  /\ Is(l, {expectedState})
  /\ entry[l] = 0
  /\ sale' = [sale EXCEPT ![l].status = "DELIVERED"]
  /\ entry' = [entry EXCEPT ![l] = sale[l].amount]
  /\ balance' = balance

\* confirmDelivery: the state change and the payout, in one transaction.
\* The unique index on LedgerEntry.transactionId admits one payout per sale.
ConfirmDelivery(l, expectedState) ==
  /\ Is(l, {expectedState})
  /\ entry[l] = 0
  /\ sale' = [sale EXCEPT ![l].status = "DELIVERED"]
  /\ entry' = [entry EXCEPT ![l] = sale[l].amount]
  /\ balance' = balance + sale[l].amount

\* POST /payments/:id/confirm-receipt by the winner.
ConfirmReceipt(l) ==
  /\ ConfirmDelivery(l, "SHIPPED")
  /\ UNCHANGED <<now, rows, dispute, log, releasing, sweeps>>

\* Mutant of TimedOut: the status a shipped sale used to have.
TimedOutCompleted(l, t) == Is(l, {"COMPLETED"}) /\ sale[l].shippedAt + t < now

TimedOut(l, t) == Is(l, {"SHIPPED"}) /\ sale[l].shippedAt + t < now

\* findTimedOutShipments, with the review timeout of the moment.
ListTimedOutShipments(s) ==
  \E t \in ReviewTimeouts :
    LET due == {l \in Listings : TimedOut(l, t)}
    IN /\ confirming[s] = {}
       /\ due # {}
       /\ confirming' = [confirming EXCEPT ![s] = due]
       /\ UNCHANGED <<now, rows, sale, dispute, money, log, releasing, voiding>>

\* autoConfirmTimedOutShipments, item by item: the status is tested again, the
\* time is not.
AutoConfirm(s, l) ==
  /\ l \in confirming[s]
  /\ confirming' = [confirming EXCEPT ![s] = @ \ {l}]
  /\ \/ ConfirmDelivery(l, "SHIPPED")
     \/ ~Is(l, {"SHIPPED"}) /\ UNCHANGED <<sale, money>>
  /\ UNCHANGED <<now, rows, dispute, log, releasing, voiding>>

RaiseDispute(l) ==
  /\ Is(l, {"SHIPPED"})
  /\ sale' = [sale EXCEPT ![l].status = "DISPUTED"]
  /\ dispute' = [dispute EXCEPT ![l] = [status |-> "OPEN", answered |-> FALSE]]
  /\ UNCHANGED <<now, rows, money, log, releasing, sweeps>>

\* Mutant of RespondToDispute: the status is not tested.
RespondToDecided(l) ==
  /\ dispute[l].status # "none" /\ ~dispute[l].answered
  /\ dispute' = [dispute EXCEPT ![l].answered = TRUE]
  /\ UNCHANGED <<now, rows, sale, money, log, releasing, sweeps>>

\* The seller's one response; it locks the Dispute row, not the sale.
RespondToDispute(l) ==
  /\ dispute[l] = [status |-> "OPEN", answered |-> FALSE]
  /\ dispute' = [dispute EXCEPT ![l].answered = TRUE]
  /\ UNCHANGED <<now, rows, sale, money, log, releasing, sweeps>>

\* resolveDispute locks the Dispute row; the sale it refunds is not read under a lock.
ResolveRefund(l) ==
  /\ dispute[l].status = "OPEN"
  /\ dispute' = [dispute EXCEPT ![l].status = "RESOLVED_REFUNDED"]
  /\ log' = [log EXCEPT ![l] = Append(@, "DISPUTE_RESOLVED_REFUNDED")]
  /\ sale' = [sale EXCEPT ![l].status = "REFUNDED"]
  /\ UNCHANGED <<now, rows, money, releasing, sweeps>>

\* A release commits the decision first ...
ResolveRelease(l) ==
  /\ dispute[l].status = "OPEN"
  /\ dispute' = [dispute EXCEPT ![l].status = "RESOLVED_RELEASED"]
  /\ log' = [log EXCEPT ![l] = Append(@, "DISPUTE_RESOLVED_RELEASED")]
  /\ releasing' = releasing \cup {l}
  /\ UNCHANGED <<now, rows, sale, money, sweeps>>

\* ... and pays out in a second transaction,
ReleasePays(l) ==
  /\ l \in releasing
  /\ releasing' = releasing \ {l}
  /\ ConfirmDelivery(l, "DISPUTED")
  /\ UNCHANGED <<now, rows, dispute, log, sweeps>>

\* unless the process dies, or that transaction fails, in between.
ReleaseDies(l) ==
  /\ l \in releasing
  /\ releasing' = releasing \ {l}
  /\ UNCHANGED <<now, rows, sale, dispute, money, log, sweeps>>

-----------------------------------------------------------------------------
Tick ==
  /\ now < MaxTime
  /\ now' = now + 1
  /\ UNCHANGED <<rows, sale, dispute, money, log, releasing, sweeps>>

Next ==
  \/ Tick
  \/ \E l \in Listings :
       \/ Approve(l) \/ AuctionSells(l) \/ TakeDown(l)
       \/ Pay(l) \/ PayDeclined(l) \/ AdminVoid(l)
       \/ OfferToNextBidder(l)
       \/ \E m \in Listings : Relist(l, m)
       \/ MarkShipped(l) \/ ConfirmReceipt(l)
       \/ RaiseDispute(l) \/ RespondToDispute(l)
       \/ ResolveRefund(l) \/ ResolveRelease(l)
       \/ ReleasePays(l) \/ ReleaseDies(l)
       \/ \E s \in Sweepers : VoidOverduePayment(s, l) \/ AutoConfirm(s, l)
  \/ \E s \in Sweepers :
       ListOverduePayments(s) \/ ListTimedOutShipments(s) \/ SweepDies(s)

Spec == Init /\ [][Next]_vars

(***************************************************************************)
(* Time passes; the sweeps run every five minutes for as long as there is  *)
(* a worker, so one that is tried again and again gets through; a handler  *)
(* that is not killed goes on to its next statement.                       *)
(***************************************************************************)
TimePasses == WF_vars(Tick)
PaymentSweepStarts(s) == WF_vars(ListOverduePayments(s))
ShipmentSweepStarts(s) == WF_vars(ListTimedOutShipments(s))
VoidGoesThrough(s, l) == SF_vars(VoidOverduePayment(s, l))
ConfirmGoesThrough(s, l) == SF_vars(AutoConfirm(s, l))
ReleaseGoesOn(l) == WF_vars(ReleasePays(l))

Fairness ==
  /\ TimePasses
  /\ \A s \in Sweepers : PaymentSweepStarts(s) /\ ShipmentSweepStarts(s)
  /\ \A s \in Sweepers, l \in Listings : VoidGoesThrough(s, l) /\ ConfirmGoesThrough(s, l)
  /\ \A l \in Listings : ReleaseGoesOn(l)

FairSpec == Spec /\ Fairness

-----------------------------------------------------------------------------
(* Properties.                                                             *)

\* What the row shows of money and address is the present winner's alone: nothing
\* of a buyer who lost the item survives in it, and no paid sale lacks an address.
RowIsWinners ==
  \A l \in Listings : sale[l] # NoSale =>
    /\ sale[l].address \in {NoBuyer, sale[l].winner}
    /\ sale[l].status \in PAID_STATUSES => sale[l].address = sale[l].winner
    /\ sale[l].declined => sale[l].status = "PENDING" /\ sale[l].address # NoBuyer

\* The seller has a payout for a sale exactly when it was delivered, at its amount.
PaidOutWhenDelivered ==
  \A l \in Listings :
    /\ entry[l] # 0 <=> Is(l, {"DELIVERED"})
    /\ entry[l] # 0 => entry[l] = sale[l].amount

\* The running total kept on the seller's account equals the ledger entries.
LedgerBalances == balance = MapThenSumSet(LAMBDA l : entry[l], Listings)

\* The Dispute row and the sale, written by transactions that lock different rows,
\* never contradict each other.
DisputeMatchesSale ==
  \A l \in Listings :
    /\ dispute[l].status = "OPEN" => Is(l, {"DISPUTED"})
    /\ Is(l, {"DISPUTED"}) => dispute[l].status \in {"OPEN", "RESOLVED_RELEASED"}
    /\ dispute[l].status = "RESOLVED_REFUNDED" <=> Is(l, {"REFUNDED"})
    /\ dispute[l].status = "RESOLVED_RELEASED" => Is(l, {"DISPUTED", "DELIVERED"})
    /\ l \in releasing => /\ dispute[l].status = "RESOLVED_RELEASED"
                          /\ Is(l, {"DISPUTED"})

\* The money follows the dispute: a payout exactly for what was delivered, and a Dispute row
\* that agrees with the sale, however confirmations, sweeps and decisions cross.
MoneyFollowsDispute == PaidOutWhenDelivered /\ DisputeMatchesSale

\* An item put up again was given up under its old sale for good, and was put up
\* once: of the sales of one item along a chain of relists, only the last may live.
ItemSoldOnce ==
  \A m \in Listings : from[m] # NoListing =>
    /\ Is(from[m], {"VOIDED"})
    /\ \A k \in Listings : from[k] = from[m] => k = m

\* Offers go down the bids: the present winner is asked their own bid, was not asked
\* before, and everyone who bid more -- and nobody else -- was asked before.
OfferOrder ==
  \A l \in Listings : sale[l] # NoSale =>
    /\ sale[l].amount = bid[l][sale[l].winner]
    /\ {sale[l].previous[i] : i \in DOMAIN sale[l].previous} =
         {b \in Buyers : bid[l][b] > sale[l].amount}
    /\ \A i, j \in DOMAIN sale[l].previous :
         i < j => bid[l][sale[l].previous[i]] > bid[l][sale[l].previous[j]]

\* Each time a buyer loses the item, the audit log says so, and only then.
VoidsAudited ==
  \A l \in Listings :
    Cardinality({i \in DOMAIN log[l] :
                   log[l][i] \in {"TRANSACTION_VOIDED", "TRANSACTION_VOIDED_OVERDUE"}})
      = IF sale[l] = NoSale THEN 0
        ELSE Len(sale[l].previous) + IF Is(l, {"VOIDED"}) THEN 1 ELSE 0

\* A given-up sale of an item that was taken down, or put up again, stays given up,
\* and an item taken down is not put up again under it.
DeadSaleStaysDead ==
  [][\A l \in Listings :
       Is(l, {"VOIDED"}) /\ (Relisted(l) \/ listing[l] = "REMOVED") =>
         /\ sale'[l] = sale[l]
         /\ \A m \in Listings : from'[m] = l => from[m] = l]_vars

\* The sweep takes an item from a buyer only when the due date of the offer made to
\* that very buyer has passed, however old the list it works from.
DeadlineHonoured ==
  [][\A l \in Listings :
       log'[l] = Append(log[l], "TRANSACTION_VOIDED_OVERDUE") => sale[l].dueAt < now]_vars

\* The shipment sweep assumes receipt only after a full review window, although it
\* does not look at the time again before it pays the seller.
ReceiptNotAssumedEarly ==
  [][\A s \in Sweepers, l \in Listings :
       AutoConfirm(s, l) /\ sale'[l] # sale[l] =>
         \E t \in ReviewTimeouts : sale[l].shippedAt + t < now]_vars

\* Neither sweep acts on anybody too early, whatever became of its list meanwhile.
SweepsNotEarly == DeadlineHonoured /\ ReceiptNotAssumedEarly

\* A decided dispute is never answered, reopened or decided otherwise.
DecisionFinal ==
  [][\A l \in Listings :
       dispute[l].status \in {"RESOLVED_REFUNDED", "RESOLVED_RELEASED"}
         => dispute'[l] = dispute[l]]_vars

\* A winner who never pays does not keep the item.
UnpaidGivenUp ==
  \A l \in Listings : IsPaymentOverdue(l) ~> ~IsPaymentOverdue(l)

\* A buyer who neither confirms nor complains does not keep the seller waiting.
ShipmentsResolve ==
  \A l \in Listings, t \in ReviewTimeouts :
    Is(l, {"SHIPPED"}) /\ sale[l].shippedAt + t < now ~> ~Is(l, {"SHIPPED"})

\* schema.prisma, TransactionStatus: "DISPUTED -> DELIVERED  admin sides with the
\* seller -- releases the payout".
ReleasedIsPaidOut ==
  \A l \in Listings :
    dispute[l].status = "RESOLVED_RELEASED" ~> Is(l, {"DELIVERED"})

(***************************************************************************)
(* The promise of Escrow, as the rows of the database show it.             *)
(***************************************************************************)
Purse(l) ==
  CASE sale[l] = NoSale -> "unsold"
    [] Is(l, {"PENDING"}) -> "due"
    [] Is(l, {"COMPLETED", "SHIPPED", "DISPUTED"}) -> "held"
    [] Is(l, {"DELIVERED"}) -> "seller"
    [] Is(l, {"REFUNDED"}) -> "buyer"
    [] Is(l, {"VOIDED"}) /\ Relisted(l) -> "relisted"
    [] OTHER -> "lapsed"

Promise == INSTANCE Escrow WITH
  Prices <- Amounts,
  purse <- [l \in Listings |-> Purse(l)],
  asked <- [l \in Listings |-> IF sale[l] = NoSale THEN {} ELSE Asked(l)],
  price <- [l \in Listings |-> IF sale[l] = NoSale THEN 0 ELSE sale[l].amount],
  credit <- entry

\* One buyer at a time is asked, at ever lower prices; money held goes once and whole
\* to the seller or back; an item put up again is offered under its old sale no more.
ImplementsEscrow == Promise!Spec
=============================================================================
