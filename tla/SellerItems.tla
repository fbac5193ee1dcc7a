---------------------------- MODULE SellerItems ----------------------------
(***************************************************************************)
(* The My Items screen over the sales of SaleLifecycle                     *)
(* (seller-items.routes.ts): the facts it reads of each item, and whether  *)
(* the actions it offers are ones the endpoints accept.                    *)
(***************************************************************************)
EXTENDS SaleLifecycle, SellerItemStage

\* Mutant of factsOf: a buyer who already defaulted counts as the next bidder.
factsOfAnyBidder(l) ==
  [listing |-> listing[l],
   auction |-> IF sale[l] = NoSale THEN "ACTIVE" ELSE "CLOSED",
   reserveMet |-> "null",
   bidCount |-> Cardinality({b \in Buyers : bid[l][b] > 0}),
   txn |-> IF sale[l] = NoSale THEN "none" ELSE sale[l].status,
   disputeResponded |-> dispute[l].answered,
   relisted |-> Relisted(l),
   hasNextBidder |-> sale[l] # NoSale /\ \E b \in Buyers : bid[l][b] > 0]

\* The auction of a sale is closed; before the sale it is taken as running.
factsOf(l) ==
  [listing |-> listing[l],
   auction |-> IF sale[l] = NoSale THEN "ACTIVE" ELSE "CLOSED",
   reserveMet |-> "null",
   bidCount |-> Cardinality({b \in Buyers : bid[l][b] > 0}),
   txn |-> IF sale[l] = NoSale THEN "none" ELSE sale[l].status,
   disputeResponded |-> dispute[l].answered,
   relisted |-> Relisted(l),
   hasNextBidder |-> sale[l] # NoSale /\ Candidates(l) # {}]

Offered(l, action) ==
  /\ listing[l] # "none"
  /\ sale[l] # NoSale
  /\ action \in allowedActions(deriveStage(factsOf(l)), factsOf(l))

\* seller-item-stage.ts: "the screen offers only what works".  An action offered on a
\* sale is one its endpoint accepts at that moment -- but for a response to a dispute
\* that was decided for the seller and whose payout is still missing.
OffersWork ==
  \A l \in Listings :
    /\ Offered(l, "MARK_SHIPPED") => ENABLED MarkShipped(l)
    /\ Offered(l, "RESPOND_TO_DISPUTE") =>
         ENABLED RespondToDispute(l) \/ dispute[l].status = "RESOLVED_RELEASED"
    /\ Offered(l, "OFFER_NEXT_BIDDER") => ENABLED OfferToNextBidder(l)
    /\ Offered(l, "RELIST") => Is(l, {"VOIDED"}) /\ ~Relisted(l) /\ listing[l] # "REMOVED"
=============================================================================
