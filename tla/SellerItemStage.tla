--------------------------- MODULE SellerItemStage ---------------------------
(***************************************************************************)
(* The rules of the seller's My Items screen (seller-item-stage.ts), which *)
(* exist twice in the code: deriveStage reads the facts of one item,       *)
(* STAGE_WHERE states the same stage as a database filter so that a tab    *)
(* can be listed and counted without loading the items.  allowedActions    *)
(* restates the preconditions of the endpoints the screen offers.          *)
(***************************************************************************)
EXTENDS Naturals

\* The facts of one item; "none" stands for a row that does not exist.
ItemFacts ==
  [listing : {"DRAFT", "PENDING", "APPROVED", "REJECTED", "REMOVED"},
   auction : {"none", "ACTIVE", "CLOSED", "CANCELLED"},
   reserveMet : {"null", "true", "false"},
   bidCount : Nat,
   txn : {"none", "PENDING", "FAILED", "COMPLETED", "SHIPPED", "DELIVERED", "DISPUTED",
          "REFUNDED", "VOIDED"},
   disputeResponded : BOOLEAN,
   relisted : BOOLEAN,
   hasNextBidder : BOOLEAN]

STAGE_TAB ==
  [UNDER_REVIEW |-> "review", REJECTED |-> "closed", REMOVED |-> "closed", LIVE |-> "live",
   AWAITING_PAYMENT |-> "sold", NEEDS_SHIPPING |-> "action", SHIPPED |-> "sold",
   DELIVERED |-> "sold", DISPUTE_AWAITING_RESPONSE |-> "action", DISPUTED |-> "sold",
   REFUNDED |-> "sold", PAYMENT_DEFAULTED |-> "action", RELISTED |-> "unsold",
   ENDED_RESERVE_NOT_MET |-> "unsold", ENDED_NO_BIDS |-> "unsold", CANCELLED |-> "unsold"]

SELLER_ITEM_STAGES == DOMAIN STAGE_TAB

-----------------------------------------------------------------------------
(* The stage of an item, from its facts.                                   *)

SaleStage(f) ==
  CASE f.txn \in {"PENDING", "FAILED"} -> "AWAITING_PAYMENT"
    [] f.txn = "COMPLETED" -> "NEEDS_SHIPPING"
    [] f.txn = "DISPUTED" /\ f.disputeResponded -> "DISPUTED"
    [] f.txn = "DISPUTED" /\ ~f.disputeResponded -> "DISPUTE_AWAITING_RESPONSE"
    [] f.txn = "VOIDED" /\ f.relisted -> "RELISTED"
    [] f.txn = "VOIDED" /\ ~f.relisted /\ f.listing = "REMOVED" -> "REMOVED"
    [] f.txn = "VOIDED" /\ ~f.relisted /\ f.listing # "REMOVED" -> "PAYMENT_DEFAULTED"
    [] OTHER -> f.txn

AuctionStage(f) ==
  CASE f.auction = "ACTIVE" -> "LIVE"
    [] f.auction = "CANCELLED" -> "CANCELLED"
    [] f.auction = "CLOSED" /\ f.reserveMet = "false" /\ f.bidCount > 0 ->
         "ENDED_RESERVE_NOT_MET"
    [] f.auction = "CLOSED" /\ ~(f.reserveMet = "false" /\ f.bidCount > 0) ->
         "ENDED_NO_BIDS"
    [] f.auction = "none" -> "UNDER_REVIEW"

\* Mutant of ListingStage: an approved listing is live whatever became of its auction.
ListingStageOfApproved(f) ==
  CASE f.listing \in {"REJECTED", "REMOVED"} -> f.listing
    [] f.listing \in {"PENDING", "DRAFT"} -> "UNDER_REVIEW"
    [] f.listing = "APPROVED" -> "LIVE"

ListingStage(f) ==
  CASE f.listing \in {"REJECTED", "REMOVED"} -> f.listing
    [] f.listing \in {"PENDING", "DRAFT"} -> "UNDER_REVIEW"
    [] f.listing = "APPROVED" -> AuctionStage(f)

\* A sale, once there is one, decides everything.
deriveStage(f) == IF f.txn # "none" THEN SaleStage(f) ELSE ListingStage(f)

-----------------------------------------------------------------------------
(* The same rules as a filter on the rows.                                 *)

\* The sale is a row below the auction's, so a filter on it needs an auction.
HasSale(f, statuses) == f.auction # "none" /\ f.txn \in statuses
NoSaleRow(f) == f.auction = "none" \/ f.txn = "none"
Approved(f) == NoSaleRow(f) /\ f.listing = "APPROVED"

STAGE_WHERE(stage, f) ==
  \/ stage = "AWAITING_PAYMENT" /\ HasSale(f, {"PENDING", "FAILED"})
  \/ stage = "NEEDS_SHIPPING" /\ HasSale(f, {"COMPLETED"})
  \/ stage \in {"SHIPPED", "DELIVERED", "REFUNDED"} /\ HasSale(f, {stage})
  \/ stage = "DISPUTE_AWAITING_RESPONSE" /\ HasSale(f, {"DISPUTED"}) /\ ~f.disputeResponded
  \/ stage = "DISPUTED" /\ HasSale(f, {"DISPUTED"}) /\ f.disputeResponded
  \/ stage = "RELISTED" /\ HasSale(f, {"VOIDED"}) /\ f.relisted
  \/ stage = "PAYMENT_DEFAULTED" /\ HasSale(f, {"VOIDED"}) /\ ~f.relisted /\ f.listing # "REMOVED"
  \/ stage = "REMOVED" /\ NoSaleRow(f) /\ f.listing = "REMOVED"
  \/ stage = "REMOVED" /\ HasSale(f, {"VOIDED"}) /\ ~f.relisted /\ f.listing = "REMOVED"
  \/ stage = "REJECTED" /\ NoSaleRow(f) /\ f.listing = "REJECTED"
  \/ stage = "UNDER_REVIEW" /\ NoSaleRow(f) /\ f.listing \in {"PENDING", "DRAFT"}
  \/ stage = "UNDER_REVIEW" /\ Approved(f) /\ f.auction = "none"
  \/ stage = "LIVE" /\ Approved(f) /\ f.auction = "ACTIVE"
  \/ stage = "CANCELLED" /\ Approved(f) /\ f.auction = "CANCELLED"
  \/ stage = "ENDED_RESERVE_NOT_MET" /\ Approved(f) /\ f.auction = "CLOSED"
       /\ f.reserveMet = "false" /\ f.bidCount > 0
  \/ stage = "ENDED_NO_BIDS" /\ Approved(f) /\ f.auction = "CLOSED"
       /\ (f.reserveMet \in {"null", "true"} \/ f.bidCount = 0)

-----------------------------------------------------------------------------
(* What the screen offers.                                                 *)

allowedActions(stage, f) ==
  CASE stage = "UNDER_REVIEW" -> {a \in {"WITHDRAW"} : f.listing = "PENDING"}
    [] stage = "REJECTED" -> {"EDIT_RESUBMIT"}
    [] stage = "LIVE" -> {a \in {"CANCEL_AUCTION"} : f.bidCount = 0}
    [] stage = "NEEDS_SHIPPING" -> {"MARK_SHIPPED", "VIEW_INVOICE"}
    [] stage = "DISPUTE_AWAITING_RESPONSE" -> {"RESPOND_TO_DISPUTE", "VIEW_INVOICE"}
    [] stage = "PAYMENT_DEFAULTED" ->
         {"RELIST"} \cup {a \in {"OFFER_NEXT_BIDDER"} : f.hasNextBidder}
    [] stage \in {"ENDED_RESERVE_NOT_MET", "ENDED_NO_BIDS"} -> {"LIST_AGAIN"}
    [] stage \in {"SHIPPED", "DELIVERED", "DISPUTED", "REFUNDED"} -> {"VIEW_INVOICE"}
    [] stage \in {"REMOVED", "AWAITING_PAYMENT", "RELISTED", "CANCELLED"} -> {}

-----------------------------------------------------------------------------
\* The tabs whose pages are ordered, and paged, by the end of the auction.
AuctionOrdered == {"action", "live", "sold", "unsold"}

\* The filter finds an item in its own stage and in no other, and a page ordered by
\* the end of the auction only holds items that have one.
InOneStage(f) ==
  /\ {s \in SELLER_ITEM_STAGES : STAGE_WHERE(s, f)} = {deriveStage(f)}
  /\ STAGE_TAB[deriveStage(f)] \in AuctionOrdered => f.auction # "none"
=============================================================================
