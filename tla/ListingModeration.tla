-------------------------- MODULE ListingModeration --------------------------
(***************************************************************************)
(* A listing from its submission to its auction, and what an admin or the  *)
(* seller may do to it on the way (listings.routes.ts, takedownListing in  *)
(* auction-control.service.ts).                                            *)
(*                                                                         *)
(* Unlike the market's money paths, these handlers read the row, test its  *)
(* status, and write later without a lock or a condition on the status     *)
(* read: every one is a reading action and a writing action, and whatever  *)
(* happens in between is overwritten.  The auction appears here only with  *)
(* its status and outcome: AuctionLifecycle has the rest.                  *)
(***************************************************************************)
EXTENDS SellerItemStage, FiniteSets

CONSTANTS
  Listings,                \* listing ids
  Admins,                  \* admin requests that may be in flight at once
  SellerTabs,              \* requests of the seller that may be in flight at once
  APPROVE_ALL_BATCH_SIZE,  \* listings one approve-all request takes (50)
  MaxEdits,                \* bound on the number of resubmissions
  NoListing

ASSUME ModerationAssumption ==
  /\ APPROVE_ALL_BATCH_SIZE \in Nat \ {0}
  /\ MaxEdits \in Nat
  /\ NoListing \notin Listings

VARIABLES
  listing,    \* status of each Listing row, "none" before it, "withdrawn" when deleted
  content,    \* which version of the form the row holds
  auction,    \* the Auction row of each listing
  audit,      \* AuditLog actions written on each listing
  admin,      \* what each admin request is doing, and what it read
  seller,     \* what each seller request is doing
  abandoned   \* listings whose takedown died before it cancelled the auction

rows == <<listing, content, auction, audit>>
vars == <<rows, admin, seller, abandoned>>

Versions == 0 .. MaxEdits
Snapshot == [id : Listings, content : Versions]
AuctionRow == [status : {"none", "ACTIVE", "CLOSED", "CANCELLED"}, content : Versions,
               reserveMet : {"null", "true", "false"}, bidCount : {0, 1}, sold : BOOLEAN]
NoAuction == [status |-> "none", content |-> 0, reserveMet |-> "null",
              bidCount |-> 0, sold |-> FALSE]

AdminTasks == {"idle", "approve", "reject", "rejected", "takedown", "cancel"}
Idle == [task |-> "idle", items |-> {}, id |-> NoListing, live |-> FALSE]
SellerIdle == [task |-> "idle", id |-> NoListing]
Request == [task : AdminTasks, items : SUBSET Snapshot, id : Listings \cup {NoListing},
            live : BOOLEAN]
SellerRequest == [task : {"idle", "resubmit", "withdraw"}, id : Listings \cup {NoListing}]

TypeOK ==
  /\ listing \in [Listings -> {"none", "PENDING", "APPROVED", "REJECTED", "REMOVED",
                               "withdrawn"}]
  /\ content \in [Listings -> Versions]
  /\ auction \in [Listings -> AuctionRow]
  /\ audit \in [Listings -> SUBSET {"LISTING_APPROVED", "LISTING_REJECTED",
                                    "LISTING_REMOVED"}]
  /\ admin \in [Admins -> Request]
  /\ \A a \in Admins : admin[a].task \notin {"idle", "approve"} => admin[a].id \in Listings
  /\ seller \in [SellerTabs -> SellerRequest]
  /\ \A t \in SellerTabs : seller[t].task # "idle" => seller[t].id \in Listings
  /\ abandoned \in SUBSET Listings

Init ==
  /\ listing = [l \in Listings |-> "none"]
  /\ content = [l \in Listings |-> 0]
  /\ auction = [l \in Listings |-> NoAuction]
  /\ audit = [l \in Listings |-> {}]
  /\ admin = [a \in Admins |-> Idle]
  /\ seller = [t \in SellerTabs |-> SellerIdle]
  /\ abandoned = {}

\* The row is there to be updated; otherwise the update throws "not found".
Exists(l) == listing[l] \notin {"none", "withdrawn"}
HasAuction(l) == auction[l].status # "none"

-----------------------------------------------------------------------------
(* The seller.                                                             *)

\* POST /listings.
Submit(l) ==
  /\ listing[l] = "none"
  /\ listing' = [listing EXCEPT ![l] = "PENDING"]
  /\ UNCHANGED <<content, auction, audit, admin, seller, abandoned>>

\* PATCH /listings/:id, up to the status test ...
ReadToResubmit(t, l) ==
  /\ seller[t].task = "idle"
  /\ listing[l] = "REJECTED"
  /\ seller' = [seller EXCEPT ![t] = [task |-> "resubmit", id |-> l]]
  /\ UNCHANGED <<rows, admin, abandoned>>

\* ... and the update, whatever the status is by now.
Resubmit(t) ==
  LET l == seller[t].id
  IN /\ seller[t].task = "resubmit"
     /\ \/ /\ Exists(l) /\ content[l] < MaxEdits
           /\ listing' = [listing EXCEPT ![l] = "PENDING"]
           /\ content' = [content EXCEPT ![l] = @ + 1]
        \/ /\ ~Exists(l)
           /\ UNCHANGED <<listing, content>>
     /\ seller' = [seller EXCEPT ![t] = SellerIdle]
     /\ UNCHANGED <<auction, audit, admin, abandoned>>

\* DELETE /listings/:id, up to the status test ...
ReadToWithdraw(t, l) ==
  /\ seller[t].task = "idle"
  /\ listing[l] = "PENDING"
  /\ seller' = [seller EXCEPT ![t] = [task |-> "withdraw", id |-> l]]
  /\ UNCHANGED <<rows, admin, abandoned>>

\* Mutant of Withdraw: the foreign key of Auction does not restrict the delete.
WithdrawAny(t) ==
  LET l == seller[t].id
  IN /\ seller[t].task = "withdraw"
     /\ listing' = IF Exists(l) THEN [listing EXCEPT ![l] = "withdrawn"] ELSE listing
     /\ seller' = [seller EXCEPT ![t] = SellerIdle]
     /\ UNCHANGED <<content, auction, audit, admin, abandoned>>

\* ... and the delete, which Auction.listingId (ON DELETE RESTRICT) refuses once
\* there is an auction.
Withdraw(t) ==
  LET l == seller[t].id
  IN /\ seller[t].task = "withdraw"
     /\ listing' = IF Exists(l) /\ ~HasAuction(l)
                   THEN [listing EXCEPT ![l] = "withdrawn"] ELSE listing
     /\ seller' = [seller EXCEPT ![t] = SellerIdle]
     /\ UNCHANGED <<content, auction, audit, admin, abandoned>>

-----------------------------------------------------------------------------
(* Review.                                                                 *)

Pending == {l \in Listings : listing[l] = "PENDING"}

\* POST /listings/:id/approve reads one pending listing, /approve-all a page of them
\* (here: any page); the status is tested on what was read.
ReadPending(a) ==
  /\ admin[a].task = "idle"
  /\ \E page \in SUBSET Pending :
       /\ page # {}
       /\ Cardinality(page) <= APPROVE_ALL_BATCH_SIZE
       /\ admin' = [admin EXCEPT ![a] =
            [task |-> "approve", id |-> NoListing, live |-> FALSE,
             items |-> {[id |-> l, content |-> content[l]] : l \in page}]]
  /\ UNCHANGED <<rows, seller, abandoned>>

AfterItem(a, i) == IF admin[a].items = {i} THEN Idle
                   ELSE [admin[a] EXCEPT !.items = @ \ {i}]

\* Mutant of OpenAuction: the listing's auction is not looked for.
OpenAnother(i) == auction' = [auction EXCEPT ![i.id] =
  [status |-> "ACTIVE", content |-> i.content, reserveMet |-> "null",
   bidCount |-> 0, sold |-> FALSE]]

\* The auction is made from the listing as it was read, unless there is one.
OpenAuction(i) ==
  IF HasAuction(i.id) THEN UNCHANGED auction
  ELSE auction' = [auction EXCEPT ![i.id] =
         [status |-> "ACTIVE", content |-> i.content, reserveMet |-> "null",
          bidCount |-> 0, sold |-> FALSE]]

\* approveOneListing: listing, auction and audit row in one transaction.
ApproveOneListing(a, i) ==
  /\ admin[a].task = "approve" /\ i \in admin[a].items
  /\ Exists(i.id)
  /\ listing' = [listing EXCEPT ![i.id] = "APPROVED"]
  /\ OpenAuction(i)
  /\ audit' = [audit EXCEPT ![i.id] = @ \cup {"LISTING_APPROVED"}]
  /\ admin' = [admin EXCEPT ![a] = AfterItem(a, i)]
  /\ UNCHANGED <<content, seller, abandoned>>

\* The listing was withdrawn since: the transaction throws, which ends the whole batch.
ApprovalThrows(a, i) ==
  /\ admin[a].task = "approve" /\ i \in admin[a].items
  /\ ~Exists(i.id)
  /\ admin' = [admin EXCEPT ![a] = Idle]
  /\ UNCHANGED <<rows, seller, abandoned>>

\* POST /listings/:id/reject: the status test, the update, the best-effort audit row.
ReadToReject(a, l) ==
  /\ admin[a].task = "idle"
  /\ listing[l] = "PENDING"
  /\ admin' = [admin EXCEPT ![a] = [Idle EXCEPT !.task = "reject", !.id = l]]
  /\ UNCHANGED <<rows, seller, abandoned>>

Reject(a) ==
  LET l == admin[a].id
  IN /\ admin[a].task = "reject"
     /\ \/ /\ Exists(l)
           /\ listing' = [listing EXCEPT ![l] = "REJECTED"]
           /\ admin' = [admin EXCEPT ![a] = [Idle EXCEPT !.task = "rejected", !.id = l]]
        \/ /\ ~Exists(l)
           /\ admin' = [admin EXCEPT ![a] = Idle]
           /\ UNCHANGED listing
     /\ UNCHANGED <<content, auction, audit, seller, abandoned>>

LogRejection(a) ==
  /\ admin[a].task = "rejected"
  /\ audit' = [audit EXCEPT ![admin[a].id] = @ \cup {"LISTING_REJECTED"}]
  /\ admin' = [admin EXCEPT ![a] = Idle]
  /\ UNCHANGED <<listing, content, auction, seller, abandoned>>

-----------------------------------------------------------------------------
(* Takedown.                                                               *)

ReadToTakeDown(a, l) ==
  /\ admin[a].task = "idle"
  /\ listing[l] = "APPROVED"
  /\ admin' = [admin EXCEPT ![a] = [Idle EXCEPT !.task = "takedown", !.id = l,
                                               !.live = (auction[l].status = "ACTIVE")]]
  /\ UNCHANGED <<rows, seller, abandoned>>

\* Mutants of TakeDown: no audit row; the auction is left to itself.
TakeDownUnlogged(a) ==
  LET l == admin[a].id
  IN /\ admin[a].task = "takedown" /\ Exists(l)
     /\ listing' = [listing EXCEPT ![l] = "REMOVED"]
     /\ admin' = [admin EXCEPT ![a] = IF admin[a].live
                                      THEN [admin[a] EXCEPT !.task = "cancel"] ELSE Idle]
     /\ UNCHANGED <<content, auction, audit, seller, abandoned>>

TakeDownOnly(a) ==
  LET l == admin[a].id
  IN /\ admin[a].task = "takedown" /\ Exists(l)
     /\ listing' = [listing EXCEPT ![l] = "REMOVED"]
     /\ audit' = [audit EXCEPT ![l] = @ \cup {"LISTING_REMOVED"}]
     /\ admin' = [admin EXCEPT ![a] = Idle]
     /\ UNCHANGED <<content, auction, seller, abandoned>>

\* takedownListing's transaction; the cancellation, if it read a live auction, follows.
TakeDown(a) ==
  LET l == admin[a].id
  IN /\ admin[a].task = "takedown" /\ Exists(l)
     /\ listing' = [listing EXCEPT ![l] = "REMOVED"]
     /\ audit' = [audit EXCEPT ![l] = @ \cup {"LISTING_REMOVED"}]
     /\ admin' = [admin EXCEPT ![a] = IF admin[a].live
                                      THEN [admin[a] EXCEPT !.task = "cancel"] ELSE Idle]
     /\ UNCHANGED <<content, auction, seller, abandoned>>

\* cancelAuction looks at the status again, under a lock.
CancelRemoved(a) ==
  LET l == admin[a].id
  IN /\ admin[a].task = "cancel"
     /\ auction' = IF auction[l].status = "ACTIVE"
                   THEN [auction EXCEPT ![l] = [auction[l] EXCEPT !.status = "CANCELLED"]]
                   ELSE auction
     /\ admin' = [admin EXCEPT ![a] = Idle]
     /\ UNCHANGED <<listing, content, audit, seller, abandoned>>

\* The process dies, or a statement fails, in the middle of an admin's request.
RequestDies(a) ==
  /\ admin[a].task # "idle"
  /\ abandoned' = IF admin[a].task = "cancel" THEN abandoned \cup {admin[a].id}
                  ELSE abandoned
  /\ admin' = [admin EXCEPT ![a] = Idle]
  /\ UNCHANGED <<rows, seller>>

-----------------------------------------------------------------------------
(* The auction, as far as its row shows it.                                *)

PlaceBid(l) ==
  /\ auction[l].status = "ACTIVE"
  /\ auction' = [auction EXCEPT ![l] = [auction[l] EXCEPT !.bidCount = 1]]
  /\ UNCHANGED <<listing, content, audit, admin, seller, abandoned>>

CancelAuction(l, isAdmin) ==
  /\ auction[l].status = "ACTIVE"
  /\ isAdmin \/ auction[l].bidCount = 0
  /\ auction' = [auction EXCEPT ![l] = [auction[l] EXCEPT !.status = "CANCELLED"]]
  /\ UNCHANGED <<listing, content, audit, admin, seller, abandoned>>

\* closeAuction: any auction that is not CLOSED, sold when a bid reached the reserve
\* or there was none to reach.
CloseAuction(l, met) ==
  /\ auction[l].status \in {"ACTIVE", "CANCELLED"}
  /\ met = "true" => auction[l].bidCount > 0
  /\ auction' = [auction EXCEPT ![l] =
       [auction[l] EXCEPT !.status = "CLOSED", !.reserveMet = met,
                          !.sold = (auction[l].bidCount > 0 /\ met # "false")]]
  /\ UNCHANGED <<listing, content, audit, admin, seller, abandoned>>

-----------------------------------------------------------------------------
Next ==
  \/ \E l \in Listings :
       \/ Submit(l) \/ PlaceBid(l)
       \/ \E isAdmin \in BOOLEAN : CancelAuction(l, isAdmin)
       \/ \E met \in {"null", "true", "false"} : CloseAuction(l, met)
       \/ \E t \in SellerTabs : ReadToResubmit(t, l) \/ ReadToWithdraw(t, l)
       \/ \E a \in Admins : ReadToReject(a, l) \/ ReadToTakeDown(a, l)
  \/ \E t \in SellerTabs : Resubmit(t) \/ Withdraw(t)
  \/ \E a \in Admins :
       \/ ReadPending(a)
       \/ \E i \in admin[a].items : ApproveOneListing(a, i) \/ ApprovalThrows(a, i)
       \/ Reject(a) \/ LogRejection(a)
       \/ TakeDown(a) \/ CancelRemoved(a) \/ RequestDies(a)

Spec == Init /\ [][Next]_vars

-----------------------------------------------------------------------------
(* Properties.                                                             *)

\* Approval makes the listing public and opens its auction together, and nothing
\* separates them: an approved or removed listing has an auction, and a listing is
\* never deleted from under one.
AuctionWithListing ==
  \A l \in Listings :
    /\ listing[l] \in {"APPROVED", "REMOVED"} => HasAuction(l)
    /\ HasAuction(l) => Exists(l)

\* Nothing an admin did to the public market is without its audit row, however the
\* request ended: an auction was approved, a removed listing was taken down.
ChangesAudited ==
  \A l \in Listings :
    /\ HasAuction(l) => "LISTING_APPROVED" \in audit[l]
    /\ listing[l] = "REMOVED" => "LISTING_REMOVED" \in audit[l]

\* A removed listing takes no bids: its auction is over, unless the takedown has yet
\* to cancel it or died before it did.
RemovedNotLive ==
  \A l \in Listings :
    listing[l] = "REMOVED" /\ auction[l].status = "ACTIVE" =>
      \/ l \in abandoned
      \/ \E a \in Admins : admin[a].task = "cancel" /\ admin[a].id = l

\* What is over stays over: a withdrawn listing, a closed or cancelled auction; and an
\* auction keeps the description the admin read when approving it.
NothingComesBack ==
  [][\A l \in Listings :
       /\ listing[l] = "withdrawn" => listing'[l] = "withdrawn"
       /\ HasAuction(l) => auction'[l].content = auction[l].content
       /\ HasAuction(l) /\ auction[l].status # "ACTIVE" =>
            auction'[l].status \in {auction[l].status, "CLOSED"}]_vars

\* schema.prisma: "REJECTED means "never approved", REMOVED means "was live, pulled
\* for cause"."  A rejected listing has no auction.
RejectedNeverApproved == \A l \in Listings : listing[l] = "REJECTED" => ~HasAuction(l)

\* The item as My Items sees it (its sale, if any, has just been made).
Facts(l) ==
  [listing |-> listing[l], auction |-> auction[l].status,
   reserveMet |-> auction[l].reserveMet, bidCount |-> auction[l].bidCount,
   txn |-> IF auction[l].sold THEN "PENDING" ELSE "none",
   disputeResponded |-> FALSE, relisted |-> FALSE, hasNextBidder |-> FALSE]

\* Whatever races left the rows in, My Items shows every item in one tab, the one its
\* stage belongs to, and counts it there.
ItemsInOneStage == \A l \in Listings : Exists(l) => InOneStage(Facts(l))
=============================================================================
