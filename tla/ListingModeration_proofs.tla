----------------------- MODULE ListingModeration_proofs -----------------------
(***************************************************************************)
(* Proofs about ListingModeration, for any number of listings and of       *)
(* requests in flight, and about the stage rules for any item.             *)
(***************************************************************************)
EXTENDS ListingModeration, TLAPS

-----------------------------------------------------------------------------
(* The two halves of seller-item-stage.ts agree.                           *)

\* For every item whose sale belongs to an auction, the filter of a stage matches
\* exactly the stage derived from the facts.
LEMMA WhereIsDerived ==
  ASSUME NEW f \in ItemFacts, f.txn # "none" => f.auction # "none",
         NEW s \in SELLER_ITEM_STAGES
  PROVE  STAGE_WHERE(s, f) <=> s = deriveStage(f)
<1> USE DEF ItemFacts, SELLER_ITEM_STAGES, STAGE_TAB
<1>1. CASE f.txn # "none"
  BY <1>1 DEF STAGE_WHERE, deriveStage, SaleStage, HasSale, NoSaleRow, Approved
<1>2. CASE f.txn = "none"
  BY <1>2 DEF STAGE_WHERE, deriveStage, ListingStage, AuctionStage, HasSale, NoSaleRow,
              Approved
<1> QED
  BY <1>1, <1>2

\* The stage derived for an item is a stage, of a tab that is only ordered by the end of
\* the auction when the item has one.
LEMMA StageOfItem ==
  ASSUME NEW f \in ItemFacts, f.txn # "none" => f.auction # "none"
  PROVE  /\ deriveStage(f) \in SELLER_ITEM_STAGES
         /\ STAGE_TAB[deriveStage(f)] \in AuctionOrdered => f.auction # "none"
<1> USE DEF ItemFacts, SELLER_ITEM_STAGES, STAGE_TAB, AuctionOrdered
<1>1. CASE f.txn # "none"
  BY <1>1 DEF deriveStage, SaleStage
<1>2. CASE f.txn = "none"
  BY <1>2 DEF deriveStage, ListingStage, AuctionStage
<1> QED
  BY <1>1, <1>2

\* Hence every item is found in one stage, for any facts about it.
THEOREM EveryItemInOneStage ==
  ASSUME NEW f \in ItemFacts, f.txn # "none" => f.auction # "none"
  PROVE  InOneStage(f)
<1>1. deriveStage(f) \in SELLER_ITEM_STAGES
  BY StageOfItem
<1>2. \A s \in SELLER_ITEM_STAGES : STAGE_WHERE(s, f) <=> s = deriveStage(f)
  BY WhereIsDerived
<1>3. {s \in SELLER_ITEM_STAGES : STAGE_WHERE(s, f)} = {deriveStage(f)}
  BY <1>1, <1>2
<1> QED
  BY <1>3, StageOfItem DEF InOneStage

-----------------------------------------------------------------------------
(* Types.                                                                  *)

\* Leaving an item of an approval behind keeps the request well-typed.
LEMMA AfterItemType ==
  ASSUME NEW a, admin[a] \in Request, NEW i
  PROVE  AfterItem(a, i) \in Request
BY DEF AfterItem, Idle, Request, AdminTasks

\* What an admin request holds between two of its statements is well-typed.
LEMMA RequestTypes ==
  /\ Idle \in Request
  /\ SellerIdle \in SellerRequest
  /\ \A t \in AdminTasks, l \in Listings :
       [Idle EXCEPT !.task = t, !.id = l] \in Request
  /\ \A t \in AdminTasks, l \in Listings, b \in BOOLEAN :
       [Idle EXCEPT !.task = t, !.id = l, !.live = b] \in Request
  /\ \A r \in Request, t \in AdminTasks : [r EXCEPT !.task = t] \in Request
BY DEF Request, Idle, AdminTasks, SellerRequest, SellerIdle

\* A bid, a cancellation and a close leave an auction row well-typed.
LEMMA RowTypes ==
  ASSUME NEW row \in AuctionRow
  PROVE  /\ [row EXCEPT !.bidCount = 1] \in AuctionRow
         /\ [row EXCEPT !.status = "CANCELLED"] \in AuctionRow
         /\ \A met \in {"null", "true", "false"}, b \in BOOLEAN :
              [row EXCEPT !.status = "CLOSED", !.reserveMet = met, !.sold = b] \in AuctionRow
BY DEF AuctionRow

\* Opening an auction from a snapshot keeps the auctions well-typed and leaves those
\* there are alone.
LEMMA OpenEffect ==
  ASSUME auction \in [Listings -> AuctionRow], NEW i \in Snapshot, OpenAuction(i)
  PROVE  /\ auction' \in [Listings -> AuctionRow]
         /\ \A l \in Listings : HasAuction(l) => auction'[l] = auction[l]
         /\ \A l \in Listings : l # i.id => auction'[l] = auction[l]
         /\ auction'[i.id].status # "none"
         /\ auction'[i.id].sold => auction[i.id].sold
<1>1. i.id \in Listings /\ i.content \in Versions
  BY DEF Snapshot
<1>2. CASE HasAuction(i.id)
  BY <1>1, <1>2 DEF OpenAuction, HasAuction
<1>3. CASE ~HasAuction(i.id)
  <2> DEFINE row == [status |-> "ACTIVE", content |-> i.content, reserveMet |-> "null",
                     bidCount |-> 0, sold |-> FALSE]
  <2>1. row \in AuctionRow
    BY <1>1 DEF AuctionRow
  <2>2. auction' = [auction EXCEPT ![i.id] = row]
    BY <1>3 DEF OpenAuction
  <2> QED
    BY <1>1, <1>3, <2>1, <2>2 DEF HasAuction
<1> QED
  BY <1>2, <1>3

\* The type invariant of the listings, their auctions and the requests.
THEOREM TypeCorrect == Spec => []TypeOK
<1>1. Init => TypeOK
  <2> SUFFICES ASSUME Init PROVE TypeOK
    OBVIOUS
  <2>1. NoAuction \in AuctionRow /\ 0 \in Versions
    BY ModerationAssumption DEF NoAuction, AuctionRow, Versions
  <2>2. Idle.task = "idle" /\ SellerIdle.task = "idle"
    BY DEF Idle, SellerIdle
  <2> QED
    BY <2>1, <2>2, RequestTypes DEF Init, TypeOK
<1>2. TypeOK /\ [Next]_vars => TypeOK'
  <2> SUFFICES ASSUME TypeOK, [Next]_vars PROVE TypeOK'
    OBVIOUS
  <2> USE DEF TypeOK, rows
  <2>1. CASE UNCHANGED vars
    BY <2>1 DEF vars
  <2>2. ASSUME NEW l \in Listings, Submit(l) PROVE TypeOK'
    BY <2>2 DEF Submit
  <2>3. ASSUME NEW l \in Listings, NEW t \in SellerTabs,
               ReadToResubmit(t, l) \/ ReadToWithdraw(t, l)
        PROVE TypeOK'
    <3>1. \A k \in {"resubmit", "withdraw"} : [task |-> k, id |-> l] \in SellerRequest
      BY DEF SellerRequest
    <3> QED
      BY <2>3, <3>1 DEF ReadToResubmit, ReadToWithdraw
  <2>4. ASSUME NEW t \in SellerTabs, Resubmit(t) PROVE TypeOK'
    <3>1. content' \in [Listings -> Versions]
      BY <2>4, ModerationAssumption DEF Resubmit, Versions
    <3>2. listing' \in [Listings -> {"none", "PENDING", "APPROVED", "REJECTED", "REMOVED",
                                     "withdrawn"}]
      BY <2>4 DEF Resubmit
    <3>3. seller' \in [SellerTabs -> SellerRequest]
          /\ \A u \in SellerTabs : seller'[u].task # "idle" => seller'[u].id \in Listings
      BY <2>4, RequestTypes DEF Resubmit, SellerIdle
    <3> QED
      BY <2>4, <3>1, <3>2, <3>3 DEF Resubmit
  <2>5. ASSUME NEW t \in SellerTabs, Withdraw(t) PROVE TypeOK'
    <3>1. seller' \in [SellerTabs -> SellerRequest]
          /\ \A u \in SellerTabs : seller'[u].task # "idle" => seller'[u].id \in Listings
      BY <2>5, RequestTypes DEF Withdraw, SellerIdle
    <3> QED
      BY <2>5, <3>1 DEF Withdraw
  <2>6. ASSUME NEW a \in Admins, NEW r \in Request,
               r.task \notin {"idle", "approve"} => r.id \in Listings,
               admin' = [admin EXCEPT ![a] = r]
        PROVE  /\ admin' \in [Admins -> Request]
               /\ \A b \in Admins : admin'[b].task \notin {"idle", "approve"}
                                      => admin'[b].id \in Listings
    BY <2>6
  <2>7. ASSUME NEW a \in Admins, ReadPending(a) PROVE TypeOK'
    <3>1. PICK page \in SUBSET Pending :
            admin' = [admin EXCEPT ![a] =
              [task |-> "approve", id |-> NoListing, live |-> FALSE,
               items |-> {[id |-> l, content |-> content[l]] : l \in page}]]
      BY <2>7 DEF ReadPending
    <3>2. {[id |-> l, content |-> content[l]] : l \in page} \in SUBSET Snapshot
      BY <3>1 DEF Pending, Snapshot
    <3>3. [task |-> "approve", id |-> NoListing, live |-> FALSE,
           items |-> {[id |-> l, content |-> content[l]] : l \in page}] \in Request
      BY <3>2 DEF Request, AdminTasks
    <3>4. UNCHANGED <<listing, content, auction, audit, seller, abandoned>>
      BY <2>7 DEF ReadPending
    <3> QED
      BY <2>6, <3>1, <3>3, <3>4
  <2>8. ASSUME NEW a \in Admins, NEW i \in admin[a].items, ApproveOneListing(a, i)
        PROVE TypeOK'
    <3>1. i \in Snapshot /\ i.id \in Listings
      BY DEF Request, Snapshot
    <3>2. auction' \in [Listings -> AuctionRow]
      BY <2>8, <3>1, OpenEffect DEF ApproveOneListing
    <3>3. AfterItem(a, i) \in Request /\ AfterItem(a, i).task \in {"idle", "approve"}
      BY <2>8, AfterItemType DEF ApproveOneListing, AfterItem, Idle, Request
    <3>4. admin' = [admin EXCEPT ![a] = AfterItem(a, i)]
      BY <2>8 DEF ApproveOneListing
    <3>5. /\ admin' \in [Admins -> Request]
          /\ \A b \in Admins : admin'[b].task \notin {"idle", "approve"}
                                 => admin'[b].id \in Listings
      BY <2>6, <3>3, <3>4
    <3> QED
      BY <2>8, <3>1, <3>2, <3>5 DEF ApproveOneListing
  <2>9. ASSUME NEW a \in Admins, NEW i \in admin[a].items, ApprovalThrows(a, i)
        PROVE TypeOK'
    BY <2>9, RequestTypes DEF ApprovalThrows, Idle
  <2>10. ASSUME NEW a \in Admins, NEW l \in Listings, ReadToReject(a, l) PROVE TypeOK'
    <3>1. [Idle EXCEPT !.task = "reject", !.id = l] \in Request
          /\ [Idle EXCEPT !.task = "reject", !.id = l].id = l
      BY RequestTypes DEF AdminTasks, Idle
    <3> QED
      BY <2>6, <2>10, <3>1 DEF ReadToReject
  <2>11. ASSUME NEW a \in Admins, Reject(a) PROVE TypeOK'
    <3> DEFINE r == [Idle EXCEPT !.task = "rejected", !.id = admin[a].id]
    <3>1. admin[a].id \in Listings
      BY <2>11 DEF Reject
    <3>2. r \in Request /\ r.id \in Listings /\ Idle \in Request /\ Idle.task = "idle"
      BY <3>1, RequestTypes DEF AdminTasks, Idle
    <3>3. admin' = [admin EXCEPT ![a] = r] \/ admin' = [admin EXCEPT ![a] = Idle]
      BY <2>11 DEF Reject
    <3>4. /\ admin' \in [Admins -> Request]
          /\ \A b \in Admins : admin'[b].task \notin {"idle", "approve"}
                                 => admin'[b].id \in Listings
      BY <2>6, <3>2, <3>3
    <3>5. listing' \in [Listings -> {"none", "PENDING", "APPROVED", "REJECTED", "REMOVED",
                                     "withdrawn"}]
      BY <2>11 DEF Reject
    <3> QED
      BY <2>11, <3>4, <3>5 DEF Reject
  <2>12. ASSUME NEW a \in Admins, LogRejection(a) PROVE TypeOK'
    <3>1. audit' \in [Listings -> SUBSET {"LISTING_APPROVED", "LISTING_REJECTED",
                                          "LISTING_REMOVED"}]
      BY <2>12 DEF LogRejection
    <3> QED
      BY <2>12, <3>1, RequestTypes DEF LogRejection, Idle
  <2>13. ASSUME NEW a \in Admins, NEW l \in Listings, ReadToTakeDown(a, l) PROVE TypeOK'
    <3> DEFINE r == [Idle EXCEPT !.task = "takedown", !.id = l,
                                 !.live = (auction[l].status = "ACTIVE")]
    <3>1. r \in Request /\ r.id = l
      BY RequestTypes DEF AdminTasks, Idle
    <3>2. admin' = [admin EXCEPT ![a] = r]
      BY <2>13 DEF ReadToTakeDown
    <3>3. UNCHANGED <<listing, content, auction, audit, seller, abandoned>>
      BY <2>13 DEF ReadToTakeDown
    <3> QED
      BY <2>6, <3>1, <3>2, <3>3
  <2>14. ASSUME NEW a \in Admins, TakeDown(a) PROVE TypeOK'
    <3> DEFINE r == IF admin[a].live THEN [admin[a] EXCEPT !.task = "cancel"] ELSE Idle
    <3>1. admin[a].id \in Listings
      BY <2>14 DEF TakeDown
    <3>2. r \in Request /\ (r.task \notin {"idle", "approve"} => r.id \in Listings)
      <4>1. admin[a] \in Request
        OBVIOUS
      <4>2. [admin[a] EXCEPT !.task = "cancel"] \in Request
        BY <4>1, RequestTypes DEF AdminTasks
      <4>3. [admin[a] EXCEPT !.task = "cancel"].id = admin[a].id
        BY <4>1 DEF Request
      <4>4. Idle \in Request /\ Idle.task = "idle"
        BY RequestTypes DEF Idle
      <4> QED
        BY <3>1, <4>2, <4>3, <4>4
    <3>3. admin' = [admin EXCEPT ![a] = r]
      BY <2>14 DEF TakeDown
    <3>4. /\ admin' \in [Admins -> Request]
          /\ \A b \in Admins : admin'[b].task \notin {"idle", "approve"}
                                 => admin'[b].id \in Listings
      BY <2>6, <3>2, <3>3
    <3>5. audit' \in [Listings -> SUBSET {"LISTING_APPROVED", "LISTING_REJECTED",
                                          "LISTING_REMOVED"}]
      BY <2>14 DEF TakeDown
    <3> QED
      BY <2>14, <3>4, <3>5 DEF TakeDown
  <2>15. ASSUME NEW a \in Admins, CancelRemoved(a) PROVE TypeOK'
    <3>1. auction' \in [Listings -> AuctionRow]
      BY <2>15, RowTypes DEF CancelRemoved
    <3> QED
      BY <2>15, <3>1, RequestTypes DEF CancelRemoved, Idle
  <2>16. ASSUME NEW a \in Admins, RequestDies(a) PROVE TypeOK'
    <3>1. abandoned' \in SUBSET Listings
      BY <2>16 DEF RequestDies
    <3> QED
      BY <2>16, <3>1, RequestTypes DEF RequestDies, Idle
  <2>17. ASSUME NEW l \in Listings, PlaceBid(l) PROVE TypeOK'
    BY <2>17, RowTypes DEF PlaceBid
  <2>18. ASSUME NEW l \in Listings, NEW isAdmin \in BOOLEAN, CancelAuction(l, isAdmin)
         PROVE TypeOK'
    BY <2>18, RowTypes DEF CancelAuction
  <2>19. ASSUME NEW l \in Listings, NEW met \in {"null", "true", "false"},
                CloseAuction(l, met)
         PROVE TypeOK'
    <3>1. auction' \in [Listings -> AuctionRow]
      BY <2>19, RowTypes DEF CloseAuction
    <3> QED
      BY <2>19, <3>1 DEF CloseAuction
  <2> QED
    BY <2>1, <2>2, <2>3, <2>4, <2>5, <2>7, <2>8, <2>9, <2>10, <2>11, <2>12, <2>13,
       <2>14, <2>15, <2>16, <2>17, <2>18, <2>19 DEF Next
<1> QED
  BY <1>1, <1>2, PTL DEF Spec

-----------------------------------------------------------------------------
(* The listing and its auction.                                            *)

\* What a step may do to the auctions: open one whose listing exists, or move one on.
LEMMA AuctionSteps ==
  ASSUME TypeOK, [Next]_vars, NEW l \in Listings
  PROVE  /\ HasAuction(l) => /\ auction'[l].status # "none"
                             /\ auction'[l].content = auction[l].content
         /\ HasAuction(l) /\ auction[l].status # "ACTIVE" =>
              auction'[l].status \in {auction[l].status, "CLOSED"}
         /\ auction'[l] # auction[l] /\ ~HasAuction(l) =>
              /\ listing'[l] = "APPROVED"
              /\ Exists(l)
              /\ "LISTING_APPROVED" \in audit'[l]
         /\ auction'[l].sold /\ ~auction[l].sold => auction'[l].status = "CLOSED"
<1> USE DEF HasAuction
<1>1. auction[l] \in AuctionRow /\ auction \in [Listings -> AuctionRow]
  BY DEF TypeOK
<1>2. CASE UNCHANGED auction
  BY <1>1, <1>2
<1>3. ASSUME NEW a \in Admins, NEW i \in admin[a].items, ApproveOneListing(a, i)
      PROVE  /\ HasAuction(l) => auction'[l] = auction[l]
             /\ auction'[l] # auction[l] => /\ i.id = l /\ listing'[l] = "APPROVED"
                                            /\ Exists(l)
                                            /\ "LISTING_APPROVED" \in audit'[l]
             /\ auction'[l].sold => auction[l].sold
  <2>1. i \in Snapshot /\ i.id \in Listings
    BY DEF TypeOK, Request, Snapshot
  <2>2. /\ \A m \in Listings : HasAuction(m) => auction'[m] = auction[m]
        /\ \A m \in Listings : m # i.id => auction'[m] = auction[m]
        /\ auction'[i.id].sold => auction[i.id].sold
    BY <1>1, <1>3, <2>1, OpenEffect DEF ApproveOneListing
  <2>3. /\ listing'[i.id] = "APPROVED" /\ Exists(i.id)
        /\ "LISTING_APPROVED" \in audit'[i.id]
    BY <1>3, <2>1 DEF ApproveOneListing, TypeOK
  <2> QED
    BY <2>1, <2>2, <2>3
<1>4. ASSUME NEW a \in Admins, CancelRemoved(a)
      PROVE  \/ auction'[l] = auction[l]
             \/ auction[l].status = "ACTIVE"
                  /\ auction'[l] = [auction[l] EXCEPT !.status = "CANCELLED"]
  BY <1>1, <1>4 DEF CancelRemoved, TypeOK
<1>5. ASSUME NEW m \in Listings, PlaceBid(m)
      PROVE  \/ auction'[l] = auction[l]
             \/ auction[l].status = "ACTIVE"
                  /\ auction'[l] = [auction[l] EXCEPT !.bidCount = 1]
  BY <1>1, <1>5 DEF PlaceBid, TypeOK
<1>6. ASSUME NEW m \in Listings, NEW isAdmin \in BOOLEAN, CancelAuction(m, isAdmin)
      PROVE  \/ auction'[l] = auction[l]
             \/ auction[l].status = "ACTIVE"
                  /\ auction'[l] = [auction[l] EXCEPT !.status = "CANCELLED"]
  BY <1>1, <1>6 DEF CancelAuction, TypeOK
<1>7. ASSUME NEW m \in Listings, NEW met \in {"null", "true", "false"}, CloseAuction(m, met)
      PROVE  \/ auction'[l] = auction[l]
             \/ /\ HasAuction(l)
                /\ \E b \in BOOLEAN :
                     auction'[l] = [auction[l] EXCEPT !.status = "CLOSED", !.reserveMet = met,
                                                      !.sold = b]
  <2>1. CASE m # l
    BY <1>1, <1>7, <2>1 DEF CloseAuction
  <2>2. CASE m = l
    <3> DEFINE b == auction[l].bidCount > 0 /\ met # "false"
    <3>1. auction'[l] = [auction[l] EXCEPT !.status = "CLOSED", !.reserveMet = met, !.sold = b]
      BY <1>1, <1>7, <2>2 DEF CloseAuction
    <3>2. b \in BOOLEAN /\ HasAuction(l)
      BY <1>7, <2>2 DEF CloseAuction
    <3> QED
      BY <3>1, <3>2
  <2> QED
    BY <2>1, <2>2
<1>8. \/ UNCHANGED auction
      \/ \E a \in Admins : \/ \E i \in admin[a].items : ApproveOneListing(a, i)
                           \/ CancelRemoved(a)
      \/ \E m \in Listings :
           \/ PlaceBid(m)
           \/ \E isAdmin \in BOOLEAN : CancelAuction(m, isAdmin)
           \/ \E met \in {"null", "true", "false"} : CloseAuction(m, met)
  BY DEF Next, vars, rows, Submit, ReadToResubmit, Resubmit, ReadToWithdraw, Withdraw,
         ReadPending, ApprovalThrows, ReadToReject, Reject, LogRejection, ReadToTakeDown,
         TakeDown, RequestDies
<1>9. ASSUME NEW a \in Admins, NEW i \in admin[a].items, ApproveOneListing(a, i)
      PROVE  /\ HasAuction(l) => auction'[l] = auction[l]
             /\ auction'[l] # auction[l] => /\ listing'[l] = "APPROVED" /\ Exists(l)
                                            /\ "LISTING_APPROVED" \in audit'[l]
             /\ auction'[l].sold => auction[l].sold
  BY <1>3, <1>9
<1> HIDE DEF HasAuction
<1>10. \/ auction'[l] = auction[l]
       \/ /\ ~HasAuction(l) /\ listing'[l] = "APPROVED" /\ Exists(l)
          /\ "LISTING_APPROVED" \in audit'[l] /\ (auction'[l].sold => auction[l].sold)
       \/ /\ auction[l].status = "ACTIVE"
          /\ \/ auction'[l] = [auction[l] EXCEPT !.status = "CANCELLED"]
             \/ auction'[l] = [auction[l] EXCEPT !.bidCount = 1]
       \/ /\ HasAuction(l)
          /\ \E met \in {"null", "true", "false"}, b \in BOOLEAN :
               auction'[l] = [auction[l] EXCEPT !.status = "CLOSED", !.reserveMet = met,
                                                !.sold = b]
  BY <1>4, <1>5, <1>6, <1>7, <1>8, <1>9
<1> QED
  BY <1>1, <1>10 DEF HasAuction, AuctionRow

\* What a step may do to a listing.
LEMMA ListingSteps ==
  ASSUME TypeOK, [Next]_vars, NEW l \in Listings, listing'[l] # listing[l]
  PROVE  \/ listing[l] = "none" /\ listing'[l] = "PENDING"
         \/ Exists(l) /\ listing'[l] \in {"PENDING", "REJECTED"}
         \/ Exists(l) /\ listing'[l] = "withdrawn" /\ ~HasAuction(l)
              /\ auction'[l] = auction[l]
         \/ Exists(l) /\ listing'[l] = "APPROVED" /\ HasAuction(l)'
         \/ /\ listing'[l] = "REMOVED"
            /\ \E a \in Admins : admin[a].id = l /\ TakeDown(a)
<1> USE DEF TypeOK
<1>1. CASE \E m \in Listings : Submit(m)
  BY <1>1 DEF Submit
<1>2. ASSUME NEW t \in SellerTabs, Resubmit(t)
      PROVE  Exists(l) /\ listing'[l] = "PENDING"
  BY <1>2 DEF Resubmit
<1>3. ASSUME NEW t \in SellerTabs, Withdraw(t)
      PROVE  /\ Exists(l) /\ listing'[l] = "withdrawn" /\ ~HasAuction(l)
             /\ auction'[l] = auction[l]
  BY <1>3 DEF Withdraw
<1>4. ASSUME NEW a \in Admins, NEW i \in admin[a].items, ApproveOneListing(a, i)
      PROVE  Exists(l) /\ listing'[l] = "APPROVED" /\ HasAuction(l)'
  <2>1. i \in Snapshot
    BY DEF Request
  <2>2. i.id = l /\ Exists(l) /\ listing'[l] = "APPROVED"
    BY <1>4 DEF ApproveOneListing
  <2>3. auction'[i.id].status # "none"
    BY <1>4, <2>1, OpenEffect DEF ApproveOneListing
  <2> QED
    BY <2>2, <2>3 DEF HasAuction
<1>5. ASSUME NEW a \in Admins, Reject(a)
      PROVE  Exists(l) /\ listing'[l] = "REJECTED"
  BY <1>5 DEF Reject
<1>6. ASSUME NEW a \in Admins, TakeDown(a)
      PROVE  listing'[l] = "REMOVED" /\ admin[a].id = l
  BY <1>6 DEF TakeDown
<1>7. \/ \E m \in Listings : Submit(m)
      \/ \E t \in SellerTabs : Resubmit(t) \/ Withdraw(t)
      \/ \E a \in Admins : \/ \E i \in admin[a].items : ApproveOneListing(a, i)
                           \/ Reject(a) \/ TakeDown(a)
  BY DEF Next, vars, rows, ReadToResubmit, ReadToWithdraw, ReadPending, ApprovalThrows,
         ReadToReject, LogRejection, ReadToTakeDown, CancelRemoved, RequestDies, PlaceBid,
         CancelAuction, CloseAuction
<1> QED
  BY <1>1, <1>2, <1>3, <1>4, <1>5, <1>6, <1>7

\* How an admin request comes to be taking a listing down or cancelling its auction.
LEMMA RequestSteps ==
  ASSUME TypeOK, [Next]_vars, NEW a \in Admins, admin'[a].task \in {"takedown", "cancel"}
  PROVE  \/ admin'[a] = admin[a]
         \/ \E l \in Listings :
              /\ listing[l] = "APPROVED"
              /\ auction' = auction
              /\ admin'[a].task = "takedown" /\ admin'[a].id = l
              /\ admin'[a].live = (auction[l].status = "ACTIVE")
         \/ /\ admin[a].task = "takedown" /\ admin[a].live
            /\ auction' = auction
            /\ admin'[a].task = "cancel" /\ admin'[a].id = admin[a].id
<1> USE DEF TypeOK
<1>1. ASSUME NEW b \in Admins, NEW r, r.task \notin {"takedown", "cancel"},
             admin' = [admin EXCEPT ![b] = r]
      PROVE  admin'[a] = admin[a]
  BY <1>1
<1>2. Idle.task = "idle"
  BY DEF Idle
<1>3. CASE UNCHANGED admin
  BY <1>3
<1>4. ASSUME NEW b \in Admins, ReadPending(b) PROVE admin'[a] = admin[a]
  BY <1>4 DEF ReadPending
<1>5. ASSUME NEW b \in Admins, NEW i \in admin[b].items,
             ApproveOneListing(b, i) \/ ApprovalThrows(b, i)
      PROVE  admin'[a] = admin[a]
  <2>1. AfterItem(b, i).task = "idle" \/ AfterItem(b, i).task = admin[b].task
    BY <1>2 DEF AfterItem, Request
  <2> QED
    BY <1>1, <1>2, <1>5, <2>1 DEF ApproveOneListing, ApprovalThrows
<1>6. ASSUME NEW b \in Admins, NEW l \in Listings, ReadToReject(b, l)
      PROVE  admin'[a] = admin[a]
  <2>1. [Idle EXCEPT !.task = "reject", !.id = l].task = "reject"
    BY DEF Idle
  <2> QED
    BY <1>1, <1>6, <2>1 DEF ReadToReject
<1>7. ASSUME NEW b \in Admins, Reject(b) PROVE admin'[a] = admin[a]
  <2>1. [Idle EXCEPT !.task = "rejected", !.id = admin[b].id].task = "rejected"
    BY DEF Idle
  <2> QED
    BY <1>1, <1>2, <1>7, <2>1 DEF Reject
<1>8. ASSUME NEW b \in Admins, LogRejection(b) \/ CancelRemoved(b) \/ RequestDies(b)
      PROVE  admin'[a] = admin[a]
  BY <1>1, <1>2, <1>8 DEF LogRejection, CancelRemoved, RequestDies
<1>9. ASSUME NEW b \in Admins, NEW l \in Listings, ReadToTakeDown(b, l)
      PROVE  \/ admin'[a] = admin[a]
             \/ /\ listing[l] = "APPROVED" /\ auction' = auction
                /\ admin'[a].task = "takedown" /\ admin'[a].id = l
                /\ admin'[a].live = (auction[l].status = "ACTIVE")
  <2>1. CASE b # a
    BY <1>9, <2>1 DEF ReadToTakeDown
  <2>2. CASE b = a
    <3>1. admin'[a] = [Idle EXCEPT !.task = "takedown", !.id = l,
                                   !.live = (auction[l].status = "ACTIVE")]
      BY <1>9, <2>2 DEF ReadToTakeDown
    <3>2. listing[l] = "APPROVED" /\ auction' = auction
      BY <1>9 DEF ReadToTakeDown, rows
    <3> QED
      BY <3>1, <3>2 DEF Idle
  <2> QED
    BY <2>1, <2>2
<1>10. ASSUME NEW b \in Admins, TakeDown(b)
       PROVE  \/ admin'[a] = admin[a]
              \/ /\ admin[a].task = "takedown" /\ admin[a].live /\ auction' = auction
                 /\ admin'[a].task = "cancel" /\ admin'[a].id = admin[a].id
  <2>1. CASE b # a \/ ~admin[b].live
    BY <1>1, <1>2, <1>10, <2>1 DEF TakeDown
  <2>2. CASE b = a /\ admin[b].live
    <3>1. admin'[a] = [admin[a] EXCEPT !.task = "cancel"] /\ auction' = auction
          /\ admin[a].task = "takedown"
      BY <1>10, <2>2 DEF TakeDown
    <3>2. [admin[a] EXCEPT !.task = "cancel"].id = admin[a].id
          /\ [admin[a] EXCEPT !.task = "cancel"].task = "cancel"
      BY DEF Request
    <3> QED
      BY <2>2, <3>1, <3>2
  <2> QED
    BY <2>1, <2>2
<1>11. \/ UNCHANGED admin
       \/ \E b \in Admins :
            \/ ReadPending(b)
            \/ \E i \in admin[b].items : ApproveOneListing(b, i) \/ ApprovalThrows(b, i)
            \/ \E l \in Listings : ReadToReject(b, l) \/ ReadToTakeDown(b, l)
            \/ Reject(b) \/ LogRejection(b) \/ TakeDown(b) \/ CancelRemoved(b)
            \/ RequestDies(b)
  BY DEF Next, vars, Submit, ReadToResubmit, Resubmit, ReadToWithdraw, Withdraw, PlaceBid,
         CancelAuction, CloseAuction
<1> QED
  BY <1>3, <1>4, <1>5, <1>6, <1>7, <1>8, <1>9, <1>10, <1>11

\* A takedown is under way only on a listing that has an auction.
Companions ==
  /\ AuctionWithListing
  /\ \A a \in Admins : admin[a].task \in {"takedown", "cancel"} => HasAuction(admin[a].id)

\* A listing and its auction come and go together.
THEOREM CompanionsAlways == Spec => []Companions
<1>1. Init => Companions
  BY DEF Init, Companions, AuctionWithListing, HasAuction, NoAuction, Idle
<1>2. TypeOK /\ Companions /\ [Next]_vars => Companions'
  <2> SUFFICES ASSUME TypeOK, Companions, [Next]_vars PROVE Companions'
    OBVIOUS
  <2>1. ASSUME NEW l \in Listings, HasAuction(l) PROVE HasAuction(l)'
    BY <2>1, AuctionSteps DEF HasAuction
  <2>2. ASSUME NEW l \in Listings, listing'[l] \in {"APPROVED", "REMOVED"}
        PROVE  HasAuction(l)'
    <3>1. CASE listing'[l] = listing[l]
      BY <2>1, <2>2, <3>1 DEF Companions, AuctionWithListing
    <3>2. CASE listing'[l] # listing[l]
      <4>1. CASE listing'[l] = "APPROVED"
        BY <3>2, <4>1, ListingSteps
      <4>2. CASE listing'[l] = "REMOVED"
        <5>1. PICK a \in Admins : admin[a].id = l /\ TakeDown(a)
          BY <3>2, <4>2, ListingSteps
        <5>2. HasAuction(l)
          BY <5>1 DEF Companions, TakeDown
        <5> QED
          BY <2>1, <5>2
      <4> QED
        BY <2>2, <4>1, <4>2
    <3> QED
      BY <3>1, <3>2
  <2>3. ASSUME NEW l \in Listings, HasAuction(l)' PROVE Exists(l)'
    <3>1. CASE HasAuction(l)
      <4>1. Exists(l)
        BY <3>1 DEF Companions, AuctionWithListing
      <4>2. CASE listing'[l] = listing[l]
        BY <4>1, <4>2 DEF Exists
      <4>3. CASE listing'[l] # listing[l]
        <5>1. listing'[l] \in {"PENDING", "REJECTED", "APPROVED", "REMOVED"}
          BY <3>1, <4>1, <4>3, ListingSteps DEF Exists
        <5> QED
          BY <5>1 DEF Exists
      <4> QED
        BY <4>2, <4>3
    <3>2. CASE ~HasAuction(l)
      <4>1. auction'[l] # auction[l]
        BY <2>3, <3>2 DEF HasAuction
      <4>2. listing'[l] = "APPROVED"
        BY <3>2, <4>1, AuctionSteps
      <4> QED
        BY <4>2 DEF Exists
    <3> QED
      BY <3>1, <3>2
  <2>4. ASSUME NEW a \in Admins, admin'[a].task \in {"takedown", "cancel"}
        PROVE  HasAuction(admin[a].id)'
    <3>1. CASE admin'[a] = admin[a]
      BY <2>1, <2>4, <3>1 DEF Companions, TypeOK
    <3>2. ASSUME NEW l \in Listings, listing[l] = "APPROVED", auction' = auction,
                 admin'[a].id = l
          PROVE  HasAuction(admin[a].id)'
      BY <3>2 DEF Companions, AuctionWithListing, HasAuction
    <3>3. CASE /\ admin[a].task = "takedown" /\ auction' = auction
               /\ admin'[a].id = admin[a].id
      BY <3>3 DEF Companions, HasAuction
    <3>4. \/ admin'[a] = admin[a]
          \/ \E l \in Listings : /\ listing[l] = "APPROVED" /\ auction' = auction
                                 /\ admin'[a].id = l
          \/ /\ admin[a].task = "takedown" /\ auction' = auction
             /\ admin'[a].id = admin[a].id
      BY <2>4, RequestSteps
    <3> QED
      BY <3>1, <3>2, <3>3, <3>4
  <2> QED
    BY <2>2, <2>3, <2>4 DEF Companions, AuctionWithListing
<1> QED
  BY <1>1, <1>2, TypeCorrect, PTL DEF Spec

\* An approved or removed listing has an auction, and no listing is deleted from under one.
THEOREM AuctionWithListingAlways == Spec => []AuctionWithListing
BY CompanionsAlways, PTL DEF Companions

\* A withdrawn listing and an auction that is over never come back, and an auction keeps
\* the description it was approved with.
THEOREM NothingReturns == Spec => NothingComesBack
<1>1. TypeOK /\ [Next]_vars =>
        \A l \in Listings :
          /\ listing[l] = "withdrawn" => listing'[l] = "withdrawn"
          /\ HasAuction(l) => auction'[l].content = auction[l].content
          /\ HasAuction(l) /\ auction[l].status # "ACTIVE" =>
               auction'[l].status \in {auction[l].status, "CLOSED"}
  <2> SUFFICES ASSUME TypeOK, [Next]_vars, NEW l \in Listings
               PROVE  /\ listing[l] = "withdrawn" => listing'[l] = "withdrawn"
                      /\ HasAuction(l) => auction'[l].content = auction[l].content
                      /\ HasAuction(l) /\ auction[l].status # "ACTIVE" =>
                           auction'[l].status \in {auction[l].status, "CLOSED"}
    OBVIOUS
  <2>1. ASSUME listing[l] = "withdrawn", listing'[l] # "withdrawn" PROVE FALSE
    <3>1. ~Exists(l) /\ listing'[l] # listing[l]
      BY <2>1 DEF Exists
    <3>2. PICK a \in Admins : admin[a].id = l /\ TakeDown(a)
      BY <2>1, <3>1, ListingSteps
    <3> QED
      BY <3>1, <3>2 DEF TakeDown
  <2> QED
    BY <2>1, AuctionSteps
<1> QED
  BY <1>1, TypeCorrect, PTL DEF Spec, NothingComesBack

\* No auction was opened and no listing removed without the audit row that says so.
THEOREM ChangesAuditedAlways == Spec => []ChangesAudited
<1>1. Init => ChangesAudited
  BY DEF Init, ChangesAudited, HasAuction, NoAuction
<1>2. TypeOK /\ ChangesAudited /\ [Next]_vars => ChangesAudited'
  <2> SUFFICES ASSUME TypeOK, ChangesAudited, [Next]_vars, NEW l \in Listings
               PROVE  /\ HasAuction(l)' => "LISTING_APPROVED" \in audit'[l]
                      /\ listing'[l] = "REMOVED" => "LISTING_REMOVED" \in audit'[l]
    BY DEF ChangesAudited
  <2>1. audit[l] \subseteq audit'[l]
    <3> USE DEF TypeOK
    <3>1. ASSUME NEW m \in Listings, NEW e, audit' = [audit EXCEPT ![m] = @ \cup {e}]
          PROVE  audit[l] \subseteq audit'[l]
      BY <3>1
    <3>2. ASSUME NEW a \in Admins, NEW i \in admin[a].items, ApproveOneListing(a, i)
          PROVE  audit[l] \subseteq audit'[l]
      <4>1. i.id \in Listings
        BY DEF Request, Snapshot
      <4> QED
        BY <3>1, <3>2, <4>1 DEF ApproveOneListing
    <3>3. ASSUME NEW a \in Admins, LogRejection(a) \/ TakeDown(a)
          PROVE  audit[l] \subseteq audit'[l]
      <4>1. admin[a].id \in Listings
        BY <3>3 DEF LogRejection, TakeDown
      <4> QED
        BY <3>1, <3>3, <4>1 DEF LogRejection, TakeDown
    <3>4. \/ UNCHANGED audit
          \/ \E a \in Admins : \/ \E i \in admin[a].items : ApproveOneListing(a, i)
                               \/ LogRejection(a) \/ TakeDown(a)
      BY DEF Next, vars, rows, Submit, ReadToResubmit, Resubmit, ReadToWithdraw, Withdraw,
             ReadPending, ApprovalThrows, ReadToReject, Reject, ReadToTakeDown,
             CancelRemoved, RequestDies, PlaceBid, CancelAuction, CloseAuction
    <3> QED
      BY <3>2, <3>3, <3>4
  <2>2. ASSUME HasAuction(l)' PROVE "LISTING_APPROVED" \in audit'[l]
    <3>1. CASE HasAuction(l)
      BY <2>1, <3>1 DEF ChangesAudited
    <3>2. CASE ~HasAuction(l)
      BY <2>2, <3>2, AuctionSteps DEF HasAuction
    <3> QED
      BY <3>1, <3>2
  <2>3. ASSUME listing'[l] = "REMOVED" PROVE "LISTING_REMOVED" \in audit'[l]
    <3>1. CASE listing'[l] = listing[l]
      BY <2>1, <2>3, <3>1 DEF ChangesAudited
    <3>2. CASE listing'[l] # listing[l]
      <4>1. PICK a \in Admins : admin[a].id = l /\ TakeDown(a)
        BY <2>3, <3>2, ListingSteps
      <4> QED
        BY <4>1 DEF TakeDown, TypeOK
    <3> QED
      BY <3>1, <3>2
  <2> QED
    BY <2>2, <2>3
<1> QED
  BY <1>1, <1>2, TypeCorrect, PTL DEF Spec

-----------------------------------------------------------------------------
(* Takedown.                                                               *)

\* A takedown that is about to cancel the auction does that or dies, and the listings
\* whose takedown died are remembered.
LEMMA CancelSteps ==
  ASSUME TypeOK, [Next]_vars
  PROVE  /\ abandoned \subseteq abandoned'
         /\ \A a \in Admins : admin[a].task = "cancel" =>
              admin'[a] = admin[a] \/ CancelRemoved(a) \/ RequestDies(a)
<1> USE DEF TypeOK
<1>1. abandoned \subseteq abandoned'
  BY DEF Next, vars, rows, Submit, ReadToResubmit, Resubmit, ReadToWithdraw, Withdraw,
         ReadPending, ApproveOneListing, ApprovalThrows, ReadToReject, Reject,
         LogRejection, ReadToTakeDown, TakeDown, CancelRemoved, RequestDies, PlaceBid,
         CancelAuction, CloseAuction
<1>2. ASSUME NEW a \in Admins, admin[a].task = "cancel"
      PROVE  admin'[a] = admin[a] \/ CancelRemoved(a) \/ RequestDies(a)
  <2>1. \/ UNCHANGED admin
        \/ \E b \in Admins :
             \/ ReadPending(b)
             \/ \E i \in admin[b].items : ApproveOneListing(b, i) \/ ApprovalThrows(b, i)
             \/ \E l \in Listings : ReadToReject(b, l) \/ ReadToTakeDown(b, l)
             \/ Reject(b) \/ LogRejection(b) \/ TakeDown(b) \/ CancelRemoved(b)
             \/ RequestDies(b)
    BY DEF Next, vars, Submit, ReadToResubmit, Resubmit, ReadToWithdraw, Withdraw, PlaceBid,
           CancelAuction, CloseAuction
  <2>2. ASSUME NEW b \in Admins, b # a,
               \/ ReadPending(b)
               \/ \E i \in admin[b].items : ApproveOneListing(b, i) \/ ApprovalThrows(b, i)
               \/ \E l \in Listings : ReadToReject(b, l) \/ ReadToTakeDown(b, l)
               \/ Reject(b) \/ LogRejection(b) \/ TakeDown(b) \/ CancelRemoved(b)
               \/ RequestDies(b)
        PROVE  admin'[a] = admin[a]
    BY <2>2 DEF ReadPending, ApproveOneListing, ApprovalThrows, ReadToReject, ReadToTakeDown,
                Reject, LogRejection, TakeDown, CancelRemoved, RequestDies
  <2>3. /\ ~ReadPending(a)
        /\ ~\E i \in admin[a].items : ApproveOneListing(a, i) \/ ApprovalThrows(a, i)
        /\ ~\E l \in Listings : ReadToReject(a, l) \/ ReadToTakeDown(a, l)
        /\ ~Reject(a) /\ ~LogRejection(a) /\ ~TakeDown(a)
    BY <1>2 DEF ReadPending, ApproveOneListing, ApprovalThrows, ReadToReject, ReadToTakeDown,
                Reject, LogRejection, TakeDown
  <2> QED
    BY <2>1, <2>2, <2>3
<1> QED
  BY <1>1, <1>2

\* A takedown that saw no live auction was right, and still is when it writes.
TakedownInv ==
  /\ RemovedNotLive
  /\ \A a \in Admins :
       admin[a].task = "takedown" /\ ~admin[a].live => auction[admin[a].id].status # "ACTIVE"

\* A removed listing takes no bids, unless its takedown is at work or died on the way.
THEOREM RemovedNotLiveAlways == Spec => []RemovedNotLive
<1>1. Init => TakedownInv
  BY DEF Init, TakedownInv, RemovedNotLive, NoAuction, Idle
<1>2. TypeOK /\ Companions /\ TakedownInv /\ [Next]_vars => TakedownInv'
  <2> SUFFICES ASSUME TypeOK, Companions, TakedownInv, [Next]_vars PROVE TakedownInv'
    OBVIOUS
  <2>1. ASSUME NEW l \in Listings, listing'[l] = "REMOVED", auction'[l].status = "ACTIVE"
        PROVE  \/ l \in abandoned'
               \/ \E a \in Admins : admin'[a].task = "cancel" /\ admin'[a].id = l
    <3>1. auction[l].status = "ACTIVE"
      <4>1. HasAuction(l)
        BY <2>1, AuctionSteps DEF HasAuction
      <4> QED
        BY <2>1, <4>1, AuctionSteps
    <3>2. CASE listing[l] = "REMOVED"
      <4>1. CASE l \in abandoned
        BY <4>1, CancelSteps
      <4>2. CASE \E a \in Admins : admin[a].task = "cancel" /\ admin[a].id = l
        <5>1. PICK a \in Admins : admin[a].task = "cancel" /\ admin[a].id = l
          BY <4>2
        <5>2. ~CancelRemoved(a)
          BY <2>1, <3>1, <5>1 DEF CancelRemoved, TypeOK, AuctionRow
        <5>3. CASE RequestDies(a)
          BY <5>1, <5>3 DEF RequestDies
        <5>4. CASE admin'[a] = admin[a]
          BY <5>1, <5>4
        <5> QED
          BY <5>1, <5>2, <5>3, <5>4, CancelSteps
      <4> QED
        BY <3>1, <3>2, <4>1, <4>2 DEF TakedownInv, RemovedNotLive
    <3>3. CASE listing[l] # "REMOVED"
      <4>1. PICK a \in Admins : admin[a].id = l /\ TakeDown(a)
        BY <2>1, <3>3, ListingSteps
      <4>2. admin[a].live
        BY <3>1, <4>1 DEF TakedownInv, TakeDown
      <4>3. admin'[a] = [admin[a] EXCEPT !.task = "cancel"]
        BY <4>1, <4>2 DEF TakeDown, TypeOK
      <4>4. admin[a] \in Request
        BY DEF TypeOK
      <4>5. admin'[a].task = "cancel" /\ admin'[a].id = l
        BY <4>1, <4>3, <4>4 DEF Request
      <4> QED
        BY <4>5
    <3> QED
      BY <3>2, <3>3
  <2>2. ASSUME NEW a \in Admins, admin'[a].task = "takedown", ~admin'[a].live
        PROVE  auction'[admin'[a].id].status # "ACTIVE"
    <3>1. CASE admin'[a] = admin[a]
      <4>1. admin[a].id \in Listings /\ HasAuction(admin[a].id)
        BY <2>2, <3>1 DEF TypeOK, Companions
      <4>2. auction[admin[a].id].status # "ACTIVE"
        BY <2>2, <3>1 DEF TakedownInv
      <4> QED
        BY <3>1, <4>1, <4>2, AuctionSteps
    <3>2. CASE admin'[a] # admin[a]
      <4>1. PICK l \in Listings : /\ auction' = auction /\ admin'[a].id = l
                                  /\ admin'[a].live = (auction[l].status = "ACTIVE")
        BY <2>2, <3>2, RequestSteps
      <4> QED
        BY <2>2, <4>1
    <3> QED
      BY <3>1, <3>2
  <2> QED
    BY <2>1, <2>2 DEF TakedownInv, RemovedNotLive
<1>3. TakedownInv => RemovedNotLive
  BY DEF TakedownInv
<1> QED
  BY <1>1, <1>2, <1>3, TypeCorrect, CompanionsAlways, PTL DEF Spec

-----------------------------------------------------------------------------
(* My Items.                                                               *)

\* Only an auction is sold.
SoldHasAuction == \A l \in Listings : auction[l].sold => HasAuction(l)

\* Every item is shown in one stage, whatever the races between its handlers did to it.
THEOREM ItemsInOneStageAlways == Spec => []ItemsInOneStage
<1>1. Init => SoldHasAuction
  BY DEF Init, SoldHasAuction, NoAuction
<1>2. TypeOK /\ SoldHasAuction /\ [Next]_vars => SoldHasAuction'
  <2> SUFFICES ASSUME TypeOK, SoldHasAuction, [Next]_vars, NEW l \in Listings,
                      auction'[l].sold
               PROVE  auction'[l].status # "none"
    BY DEF SoldHasAuction, HasAuction
  <2>1. CASE auction[l].sold
    BY <2>1, AuctionSteps DEF SoldHasAuction
  <2>2. CASE ~auction[l].sold
    BY <2>2, AuctionSteps
  <2> QED
    BY <2>1, <2>2
<1>3. TypeOK /\ SoldHasAuction => ItemsInOneStage
  <2> SUFFICES ASSUME TypeOK, SoldHasAuction, NEW l \in Listings, Exists(l)
               PROVE  InOneStage(Facts(l))
    BY DEF ItemsInOneStage
  <2>1. auction[l] \in AuctionRow /\ listing[l] \in {"PENDING", "APPROVED", "REJECTED", "REMOVED"}
    BY DEF TypeOK, Exists
  <2>2. Facts(l) \in ItemFacts
    BY <2>1 DEF Facts, ItemFacts, AuctionRow
  <2>3. Facts(l).txn # "none" => Facts(l).auction # "none"
    BY DEF Facts, SoldHasAuction, HasAuction
  <2> QED
    BY <2>2, <2>3, EveryItemInOneStage
<1> QED
  BY <1>1, <1>2, <1>3, TypeCorrect, PTL DEF Spec

-----------------------------------------------------------------------------
(* A rejected listing, were its two conditional writes conditional.         *)

\* A resubmission, or a rejection, that writes a listing still as the request read it.
ResubmitsRejected(t) ==
  Resubmit(t) /\ Exists(seller[t].id) => listing[seller[t].id] = "REJECTED"
RejectsPending(a) ==
  Reject(a) /\ Exists(admin[a].id) => listing[admin[a].id] = "PENDING"
WritesWhatItRead ==
  /\ \A t \in SellerTabs : ResubmitsRejected(t)
  /\ \A a \in Admins : RejectsPending(a)

\* How a listing comes to be pending or rejected.
LEMMA UnreviewedSteps ==
  ASSUME TypeOK, [Next]_vars, NEW l \in Listings, listing'[l] # listing[l],
         listing'[l] \in {"PENDING", "REJECTED"}
  PROVE  /\ auction' = auction
         /\ \/ listing[l] = "none"
            \/ \E t \in SellerTabs : Resubmit(t) /\ Exists(l) /\ seller[t].id = l
            \/ \E a \in Admins : Reject(a) /\ Exists(l) /\ admin[a].id = l
<1> USE DEF TypeOK
<1>1. CASE \E m \in Listings : Submit(m)
  BY <1>1 DEF Submit
<1>2. ASSUME NEW t \in SellerTabs, Resubmit(t)
      PROVE  auction' = auction /\ Exists(l) /\ seller[t].id = l
  BY <1>2 DEF Resubmit
<1>3. ASSUME NEW a \in Admins, Reject(a)
      PROVE  auction' = auction /\ Exists(l) /\ admin[a].id = l
  BY <1>3 DEF Reject
<1>4. ASSUME NEW t \in SellerTabs, Withdraw(t) PROVE FALSE
  BY <1>4 DEF Withdraw
<1>5. ASSUME NEW a \in Admins, NEW i \in admin[a].items, ApproveOneListing(a, i) PROVE FALSE
  BY <1>5 DEF ApproveOneListing
<1>6. ASSUME NEW a \in Admins, TakeDown(a) PROVE FALSE
  BY <1>6 DEF TakeDown
<1>7. \/ \E m \in Listings : Submit(m)
      \/ \E t \in SellerTabs : Resubmit(t) \/ Withdraw(t)
      \/ \E a \in Admins : \/ \E i \in admin[a].items : ApproveOneListing(a, i)
                           \/ Reject(a) \/ TakeDown(a)
  BY DEF Next, vars, rows, ReadToResubmit, ReadToWithdraw, ReadPending, ApprovalThrows,
         ReadToReject, LogRejection, ReadToTakeDown, CancelRemoved, RequestDies, PlaceBid,
         CancelAuction, CloseAuction
<1> QED
  BY <1>1, <1>2, <1>3, <1>4, <1>5, <1>6, <1>7

\* A listing that is to be reviewed, or was turned down, has no auction.
Unreviewed ==
  \A l \in Listings : listing[l] \in {"PENDING", "REJECTED"} => ~HasAuction(l)

\* What schema.prisma says of REJECTED ("never approved") holds if a rejection finds the listing
\* still PENDING and a resubmission finds it still REJECTED when they write.  Both are needed: a
\* late resubmission makes an approved listing PENDING again, and a rejection may follow
\* (PATCH /listings/:id, POST /listings/:id/reject).
THEOREM RejectedNeverApprovedUnlessLate ==
  Spec /\ [][WritesWhatItRead]_vars => []RejectedNeverApproved
<1>1. Init => Unreviewed
  BY DEF Init, Unreviewed
<1>2. ASSUME TypeOK, AuctionWithListing, Unreviewed, [Next]_vars, [WritesWhatItRead]_vars
      PROVE  Unreviewed'
  <2> SUFFICES ASSUME NEW l \in Listings, listing'[l] \in {"PENDING", "REJECTED"}
               PROVE  ~HasAuction(l)'
    BY DEF Unreviewed
  <2>1. CASE listing'[l] = listing[l]
    <3>1. ~HasAuction(l)
      BY <2>1, <1>2 DEF Unreviewed
    <3>2. auction'[l] = auction[l]
      BY <1>2, <2>1, <3>1, AuctionSteps
    <3> QED
      BY <3>1, <3>2 DEF HasAuction
  <2>2. CASE listing'[l] # listing[l]
    <3>1. listing[l] # "none" => listing[l] \in {"PENDING", "REJECTED"}
      <4>1. WritesWhatItRead
        BY <1>2, <2>2 DEF vars, rows
      <4> QED
        BY <1>2, <2>2, <4>1, UnreviewedSteps
           DEF WritesWhatItRead, ResubmitsRejected, RejectsPending
    <3>2. ~HasAuction(l)
      BY <1>2, <3>1 DEF AuctionWithListing, Exists, Unreviewed
    <3>3. auction' = auction
      BY <1>2, <2>2, UnreviewedSteps
    <3> QED
      BY <3>2, <3>3 DEF HasAuction
  <2> QED
    BY <2>1, <2>2
<1>3. Unreviewed => RejectedNeverApproved
  BY DEF Unreviewed, RejectedNeverApproved
<1> QED
  BY <1>1, <1>2, <1>3, TypeCorrect, AuctionWithListingAlways, PTL DEF Spec
=============================================================================
