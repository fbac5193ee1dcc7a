----------------------- MODULE AuctionLifecycle_proofs -----------------------
(***************************************************************************)
(* Proofs about AuctionLifecycle, for every value of its constants.        *)
(***************************************************************************)
EXTENDS AuctionLifecycle, WellFoundedInduction, TLAPS

\* Adding a job keeps the queue well-typed.
LEMMA AddJobType ==
  ASSUME job \in [Auctions -> Job], NEW a \in Auctions, NEW s \in JobStates,
         AddJob(a, s)
  PROVE  job' \in [Auctions -> Job]
<1>1. FreshJob(s) \in Job
  BY DEF FreshJob, Job
<1> QED
  BY <1>1 DEF AddJob

\* Raising the price on a well-typed auction row leaves it well-typed.
LEMMA RowRaises ==
  ASSUME NEW row \in AuctionRow, NEW price \in Nat, NEW count \in Nat
  PROVE  [row EXCEPT !.currentBid = price, !.bidCount = count] \in AuctionRow
BY DEF AuctionRow

\* Closing a well-typed auction row leaves it well-typed.
LEMMA RowCloses ==
  ASSUME NEW row \in AuctionRow, NEW met \in {"null", "true", "false"}
  PROVE  [row EXCEPT !.status = "CLOSED", !.reserveMet = met] \in AuctionRow
BY DEF AuctionRow, Statuses

\* The type invariant of the auction, its bids, its jobs and its processes.
THEOREM TypeCorrect == Spec => []TypeOK
<1>1. Init => TypeOK
  BY DEF Init, TypeOK, NoRow, NoJob, FreshJob, Idle, NoSweep, AuctionRow, Job, Run,
         Sweep, Statuses, JobStates, Phases
<1>2. TypeOK /\ [Next]_vars => TypeOK'
  <2> SUFFICES ASSUME TypeOK, [Next]_vars PROVE TypeOK'
    OBVIOUS
  <2> USE DEF TypeOK, rows, calls, procs
  <2>1. CASE UNCHANGED vars
    BY <2>1 DEF vars
  <2>2. CASE Tick
    BY <2>2 DEF Tick
  <2>3. ASSUME NEW a \in Auctions, Open(a) PROVE TypeOK'
    BY <2>3, PriceAssumption, ClockAssumption DEF Open, AuctionRow, Statuses
  <2>4. ASSUME NEW a \in Auctions, ScheduleEnd(a) PROVE TypeOK'
    <3>1. (IF auction[a].endTime <= now THEN "waiting" ELSE "delayed") \in JobStates
      BY DEF JobStates
    <3>2. job' \in [Auctions -> Job]
      BY <2>4, <3>1, AddJobType DEF ScheduleEnd
    <3> QED
      BY <2>4, <3>2 DEF ScheduleEnd
  <2>5. ASSUME NEW a \in Auctions, ScheduleLost(a) PROVE TypeOK'
    BY <2>5 DEF ScheduleLost
  <2>6. ASSUME NEW a \in Auctions, NEW b \in Buyers, NEW amount \in Amounts,
               PlaceBid(b, a, amount)
        PROVE  TypeOK'
    <3>1. amount \in Nat /\ [buyer |-> b, amount |-> amount] \in Bid
      BY PriceAssumption DEF Amounts, Bid
    <3>2. auction' \in [Auctions -> AuctionRow]
      <4>1. auction[a].bidCount + 1 \in Nat
        BY DEF AuctionRow
      <4>2. [auction[a] EXCEPT !.currentBid = amount, !.bidCount = @ + 1] \in AuctionRow
        BY <3>1, <4>1, RowRaises
      <4> QED
        BY <2>6, <4>2 DEF PlaceBid, TellSeller
    <3>3. bids' \in [Auctions -> Seq(Bid)]
      BY <2>6, <3>1 DEF PlaceBid, TellSeller
    <3>4. outbid' \in [Auctions -> SUBSET Nat]
      BY <2>6 DEF PlaceBid, TellSeller, PrevHighest
    <3> QED
      BY <3>2, <3>3, <3>4, <2>6 DEF PlaceBid, TellSeller
  <2>7. ASSUME NEW a \in Auctions, SellerReads(a) PROVE TypeOK'
    BY <2>7 DEF SellerReads
  <2>8. ASSUME NEW a \in Auctions, NEW isAdmin \in BOOLEAN, Cancel(a, isAdmin)
        PROVE  TypeOK'
    <3>1. auction' \in [Auctions -> AuctionRow]
      <4>1. auction[a] \in AuctionRow
        OBVIOUS
      <4>2. [auction[a] EXCEPT !.status = "CANCELLED"] \in AuctionRow
        BY <4>1 DEF AuctionRow, Statuses
      <4> QED
        BY <2>8, <4>2 DEF Cancel
    <3>2. notices' \in [Auctions -> Seq(NoticeTypes)]
      BY <2>8 DEF Cancel, NoticeTypes
    <3> QED
      BY <3>1, <3>2, <2>8 DEF Cancel
  <2>9. ASSUME NEW a \in Auctions, RemoveCancelledJob(a) PROVE TypeOK'
    BY <2>9 DEF RemoveCancelledJob, NoJob, FreshJob, Job, JobStates
  <2>10. ASSUME NEW a \in Auctions, RemovalLost(a) PROVE TypeOK'
    BY <2>10 DEF RemovalLost
  <2>11. ASSUME NEW a \in Auctions, JobDue(a) PROVE TypeOK'
    BY <2>11 DEF JobDue, Job, JobStates
  <2>12. ASSUME NEW a \in Auctions, JobStalled(a) PROVE TypeOK'
    BY <2>12 DEF JobStalled, Job, JobStates
  <2>13. ASSUME NEW a \in Auctions, NEW w \in Workers, TakeJob(w, a) PROVE TypeOK'
    BY <2>13 DEF TakeJob, Job, JobStates, Run, Phases
  <2>14. ASSUME NEW a \in Auctions, NEW s \in Sweepers, SweepInspect(s, a)
         PROVE  TypeOK'
    BY <2>14 DEF SweepInspect, Sweep
  <2>15. ASSUME NEW w \in Workers, SkipClosed(w) PROVE TypeOK'
    <3>1. run[w].auction \in Auctions
      BY <2>15 DEF SkipClosed, Run, Idle
    <3>2. [run[w] EXCEPT !.phase = "skipped"] \in Run
      <4>1. run[w] \in [auction : Auctions, phase : Phases]
        BY <2>15 DEF SkipClosed, Run, Idle
      <4> QED
        BY <4>1 DEF Run, Phases
    <3> QED
      BY <2>15, <3>2 DEF SkipClosed
  <2>16. ASSUME NEW w \in Workers, Settle(w) PROVE TypeOK'
    <3> DEFINE a == run[w].auction
    <3>0. a \in Auctions
      BY <2>16 DEF Settle, Run, Idle
    <3>1. auction' \in [Auctions -> AuctionRow]
      <4>1. ReserveMet(a) \in {"null", "true", "false"}
        BY DEF ReserveMet
      <4>2. [auction[a] EXCEPT !.status = "CLOSED", !.reserveMet = ReserveMet(a)]
              \in AuctionRow
        BY <3>0, <4>1, RowCloses
      <4> QED
        BY <2>16, <3>0, <4>2 DEF Settle
    <3>2. sale' \in [Auctions -> Sale \cup {NoSale}]
      <4>1. ASSUME NEW i \in DOMAIN bids[a]
            PROVE  [winner |-> bids[a][i].buyer, amount |-> bids[a][i].amount] \in Sale
        <5>1. bids[a] \in Seq(Bid)
          BY <3>0
        <5>2. bids[a][i] \in Bid
          BY <5>1
        <5> QED
          BY <5>2 DEF Bid, Sale
      <4> QED
        BY <2>16, <3>0, <4>1 DEF Settle
    <3>3. notices' \in [Auctions -> Seq(NoticeTypes)]
      <4>1. /\ Append(notices[a], "RESERVE_NOT_MET") \in Seq(NoticeTypes)
            /\ Append(notices[a], "AUCTION_WON") \in Seq(NoticeTypes)
        BY <3>0 DEF NoticeTypes
      <4> QED
        BY <2>16, <3>0, <4>1 DEF Settle
    <3>4. run' \in [Workers -> Run]
      <4>1. [run[w] EXCEPT !.phase = "settled"] \in Run
        BY <2>16, <3>0 DEF Settle, Run, Phases, Idle
      <4> QED
        BY <2>16, <4>1 DEF Settle
    <3> QED
      BY <3>1, <3>2, <3>3, <3>4, <2>16 DEF Settle
  <2>17. ASSUME NEW w \in Workers, FinishJob(w) PROVE TypeOK'
    <3>0. run[w].auction \in Auctions
      BY <2>17 DEF FinishJob, Run, Idle
    <3>1. job' \in [Auctions -> Job]
      <4>1. job[run[w].auction] \in Job
        BY <3>0
      <4>2. [job[run[w].auction] EXCEPT !.state = "completed", !.owner = NoWorker] \in Job
        BY <4>1 DEF Job, JobStates
      <4> QED
        BY <2>17, <3>0, <4>2 DEF FinishJob
    <3>2. run' \in [Workers -> Run]
      BY <2>17 DEF FinishJob, Idle, Run, Phases
    <3> QED
      BY <3>0, <3>1, <3>2, <2>17 DEF FinishJob
  <2>18. ASSUME NEW w \in Workers, FinishUnacknowledged(w) PROVE TypeOK'
    <3>0. run[w].auction \in Auctions
      BY <2>18 DEF FinishUnacknowledged, Run, Idle
    <3>1. job' \in [Auctions -> Job]
      BY <2>18, <3>0 DEF FinishUnacknowledged, Abandoned, Owns, Job
    <3>2. run' \in [Workers -> Run]
      BY <2>18 DEF FinishUnacknowledged, Idle, Run, Phases
    <3> QED
      BY <3>0, <3>1, <3>2, <2>18 DEF FinishUnacknowledged
  <2>19. ASSUME NEW w \in Workers, CloseFails(w) PROVE TypeOK'
    <3>0. run[w].auction \in Auctions
      BY <2>19 DEF CloseFails, Run, Idle
    <3>1. job' \in [Auctions -> Job]
      BY <2>19, <3>0 DEF CloseFails, Owns, Job, JobStates
    <3>2. run' \in [Workers -> Run]
      BY <2>19 DEF CloseFails, Idle, Run, Phases
    <3> QED
      BY <3>1, <3>2, <2>19 DEF CloseFails
  <2>20. ASSUME NEW w \in Workers, WorkerCrash(w) PROVE TypeOK'
    <3>0. run[w].auction \in Auctions
      BY <2>20 DEF WorkerCrash, Run, Idle
    <3>1. job' \in [Auctions -> Job]
      BY <2>20, <3>0 DEF WorkerCrash, Abandoned, Owns, Job
    <3>2. run' \in [Workers -> Run]
      BY <2>20 DEF WorkerCrash, Idle, Run, Phases
    <3> QED
      BY <3>1, <3>2, <2>20 DEF WorkerCrash
  <2>21. ASSUME NEW s \in Sweepers, SweepList(s) PROVE TypeOK'
    BY <2>21 DEF SweepList, Overdue, Sweep
  <2>22. ASSUME NEW s \in Sweepers, SweepRequeue(s) PROVE TypeOK'
    <3>0. sweep[s].at \in Auctions
      BY <2>22 DEF SweepRequeue, Sweep
    <3>1. job' \in [Auctions -> Job]
      <4>1. "waiting" \in JobStates /\ FreshJob("waiting") \in Job
        BY DEF JobStates, Job, FreshJob
      <4> QED
        BY <2>22, <3>0, <4>1, AddJobType DEF SweepRequeue
    <3>2. sweep' \in [Sweepers -> Sweep]
      BY <2>22 DEF SweepRequeue, Sweep
    <3> QED
      BY <3>1, <3>2, <2>22 DEF SweepRequeue
  <2>23. ASSUME NEW s \in Sweepers, SweepItemFails(s) PROVE TypeOK'
    <3>1. job' \in [Auctions -> Job]
      <4>1. NoJob \in Job
        BY DEF JobStates, Job, NoJob, FreshJob
      <4> QED
        BY <2>23, <4>1 DEF SweepItemFails
    <3>2. sweep' \in [Sweepers -> Sweep]
      BY <2>23 DEF SweepItemFails, Sweep
    <3> QED
      BY <3>1, <3>2, <2>23 DEF SweepItemFails
  <2>24. ASSUME NEW s \in Sweepers, SweepCrash(s) PROVE TypeOK'
    BY <2>24 DEF SweepCrash, NoSweep, Sweep
  <2> QED
    BY <2>1, <2>2, <2>3, <2>4, <2>5, <2>6, <2>7, <2>8, <2>9, <2>10, <2>11, <2>12,
       <2>13, <2>14, <2>15, <2>16, <2>17, <2>18, <2>19, <2>20, <2>21, <2>22,
       <2>23, <2>24 DEF Next
<1> QED
  BY <1>1, <1>2, PTL DEF Spec

-----------------------------------------------------------------------------
\* What the closing transaction does to the auction it runs for, and that it
\* leaves every other auction alone.
LEMMA SettleEffect ==
  ASSUME TypeOK, NEW w \in Workers, Settle(w)
  PROVE  \E a \in Auctions :
           /\ run[w].auction = a
           /\ run[w].phase = "read"
           /\ auction[a].status # "CLOSED"
           /\ auction'[a].status = "CLOSED"
           /\ auction'[a].reserveMet = ReserveMet(a)
           /\ auction'[a].currentBid = auction[a].currentBid
           /\ auction'[a].bidCount = auction[a].bidCount
           /\ auction'[a].reserve = auction[a].reserve
           /\ auction'[a].endTime = auction[a].endTime
           /\ \A x \in Auctions \ {a} : /\ auction'[x] = auction[x]
                                        /\ sale'[x] = sale[x]
                                        /\ notices'[x] = notices[x]
           /\ \A v \in Workers \ {w} : run'[v] = run[v]
           /\ run'[w].auction = a
           /\ run'[w].phase = "settled"
           /\ UNCHANGED <<now, bids, outbid, unread, mailed, job, calls, sweep>>
<1> DEFINE a == run[w].auction
<1>1. a \in Auctions /\ run[w] \in [auction : Auctions, phase : Phases]
  BY DEF Settle, TypeOK, Run, Idle
<1>2. /\ run[w].phase = "read"
      /\ auction[a].status # "CLOSED"
      /\ UNCHANGED <<now, bids, outbid, unread, mailed, job, calls, sweep>>
  BY DEF Settle
<1>3. auction'[a] = [auction[a] EXCEPT !.status = "CLOSED", !.reserveMet = ReserveMet(a)]
  BY <1>1 DEF Settle, TypeOK
<1>4. auction[a] \in AuctionRow
  BY <1>1 DEF TypeOK
<1>5. /\ auction'[a].status = "CLOSED"
      /\ auction'[a].reserveMet = ReserveMet(a)
      /\ auction'[a].currentBid = auction[a].currentBid
      /\ auction'[a].bidCount = auction[a].bidCount
      /\ auction'[a].reserve = auction[a].reserve
      /\ auction'[a].endTime = auction[a].endTime
  BY <1>3, <1>4 DEF AuctionRow
<1>6. ASSUME NEW x \in Auctions \ {a}
      PROVE  auction'[x] = auction[x] /\ sale'[x] = sale[x] /\ notices'[x] = notices[x]
  BY DEF Settle, TypeOK
<1>7. run'[w].auction = a /\ run'[w].phase = "settled"
  BY <1>1 DEF Settle, TypeOK
<1>8. ASSUME NEW v \in Workers, v # w PROVE run'[v] = run[v]
  BY <1>8 DEF Settle, TypeOK
<1> QED
  BY <1>1, <1>2, <1>5, <1>6, <1>7, <1>8

-----------------------------------------------------------------------------
(* Before it is opened an auction has no trace anywhere.                   *)

Unborn ==
  \A a \in Auctions : auction[a].status = "none" =>
    /\ auction[a].reserveMet = "null"
    /\ bids[a] = <<>> /\ sale[a] = NoSale /\ notices[a] = <<>>
    /\ outbid[a] = {} /\ mailed[a] = 0
    /\ a \notin unscheduled /\ a \notin unremoved
    /\ job[a].state = "none"
    /\ \A w \in Workers : run[w].auction # a
    /\ \A s \in Sweepers : a \notin sweep[s].list /\ sweep[s].at # a

\* No bid, sale, notification, job, run or sweep concerns an auction whose row has
\* not been created: what lets a new row start from nothing.
THEOREM UnbornAlways == Spec => []Unborn
<1>1. Init => Unborn
  BY QueueAssumption
     DEF Init, Unborn, NoRow, NoJob, FreshJob, Idle, NoSweep
<1>2. TypeOK /\ Unborn /\ [Next]_vars => Unborn'
  <2> SUFFICES ASSUME TypeOK, Unborn, [Next]_vars PROVE Unborn'
    OBVIOUS
  <2> USE DEF Unborn, rows, calls, procs
  <2>0. /\ auction \in [Auctions -> AuctionRow] /\ job \in [Auctions -> Job]
        /\ run \in [Workers -> Run] /\ sweep \in [Sweepers -> Sweep]
        /\ bids \in [Auctions -> Seq(Bid)] /\ notices \in [Auctions -> Seq(NoticeTypes)]
        /\ sale \in [Auctions -> Sale \cup {NoSale}] /\ mailed \in [Auctions -> Nat]
        /\ outbid \in [Auctions -> SUBSET Nat]
        /\ unscheduled \in SUBSET Auctions /\ unremoved \in SUBSET Auctions
    BY DEF TypeOK
  <2>1. CASE UNCHANGED vars
    BY <2>1 DEF vars
  <2>2. CASE Tick
    BY <2>2 DEF Tick
  <2>3. ASSUME NEW a \in Auctions, Open(a) PROVE Unborn'
    BY <2>3, <2>0 DEF Open, AuctionRow
  <2>4. ASSUME NEW a \in Auctions, ScheduleEnd(a) PROVE Unborn'
    BY <2>4, <2>0 DEF ScheduleEnd, AddJob
  <2>5. ASSUME NEW a \in Auctions, ScheduleLost(a) PROVE Unborn'
    BY <2>5, <2>0 DEF ScheduleLost
  <2>6. ASSUME NEW a \in Auctions, NEW b \in Buyers, NEW amount \in Amounts,
               PlaceBid(b, a, amount)
        PROVE  Unborn'
    <3>1. /\ auction[a].status = "ACTIVE"
          /\ auction' = [auction EXCEPT ![a] = [auction[a] EXCEPT !.currentBid = amount,
                                                                 !.bidCount = @ + 1]]
          /\ \A x \in Auctions \ {a} : bids'[x] = bids[x] /\ outbid'[x] = outbid[x]
          /\ UNCHANGED <<sale, notices, mailed, job, unscheduled, unremoved, run, sweep>>
      BY <2>6, <2>0 DEF PlaceBid
    <3>2. auction'[a].status = "ACTIVE"
      BY <2>0, <3>1 DEF AuctionRow
    <3> QED
      BY <2>0, <3>1, <3>2
  <2>7. ASSUME NEW a \in Auctions, SellerReads(a) PROVE Unborn'
    BY <2>7, <2>0 DEF SellerReads
  <2>8. ASSUME NEW a \in Auctions, NEW isAdmin \in BOOLEAN, Cancel(a, isAdmin)
        PROVE  Unborn'
    BY <2>8, <2>0 DEF Cancel, AuctionRow
  <2>9. ASSUME NEW a \in Auctions, RemoveCancelledJob(a) PROVE Unborn'
    BY <2>9, <2>0 DEF RemoveCancelledJob, NoJob, FreshJob
  <2>10. ASSUME NEW a \in Auctions, RemovalLost(a) PROVE Unborn'
    BY <2>10, <2>0 DEF RemovalLost
  <2>11. ASSUME NEW a \in Auctions, JobDue(a) PROVE Unborn'
    BY <2>11, <2>0 DEF JobDue
  <2>12. ASSUME NEW a \in Auctions, JobStalled(a) PROVE Unborn'
    BY <2>12, <2>0 DEF JobStalled
  <2>13. ASSUME NEW a \in Auctions, NEW w \in Workers, TakeJob(w, a) PROVE Unborn'
    BY <2>13, <2>0 DEF TakeJob
  <2>14. ASSUME NEW a \in Auctions, NEW s \in Sweepers, SweepInspect(s, a)
         PROVE  Unborn'
    BY <2>14, <2>0, QueueAssumption DEF SweepInspect, Sweep
  <2>15. ASSUME NEW w \in Workers, SkipClosed(w) PROVE Unborn'
    BY <2>15, <2>0, QueueAssumption DEF SkipClosed, Run, Idle
  <2>16. ASSUME NEW w \in Workers, Settle(w) PROVE Unborn'
    <3>1. PICK a \in Auctions :
            /\ run[w].auction = a
            /\ auction'[a].status = "CLOSED"
            /\ \A x \in Auctions \ {a} : /\ auction'[x] = auction[x]
                                         /\ sale'[x] = sale[x]
                                         /\ notices'[x] = notices[x]
            /\ \A v \in Workers : run'[v].auction = run[v].auction
            /\ UNCHANGED <<bids, outbid, mailed, job, calls, sweep>>
      BY <2>16, SettleEffect
    <3> QED
      BY <3>1
  <2>17. ASSUME NEW w \in Workers, FinishJob(w) PROVE Unborn'
    BY <2>17, <2>0, QueueAssumption DEF FinishJob, Owns, Run, Idle
  <2>18. ASSUME NEW w \in Workers, FinishUnacknowledged(w) PROVE Unborn'
    BY <2>18, <2>0, QueueAssumption DEF FinishUnacknowledged, Abandoned, Owns, Run, Idle
  <2>19. ASSUME NEW w \in Workers, CloseFails(w) PROVE Unborn'
    BY <2>19, <2>0, QueueAssumption DEF CloseFails, Owns, Run, Idle
  <2>20. ASSUME NEW w \in Workers, WorkerCrash(w) PROVE Unborn'
    BY <2>20, <2>0, QueueAssumption DEF WorkerCrash, Abandoned, Owns, Run, Idle
  <2>21. ASSUME NEW s \in Sweepers, SweepList(s) PROVE Unborn'
    BY <2>21, <2>0, QueueAssumption DEF SweepList, Overdue
  <2>22. ASSUME NEW s \in Sweepers, SweepRequeue(s) PROVE Unborn'
    BY <2>22, <2>0, QueueAssumption DEF SweepRequeue, AddJob
  <2>23. ASSUME NEW s \in Sweepers, SweepItemFails(s) PROVE Unborn'
    BY <2>23, <2>0, QueueAssumption DEF SweepItemFails, NoJob, FreshJob
  <2>24. ASSUME NEW s \in Sweepers, SweepCrash(s) PROVE Unborn'
    BY <2>24, <2>0, QueueAssumption DEF SweepCrash, NoSweep
  <2> QED
    BY <2>1, <2>2, <2>3, <2>4, <2>5, <2>6, <2>7, <2>8, <2>9, <2>10, <2>11, <2>12,
       <2>13, <2>14, <2>15, <2>16, <2>17, <2>18, <2>19, <2>20, <2>21, <2>22,
       <2>23, <2>24 DEF Next
<1> QED
  BY <1>1, <1>2, TypeCorrect, PTL DEF Spec

-----------------------------------------------------------------------------
(* The book of bids.                                                       *)

\* The only steps that write an auction's rows: the queue and the sweep never do.
LEMMA RowSteps ==
  ASSUME [Next]_vars
  PROVE  \/ UNCHANGED rows
         \/ \E a \in Auctions :
              \/ Open(a) \/ SellerReads(a)
              \/ \E isAdmin \in BOOLEAN : Cancel(a, isAdmin)
              \/ \E b \in Buyers, amount \in Amounts : PlaceBid(b, a, amount)
         \/ \E w \in Workers : Settle(w)
<1>1. CASE UNCHANGED vars
  BY <1>1 DEF vars
<1>2. CASE Tick
  BY <1>2 DEF Tick
<1>3. ASSUME NEW a \in Auctions,
             \/ ScheduleEnd(a) \/ ScheduleLost(a)
             \/ RemoveCancelledJob(a) \/ RemovalLost(a)
             \/ JobDue(a) \/ JobStalled(a)
      PROVE  UNCHANGED rows
  BY <1>3 DEF ScheduleEnd, ScheduleLost, RemoveCancelledJob, RemovalLost, JobDue, JobStalled
<1>4. ASSUME NEW a \in Auctions, NEW w \in Workers, TakeJob(w, a) PROVE UNCHANGED rows
  BY <1>4 DEF TakeJob
<1>5. ASSUME NEW a \in Auctions, NEW s \in Sweepers, SweepInspect(s, a)
      PROVE  UNCHANGED rows
  BY <1>5 DEF SweepInspect
<1>6. ASSUME NEW w \in Workers,
             \/ SkipClosed(w) \/ FinishJob(w) \/ FinishUnacknowledged(w)
             \/ CloseFails(w) \/ WorkerCrash(w)
      PROVE  UNCHANGED rows
  BY <1>6 DEF SkipClosed, FinishJob, FinishUnacknowledged, CloseFails, WorkerCrash
<1>7. ASSUME NEW s \in Sweepers,
             SweepList(s) \/ SweepRequeue(s) \/ SweepItemFails(s) \/ SweepCrash(s)
      PROVE  UNCHANGED rows
  BY <1>7 DEF SweepList, SweepRequeue, SweepItemFails, SweepCrash
<1> QED
  BY <1>1, <1>2, <1>3, <1>4, <1>5, <1>6, <1>7 DEF Next

\* The counters of the row and the ladder of bids, whatever interleaves with bidding.
THEOREM BookAlways == Spec => []BookConsistent
<1>1. Init => BookConsistent
  BY DEF Init, BookConsistent, BookOf, NoRow
<1>2. TypeOK /\ Unborn /\ BookConsistent /\ [Next]_vars => BookConsistent'
  <2> SUFFICES ASSUME TypeOK, Unborn, BookConsistent, [Next]_vars, NEW x \in Auctions
               PROVE  BookOf(x)'
    BY DEF BookConsistent
  <2>0. /\ auction \in [Auctions -> AuctionRow] /\ bids \in [Auctions -> Seq(Bid)]
        /\ BookOf(x)
    BY DEF TypeOK, BookConsistent
  <2>1. CASE UNCHANGED rows
    BY <2>0, <2>1 DEF rows, BookOf
  <2>2. ASSUME NEW a \in Auctions, Open(a) PROVE BookOf(x)'
    BY <2>0, <2>2 DEF Open, Unborn, BookOf
  <2>3. ASSUME NEW a \in Auctions, SellerReads(a) PROVE BookOf(x)'
    BY <2>0, <2>3 DEF SellerReads, BookOf
  <2>4. ASSUME NEW a \in Auctions, NEW isAdmin \in BOOLEAN, Cancel(a, isAdmin)
        PROVE  BookOf(x)'
    BY <2>0, <2>4 DEF Cancel, AuctionRow, BookOf
  <2>5. ASSUME NEW a \in Auctions, NEW b \in Buyers, NEW amount \in Amounts,
               PlaceBid(b, a, amount)
        PROVE  BookOf(x)'
    <3>1. CASE x # a
      BY <2>0, <2>5, <3>1 DEF PlaceBid, TellSeller, BookOf
    <3>2. CASE x = a
      <4> DEFINE L == Len(bids[a])
                 new == [buyer |-> b, amount |-> amount]
      <4>1. /\ bids[a] \in Seq(Bid) /\ L \in Nat /\ DOMAIN bids[a] = 1 .. L
            /\ auction[a] \in AuctionRow
            /\ L = 0 <=> bids[a] = <<>>
            /\ new \in Bid /\ amount \in Nat
            /\ \A i \in 1 .. L : bids[a][i].amount \in Nat
            /\ MinIncrement \in Nat /\ StartPrice \in Nat
        <5>1. bids[a] \in Seq(Bid) /\ L \in Nat /\ DOMAIN bids[a] = 1 .. L
          BY <2>0
        <5>2. \A i \in 1 .. L : bids[a][i] \in Bid
          BY <5>1
        <5>3. MinIncrement \in Nat /\ StartPrice \in Nat /\ amount \in Nat
          BY PriceAssumption DEF Amounts
        <5>4. new \in Bid /\ \A i \in 1 .. L : bids[a][i].amount \in Nat
          BY <5>2, PriceAssumption DEF Bid, Amounts
        <5> QED
          BY <2>0, <5>1, <5>3, <5>4
      <4>2. /\ bids'[a] = Append(bids[a], new)
            /\ auction'[a].bidCount = auction[a].bidCount + 1
            /\ auction'[a].currentBid = amount
            /\ auction[a].status # "none"
            /\ amount >= MinAllowed(a)
        BY <2>0, <2>5, <4>1 DEF PlaceBid, TellSeller, AuctionRow
      <4>3. /\ Len(bids'[a]) = L + 1 /\ DOMAIN bids'[a] = 1 .. (L + 1)
            /\ bids'[a][L + 1] = new /\ bids'[a] # <<>>
            /\ \A i \in 1 .. L : bids'[a][i] = bids[a][i]
        BY <4>1, <4>2
      <4>4. /\ auction[a].bidCount = L
            /\ L = 0 => auction[a].currentBid = StartPrice
            /\ L # 0 => auction[a].currentBid = bids[a][L].amount
            /\ \A i \in 1 .. L : bids[a][i].amount >= StartPrice
            /\ \A i, j \in 1 .. L :
                 i < j => bids[a][i].amount + MinIncrement <= bids[a][j].amount
        BY <2>0, <3>2, <4>1, <4>2 DEF BookOf
      <4>5. /\ amount >= StartPrice
            /\ \A i \in 1 .. L : bids[a][i].amount + MinIncrement <= amount
        <5>1. CASE L = 0
          BY <4>1, <4>2, <4>4, <5>1 DEF MinAllowed
        <5>2. CASE L # 0
          <6>1. L \in 1 .. L /\ amount >= bids[a][L].amount + MinIncrement
            BY <4>1, <4>2, <4>4, <5>2 DEF MinAllowed
          <6>2. ASSUME NEW i \in 1 .. L
                PROVE  bids[a][i].amount + MinIncrement <= amount
            <7>1. i = L \/ bids[a][i].amount + MinIncrement <= bids[a][L].amount
              BY <4>1, <4>4, <6>1
            <7> QED
              BY <4>1, <6>1, <7>1
          <6>3. amount >= StartPrice
            BY <4>1, <4>4, <6>1
          <6> QED
            BY <6>2, <6>3
        <5> QED
          BY <5>1, <5>2
      <4> QED
        <5>1. \A i \in DOMAIN bids'[a] : bids'[a][i].amount >= StartPrice
          BY <4>3, <4>4, <4>5
        <5>2. \A i, j \in DOMAIN bids'[a] :
                i < j => bids'[a][i].amount + MinIncrement <= bids'[a][j].amount
          <6> SUFFICES ASSUME NEW i \in 1 .. (L + 1), NEW j \in 1 .. (L + 1), i < j
                       PROVE  bids'[a][i].amount + MinIncrement <= bids'[a][j].amount
            BY <4>3
          <6>1. i \in 1 .. L
            BY <4>1
          <6>2. CASE j = L + 1
            BY <4>3, <4>5, <6>1, <6>2
          <6>3. CASE j \in 1 .. L
            BY <4>3, <4>4, <6>1, <6>3
          <6> QED
            <7> HIDE DEF L
            <7>1. L \in Nat
              BY <4>1
            <7>2. j = L + 1 \/ j \in 1 .. L
              BY <7>1
            <7> QED
              BY <6>2, <6>3, <7>2
        <5>3. /\ auction'[a].bidCount = Len(bids'[a])
              /\ bids'[a] # <<>> /\ auction'[a].currentBid = bids'[a][Len(bids'[a])].amount
          BY <4>2, <4>3, <4>4
        <5> QED
          BY <3>2, <5>1, <5>2, <5>3 DEF BookOf
    <3> QED
      BY <3>1, <3>2
  <2>6. ASSUME NEW w \in Workers, Settle(w) PROVE BookOf(x)'
    <3>1. /\ auction'[x].bidCount = auction[x].bidCount
          /\ auction'[x].currentBid = auction[x].currentBid
          /\ bids' = bids
          /\ auction'[x].status # "none" => auction[x].status # "none"
      <4>1. PICK a \in Auctions :
              /\ run[w].auction = a
              /\ auction'[a].currentBid = auction[a].currentBid
              /\ auction'[a].bidCount = auction[a].bidCount
              /\ \A y \in Auctions \ {a} : auction'[y] = auction[y]
              /\ UNCHANGED bids
        BY <2>6, SettleEffect
      <4> QED
        BY <4>1 DEF Unborn
    <3> QED
      BY <2>0, <3>1 DEF BookOf
  <2> QED
    BY <2>1, <2>2, <2>3, <2>4, <2>5, <2>6, RowSteps
<1> QED
  BY <1>1, <1>2, TypeCorrect, UnbornAlways, PTL DEF Spec

-----------------------------------------------------------------------------
(* Settlement.                                                             *)

\* Amounts grow along the book, so the bid closeAuction picks -- highest amount, then
\* earliest -- is the last one, the one whose amount the row shows as current.
LEMMA TopIsLast ==
  ASSUME TypeOK, NEW a \in Auctions, BookOf(a), auction[a].status # "none",
         bids[a] # <<>>
  PROVE  /\ Len(bids[a]) \in DOMAIN bids[a]
         /\ \A i \in DOMAIN bids[a] : IsWinning(a, i) <=> i = Len(bids[a])
         /\ TopAmount(a) = auction[a].currentBid
         /\ \A i \in DOMAIN bids[a] \ {Len(bids[a])} :
              bids[a][i].amount < auction[a].currentBid
<1> DEFINE L == Len(bids[a])
<1>1. /\ L \in Nat \ {0} /\ DOMAIN bids[a] = 1 .. L /\ bids[a] \in Seq(Bid)
  BY DEF TypeOK
<1>2. \A i \in 1 .. L : bids[a][i] \in Bid
  BY <1>1
<1>3. /\ MinIncrement \in Nat \ {0}
      /\ \A i \in 1 .. L : bids[a][i].amount \in Nat
  BY <1>2, PriceAssumption DEF Bid, Amounts
<1>4. auction[a].currentBid = bids[a][L].amount
  BY DEF BookOf
<1>5. \A i \in 1 .. L : i < L => bids[a][i].amount + MinIncrement <= bids[a][L].amount
  BY <1>1 DEF BookOf
<1>6. ASSUME NEW i \in (1 .. L) \ {L} PROVE bids[a][i].amount < bids[a][L].amount
  <2> HIDE DEF L
  <2>1. L \in 1 .. L /\ i < L
    BY <1>1
  <2> QED
    BY <1>3, <1>5, <2>1
<1>7. L \in 1 .. L
  BY <1>1
<1>8. IsWinning(a, L)
  BY <1>1, <1>3, <1>6, <1>7 DEF IsWinning
<1>9. ASSUME NEW i \in (1 .. L) \ {L} PROVE ~IsWinning(a, i)
  BY <1>1, <1>3, <1>6, <1>7 DEF IsWinning
<1>10. TopAmount(a) = bids[a][L].amount
  <2>1. \A i \in DOMAIN bids[a] : IsWinning(a, i) <=> i = L
    BY <1>1, <1>8, <1>9
  <2>2. (CHOOSE i \in DOMAIN bids[a] : IsWinning(a, i)) = L
    BY <1>1, <1>7, <2>1
  <2> QED
    BY <2>2 DEF TopAmount
<1> QED
  BY <1>1, <1>4, <1>6, <1>7, <1>8, <1>9, <1>10

\* A closed auction, its sale, its bids and its notifications are never written again.
THEOREM SettledIsFinal == Spec => SettlementFinal
<1>1. TypeOK /\ [Next]_vars => [\A a \in Auctions : StaysSettled(a)]_vars
  <2> SUFFICES ASSUME TypeOK, [Next]_vars, NEW x \in Auctions,
                      auction[x].status = "CLOSED"
               PROVE  UNCHANGED <<auction[x], bids[x], sale[x], notices[x]>>
    BY DEF StaysSettled
  <2>1. CASE UNCHANGED rows
    BY <2>1 DEF rows
  <2>2. ASSUME NEW a \in Auctions, Open(a)
        PROVE  UNCHANGED <<auction[x], bids[x], sale[x], notices[x]>>
    BY <2>2 DEF Open, TypeOK
  <2>3. ASSUME NEW a \in Auctions, SellerReads(a)
        PROVE  UNCHANGED <<auction[x], bids[x], sale[x], notices[x]>>
    BY <2>3 DEF SellerReads
  <2>4. ASSUME NEW a \in Auctions, NEW isAdmin \in BOOLEAN, Cancel(a, isAdmin)
        PROVE  UNCHANGED <<auction[x], bids[x], sale[x], notices[x]>>
    BY <2>4 DEF Cancel, TypeOK
  <2>5. ASSUME NEW a \in Auctions, NEW b \in Buyers, NEW amount \in Amounts,
               PlaceBid(b, a, amount)
        PROVE  UNCHANGED <<auction[x], bids[x], sale[x], notices[x]>>
    BY <2>5 DEF PlaceBid, TellSeller, TypeOK
  <2>6. ASSUME NEW w \in Workers, Settle(w)
        PROVE  UNCHANGED <<auction[x], bids[x], sale[x], notices[x]>>
    BY <2>6, SettleEffect
  <2> QED
    BY <2>1, <2>2, <2>3, <2>4, <2>5, <2>6, RowSteps
<1> QED
  BY <1>1, TypeCorrect, PTL DEF Spec, SettlementFinal

\* Until it closes an auction has no sale and no verdict on its reserve.
Undecided ==
  \A a \in Auctions : auction[a].status # "CLOSED" =>
    sale[a] = NoSale /\ auction[a].reserveMet = "null"

\* Whatever closes an auction, and however often, the sale is the one its book and
\* its reserve call for.
THEOREM SettlementAlways == Spec => []SettlementCorrect
<1> DEFINE Outcome == SettlementCorrect /\ Undecided
<1>1. Init => Outcome
  BY DEF Init, SettlementCorrect, SettlementOf, Undecided, NoRow
<1>2. TypeOK /\ Unborn /\ BookConsistent /\ Outcome /\ [Next]_vars => Outcome'
  <2> SUFFICES ASSUME TypeOK, Unborn, BookConsistent, Outcome, [Next]_vars,
                      NEW x \in Auctions
               PROVE  /\ SettlementOf(x)'
                      /\ (auction[x].status # "CLOSED" =>
                            sale[x] = NoSale /\ auction[x].reserveMet = "null")'
    BY DEF SettlementCorrect, Undecided
  <2> DEFINE Fine(a) == /\ SettlementOf(a)
                        /\ auction[a].status # "CLOSED" =>
                             sale[a] = NoSale /\ auction[a].reserveMet = "null"
  <2>0. Fine(x) /\ auction \in [Auctions -> AuctionRow] /\ bids \in [Auctions -> Seq(Bid)]
    BY DEF SettlementCorrect, Undecided, TypeOK
  <2> SUFFICES Fine(x)'
    OBVIOUS
  <2>1. CASE UNCHANGED rows
    BY <2>0, <2>1 DEF rows, SettlementOf
  <2>2. ASSUME NEW a \in Auctions, Open(a) PROVE Fine(x)'
    <3>1. CASE x # a
      BY <2>0, <2>2, <3>1 DEF Open, SettlementOf
    <3>2. CASE x = a
      <4>1. auction'[a].status = "ACTIVE" /\ auction'[a].reserveMet = "null"
        BY <2>0, <2>2 DEF Open
      <4>2. sale'[a] = NoSale
        BY <2>2 DEF Open, Unborn
      <4> QED
        BY <3>2, <4>1, <4>2 DEF SettlementOf
    <3> QED
      BY <3>1, <3>2
  <2>3. ASSUME NEW a \in Auctions, SellerReads(a) PROVE Fine(x)'
    BY <2>0, <2>3 DEF SellerReads, SettlementOf
  <2>4. ASSUME NEW a \in Auctions, NEW isAdmin \in BOOLEAN, Cancel(a, isAdmin)
        PROVE  Fine(x)'
    BY <2>0, <2>4 DEF Cancel, AuctionRow, SettlementOf
  <2>5. ASSUME NEW a \in Auctions, NEW b \in Buyers, NEW amount \in Amounts,
               PlaceBid(b, a, amount)
        PROVE  Fine(x)'
    <3>1. CASE x # a
      BY <2>0, <2>5, <3>1 DEF PlaceBid, TellSeller, SettlementOf
    <3>2. CASE x = a
      BY <2>0, <2>5, <3>2 DEF PlaceBid, TellSeller, AuctionRow, SettlementOf
    <3> QED
      BY <3>1, <3>2
  <2>6. ASSUME NEW w \in Workers, Settle(w) PROVE Fine(x)'
    <3>1. PICK a \in Auctions :
            /\ run[w].auction = a
            /\ auction[a].status # "CLOSED"
            /\ auction'[a].status = "CLOSED"
            /\ auction'[a].reserveMet = ReserveMet(a)
            /\ auction'[a].currentBid = auction[a].currentBid
            /\ auction'[a].reserve = auction[a].reserve
            /\ \A y \in Auctions \ {a} : auction'[y] = auction[y] /\ sale'[y] = sale[y]
            /\ UNCHANGED bids
      BY <2>6, SettleEffect
    <3>2. CASE x # a
      BY <2>0, <3>1, <3>2 DEF SettlementOf
    <3>3. CASE x = a
      <4>1. /\ sale[a] = NoSale
            /\ auction[a].status # "none"
            /\ BookOf(a)
            /\ auction[a].reserve \in Nat /\ auction[a].currentBid \in Nat
        BY <2>0, <3>1, <3>3 DEF Unborn, BookConsistent, AuctionRow
      <4>2. CASE bids[a] = <<>>
        <5>1. ReserveMet(a) # "true" /\ sale'[a] = NoSale
          BY <2>6, <3>1, <4>1, <4>2 DEF ReserveMet, TopAmount, Settle
        <5> QED
          BY <3>1, <3>3, <4>2, <5>1 DEF SettlementOf
      <4>3. CASE bids[a] # <<>> /\ ReserveMet(a) = "false"
        <5>1. sale'[a] = NoSale
          BY <2>6, <3>1, <4>1, <4>3 DEF Settle
        <5>2. auction[a].currentBid < auction[a].reserve
          BY <4>1, <4>3, TopIsLast DEF ReserveMet
        <5> QED
          BY <3>1, <3>3, <4>1, <4>3, <5>1, <5>2 DEF SettlementOf
      <4>4. CASE bids[a] # <<>> /\ ReserveMet(a) # "false"
        <5>1. PICK i \in DOMAIN bids[a] :
                /\ IsWinning(a, i)
                /\ sale' = [sale EXCEPT ![a] = [winner |-> bids[a][i].buyer,
                                               amount |-> bids[a][i].amount]]
          BY <2>6, <3>1, <4>4 DEF Settle
        <5>2. /\ bids[a] \in Seq(Bid) /\ bids[a][i] \in Bid
              /\ bids[a][i].amount = auction[a].currentBid
              /\ \A j \in DOMAIN bids[a] : j # i => bids[a][j].amount < bids[a][i].amount
          <6>1. bids[a] \in Seq(Bid) /\ bids[a][i] \in Bid
            BY <2>0
          <6> QED
            BY <4>1, <4>4, <5>1, <6>1, TopIsLast DEF BookOf
        <5>3. auction[a].currentBid >= auction[a].reserve
          BY <4>1, <4>4, TopIsLast DEF ReserveMet
        <5>4. sale'[a] = [winner |-> bids[a][i].buyer, amount |-> bids[a][i].amount]
          BY <5>1 DEF TypeOK
        <5>5. sale'[a] \in Sale
          BY <5>2, <5>4 DEF Bid, Sale
        <5>6. bids[a][i] = [buyer |-> sale'[a].winner, amount |-> sale'[a].amount]
          BY <5>2, <5>4 DEF Bid
        <5>7. /\ sale'[a] # NoSale
              /\ sale'[a].amount = auction'[a].currentBid
              /\ sale'[a].amount >= auction'[a].reserve
          BY <3>1, <5>2, <5>3, <5>4, <5>5, NoSaleAssumption
        <5>8. \E k \in DOMAIN bids'[a] :
                /\ bids'[a][k] = [buyer |-> sale'[a].winner, amount |-> sale'[a].amount]
                /\ \A j \in DOMAIN bids'[a] : j # k => bids'[a][j].amount < bids'[a][k].amount
          BY <3>1, <5>2, <5>6
        <5>9. auction'[a].reserveMet # "false"
          BY <3>1, <4>4
        <5> QED
          BY <3>1, <3>3, <5>7, <5>8, <5>9 DEF SettlementOf
      <4> QED
        BY <4>2, <4>3, <4>4
    <3> QED
      BY <3>2, <3>3
  <2> QED
    BY <2>1, <2>2, <2>3, <2>4, <2>5, <2>6, RowSteps
<1> QED
  BY <1>1, <1>2, TypeCorrect, UnbornAlways, BookAlways, PTL DEF Spec

-----------------------------------------------------------------------------
(* Nothing closes early: the end time is carried, unchecked, from the delay*)
(* of the job or the filter of the sweep to the closing transaction.       *)

OnTime ==
  /\ \A a \in Auctions :
       job[a].state \in {"waiting", "active", "completed", "failed"}
         => auction[a].endTime <= now
  /\ \A w \in Workers : run[w] # Idle => auction[run[w].auction].endTime <= now
  /\ \A s \in Sweepers, a \in Auctions :
       a \in sweep[s].list \/ a = sweep[s].at => auction[a].endTime <= now
  /\ NeverClosedEarly

\* A job ready to run, a run under way and an item of a sweep all concern an auction
\* whose end time has come, hence so does every closing.
THEOREM NeverEarlyAlways == Spec => []NeverClosedEarly
<1>1. Init => OnTime
  BY QueueAssumption
     DEF Init, OnTime, NoJob, FreshJob, Idle, NoSweep, NeverClosedEarly, NoRow
<1>2. TypeOK /\ Unborn /\ OnTime /\ [Next]_vars => OnTime'
  <2> SUFFICES ASSUME TypeOK, Unborn, OnTime, [Next]_vars PROVE OnTime'
    OBVIOUS
  <2> USE DEF OnTime, NeverClosedEarly, rows, calls, procs
  <2>0. /\ auction \in [Auctions -> AuctionRow] /\ job \in [Auctions -> Job]
        /\ run \in [Workers -> Run] /\ sweep \in [Sweepers -> Sweep]
        /\ now \in Nat /\ \A a \in Auctions : auction[a].endTime \in Nat
    BY DEF TypeOK, AuctionRow
  <2>1. CASE UNCHANGED vars
    BY <2>1 DEF vars
  <2>2. CASE Tick
    BY <2>0, <2>2 DEF Tick, Run, Idle
  <2>3. ASSUME NEW a \in Auctions, Open(a) PROVE OnTime'
    BY <2>0, <2>3 DEF Open, Unborn
  <2>4. ASSUME NEW a \in Auctions, ScheduleEnd(a) PROVE OnTime'
    BY <2>0, <2>4 DEF ScheduleEnd, AddJob, FreshJob
  <2>5. ASSUME NEW a \in Auctions, ScheduleLost(a) PROVE OnTime'
    BY <2>0, <2>5 DEF ScheduleLost
  <2>6. ASSUME NEW a \in Auctions, NEW b \in Buyers, NEW amount \in Amounts, PlaceBid(b, a, amount)
        PROVE  OnTime'
    BY <2>0, <2>6 DEF PlaceBid, TellSeller, AuctionRow
  <2>7. ASSUME NEW a \in Auctions, SellerReads(a) PROVE OnTime'
    BY <2>0, <2>7 DEF SellerReads
  <2>8. ASSUME NEW a \in Auctions, NEW isAdmin \in BOOLEAN, Cancel(a, isAdmin)
        PROVE  OnTime'
    BY <2>0, <2>8 DEF Cancel, AuctionRow
  <2>9. ASSUME NEW a \in Auctions, RemoveCancelledJob(a) PROVE OnTime'
    BY <2>0, <2>9 DEF RemoveCancelledJob, NoJob, FreshJob
  <2>10. ASSUME NEW a \in Auctions, RemovalLost(a) PROVE OnTime'
    BY <2>0, <2>10 DEF RemovalLost
  <2>11. ASSUME NEW a \in Auctions, JobDue(a) PROVE OnTime'
    BY <2>0, <2>11 DEF JobDue
  <2>12. ASSUME NEW a \in Auctions, JobStalled(a) PROVE OnTime'
    BY <2>0, <2>12 DEF JobStalled
  <2>13. ASSUME NEW a \in Auctions, NEW w \in Workers, TakeJob(w, a) PROVE OnTime'
    BY <2>0, <2>13 DEF TakeJob
  <2>14. ASSUME NEW a \in Auctions, NEW s \in Sweepers, SweepInspect(s, a)
         PROVE  OnTime'
    BY <2>0, <2>14, QueueAssumption DEF SweepInspect
  <2>15. ASSUME NEW w \in Workers, SkipClosed(w) PROVE OnTime'
    BY <2>0, <2>15 DEF SkipClosed, Run, Idle
  <2>16. ASSUME NEW w \in Workers, Settle(w) PROVE OnTime'
    <3>1. PICK a \in Auctions :
            /\ run[w].auction = a /\ run[w].phase = "read"
            /\ auction'[a].endTime = auction[a].endTime
            /\ \A y \in Auctions \ {a} : auction'[y] = auction[y]
            /\ \A v \in Workers \ {w} : run'[v] = run[v]
            /\ run'[w].auction = a
            /\ UNCHANGED <<now, job, sweep>>
      BY <2>16, SettleEffect
    <3>2. auction[a].endTime <= now
      BY <2>0, <3>1 DEF Idle
    <3>3. \A y \in Auctions : auction'[y].endTime = auction[y].endTime
      BY <3>1
    <3>4. \A v \in Workers : run'[v] # Idle => auction'[run'[v].auction].endTime <= now
      BY <2>0, <3>1, <3>2, <3>3 DEF Run
    <3> QED
      BY <2>0, <3>1, <3>2, <3>3, <3>4
  <2>17. ASSUME NEW w \in Workers, FinishJob(w) PROVE OnTime'
    BY <2>0, <2>17 DEF FinishJob, Owns, Run, Idle
  <2>18. ASSUME NEW w \in Workers, FinishUnacknowledged(w) PROVE OnTime'
    BY <2>0, <2>18 DEF FinishUnacknowledged, Abandoned, Owns, Run, Idle
  <2>19. ASSUME NEW w \in Workers, CloseFails(w) PROVE OnTime'
    BY <2>0, <2>19 DEF CloseFails, Owns, Run, Idle
  <2>20. ASSUME NEW w \in Workers, WorkerCrash(w) PROVE OnTime'
    BY <2>0, <2>20 DEF WorkerCrash, Abandoned, Owns, Run, Idle
  <2>21. ASSUME NEW s \in Sweepers, SweepList(s) PROVE OnTime'
    BY <2>0, <2>21, QueueAssumption DEF SweepList, Overdue
  <2>22. ASSUME NEW s \in Sweepers, SweepRequeue(s) PROVE OnTime'
    BY <2>0, <2>22, QueueAssumption DEF SweepRequeue, AddJob, FreshJob
  <2>23. ASSUME NEW s \in Sweepers, SweepItemFails(s) PROVE OnTime'
    BY <2>0, <2>23, QueueAssumption DEF SweepItemFails, NoJob, FreshJob
  <2>24. ASSUME NEW s \in Sweepers, SweepCrash(s) PROVE OnTime'
    BY <2>0, <2>24, QueueAssumption DEF SweepCrash, NoSweep
  <2> QED
    BY <2>1, <2>2, <2>3, <2>4, <2>5, <2>6, <2>7, <2>8, <2>9, <2>10, <2>11, <2>12,
       <2>13, <2>14, <2>15, <2>16, <2>17, <2>18, <2>19, <2>20, <2>21, <2>22,
       <2>23, <2>24 DEF Next
<1>3. OnTime => NeverClosedEarly
  BY DEF OnTime
<1> QED
  BY <1>1, <1>2, <1>3, TypeCorrect, UnbornAlways, PTL DEF Spec

-----------------------------------------------------------------------------
(* One announcement: at most one closing transaction gets through, and the *)
(* run it belongs to is the only one that will mail the outcome.           *)

NoticeOnce(a) ==
  /\ auction[a].status # "CLOSED" => Announcements(a) = {}
  /\ \A i, j \in Announcements(a) : i = j
  /\ \A i \in Announcements(a) :
       notices[a][i] = IF sale[a] = NoSale THEN "RESERVE_NOT_MET" ELSE "AUCTION_WON"

MailOnce ==
  /\ \A a \in Auctions : /\ mailed[a] <= 1
                         /\ auction[a].status # "CLOSED" => mailed[a] = 0
  /\ \A w \in Workers : run[w].phase = "settled" =>
       /\ auction[run[w].auction].status = "CLOSED"
       /\ mailed[run[w].auction] = 0
  /\ \A v, w \in Workers :
       /\ run[v].phase = "settled" /\ run[w].phase = "settled"
       /\ run[v].auction = run[w].auction
       => v = w

\* Appending to the notifications of an auction that has announced nothing yet.
LEMMA FirstNotice ==
  ASSUME TypeOK, NEW a \in Auctions, Announcements(a) = {}, NEW n \in NoticeTypes,
         notices'[a] = Append(notices[a], n)
  PROVE  /\ Announcements(a)' = IF n = "AUCTION_CANCELLED" THEN {}
                                ELSE {Len(notices[a]) + 1}
         /\ notices'[a][Len(notices[a]) + 1] = n
<1> DEFINE L == Len(notices[a])
<1>1. notices[a] \in Seq(NoticeTypes) /\ L \in Nat /\ DOMAIN notices[a] = 1 .. L
  BY DEF TypeOK
<1>2. /\ DOMAIN notices'[a] = 1 .. (L + 1)
      /\ notices'[a][L + 1] = n
      /\ \A i \in 1 .. L : notices'[a][i] = notices[a][i]
  BY <1>1
<1>3. \A i \in 1 .. L : notices[a][i] = "AUCTION_CANCELLED"
  BY <1>1 DEF Announcements
<1>4. 1 .. (L + 1) = (1 .. L) \cup {L + 1}
  BY <1>1
<1>5. Announcements(a)' = {i \in (1 .. L) \cup {L + 1} :
                             notices'[a][i] # "AUCTION_CANCELLED"}
  BY <1>2, <1>4 DEF Announcements
<1> HIDE DEF L
<1>6. Announcements(a)' = IF n = "AUCTION_CANCELLED" THEN {} ELSE {L + 1}
  BY <1>2, <1>3, <1>5
<1> QED
  BY <1>2, <1>6 DEF L

\* The notification of the outcome is created by the one transaction that closes.
THEOREM NoticeOnceAlways == Spec => [](\A a \in Auctions : NoticeOnce(a))
<1>1. Init => \A a \in Auctions : NoticeOnce(a)
  <2> SUFFICES ASSUME Init, NEW a \in Auctions PROVE Announcements(a) = {}
    BY DEF NoticeOnce
  <2>1. notices[a] = <<>> /\ DOMAIN << >> = {}
    BY DEF Init
  <2> QED
    BY <2>1 DEF Announcements
<1>2. TypeOK /\ Unborn /\ BookConsistent /\ SettlementCorrect
        /\ (\A a \in Auctions : NoticeOnce(a)) /\ [Next]_vars
      => (\A a \in Auctions : NoticeOnce(a))'
  <2> SUFFICES ASSUME TypeOK, Unborn, SettlementCorrect,
                      \A a \in Auctions : NoticeOnce(a), [Next]_vars, NEW x \in Auctions
               PROVE  NoticeOnce(x)'
    OBVIOUS
  <2>0. NoticeOnce(x) /\ auction \in [Auctions -> AuctionRow]
    BY DEF TypeOK
  <2>1. CASE UNCHANGED rows
    BY <2>0, <2>1 DEF rows, NoticeOnce, Announcements
  <2>2. ASSUME NEW a \in Auctions, Open(a) PROVE NoticeOnce(x)'
    BY <2>0, <2>2 DEF Open, NoticeOnce, Announcements
  <2>3. ASSUME NEW a \in Auctions, SellerReads(a) PROVE NoticeOnce(x)'
    BY <2>0, <2>3 DEF SellerReads, NoticeOnce, Announcements
  <2>4. ASSUME NEW a \in Auctions, NEW isAdmin \in BOOLEAN, Cancel(a, isAdmin)
        PROVE  NoticeOnce(x)'
    <3>1. CASE x # a
      BY <2>0, <2>4, <3>1 DEF Cancel, TypeOK, NoticeOnce, Announcements
    <3>2. CASE x = a
      <4>1. Announcements(a) = {} /\ notices'[a] = Append(notices[a], "AUCTION_CANCELLED")
        BY <2>0, <2>4, <3>2 DEF Cancel, TypeOK, NoticeOnce
      <4>2. Announcements(a)' = {}
        BY <4>1, FirstNotice DEF NoticeTypes
      <4> QED
        BY <3>2, <4>2 DEF NoticeOnce
    <3> QED
      BY <3>1, <3>2
  <2>5. ASSUME NEW a \in Auctions, NEW b \in Buyers, NEW amount \in Amounts,
               PlaceBid(b, a, amount)
        PROVE  NoticeOnce(x)'
    BY <2>0, <2>5 DEF PlaceBid, TellSeller, AuctionRow, NoticeOnce, Announcements
  <2>6. ASSUME NEW w \in Workers, Settle(w) PROVE NoticeOnce(x)'
    <3>1. PICK a \in Auctions :
            /\ run[w].auction = a
            /\ auction[a].status # "CLOSED"
            /\ auction'[a].status = "CLOSED"
            /\ \A y \in Auctions \ {a} : /\ auction'[y] = auction[y]
                                         /\ sale'[y] = sale[y]
                                         /\ notices'[y] = notices[y]
      BY <2>6, SettleEffect
    <3>2. CASE x # a
      BY <2>0, <3>1, <3>2 DEF NoticeOnce, Announcements
    <3>3. CASE x = a
      <4>1. Announcements(a) = {} /\ sale[a] = NoSale
        BY <2>0, <3>1, <3>3 DEF NoticeOnce, SettlementCorrect, SettlementOf
      <4>2. \/ notices'[a] = notices[a]
            \/ /\ notices'[a] = Append(notices[a], "RESERVE_NOT_MET")
               /\ sale'[a] = NoSale
            \/ /\ notices'[a] = Append(notices[a], "AUCTION_WON")
               /\ \E r \in Sale : sale'[a] = r
        <5>1. \A i \in DOMAIN bids[a] :
                [winner |-> bids[a][i].buyer, amount |-> bids[a][i].amount] \in Sale
          <6>1. bids[a] \in Seq(Bid)
            BY DEF TypeOK
          <6>2. \A i \in DOMAIN bids[a] : bids[a][i] \in Bid
            BY <6>1
          <6> QED
            BY <6>2 DEF Bid, Sale
        <5> QED
          BY <2>6, <3>1, <4>1, <5>1 DEF Settle, TypeOK
      <4>3. CASE notices'[a] = notices[a]
        BY <3>3, <4>1, <4>3 DEF NoticeOnce, Announcements
      <4>4. ASSUME notices'[a] = Append(notices[a], "RESERVE_NOT_MET"), sale'[a] = NoSale
            PROVE  NoticeOnce(x)'
        BY <3>1, <3>3, <4>1, <4>4, FirstNotice DEF NoticeOnce, NoticeTypes
      <4>5. ASSUME notices'[a] = Append(notices[a], "AUCTION_WON"),
                   NEW r \in Sale, sale'[a] = r
            PROVE  NoticeOnce(x)'
        <5>1. sale'[a] # NoSale
          BY <4>5, NoSaleAssumption
        <5> QED
          BY <3>1, <3>3, <4>1, <4>5, <5>1, FirstNotice DEF NoticeOnce, NoticeTypes
      <4> QED
        BY <4>2, <4>3, <4>4, <4>5
    <3> QED
      BY <3>2, <3>3
  <2> QED
    BY <2>1, <2>2, <2>3, <2>4, <2>5, <2>6, RowSteps
<1> QED
  BY <1>1, <1>2, TypeCorrect, UnbornAlways, BookAlways, SettlementAlways, PTL DEF Spec

\* A run mails the outcome only if its own transaction closed the auction, so a job
\* retried, stalled, re-queued or run by two workers at once mails nothing twice.
THEOREM AnnouncedOnceAlways == Spec => []AnnouncedOnce
<1>1. Init => MailOnce
  BY DEF Init, MailOnce, Idle, NoRow
<1>2. TypeOK /\ Unborn /\ MailOnce /\ [Next]_vars => MailOnce'
  <2> SUFFICES ASSUME TypeOK, Unborn, MailOnce, [Next]_vars PROVE MailOnce'
    OBVIOUS
  <2> USE DEF MailOnce, rows, calls, procs
  <2>0. /\ auction \in [Auctions -> AuctionRow] /\ run \in [Workers -> Run]
        /\ mailed \in [Auctions -> Nat]
    BY DEF TypeOK
  <2>1. CASE UNCHANGED vars
    BY <2>1 DEF vars
  <2>2. CASE Tick
    BY <2>2 DEF Tick
  <2>3. ASSUME NEW a \in Auctions, Open(a) PROVE MailOnce'
    BY <2>0, <2>3 DEF Open
  <2>4. ASSUME NEW a \in Auctions, ScheduleEnd(a) PROVE MailOnce'
    BY <2>0, <2>4 DEF ScheduleEnd
  <2>5. ASSUME NEW a \in Auctions, ScheduleLost(a) PROVE MailOnce'
    BY <2>0, <2>5 DEF ScheduleLost
  <2>6. ASSUME NEW a \in Auctions, NEW b \in Buyers, NEW amount \in Amounts, PlaceBid(b, a, amount)
        PROVE  MailOnce'
    BY <2>0, <2>6 DEF PlaceBid, TellSeller, AuctionRow
  <2>7. ASSUME NEW a \in Auctions, SellerReads(a) PROVE MailOnce'
    BY <2>0, <2>7 DEF SellerReads
  <2>8. ASSUME NEW a \in Auctions, NEW isAdmin \in BOOLEAN, Cancel(a, isAdmin)
        PROVE  MailOnce'
    BY <2>0, <2>8 DEF Cancel, AuctionRow
  <2>9. ASSUME NEW a \in Auctions, RemoveCancelledJob(a) PROVE MailOnce'
    BY <2>0, <2>9 DEF RemoveCancelledJob
  <2>10. ASSUME NEW a \in Auctions, RemovalLost(a) PROVE MailOnce'
    BY <2>0, <2>10 DEF RemovalLost
  <2>11. ASSUME NEW a \in Auctions, JobDue(a) PROVE MailOnce'
    BY <2>0, <2>11 DEF JobDue
  <2>12. ASSUME NEW a \in Auctions, JobStalled(a) PROVE MailOnce'
    BY <2>0, <2>12 DEF JobStalled
  <2>13. ASSUME NEW a \in Auctions, NEW w \in Workers, TakeJob(w, a) PROVE MailOnce'
    BY <2>0, <2>13 DEF TakeJob
  <2>14. ASSUME NEW a \in Auctions, NEW s \in Sweepers, SweepInspect(s, a)
         PROVE  MailOnce'
    BY <2>0, <2>14 DEF SweepInspect
  <2>15. ASSUME NEW w \in Workers, SkipClosed(w) PROVE MailOnce'
    BY <2>0, <2>15 DEF SkipClosed, Run, Idle
  <2>16. ASSUME NEW w \in Workers, Settle(w) PROVE MailOnce'
    <3>1. PICK a \in Auctions :
            /\ run[w].auction = a
            /\ auction[a].status # "CLOSED"
            /\ auction'[a].status = "CLOSED"
            /\ \A y \in Auctions \ {a} : auction'[y] = auction[y]
            /\ \A v \in Workers \ {w} : run'[v] = run[v]
            /\ run'[w].auction = a /\ run'[w].phase = "settled"
            /\ UNCHANGED mailed
      BY <2>16, SettleEffect
    <3>2. mailed[a] = 0
      BY <3>1
    <3>3. \A v \in Workers \ {w} : run[v].phase = "settled" =>
            run[v].auction \in Auctions \ {a}
      BY <2>0, <3>1 DEF Run, Idle
    <3> QED
      BY <2>0, <3>1, <3>2, <3>3
  <2>17. ASSUME NEW w \in Workers, FinishJob(w) PROVE MailOnce'
    BY <2>0, <2>17 DEF FinishJob, Run, Idle
  <2>18. ASSUME NEW w \in Workers, FinishUnacknowledged(w) PROVE MailOnce'
    BY <2>0, <2>18 DEF FinishUnacknowledged, Run, Idle
  <2>19. ASSUME NEW w \in Workers, CloseFails(w) PROVE MailOnce'
    BY <2>0, <2>19 DEF CloseFails, Run, Idle
  <2>20. ASSUME NEW w \in Workers, WorkerCrash(w) PROVE MailOnce'
    BY <2>0, <2>20 DEF WorkerCrash, Run, Idle
  <2>21. ASSUME NEW s \in Sweepers, SweepList(s) PROVE MailOnce'
    BY <2>0, <2>21 DEF SweepList
  <2>22. ASSUME NEW s \in Sweepers, SweepRequeue(s) PROVE MailOnce'
    BY <2>0, <2>22 DEF SweepRequeue
  <2>23. ASSUME NEW s \in Sweepers, SweepItemFails(s) PROVE MailOnce'
    BY <2>0, <2>23 DEF SweepItemFails
  <2>24. ASSUME NEW s \in Sweepers, SweepCrash(s) PROVE MailOnce'
    BY <2>0, <2>24 DEF SweepCrash
  <2> QED
    BY <2>1, <2>2, <2>3, <2>4, <2>5, <2>6, <2>7, <2>8, <2>9, <2>10, <2>11, <2>12,
       <2>13, <2>14, <2>15, <2>16, <2>17, <2>18, <2>19, <2>20, <2>21, <2>22,
       <2>23, <2>24 DEF Next
<1>3. MailOnce /\ (\A a \in Auctions : NoticeOnce(a)) => AnnouncedOnce
  BY DEF MailOnce, NoticeOnce, AnnouncedOnce, AnnouncedOnceFor
<1> QED
  BY <1>1, <1>2, <1>3, TypeCorrect, UnbornAlways, NoticeOnceAlways, PTL DEF Spec

-----------------------------------------------------------------------------
(* The alerts to outbid buyers.                                            *)

\* Whom a new bid displaces: the bidder of the last bid, if there is one.
LEMMA PrevIsLast ==
  ASSUME TypeOK, NEW a \in Auctions, BookOf(a), auction[a].status # "none"
  PROVE  PrevHighest(a) = {i \in {Len(bids[a])} : Len(bids[a]) > 0}
<1> DEFINE L == Len(bids[a])
<1>1. L \in Nat /\ DOMAIN bids[a] = 1 .. L /\ auction[a].bidCount = L
  BY DEF TypeOK, BookOf
<1>2. CASE bids[a] = <<>>
  BY <1>1, <1>2 DEF PrevHighest
<1>3. CASE bids[a] # <<>>
  <2>1. /\ L \in 1 .. L /\ L > 0
        /\ bids[a][L].amount = auction[a].currentBid
    BY <1>1, <1>3 DEF BookOf, TypeOK
  <2>2. \A i \in 1 .. L : bids[a][i].amount = auction[a].currentBid => i = L
    <3>1. bids[a] \in Seq(Bid) /\ \A i \in 1 .. L : bids[a][i] \in Bid
      BY <1>1 DEF TypeOK
    <3>2. \A i \in 1 .. L : bids[a][i].amount \in Nat
      BY <3>1, PriceAssumption DEF Bid, Amounts
    <3>3. \A i \in (1 .. L) \ {L} : bids[a][i].amount < auction[a].currentBid
      BY <1>1, <1>3, TopIsLast
    <3> QED
      BY <2>1, <3>2, <3>3
  <2>3. PrevHighest(a) = {L}
    BY <1>1, <2>1, <2>2 DEF PrevHighest
  <2> QED
    BY <2>1, <2>3
<1> QED
  BY <1>2, <1>3

\* Exactly the bidders who lost the lead to another and asked for the alert got it.
THEOREM OutbidToldAlways == Spec => []OutbidTold
<1>1. Init => OutbidTold
  <2> SUFFICES ASSUME Init, NEW a \in Auctions PROVE Displaced(a) = {}
    BY DEF OutbidTold, Init
  <2>1. bids[a] = <<>> /\ Len(<<>>) = 0
    BY DEF Init
  <2> QED
    BY <2>1 DEF Displaced
<1>2. TypeOK /\ BookConsistent /\ OutbidTold /\ [Next]_vars => OutbidTold'
  <2> SUFFICES ASSUME TypeOK, BookConsistent, OutbidTold, [Next]_vars, NEW x \in Auctions
               PROVE  outbid'[x] = Displaced(x)'
    BY DEF OutbidTold
  <2>0. outbid[x] = Displaced(x)
    BY DEF OutbidTold
  <2>1. CASE UNCHANGED rows
    BY <2>0, <2>1 DEF rows, Displaced
  <2>2. ASSUME NEW a \in Auctions, Open(a) PROVE outbid'[x] = Displaced(x)'
    BY <2>0, <2>2 DEF Open, Displaced
  <2>3. ASSUME NEW a \in Auctions, SellerReads(a) PROVE outbid'[x] = Displaced(x)'
    BY <2>0, <2>3 DEF SellerReads, Displaced
  <2>4. ASSUME NEW a \in Auctions, NEW isAdmin \in BOOLEAN, Cancel(a, isAdmin)
        PROVE  outbid'[x] = Displaced(x)'
    BY <2>0, <2>4 DEF Cancel, Displaced
  <2>5. ASSUME NEW a \in Auctions, NEW b \in Buyers, NEW amount \in Amounts,
               PlaceBid(b, a, amount)
        PROVE  outbid'[x] = Displaced(x)'
    <3>1. CASE x # a
      BY <2>0, <2>5, <3>1 DEF PlaceBid, TellSeller, TypeOK, Displaced
    <3>2. CASE x = a
      <4> DEFINE L == Len(bids[a])
                 new == [buyer |-> b, amount |-> amount]
                 Told(i) == bids[a][i].buyer # b /\ bids[a][i].buyer \in NotifyOutbid
      <4>1. /\ bids[a] \in Seq(Bid) /\ L \in Nat /\ DOMAIN bids[a] = 1 .. L
            /\ bids'[a] = Append(bids[a], new)
            /\ auction[a].status # "none" /\ BookOf(a)
        BY <2>5 DEF PlaceBid, TellSeller, TypeOK, BookConsistent
      <4>2. outbid'[a] = outbid[a] \cup {i \in PrevHighest(a) : Told(i)}
        BY <2>5 DEF PlaceBid, TellSeller, TypeOK
      <4>3. PrevHighest(a) = {i \in {L} : L > 0}
        BY <4>1, PrevIsLast
      <4>4. /\ Len(bids'[a]) = L + 1 /\ bids'[a][L + 1].buyer = b
            /\ \A i \in 1 .. L : bids'[a][i] = bids[a][i]
        BY <4>1
      <4>5. Displaced(a)' = {i \in 1 .. L : /\ bids'[a][i].buyer # bids'[a][i + 1].buyer
                                           /\ bids'[a][i].buyer \in NotifyOutbid}
        BY <4>1, <4>4 DEF Displaced
      <4>6. ASSUME NEW i PROVE i \in Displaced(a)' <=> i \in outbid'[a]
        <5>1. CASE i \in 1 .. (L - 1)
          <6>1. i \in 1 .. L /\ i + 1 \in 1 .. L /\ i # L
            BY <4>1, <5>1
          <6> QED
            BY <2>0, <3>2, <4>2, <4>3, <4>4, <4>5, <5>1, <6>1 DEF Displaced
        <5>2. CASE i = L /\ L > 0
          <6>1. i \in 1 .. L /\ i \notin 1 .. (L - 1)
            BY <4>1, <5>2
          <6> QED
            BY <2>0, <3>2, <4>2, <4>3, <4>4, <4>5, <5>2, <6>1 DEF Displaced
        <5>3. CASE i \notin 1 .. (L - 1) /\ ~(i = L /\ L > 0)
          <6>1. i \notin 1 .. L
            BY <4>1, <5>3
          <6> QED
            BY <2>0, <3>2, <4>2, <4>3, <4>5, <5>3, <6>1 DEF Displaced
        <5> QED
          BY <5>1, <5>2, <5>3
      <4> QED
        BY <3>2, <4>6
    <3> QED
      BY <3>1, <3>2
  <2>6. ASSUME NEW w \in Workers, Settle(w) PROVE outbid'[x] = Displaced(x)'
    BY <2>0, <2>6 DEF Settle, Displaced
  <2> QED
    BY <2>1, <2>2, <2>3, <2>4, <2>5, <2>6, RowSteps
<1> QED
  BY <1>1, <1>2, TypeCorrect, BookAlways, PTL DEF Spec

-----------------------------------------------------------------------------
(* The rows implement EnglishAuction.                                      *)

\* A step that leaves all but one auction's rows alone changes the promise's
\* variables at that auction only.
LEMMA OthersUntouched ==
  ASSUME NEW a \in Auctions,
         \A x \in Auctions \ {a} : /\ auction'[x] = auction[x]
                                  /\ bids'[x] = bids[x] /\ sale'[x] = sale[x]
  PROVE  \A x \in Auctions \ {a} : /\ Stage(x)' = Stage(x)
                                   /\ Leader(x)' = Leader(x)
BY DEF Stage, Leader

\* Whatever jobs, retries, crashes and sweeps do, the rows behave like an ascending
\* auction whose hammer falls once.
THEOREM Refinement == Spec => ImplementsEnglishAuction
<1>1. Init => Promise!Init
  BY DEF Init, Promise!Init, Stage, Leader, NoRow
<1>2. TypeOK /\ Unborn /\ BookConsistent /\ SettlementCorrect /\ [Next]_vars
        => [Promise!Next]_(Promise!vars)
  <2> SUFFICES ASSUME TypeOK, Unborn, BookConsistent, SettlementCorrect, [Next]_vars
               PROVE  [Promise!Next]_(Promise!vars)
    OBVIOUS
  <2>0. /\ auction \in [Auctions -> AuctionRow] /\ bids \in [Auctions -> Seq(Bid)]
        /\ sale \in [Auctions -> Sale \cup {NoSale}]
    BY DEF TypeOK
  <2>1. CASE UNCHANGED rows
    BY <2>1 DEF rows, Promise!vars, Stage, Leader
  <2>2. ASSUME NEW a \in Auctions, Open(a) PROVE Promise!Announce(a)
    <3>1. PICK r \in Reserves :
            /\ auction'[a].status = "ACTIVE"
            /\ auction'[a].currentBid = StartPrice
            /\ auction'[a].reserve = r
            /\ \A x \in Auctions \ {a} : auction'[x] = auction[x]
      BY <2>0, <2>2 DEF Open
    <3>2. /\ auction[a].status = "none"
          /\ bids[a] = <<>> /\ bids' = bids /\ sale' = sale
      BY <2>2 DEF Open, Unborn
    <3>3. \A x \in Auctions \ {a} : Stage(x)' = Stage(x) /\ Leader(x)' = Leader(x)
      BY <3>1, <3>2, OthersUntouched
    <3>4. Stage(a) = "unlisted" /\ Stage(a)' = "open" /\ Leader(a)' = Leader(a)
      BY <2>0, <3>1, <3>2 DEF Stage, Leader
    <3> QED
      BY <2>0, <3>1, <3>2, <3>3, <3>4 DEF Promise!Announce
  <2>3. ASSUME NEW a \in Auctions, SellerReads(a) PROVE UNCHANGED Promise!vars
    BY <2>3 DEF SellerReads, Promise!vars, Stage, Leader
  <2>4. ASSUME NEW a \in Auctions, NEW isAdmin \in BOOLEAN, Cancel(a, isAdmin)
        PROVE  Promise!Stop(a)
    <3>1. /\ auction[a].status = "ACTIVE"
          /\ auction'[a].status = "CANCELLED"
          /\ auction'[a].currentBid = auction[a].currentBid
          /\ auction'[a].reserve = auction[a].reserve
          /\ \A x \in Auctions \ {a} : auction'[x] = auction[x]
          /\ UNCHANGED <<bids, sale>>
      BY <2>0, <2>4 DEF Cancel, AuctionRow
    <3>2. \A x \in Auctions \ {a} : Stage(x)' = Stage(x) /\ Leader(x)' = Leader(x)
      BY <3>1, OthersUntouched
    <3>3. Stage(a) = "open" /\ Stage(a)' = "stopped" /\ Leader(a)' = Leader(a)
      BY <3>1 DEF Stage, Leader
    <3> QED
      BY <3>1, <3>2, <3>3 DEF Promise!Stop
  <2>5. ASSUME NEW a \in Auctions, NEW b \in Buyers, NEW amount \in Amounts,
               PlaceBid(b, a, amount)
        PROVE  Promise!Raise(a, b, amount)
    <3>1. /\ auction[a].status = "ACTIVE"
          /\ auction'[a].status = "ACTIVE"
          /\ auction'[a].currentBid = amount
          /\ auction'[a].reserve = auction[a].reserve
          /\ \A x \in Auctions \ {a} : auction'[x] = auction[x] /\ bids'[x] = bids[x]
          /\ bids'[a] = Append(bids[a], [buyer |-> b, amount |-> amount])
          /\ UNCHANGED sale
          /\ amount >= MinAllowed(a)
      BY <2>0, <2>5 DEF PlaceBid, TellSeller, AuctionRow
    <3>2. \A x \in Auctions \ {a} : Stage(x)' = Stage(x) /\ Leader(x)' = Leader(x)
      BY <3>1, OthersUntouched
    <3>3. /\ bids[a] \in Seq(Bid) /\ Len(bids'[a]) = Len(bids[a]) + 1
          /\ bids'[a][Len(bids[a]) + 1].buyer = b /\ bids'[a] # <<>>
      <4>1. bids[a] \in Seq(Bid)
        BY <2>0
      <4>2. [buyer |-> b, amount |-> amount] \in Bid
        BY DEF Bid
      <4>3. /\ Len(bids'[a]) = Len(bids[a]) + 1
            /\ bids'[a][Len(bids[a]) + 1] = [buyer |-> b, amount |-> amount]
        BY <3>1, <4>1, <4>2
      <4>4. Len(bids[a]) \in Nat
        BY <4>1
      <4>5. Len(bids'[a]) # 0
        BY <4>3, <4>4
      <4> QED
        BY <4>1, <4>3, <4>5
    <3>4. Stage(a) = "open" /\ Stage(a)' = "open" /\ Leader(a)' = {b}
      BY <3>1, <3>3 DEF Stage, Leader
    <3>5. amount >= IF Leader(a) = {} THEN auction[a].currentBid
                    ELSE auction[a].currentBid + MinIncrement
      <4>1. auction[a].bidCount = Len(bids[a])
        BY <3>1 DEF BookConsistent, BookOf
      <4>2. bids[a] = <<>> <=> auction[a].bidCount = 0
        BY <3>3, <4>1
      <4>3. Leader(a) = {} <=> bids[a] = <<>>
        BY DEF Leader
      <4> QED
        BY <3>1, <4>2, <4>3 DEF MinAllowed
    <3> QED
      BY <3>1, <3>2, <3>4, <3>5 DEF Promise!Raise
  <2>6. ASSUME NEW w \in Workers, Settle(w)
        PROVE  \E a \in Auctions : Promise!Hammer(a)
    <3>1. PICK a \in Auctions :
            /\ run[w].auction = a
            /\ auction[a].status # "CLOSED"
            /\ auction'[a].status = "CLOSED"
            /\ auction'[a].reserveMet = ReserveMet(a)
            /\ auction'[a].currentBid = auction[a].currentBid
            /\ auction'[a].reserve = auction[a].reserve
            /\ \A x \in Auctions \ {a} : auction'[x] = auction[x] /\ sale'[x] = sale[x]
            /\ bids' = bids
      BY <2>6, SettleEffect
    <3>2. \A x \in Auctions \ {a} : Stage(x)' = Stage(x) /\ Leader(x)' = Leader(x)
      BY <3>1, OthersUntouched
    <3>3. /\ auction[a].status \in {"ACTIVE", "CANCELLED"}
          /\ sale[a] = NoSale /\ BookOf(a) /\ auction[a].status # "none"
          /\ auction[a].reserve \in Nat /\ auction[a].currentBid \in Nat
      <4>1. auction[a] \in AuctionRow /\ run[w].auction = a
        BY <2>0, <3>1
      <4>2. auction[a].status # "none"
        BY <4>1 DEF Unborn
      <4>3. SettlementOf(a) /\ BookOf(a)
        BY DEF SettlementCorrect, BookConsistent
      <4>4. sale[a] = NoSale
        BY <3>1, <4>3 DEF SettlementOf
      <4> QED
        BY <3>1, <4>1, <4>2, <4>3, <4>4 DEF AuctionRow, Statuses
    <3>4. Stage(a) \in {"open", "stopped"} /\ Leader(a)' = Leader(a)
      BY <3>1, <3>3 DEF Stage, Leader
    <3>5. /\ [x \in Auctions |-> Leader(x)]' = [x \in Auctions |-> Leader(x)]
          /\ [x \in Auctions |-> auction[x].currentBid]'
               = [x \in Auctions |-> auction[x].currentBid]
          /\ [x \in Auctions |-> auction[x].reserve]'
               = [x \in Auctions |-> auction[x].reserve]
      BY <3>1, <3>2, <3>4
    <3>6. CASE bids[a] # <<>> /\ ReserveMet(a) # "false"
      <4>1. PICK i \in DOMAIN bids[a] :
              /\ IsWinning(a, i)
              /\ sale' = [sale EXCEPT ![a] = [winner |-> bids[a][i].buyer,
                                             amount |-> bids[a][i].amount]]
        BY <2>6, <3>1, <3>6 DEF Settle
      <4>2. /\ i = Len(bids[a]) /\ bids[a][i].amount = auction[a].currentBid
            /\ auction[a].currentBid >= auction[a].reserve
        BY <3>3, <3>6, <4>1, TopIsLast DEF ReserveMet, BookOf
      <4>3. bids[a][i] \in Bid
        <5>1. bids[a] \in Seq(Bid)
          BY <2>0
        <5> QED
          BY <5>1
      <4>4. [winner |-> bids[a][i].buyer, amount |-> bids[a][i].amount] \in Sale
        BY <4>3 DEF Bid, Sale
      <4>5. /\ Leader(a) = {bids[a][i].buyer}
            /\ Stage(a)' = "sold"
        BY <2>0, <3>1, <3>6, <4>1, <4>2, <4>4, NoSaleAssumption DEF Leader, Stage
      <4> QED
        <5>1. [x \in Auctions |-> Stage(x)]'
                = [[x \in Auctions |-> Stage(x)] EXCEPT ![a] = "sold"]
          BY <3>2, <4>5
        <5>2. sale' = [sale EXCEPT ![a] = [winner |-> bids[a][i].buyer,
                                          amount |-> auction[a].currentBid]]
          BY <4>1, <4>2
        <5>3. /\ [x \in Auctions |-> Leader(x)][a] = {bids[a][i].buyer}
              /\ [x \in Auctions |-> Leader(x)][a] # {}
          BY <4>5
        <5>4. /\ [x \in Auctions |-> Stage(x)][a] \in {"open", "stopped"}
              /\ [x \in Auctions |-> auction[x].currentBid][a]
                   >= [x \in Auctions |-> auction[x].reserve][a]
          BY <3>4, <4>2
        <5> QED
          BY <3>5, <4>2, <5>1, <5>2, <5>3, <5>4 DEF Promise!Hammer
    <3>7. CASE ~(bids[a] # <<>> /\ ReserveMet(a) # "false")
      <4>1. UNCHANGED sale /\ Stage(a)' = "unsold"
        BY <2>6, <3>1, <3>3, <3>7 DEF Settle, Stage
      <4>2. Leader(a) = {} \/ auction[a].currentBid < auction[a].reserve
        BY <3>3, <3>7, TopIsLast DEF Leader, ReserveMet
      <4> QED
        <5>1. [x \in Auctions |-> Stage(x)]'
                = [[x \in Auctions |-> Stage(x)] EXCEPT ![a] = "unsold"]
          BY <3>2, <4>1
        <5>2. \/ [x \in Auctions |-> Leader(x)][a] = {}
              \/ [x \in Auctions |-> auction[x].currentBid][a]
                   < [x \in Auctions |-> auction[x].reserve][a]
          BY <4>2
        <5>3. [x \in Auctions |-> Stage(x)][a] \in {"open", "stopped"}
          BY <3>4
        <5> QED
          BY <3>5, <4>1, <5>1, <5>2, <5>3 DEF Promise!Hammer
    <3> QED
      BY <3>6, <3>7
  <2> QED
    BY <2>1, <2>2, <2>3, <2>4, <2>5, <2>6, RowSteps DEF Promise!Next
<1> QED
  BY <1>1, <1>2, TypeCorrect, UnbornAlways, BookAlways, SettlementAlways, PTL
     DEF Spec, ImplementsEnglishAuction, Promise!Spec

-----------------------------------------------------------------------------
(* The queue and the runs: who holds a job works on it, and what was       *)
(* acknowledged was done.                                                  *)

Acknowledged == \A a \in Auctions : job[a].state = "completed" => auction[a].status = "CLOSED"

QueueHonest ==
  /\ Acknowledged
  /\ \A w \in Workers : run[w].phase \in {"settled", "skipped"} =>
       auction[run[w].auction].status = "CLOSED"
  /\ \A w \in Workers, a \in Auctions : Owns(w, a) => run[w].auction = a

LEMMA QueueAlways == Spec => []QueueHonest
<1>1. Init => QueueHonest
  BY DEF Init, QueueHonest, Acknowledged, Owns, NoJob, FreshJob, Idle
<1>2. TypeOK /\ Unborn /\ QueueHonest /\ [Next]_vars => QueueHonest'
  <2> SUFFICES ASSUME TypeOK, Unborn, QueueHonest, [Next]_vars PROVE QueueHonest'
    OBVIOUS
  <2> USE DEF QueueHonest, Acknowledged, Owns, rows, calls, procs
  <2>0. /\ auction \in [Auctions -> AuctionRow] /\ job \in [Auctions -> Job]
        /\ run \in [Workers -> Run] /\ sweep \in [Sweepers -> Sweep]
    BY DEF TypeOK
  <2>1. CASE UNCHANGED vars \/ Tick
    BY <2>1 DEF vars, Tick
  <2>2. ASSUME NEW a \in Auctions, Open(a) PROVE QueueHonest'
    BY <2>0, <2>2 DEF Open, Unborn
  <2>3. ASSUME NEW a \in Auctions, ScheduleEnd(a) \/ ScheduleLost(a) PROVE QueueHonest'
    BY <2>0, <2>3 DEF ScheduleEnd, ScheduleLost, AddJob, FreshJob
  <2>4. ASSUME NEW a \in Auctions, NEW b \in Buyers, NEW amount \in Amounts, PlaceBid(b, a, amount)
        PROVE  QueueHonest'
    BY <2>0, <2>4 DEF PlaceBid, AuctionRow
  <2>5. ASSUME NEW a \in Auctions, SellerReads(a) \/ RemovalLost(a) PROVE QueueHonest'
    BY <2>0, <2>5 DEF SellerReads, RemovalLost
  <2>6. ASSUME NEW a \in Auctions, NEW isAdmin \in BOOLEAN, Cancel(a, isAdmin)
        PROVE  QueueHonest'
    BY <2>0, <2>6 DEF Cancel, AuctionRow
  <2>7. ASSUME NEW a \in Auctions, RemoveCancelledJob(a) PROVE QueueHonest'
    BY <2>0, <2>7 DEF RemoveCancelledJob, NoJob, FreshJob
  <2>8. ASSUME NEW a \in Auctions, JobDue(a) \/ JobStalled(a) PROVE QueueHonest'
    <3>1. /\ job'[a].state \in {"waiting", "failed"}
          /\ \A b \in Auctions \ {a} : job'[b] = job[b]
          /\ UNCHANGED <<auction, run>>
      BY <2>0, <2>8 DEF JobDue, JobStalled, Job
    <3> QED
      BY <3>1
  <2>9. ASSUME NEW a \in Auctions, NEW w \in Workers, TakeJob(w, a) PROVE QueueHonest'
    <3>1. /\ job'[a].state = "active" /\ job'[a].owner = w
          /\ \A b \in Auctions \ {a} : job'[b] = job[b]
          /\ run'[w].auction = a /\ run'[w].phase = "read"
          /\ \A v \in Workers \ {w} : run'[v] = run[v]
          /\ UNCHANGED auction
      BY <2>0, <2>9 DEF TakeJob, Job
    <3>2. run[w].auction = NoAuction
      BY <2>9 DEF TakeJob, Idle
    <3>3. \A b \in Auctions : ~Owns(w, b)
      BY <3>2, QueueAssumption
    <3> QED
      BY <3>1, <3>3
  <2>10. ASSUME NEW s \in Sweepers,
                \/ SweepList(s) \/ SweepCrash(s) \/ \E a \in Auctions : SweepInspect(s, a)
         PROVE  QueueHonest'
    BY <2>0, <2>10 DEF SweepList, SweepCrash, SweepInspect
  <2>11. ASSUME NEW s \in Sweepers, SweepRequeue(s) \/ SweepItemFails(s) PROVE QueueHonest'
    BY <2>0, <2>11 DEF SweepRequeue, SweepItemFails, AddJob, FreshJob, NoJob
  <2>12. ASSUME NEW w \in Workers, SkipClosed(w) PROVE QueueHonest'
    BY <2>0, <2>12 DEF SkipClosed, Run, Idle
  <2>13. ASSUME NEW w \in Workers, Settle(w) PROVE QueueHonest'
    <3>1. PICK a \in Auctions :
            /\ run[w].auction = a
            /\ auction'[a].status = "CLOSED"
            /\ \A y \in Auctions \ {a} : auction'[y] = auction[y]
            /\ \A v \in Workers \ {w} : run'[v] = run[v]
            /\ run'[w].auction = a /\ run'[w].phase = "settled"
            /\ UNCHANGED job
      BY <2>13, SettleEffect
    <3>2. \A v \in Workers : run[v].phase \in {"settled", "skipped"} => run[v].auction \in Auctions
      BY <2>0 DEF Run, Idle
    <3> QED
      BY <2>0, <3>1, <3>2
  <2>14. ASSUME NEW w \in Workers,
                FinishJob(w) \/ FinishUnacknowledged(w) \/ CloseFails(w) \/ WorkerCrash(w)
         PROVE  QueueHonest'
    <3> DEFINE a == run[w].auction
    <3>1. a \in Auctions /\ job[a] \in Job
      BY <2>0, <2>14 DEF FinishJob, FinishUnacknowledged, CloseFails, WorkerCrash, Run, Idle
    <3>2. /\ run'[w] = Idle /\ \A v \in Workers \ {w} : run'[v] = run[v]
          /\ \A b \in Auctions \ {a} : job'[b] = job[b]
          /\ UNCHANGED auction
      BY <2>0, <2>14, <3>1 DEF FinishJob, FinishUnacknowledged, CloseFails, WorkerCrash, Abandoned
    <3>3. ~Owns(w, a) => job' = job
      BY <2>14 DEF FinishJob, FinishUnacknowledged, CloseFails, WorkerCrash, Abandoned
    <3>4. Owns(w, a) => job'[a].state # "active" \/ job'[a].owner = NoWorker
      <4>1. CASE FinishJob(w)
        BY <3>1, <2>0, <4>1 DEF FinishJob, Job
      <4>2. CASE FinishUnacknowledged(w) \/ WorkerCrash(w)
        BY <3>1, <2>0, <4>2 DEF FinishUnacknowledged, WorkerCrash, Abandoned, Job
      <4>3. CASE CloseFails(w)
        BY <3>1, <2>0, <4>3 DEF CloseFails
      <4> QED
        BY <2>14, <4>1, <4>2, <4>3
    <3>5. job'[a].state = "completed" => auction[a].status = "CLOSED"
      BY <2>0, <2>14, <3>1
      DEF FinishJob, FinishUnacknowledged, CloseFails, WorkerCrash, Abandoned, Job
    <3>6. \A b \in Auctions \ {a} : ~Owns(w, b)
      OBVIOUS
    <3>7. \A v \in Workers, b \in Auctions : Owns(v, b)' => v # w /\ Owns(v, b)
      <4> SUFFICES ASSUME NEW v \in Workers, NEW b \in Auctions, Owns(v, b)'
                   PROVE  v # w /\ Owns(v, b)
        OBVIOUS
      <4>1. CASE b # a
        BY <3>2, <3>6, <4>1
      <4>2. CASE b = a /\ Owns(w, a)
        BY <3>4, <4>2, QueueAssumption
      <4>3. CASE b = a /\ ~Owns(w, a)
        BY <3>3, <4>3
      <4> QED
        BY <4>1, <4>2, <4>3
    <3> QED
      BY <3>1, <3>2, <3>5, <3>7 DEF Idle
  <2> QED
    BY <2>1, <2>2, <2>3, <2>4, <2>5, <2>6, <2>7, <2>8, <2>9, <2>10, <2>11, <2>12,
       <2>13, <2>14 DEF Next
<1> QED
  BY <1>1, <1>2, TypeCorrect, UnbornAlways, PTL DEF Spec

\* A close job is completed only when its auction is closed: whatever stalled, was retried, ran
\* twice or lost its lock, no acknowledgement covers up an auction that is still open.  (BullMQ
\* ignores an add under the id of a completed job: it would hide such an auction from ScheduleEnd.)
THEOREM AcknowledgedIsSettled == Spec => []Acknowledged
<1>1. QueueHonest => Acknowledged
  BY DEF QueueHonest
<1> QED
  BY <1>1, QueueAlways, PTL

-----------------------------------------------------------------------------
(* Liveness.  As in SaleLifecycle_proofs, that a guard enables its action  *)
(* is a premise, and so are two facts about slots and sweeps of which      *)
(* every item is fair, but which speak of sets: a sweep comes to its end,  *)
(* and a job that waits again and again is seen waiting by an idle slot.   *)

IsActive(a) == auction[a].status = "ACTIVE"
OverdueOpen(a) == IsActive(a) /\ auction[a].endTime < now
SlotIdle == \E w \in Workers : run[w] = Idle
RunsOn(a) == \E w \in Workers : run[w].auction = a
Delayed(a) == job[a].state = "delayed"
Waiting(a) == job[a].state = "waiting"
Held(a) == job[a].state = "active"
Ended(a) == ~Delayed(a) /\ ~Waiting(a) /\ ~Held(a)
SweepOver(s) == sweep[s] = NoSweep
At(s, a) == sweep[s].at = a
Reached(s, a) == a \in sweep[s].list /\ sweep[s].at = NoAuction
SomethingDue == Overdue # {}

\* What a step does to the job of an auction, and to a sweep.
QueueMoves(a) ==
  /\ Held(a)' => Held(a) \/ TakenUp(a)
  /\ Delayed(a)' => Delayed(a) \/ RunsOn(a) \/ auction[a].endTime > now
  /\ job[a].state = "none" => Ended(a)' \/ Waiting(a)' \/ Delayed(a)'
  /\ job[a].state = "none" /\ Ended(a)' => job'[a].state = "none"

SweepMoves(s, a) ==
  /\ SweepOver(s) => SweepOver(s)' \/ SweepList(s)
  /\ At(s, a)' /\ ~sweep'[s].clear =>
       \/ At(s, a) /\ ~sweep[s].clear
       \/ job'[a].state = "none"

LEMMA QueueStep ==
  ASSUME TypeOK, QueueHonest, [Next]_vars, NEW a \in Auctions
  PROVE  QueueMoves(a)
<1> USE DEF QueueMoves, Held, Delayed, Waiting, Ended, rows, calls, procs
<1>0. /\ auction \in [Auctions -> AuctionRow] /\ job \in [Auctions -> Job]
      /\ run \in [Workers -> Run] /\ sweep \in [Sweepers -> Sweep]
  BY DEF TypeOK
<1>1. CASE UNCHANGED <<job>>
  BY <1>1
<1>2. ASSUME NEW b \in Auctions, ScheduleEnd(b)
      PROVE  QueueMoves(a)
  <2>1. auction[a].endTime \in Nat /\ now \in Nat
    BY DEF TypeOK, AuctionRow
  <2> QED
    BY <1>0, <1>2, <2>1 DEF ScheduleEnd, AddJob, FreshJob
<1>3. ASSUME NEW b \in Auctions, RemoveCancelledJob(b) PROVE QueueMoves(a)
  BY <1>0, <1>3 DEF RemoveCancelledJob, NoJob, FreshJob
<1>4. ASSUME NEW b \in Auctions, JobDue(b) \/ JobStalled(b) PROVE QueueMoves(a)
  BY <1>0, <1>4 DEF JobDue, JobStalled, Job
<1>5. ASSUME NEW b \in Auctions, NEW w \in Workers, TakeJob(w, b) PROVE QueueMoves(a)
  <2>1. CASE b = a
    <3>1. TakenUp(a)
      BY <1>5, <2>1 DEF TakenUp
    <3>2. job[a].state = "waiting" /\ job'[a].state = "active"
      BY <1>0, <1>5, <2>1 DEF TakeJob, Job
    <3> QED
      BY <3>1, <3>2
  <2>2. CASE b # a
    BY <1>0, <1>5, <2>2 DEF TakeJob
  <2> QED
    BY <2>1, <2>2
<1>6. ASSUME NEW s \in Sweepers, SweepRequeue(s) \/ SweepItemFails(s) PROVE QueueMoves(a)
  BY <1>0, <1>6 DEF SweepRequeue, SweepItemFails, AddJob, FreshJob, NoJob
<1>7. ASSUME NEW w \in Workers, FinishJob(w) \/ FinishUnacknowledged(w) \/ CloseFails(w) \/ WorkerCrash(w)
      PROVE  QueueMoves(a)
  <2>1. job'[a] = job[a] \/ (Owns(w, a) /\ run[w].auction = a /\ job'[a].state # "none")
    <3>1. CASE FinishJob(w)
      BY <1>0, <3>1 DEF FinishJob, Owns, Job
    <3>2. CASE FinishUnacknowledged(w) \/ WorkerCrash(w)
      BY <1>0, <3>2 DEF FinishUnacknowledged, WorkerCrash, Abandoned, Owns, Job
    <3>3. CASE CloseFails(w)
      BY <1>0, <3>3 DEF CloseFails, Owns, Job
    <3> QED
      BY <1>7, <3>1, <3>2, <3>3
  <2> QED
    BY <2>1 DEF RunsOn, Owns
<1>8. ASSUME NEW b \in Auctions,
             \/ Open(b) \/ ScheduleLost(b) \/ SellerReads(b) \/ RemovalLost(b)
             \/ \E isAdmin \in BOOLEAN : Cancel(b, isAdmin)
             \/ \E u \in Buyers, amount \in Amounts : PlaceBid(u, b, amount)
             \/ \E s \in Sweepers : SweepInspect(s, b)
      PROVE  UNCHANGED job
  BY <1>8 DEF Open, ScheduleLost, SellerReads, RemovalLost, Cancel, PlaceBid, SweepInspect
<1>9. ASSUME NEW w \in Workers, SkipClosed(w) \/ Settle(w) PROVE UNCHANGED job
  BY <1>9 DEF SkipClosed, Settle
<1>10. ASSUME NEW s \in Sweepers, SweepList(s) \/ SweepCrash(s) PROVE UNCHANGED job
  BY <1>10 DEF SweepList, SweepCrash
<1>11. ASSUME UNCHANGED vars \/ Tick PROVE UNCHANGED job
  BY <1>11 DEF vars, Tick
<1> HIDE DEF QueueMoves
<1> QED
  BY <1>1, <1>2, <1>3, <1>4, <1>5, <1>6, <1>7, <1>8, <1>9, <1>10, <1>11 DEF Next

LEMMA SweepStep ==
  ASSUME TypeOK, [Next]_vars, NEW s \in Sweepers, NEW a \in Auctions
  PROVE  SweepMoves(s, a)
<1> USE DEF SweepMoves, SweepOver, At, rows, calls, procs
<1>0. /\ sweep \in [Sweepers -> Sweep] /\ a # NoAuction
  BY QueueAssumption DEF TypeOK
<1>1. ASSUME UNCHANGED sweep PROVE SweepMoves(s, a)
  BY <1>1
<1>2. ASSUME NEW r \in Sweepers, SweepList(r) PROVE SweepMoves(s, a)
  BY <1>0, <1>2 DEF SweepList
<1>3. ASSUME NEW r \in Sweepers, NEW b \in Auctions, SweepInspect(r, b) PROVE SweepMoves(s, a)
  <2>1. CASE r = s
    <3>1. ~SweepOver(s) /\ job' = job
      BY <1>3, <2>1 DEF SweepInspect, NoSweep
    <3>2. At(s, a)' => a = b /\ (~sweep'[s].clear => job[a].state = "none")
      <4>1. sweep'[s] = [list |-> sweep[s].list \ {b},
                         at |-> IF job[b].state \in {"none", "completed", "failed"} THEN b
                                ELSE NoAuction,
                         clear |-> job[b].state \in {"completed", "failed"}]
        BY <1>0, <1>3, <2>1 DEF SweepInspect
      <4>2. sweep'[s].at = IF job[b].state \in {"none", "completed", "failed"} THEN b
                           ELSE NoAuction
        BY <4>1
      <4>3. ASSUME job[b].state \in {"completed", "failed"} PROVE sweep'[s].clear = TRUE
        <5> DEFINE c == job[b].state \in {"completed", "failed"}
        <5>1. c = TRUE
          BY <4>3
        <5>2. sweep'[s] = [list |-> sweep[s].list \ {b},
                           at |-> IF job[b].state \in {"none", "completed", "failed"} THEN b
                                  ELSE NoAuction,
                           clear |-> c]
          BY <4>1
        <5> HIDE DEF c
        <5> QED
          BY <5>1, <5>2
      <4>4. At(s, a)' => a = b /\ job[a].state \in {"none", "completed", "failed"}
        BY <1>0, <4>2
      <4> QED
        BY <4>3, <4>4
    <3> QED
      BY <3>1, <3>2
  <2>2. CASE r # s
    BY <1>0, <1>3, <2>2 DEF SweepInspect
  <2> QED
    BY <2>1, <2>2
<1>4. ASSUME NEW r \in Sweepers, SweepRequeue(r) \/ SweepItemFails(r) PROVE SweepMoves(s, a)
  <2>1. sweep[r].at # NoAuction /\ sweep[r] # NoSweep
    BY <1>4 DEF SweepRequeue, SweepItemFails, NoSweep
  <2>2. sweep'[r].at = NoAuction /\ \A q \in Sweepers \ {r} : sweep'[q] = sweep[q]
    BY <1>0, <1>4 DEF SweepRequeue, SweepItemFails
  <2> QED
    BY <1>0, <2>1, <2>2
<1>5. ASSUME NEW r \in Sweepers, SweepCrash(r) PROVE SweepMoves(s, a)
  BY <1>0, <1>5 DEF SweepCrash, NoSweep
<1>6. ASSUME NEW b \in Auctions,
             \/ Open(b) \/ ScheduleEnd(b) \/ ScheduleLost(b) \/ SellerReads(b)
             \/ \E isAdmin \in BOOLEAN : Cancel(b, isAdmin)
             \/ RemoveCancelledJob(b) \/ RemovalLost(b) \/ JobDue(b) \/ JobStalled(b)
             \/ \E u \in Buyers, amount \in Amounts : PlaceBid(u, b, amount)
             \/ \E w \in Workers : TakeJob(w, b)
      PROVE  UNCHANGED sweep
  BY <1>6 DEF Open, ScheduleEnd, ScheduleLost, SellerReads, Cancel, RemoveCancelledJob, RemovalLost,
              JobDue, JobStalled, PlaceBid, TakeJob
<1>7. ASSUME NEW w \in Workers,
             \/ SkipClosed(w) \/ Settle(w) \/ FinishJob(w) \/ FinishUnacknowledged(w)
             \/ CloseFails(w) \/ WorkerCrash(w)
      PROVE  UNCHANGED sweep
  BY <1>7 DEF SkipClosed, Settle, FinishJob, FinishUnacknowledged, CloseFails, WorkerCrash
<1>8. ASSUME UNCHANGED vars \/ Tick PROVE UNCHANGED sweep
  BY <1>8 DEF vars, Tick
<1> HIDE DEF SweepMoves
<1> QED
  BY <1>1, <1>2, <1>3, <1>4, <1>5, <1>6, <1>7, <1>8 DEF Next

\* An open auction that is overdue is overdue for as long as it is open.
LEMMA OverdueStays ==
  ASSUME TypeOK, [Next]_vars, NEW a \in Auctions, OverdueOpen(a), IsActive(a)'
  PROVE  OverdueOpen(a)'
<1> USE DEF OverdueOpen, IsActive, rows, calls, procs
<1>0. auction \in [Auctions -> AuctionRow] /\ now \in Nat /\ auction[a].endTime \in Nat
  BY DEF TypeOK, AuctionRow
<1>1. now' = now \/ now' = now + 1
  <2>1. ASSUME NEW b \in Auctions,
               \/ Open(b) \/ ScheduleEnd(b) \/ ScheduleLost(b) \/ SellerReads(b)
               \/ \E isAdmin \in BOOLEAN : Cancel(b, isAdmin)
               \/ RemoveCancelledJob(b) \/ RemovalLost(b) \/ JobDue(b) \/ JobStalled(b)
               \/ \E u \in Buyers, amount \in Amounts : PlaceBid(u, b, amount)
               \/ \E w \in Workers : TakeJob(w, b)
               \/ \E s \in Sweepers : SweepInspect(s, b)
        PROVE  now' = now
    BY <2>1 DEF Open, ScheduleEnd, ScheduleLost, SellerReads, Cancel, RemoveCancelledJob,
                RemovalLost, JobDue, JobStalled, PlaceBid, TakeJob, SweepInspect
  <2>2. ASSUME NEW w \in Workers,
               \/ SkipClosed(w) \/ Settle(w) \/ FinishJob(w) \/ FinishUnacknowledged(w)
               \/ CloseFails(w) \/ WorkerCrash(w)
        PROVE  now' = now
    BY <2>2 DEF SkipClosed, Settle, FinishJob, FinishUnacknowledged, CloseFails, WorkerCrash
  <2>3. ASSUME NEW s \in Sweepers,
               SweepList(s) \/ SweepRequeue(s) \/ SweepItemFails(s) \/ SweepCrash(s)
        PROVE  now' = now
    BY <2>3 DEF SweepList, SweepRequeue, SweepItemFails, SweepCrash
  <2>4. ASSUME UNCHANGED vars \/ Tick PROVE now' = now \/ now' = now + 1
    BY <2>4 DEF vars, Tick
  <2> QED
    BY <2>1, <2>2, <2>3, <2>4 DEF Next
<1>2. auction'[a].endTime = auction[a].endTime
  <2>1. ASSUME NEW b \in Auctions,
               \/ Open(b) \/ SellerReads(b)
               \/ \E isAdmin \in BOOLEAN : Cancel(b, isAdmin)
               \/ \E u \in Buyers, amount \in Amounts : PlaceBid(u, b, amount)
        PROVE  auction'[a].endTime = auction[a].endTime
    <3>1. CASE auction'[a] = auction[a]
      BY <3>1
    <3>2. CASE Open(b) \/ SellerReads(b) \/ \E isAdmin \in BOOLEAN : Cancel(b, isAdmin)
      BY <1>0, <3>2 DEF Open, SellerReads, Cancel, AuctionRow
    <3>3. ASSUME NEW u \in Buyers, NEW amount \in Amounts, PlaceBid(u, b, amount)
          PROVE  auction'[a].endTime = auction[a].endTime
      BY <1>0, <3>3 DEF PlaceBid, AuctionRow
    <3> QED
      BY <2>1, <3>2, <3>3
  <2>2. ASSUME NEW w \in Workers, Settle(w) PROVE auction'[a].endTime = auction[a].endTime
    BY <2>2, SettleEffect
  <2>3. CASE UNCHANGED rows
    BY <2>3
  <2> QED
    BY <2>1, <2>2, <2>3, RowSteps
<1> QED
  BY <1>0, <1>1, <1>2

\* What the guards of the fair steps come to.
ReadyToClose(a) ==
  /\ \E w \in Workers : run[w].auction = a /\ run[w].phase = "read"
  /\ auction[a].status # "CLOSED" /\ sale[a] = NoSale
  /\ bids[a] = <<>> \/ \E i \in DOMAIN bids[a] : IsWinning(a, i)

ClosesWhenRead(a) == ReadyToClose(a) => ENABLED <<Closes(a)>>_vars
TakenWhenWaiting(a) == Waiting(a) /\ SlotIdle => ENABLED <<TakenUp(a)>>_vars
ExpiresWhenLoose(a) ==
  Held(a) /\ job[a].owner = NoWorker => ENABLED <<LockExpires(a)>>_vars
DueWhenDelayed(a) ==
  Delayed(a) /\ auction[a].endTime <= now => ENABLED <<JobDue(a)>>_vars
InspectsWhenReached(s, a) == Reached(s, a) => ENABLED <<SweepInspect(s, a)>>_vars
RequeuesWhenAt(s, a) == At(s, a) /\ ~Locked(a) => ENABLED <<Requeues(s, a)>>_vars
ListsWhenDue(s) == SweepOver(s) /\ SomethingDue => ENABLED <<SweepList(s)>>_vars

GuardsSuffice ==
  /\ \A a \in Auctions :
       /\ ClosesWhenRead(a) /\ TakenWhenWaiting(a) /\ ExpiresWhenLoose(a) /\ DueWhenDelayed(a)
       /\ \A s \in Sweepers : InspectsWhenReached(s, a) /\ RequeuesWhenAt(s, a)
  /\ \A s \in Sweepers : ListsWhenDue(s)

SweepsEnd(s) == []<>SweepOver(s)
SlotsServe(a) == []<>Waiting(a) => []<>(Waiting(a) /\ SlotIdle)

LiveInv == TypeOK /\ QueueHonest /\ BookConsistent /\ SettlementCorrect

LEMMA LiveInvAlways == Spec => []LiveInv
BY TypeCorrect, QueueAlways, BookAlways, SettlementAlways, PTL DEF LiveInv

\* A run on an open auction is still before its transaction, which nothing can then refuse.
LEMMA RunIsReady ==
  ASSUME LiveInv, NEW a \in Auctions, RunsOn(a), IsActive(a)
  PROVE  ReadyToClose(a)
<1>1. PICK w \in Workers : run[w].auction = a
  BY DEF RunsOn
<1>2. run[w].phase = "read"
  <2>1. run[w] \in Run /\ run[w] # Idle
    BY <1>1, QueueAssumption DEF LiveInv, TypeOK, Idle
  <2>2. run[w].phase \in Phases
    BY <2>1 DEF Run
  <2>3. run[w].phase \notin {"settled", "skipped"}
    BY <1>1 DEF LiveInv, QueueHonest, IsActive
  <2> QED
    BY <2>2, <2>3 DEF Phases
<1>3. sale[a] = NoSale
  BY DEF LiveInv, SettlementCorrect, SettlementOf, IsActive
<1>4. bids[a] # <<>> => \E i \in DOMAIN bids[a] : IsWinning(a, i)
  BY TopIsLast DEF LiveInv, BookConsistent, IsActive
<1> QED
  BY <1>1, <1>2, <1>3, <1>4 DEF ReadyToClose, IsActive

\* The closing transaction on an auction leaves it closed.
LEMMA ClosesIsClosed ==
  ASSUME TypeOK, NEW a \in Auctions, Closes(a)
  PROVE  ~IsActive(a)'
<1>1. PICK w \in Workers : run[w].auction = a /\ (Settle(w) \/ SkipClosed(w))
  BY DEF Closes
<1>2. CASE Settle(w)
  BY <1>1, <1>2, SettleEffect DEF IsActive
<1>3. CASE SkipClosed(w)
  BY <1>1, <1>3 DEF SkipClosed, rows, IsActive
<1> QED
  BY <1>1, <1>2, <1>3

\* Of the workers.  While the auction stays open no transaction closes it, so from some moment
\* on no run is on it, hence no slot takes its job, hence the job no longer waits; a job whose
\* holder is gone is found stalled, a delayed one is due.  So its job is ended or missing for good.
LEMMA JobEnds ==
  ASSUME NEW a \in Auctions
  PROVE  /\ Spec /\ CloseGoesThrough(a) /\ JobIsTaken(a) /\ StallIsSeen(a) /\ JobFallsDue(a)
         /\ []ClosesWhenRead(a) /\ []TakenWhenWaiting(a) /\ []ExpiresWhenLoose(a)
         /\ []DueWhenDelayed(a) /\ SlotsServe(a)
         => []([]OverdueOpen(a) => <>[](~RunsOn(a) /\ Ended(a)))
<1>1. LiveInv /\ [Next]_vars /\ <<Closes(a)>>_vars => ~IsActive(a)'
  BY ClosesIsClosed DEF LiveInv
<1>2. LiveInv /\ ClosesWhenRead(a) /\ RunsOn(a) /\ IsActive(a) => ENABLED <<Closes(a)>>_vars
  BY RunIsReady DEF ClosesWhenRead
<1>3. LiveInv /\ <<TakenUp(a)>>_vars => RunsOn(a)'
  BY DEF LiveInv, TypeOK, TakenUp, TakeJob, RunsOn
<1>4. LiveInv /\ [Next]_vars => (Held(a)' => Held(a) \/ <<TakenUp(a)>>_vars)
  <2> SUFFICES ASSUME LiveInv, [Next]_vars, Held(a)', ~Held(a) PROVE <<TakenUp(a)>>_vars
    OBVIOUS
  <2>1. TakenUp(a)
    BY QueueStep DEF LiveInv, QueueMoves
  <2>2. vars' # vars
    BY DEF vars, Held
  <2> QED
    BY <2>1, <2>2
<1>5. LiveInv /\ Held(a) /\ ~RunsOn(a) /\ ExpiresWhenLoose(a) => ENABLED <<LockExpires(a)>>_vars
  <2>1. TypeOK /\ QueueHonest /\ Held(a) /\ ~RunsOn(a) => job[a].owner = NoWorker
    BY DEF TypeOK, Job, QueueHonest, Owns, Held, RunsOn
  <2> QED
    BY <2>1 DEF LiveInv, ExpiresWhenLoose
<1>6. LiveInv /\ <<LockExpires(a)>>_vars => ~Held(a)'
  BY DEF LiveInv, TypeOK, LockExpires, JobStalled, Held
<1>7. LiveInv /\ [Next]_vars /\ OverdueOpen(a) /\ ~RunsOn(a) => (Delayed(a)' => Delayed(a))
  <2>1. TypeOK /\ OverdueOpen(a) => ~(auction[a].endTime > now)
    BY DEF TypeOK, AuctionRow, OverdueOpen
  <2> QED
    BY <2>1, QueueStep DEF LiveInv, QueueMoves
<1>8. LiveInv /\ OverdueOpen(a) /\ Delayed(a) /\ DueWhenDelayed(a) => ENABLED <<JobDue(a)>>_vars
  <2>1. TypeOK /\ OverdueOpen(a) => auction[a].endTime <= now
    BY DEF TypeOK, AuctionRow, OverdueOpen
  <2> QED
    BY <2>1 DEF LiveInv, DueWhenDelayed
<1>9. LiveInv /\ <<JobDue(a)>>_vars => ~Delayed(a)'
  BY DEF LiveInv, TypeOK, JobDue, Delayed
<1>10. OverdueOpen(a) => IsActive(a)
  BY DEF OverdueOpen
<1>11. Spec /\ CloseGoesThrough(a) /\ []ClosesWhenRead(a) =>
         []([]OverdueOpen(a) => <>[]~RunsOn(a))
  BY <1>1, <1>2, <1>10, LiveInvAlways, PTL DEF Spec, CloseGoesThrough
<1>12. Spec /\ JobIsTaken(a) /\ []TakenWhenWaiting(a) /\ SlotsServe(a) =>
         [](<>[]~RunsOn(a) => <>[]~Waiting(a))
  BY <1>3, LiveInvAlways, PTL DEF Spec, JobIsTaken, TakenWhenWaiting, SlotsServe
<1>13. Spec /\ StallIsSeen(a) /\ []ExpiresWhenLoose(a) =>
         [](<>[]~RunsOn(a) => <>[]~Held(a))
  BY <1>3, <1>4, <1>5, <1>6, LiveInvAlways, PTL DEF Spec, StallIsSeen
<1>14. Spec /\ JobFallsDue(a) /\ []DueWhenDelayed(a) =>
         []([]OverdueOpen(a) /\ <>[]~RunsOn(a) => <>[]~Delayed(a))
  BY <1>7, <1>8, <1>9, LiveInvAlways, PTL DEF Spec, JobFallsDue
<1>15. ~Delayed(a) /\ ~Waiting(a) /\ ~Held(a) => Ended(a)
  BY DEF Ended
<1> QED
  BY <1>11, <1>12, <1>13, <1>14, <1>15, PTL

\* The sweep's item is what it saw when it inspected the job: one it means to add, not to clear,
\* has no job.
ItemStillTrue(s, a) == At(s, a) /\ ~sweep[s].clear => job[a].state = "none"

\* Of one sweep.  If the job of an overdue auction stayed ended, or missing, the sweep would never
\* put a new one in its place, so from some moment on it would not be at the auction, hence never
\* inspect it, hence never list it, hence never start once it was over, with something to list.
LEMMA SweepDoesNotRest ==
  ASSUME NEW s \in Sweepers, NEW a \in Auctions
  PROVE  /\ Spec /\ SweepStarts(s) /\ InspectGoesThrough(s, a) /\ RequeueGoesThrough(s, a)
         /\ []ListsWhenDue(s) /\ []InspectsWhenReached(s, a) /\ []RequeuesWhenAt(s, a)
         /\ SweepsEnd(s)
         => []~([]OverdueOpen(a) /\ <>[]Ended(a))
<1>1. LiveInv /\ [Next]_vars /\ Ended(a) /\ Ended(a)' /\ ItemStillTrue(s, a) => ItemStillTrue(s, a)'
  BY QueueStep, SweepStep DEF LiveInv, QueueMoves, SweepMoves, ItemStillTrue
<1>2. SweepOver(s) => ItemStillTrue(s, a)
  BY QueueAssumption DEF SweepOver, NoSweep, ItemStillTrue, At
<1>3. LiveInv /\ ItemStillTrue(s, a) /\ Ended(a) /\ <<Requeues(s, a)>>_vars => Waiting(a)'
  <2> SUFFICES ASSUME TypeOK, ItemStillTrue(s, a), Ended(a), sweep[s].at = a, SweepRequeue(s)
               PROVE  Waiting(a)'
    BY DEF LiveInv, Requeues
  <2>1. CASE sweep[s].clear
    BY <2>1 DEF SweepRequeue, TypeOK, FreshJob, Waiting
  <2>2. CASE ~sweep[s].clear
    BY <2>2 DEF SweepRequeue, ItemStillTrue, At, AddJob, TypeOK, FreshJob, Waiting
  <2> QED
    BY <2>1, <2>2
<1>4. Waiting(a) => ~Ended(a)
  BY DEF Ended
<1>5. At(s, a) /\ Ended(a) /\ RequeuesWhenAt(s, a) => ENABLED <<Requeues(s, a)>>_vars
  <2>1. Ended(a) => ~Locked(a)
    BY DEF Ended, Held, Locked
  <2> QED
    BY <2>1 DEF RequeuesWhenAt
<1>6. LiveInv /\ Ended(a) /\ <<SweepInspect(s, a)>>_vars => At(s, a)'
  <2> SUFFICES ASSUME TypeOK, Ended(a), SweepInspect(s, a) PROVE At(s, a)'
    BY DEF LiveInv
  <2>1. job[a].state \in {"none", "completed", "failed"}
    BY DEF TypeOK, Job, JobStates, Ended, Delayed, Waiting, Held
  <2> QED
    BY <2>1 DEF SweepInspect, TypeOK, At
<1>7. LiveInv /\ [Next]_vars /\ SweepOver(s) => SweepOver(s)' \/ <<SweepList(s)>>_vars
  <2> SUFFICES ASSUME LiveInv, [Next]_vars, SweepOver(s), ~SweepOver(s)' PROVE <<SweepList(s)>>_vars
    OBVIOUS
  <2>1. SweepMoves(s, a)
    BY SweepStep DEF LiveInv
  <2>2. sweep' # sweep
    BY DEF SweepOver
  <2> QED
    BY <2>1, <2>2 DEF SweepMoves, vars, procs
<1>8. LiveInv /\ OverdueOpen(a) /\ <<SweepList(s)>>_vars => Reached(s, a)'
  <2>1. OverdueOpen(a) => a \in Overdue
    BY DEF OverdueOpen, IsActive, Overdue
  <2> QED
    BY <2>1 DEF LiveInv, TypeOK, SweepList, Reached
<1>9. OverdueOpen(a) => SomethingDue
  BY DEF OverdueOpen, IsActive, SomethingDue, Overdue
<1>10. Spec /\ SweepsEnd(s) => [](<>[]Ended(a) => <>[]ItemStillTrue(s, a))
  BY <1>1, <1>2, LiveInvAlways, PTL DEF Spec, SweepsEnd
<1>11. Spec /\ RequeueGoesThrough(s, a) /\ []RequeuesWhenAt(s, a) =>
         [](<>[]Ended(a) /\ <>[]ItemStillTrue(s, a) => <>[]~At(s, a))
  BY <1>3, <1>4, <1>5, LiveInvAlways, PTL DEF Spec, RequeueGoesThrough
<1>12. Spec /\ InspectGoesThrough(s, a) /\ []InspectsWhenReached(s, a) =>
         [](<>[]Ended(a) /\ <>[]~At(s, a) => <>[]~Reached(s, a))
  BY <1>6, LiveInvAlways, PTL DEF Spec, InspectGoesThrough, InspectsWhenReached
<1>13. Spec /\ SweepStarts(s) /\ []ListsWhenDue(s) /\ SweepsEnd(s) =>
         []([]OverdueOpen(a) => ~<>[]~Reached(s, a))
  BY <1>7, <1>8, <1>9, LiveInvAlways, PTL DEF Spec, SweepStarts, ListsWhenDue, SweepsEnd
<1> QED
  BY <1>10, <1>11, <1>12, <1>13, PTL

\* An overdue auction is settled or cancelled in the end, from any reachable state of queue, runs
\* and sweeps: whether its job was never added, removed, failed for good, stalled or lost with its
\* worker, and however often that happens again.  It takes one process that keeps sweeping.
THEOREM OverdueSettlesIfFair ==
  /\ FairSpec /\ []GuardsSuffice
  /\ \A a \in Auctions : SlotsServe(a)
  /\ \E s \in Sweepers : SweepsEnd(s)
  => OverdueSettles
<1>1. ASSUME NEW s \in Sweepers, NEW a \in Auctions
      PROVE  FairSpec /\ []GuardsSuffice /\ SlotsServe(a) /\ SweepsEnd(s) =>
               (OverdueOpen(a) ~> ~IsActive(a))
  <2>1. Fairness => /\ JobFallsDue(a) /\ StallIsSeen(a) /\ JobIsTaken(a) /\ CloseGoesThrough(a)
                    /\ InspectGoesThrough(s, a) /\ RequeueGoesThrough(s, a) /\ SweepStarts(s)
    BY DEF Fairness
  <2>2. GuardsSuffice =>
          /\ ClosesWhenRead(a) /\ TakenWhenWaiting(a) /\ ExpiresWhenLoose(a) /\ DueWhenDelayed(a)
          /\ InspectsWhenReached(s, a) /\ RequeuesWhenAt(s, a) /\ ListsWhenDue(s)
    BY DEF GuardsSuffice
  <2>3. []GuardsSuffice =>
          /\ []ClosesWhenRead(a) /\ []TakenWhenWaiting(a) /\ []ExpiresWhenLoose(a)
          /\ []DueWhenDelayed(a) /\ []InspectsWhenReached(s, a) /\ []RequeuesWhenAt(s, a)
          /\ []ListsWhenDue(s)
    BY <2>2, PTL
  <2>4. FairSpec /\ []GuardsSuffice /\ SlotsServe(a) /\ SweepsEnd(s) => Spec /\ []~[]OverdueOpen(a)
    <3>1. FairSpec /\ []GuardsSuffice /\ SlotsServe(a) =>
            []([]OverdueOpen(a) => <>[](~RunsOn(a) /\ Ended(a)))
      BY <2>1, <2>3, JobEnds DEF FairSpec
    <3>2. FairSpec /\ []GuardsSuffice /\ SweepsEnd(s) =>
            []~([]OverdueOpen(a) /\ <>[]Ended(a))
      BY <2>1, <2>3, SweepDoesNotRest DEF FairSpec
    <3>3. FairSpec => Spec
      BY DEF FairSpec
    <3> QED
      BY <3>1, <3>2, <3>3, PTL
  <2>5. LiveInv /\ [Next]_vars /\ OverdueOpen(a) => OverdueOpen(a)' \/ ~IsActive(a)'
    BY OverdueStays DEF LiveInv
  <2>6. Spec /\ []~[]OverdueOpen(a) => (OverdueOpen(a) ~> ~IsActive(a))
    BY <2>5, LiveInvAlways, PTL DEF Spec
  <2> QED
    BY <2>4, <2>6
<1>2. ASSUME NEW a \in Auctions
      PROVE  (OverdueOpen(a) ~> ~IsActive(a)) =>
               (auction[a].status = "ACTIVE" /\ auction[a].endTime < now
                  ~> auction[a].status # "ACTIVE")
  <2>1. auction[a].status = "ACTIVE" /\ auction[a].endTime < now => OverdueOpen(a)
    BY DEF OverdueOpen, IsActive
  <2>2. ~IsActive(a) => auction[a].status # "ACTIVE"
    BY DEF IsActive
  <2> QED
    BY <2>1, <2>2, PTL
<1> QED
  BY <1>1, <1>2 DEF OverdueSettles

-----------------------------------------------------------------------------
(* A cancelled auction whose job was removed in time.                      *)

\* Nobody is about to queue, run or re-queue the end job of an auction.
Unattended(a) ==
  /\ a \notin unscheduled
  /\ \A w \in Workers : run[w].auction # a
  /\ \A s \in Sweepers : a \notin sweep[s].list /\ sweep[s].at # a

Pulled(a) == /\ auction[a].status = "CANCELLED"
             /\ job[a].state = "none"
             /\ Unattended(a)

\* A step on the job of another auction leaves this one's alone.
LEMMA PulledStays ==
  ASSUME TypeOK, NEW a \in Auctions, Pulled(a), [Next]_vars
  PROVE  Pulled(a)'
<1> USE DEF Pulled, Unattended
<1>1. CASE UNCHANGED vars
  BY <1>1 DEF vars, rows, calls, procs
<1>2. CASE Tick
  BY <1>2 DEF Tick, rows, calls, procs
<1>3. ASSUME NEW x \in Auctions, Open(x) PROVE Pulled(a)'
  <2>1. x # a
    BY <1>3 DEF Open
  <2>2. auction'[a] = auction[a]
    BY <1>3, <2>1 DEF Open, TypeOK
  <2>3. QED
    BY <1>3, <2>1, <2>2 DEF Open, procs
<1>4. ASSUME NEW x \in Auctions, ScheduleEnd(x) PROVE Pulled(a)'
  <2>1. x # a
    BY <1>4 DEF ScheduleEnd
  <2>2. job'[a] = job[a]
    BY <1>4, <2>1 DEF ScheduleEnd, AddJob, TypeOK
  <2>3. QED
    BY <1>4, <2>2 DEF ScheduleEnd, rows, procs
<1>5. ASSUME NEW x \in Auctions, \/ ScheduleLost(x) \/ SellerReads(x) \/ RemovalLost(x)
      PROVE  Pulled(a)'
  BY <1>5 DEF ScheduleLost, SellerReads, RemovalLost, rows, calls, procs
<1>6. ASSUME NEW x \in Auctions, NEW isAdmin \in BOOLEAN, Cancel(x, isAdmin)
      PROVE  Pulled(a)'
  <2>1. auction'[a] = auction[a]
    BY <1>6 DEF Cancel, TypeOK
  <2>2. QED
    BY <1>6, <2>1 DEF Cancel, procs
<1>7. ASSUME NEW x \in Auctions, \/ RemoveCancelledJob(x) \/ JobDue(x) \/ JobStalled(x)
      PROVE  Pulled(a)'
  <2>1. job'[a].state = "none"
    <3>1. CASE x = a
      BY <1>7, <3>1 DEF RemoveCancelledJob, JobDue, JobStalled, NoJob, FreshJob, TypeOK
    <3>2. CASE x # a
      BY <1>7, <3>2 DEF RemoveCancelledJob, JobDue, JobStalled, TypeOK
    <3>3. QED
      BY <3>1, <3>2
  <2>2. QED
    BY <1>7, <2>1 DEF RemoveCancelledJob, JobDue, JobStalled, rows, calls, procs
<1>8. ASSUME NEW x \in Auctions, NEW b \in Buyers, NEW amount \in Amounts,
             PlaceBid(b, x, amount)
      PROVE  Pulled(a)'
  <2>1. auction'[a] = auction[a]
    BY <1>8 DEF PlaceBid, TypeOK
  <2>2. QED
    BY <1>8, <2>1 DEF PlaceBid, calls, procs
<1>9. ASSUME NEW x \in Auctions, NEW w \in Workers, TakeJob(w, x) PROVE Pulled(a)'
  <2>1. x # a
    BY <1>9 DEF TakeJob
  <2>2. job'[a] = job[a] /\ \A v \in Workers : run'[v].auction # a
    BY <1>9, <2>1 DEF TakeJob, TypeOK
  <2>3. QED
    BY <1>9, <2>2 DEF TakeJob, rows, calls
<1>10. ASSUME NEW x \in Auctions, NEW s \in Sweepers, SweepInspect(s, x) PROVE Pulled(a)'
  <2>1. x # a
    BY <1>10 DEF SweepInspect
  <2>2. \A v \in Sweepers : a \notin sweep'[v].list /\ sweep'[v].at # a
    BY <1>10, <2>1, QueueAssumption DEF SweepInspect, TypeOK
  <2>3. QED
    BY <1>10, <2>2 DEF SweepInspect, rows, calls
<1>11. ASSUME NEW w \in Workers, SkipClosed(w) PROVE Pulled(a)'
  <2>1. \A v \in Workers : run'[v].auction = run[v].auction
    BY <1>11 DEF SkipClosed, TypeOK, Run, Idle
  <2>2. QED
    BY <1>11, <2>1 DEF SkipClosed, rows, calls
<1>12. ASSUME NEW w \in Workers, Settle(w) PROVE Pulled(a)'
  <2>1. run[w].auction # a
    OBVIOUS
  <2>2. auction'[a] = auction[a]
    BY <1>12, <2>1 DEF Settle, TypeOK
  <2>3. \A v \in Workers : run'[v].auction = run[v].auction
    BY <1>12 DEF Settle, TypeOK, Run, Idle
  <2>4. QED
    BY <1>12, <2>2, <2>3 DEF Settle, calls
<1>13. ASSUME NEW w \in Workers,
              \/ FinishJob(w) \/ FinishUnacknowledged(w) \/ CloseFails(w) \/ WorkerCrash(w)
       PROVE  Pulled(a)'
  <2>1. run[w].auction # a
    OBVIOUS
  <2>2. job'[a] = job[a]
    BY <1>13, <2>1 DEF FinishJob, FinishUnacknowledged, CloseFails, WorkerCrash, Abandoned,
                       TypeOK
  <2>3. \A v \in Workers : run'[v].auction # a
    <3>1. run' = [run EXCEPT ![w] = Idle]
      BY <1>13 DEF FinishJob, FinishUnacknowledged, CloseFails, WorkerCrash
    <3>2. Idle.auction # a
      BY QueueAssumption DEF Idle
    <3>3. QED
      BY <3>1, <3>2 DEF TypeOK
  <2>4. QED
    BY <1>13, <2>2, <2>3
       DEF FinishJob, FinishUnacknowledged, CloseFails, WorkerCrash, rows, calls
<1>14. ASSUME NEW s \in Sweepers, SweepList(s) PROVE Pulled(a)'
  <2>1. a \notin Overdue
    BY DEF Overdue
  <2>2. \A v \in Sweepers : a \notin sweep'[v].list /\ sweep'[v].at # a
    BY <1>14, <2>1, QueueAssumption DEF SweepList, TypeOK
  <2>3. QED
    BY <1>14, <2>2 DEF SweepList, rows, calls
<1>15. ASSUME NEW s \in Sweepers, SweepRequeue(s) \/ SweepItemFails(s) PROVE Pulled(a)'
  <2>1. sweep[s].at # a
    OBVIOUS
  <2>2. job'[a] = job[a]
    BY <1>15, <2>1 DEF SweepRequeue, SweepItemFails, AddJob, TypeOK
  <2>3. \A v \in Sweepers : a \notin sweep'[v].list /\ sweep'[v].at # a
    <3> DEFINE swept == [list |-> sweep[s].list, at |-> NoAuction, clear |-> FALSE]
    <3>1. sweep' = [sweep EXCEPT ![s] = swept]
      BY <1>15 DEF SweepRequeue, SweepItemFails
    <3>2. a \notin swept.list /\ swept.at # a
      BY QueueAssumption
    <3>3. QED
      BY <3>1, <3>2 DEF TypeOK
  <2>4. QED
    BY <1>15, <2>2, <2>3 DEF SweepRequeue, SweepItemFails, rows, calls
<1>16. ASSUME NEW s \in Sweepers, SweepCrash(s) PROVE Pulled(a)'
  <2>1. \A v \in Sweepers : a \notin sweep'[v].list /\ sweep'[v].at # a
    BY <1>16, QueueAssumption DEF SweepCrash, NoSweep, TypeOK
  <2>2. QED
    BY <1>16, <2>1 DEF SweepCrash, rows, calls
<1>17. QED
  BY <1>1, <1>2, <1>3, <1>4, <1>5, <1>6, <1>7, <1>8, <1>9, <1>10, <1>11, <1>12, <1>13, <1>14,
     <1>15, <1>16 DEF Next

\* A cancellation holds when its job is removed and nobody has the auction in hand: no worker
\* slot is running it, no sweep has listed it and its scheduling is not still to come.  From
\* then on the auction stays cancelled and is never sold -- what finding 1 shows otherwise is
\* the removal that fails or comes too late (cancelAuction, removeScheduledAuctionEnd).
THEOREM PulledIsNeverSold ==
  ASSUME NEW a \in Auctions
  PROVE  Spec =>
    /\ [](Pulled(a) => [](auction[a].status = "CANCELLED" /\ sale[a] = NoSale))
    /\ [][/\ auction[a].status = "CANCELLED" /\ Unattended(a)
          /\ RemoveCancelledJob(a)
          => Pulled(a)']_vars
<1>1. TypeOK /\ Pulled(a) /\ [Next]_vars => Pulled(a)'
  BY PulledStays
<1>2. SettlementCorrect /\ Pulled(a) => auction[a].status = "CANCELLED" /\ sale[a] = NoSale
  BY DEF SettlementCorrect, SettlementOf, Pulled
<1>3. ASSUME TypeOK, auction[a].status = "CANCELLED", Unattended(a), RemoveCancelledJob(a)
      PROVE  Pulled(a)'
  <2>1. job'[a].state = "none"
    BY <1>3 DEF RemoveCancelledJob, NoJob, FreshJob, TypeOK
  <2>2. QED
    BY <1>3, <2>1 DEF RemoveCancelledJob, Pulled, Unattended, rows, procs
<1>4. TypeOK => [/\ auction[a].status = "CANCELLED" /\ Unattended(a)
                 /\ RemoveCancelledJob(a)
                 => Pulled(a)']_vars
  BY <1>3
<1>5. QED
  BY <1>1, <1>2, <1>4, TypeCorrect, SettlementAlways, PTL DEF Spec

-----------------------------------------------------------------------------
(* What a sale hands on to SaleLifecycle.                                  *)

\* best gives each buyer's highest bid, or 0.
BestBids(a, best) ==
  \A b \in Buyers :
    \/ best[b] = 0 /\ \A i \in DOMAIN bids[a] : bids[a][i].buyer # b
    \/ \E i \in DOMAIN bids[a] :
         /\ bids[a][i] = [buyer |-> b, amount |-> best[b]]
         /\ \A j \in DOMAIN bids[a] :
              bids[a][j].buyer = b => bids[a][j].amount <= best[b]

\* The guard of AuctionSells in SaleLifecycle.
Sells(best, w) ==
  /\ best[w] > 0
  /\ \A b \in Buyers \ {w} : best[b] < best[w]
  /\ \A b, c \in Buyers : best[b] = best[c] /\ best[b] > 0 => b = c

LEMMA BidsTyped ==
  ASSUME TypeOK, NEW a \in Auctions, NEW i \in DOMAIN bids[a]
  PROVE  /\ i \in Nat
         /\ bids[a][i] = [buyer |-> bids[a][i].buyer, amount |-> bids[a][i].amount]
         /\ bids[a][i].amount \in Nat /\ bids[a][i].amount > 0
         /\ bids[a][i].amount <= MaxStoredMoney
<1>1. bids[a] \in Seq(Bid)
  BY DEF TypeOK
<1>2. i \in Nat /\ bids[a][i] \in Bid
  BY <1>1
<1> QED
  BY <1>2, PriceAssumption DEF Bid, Amounts

\* The latest of a buyer's bids is the highest of them.
LEMMA HighestBidOf ==
  ASSUME TypeOK, NEW a \in Auctions, auction[a].status # "none", BookOf(a),
         NEW b \in Buyers, NEW k \in DOMAIN bids[a], bids[a][k].buyer = b
  PROVE  \E i \in DOMAIN bids[a] :
           /\ bids[a][i].buyer = b
           /\ \A j \in DOMAIN bids[a] :
                bids[a][j].buyer = b => bids[a][j].amount <= bids[a][i].amount
<1> DEFINE L == Len(bids[a])
           Own == {i \in DOMAIN bids[a] : bids[a][i].buyer = b}
           Later == {L - i : i \in Own}
<1>1. L \in Nat /\ DOMAIN bids[a] = 1 .. L /\ bids[a] \in Seq(Bid)
  BY DEF TypeOK
<1>2. \A i \in DOMAIN bids[a] : bids[a][i].amount \in Nat
  BY BidsTyped
<1>3. Later \subseteq Nat /\ Later # {}
  <2>1. k \in Own
    OBVIOUS
  <2>2. \A i \in Own : L - i \in Nat
    BY <1>1
  <2> HIDE DEF Own, L
  <2> QED
    BY <2>1, <2>2
<1>4. PICK n \in Later : \A m \in Later : <<m, n>> \notin OpToRel(<, Nat)
  <2> HIDE DEF Later
  <2> QED
    BY <1>3, WFMin, NatLessThanWellFounded, Zenon
<1>5. PICK i \in Own : n = L - i
  OBVIOUS
<1>6. ASSUME NEW j \in Own PROVE j <= i
  <2>1. ~(L - j < L - i)
    <3>1. L - j \in Nat /\ L - i \in Nat
      <4>1. j \in 1 .. L /\ i \in 1 .. L
        BY <1>1
      <4> HIDE DEF L, Own, Later
      <4> QED
        BY <1>1, <4>1
    <3>2. L - j \in Later
      BY <1>6
    <3> HIDE DEF Later, Own, L
    <3> QED
      BY <1>4, <1>5, <3>1, <3>2 DEF OpToRel
  <2> QED
    BY <1>1, <2>1
<1>7. ASSUME NEW j \in Own PROVE bids[a][j].amount <= bids[a][i].amount
  <2>1. j = i \/ j < i
    BY <1>1, <1>6
  <2>2. j < i => bids[a][j].amount + MinIncrement <= bids[a][i].amount
    BY DEF BookOf
  <2>3. /\ bids[a][j].amount \in Nat /\ bids[a][i].amount \in Nat /\ MinIncrement \in Nat
    BY <1>1, <1>2, PriceAssumption
  <2> HIDE DEF Own
  <2> QED
    BY <2>1, <2>2, <2>3
<1> QED
  BY <1>7

\* No two bids are for the same amount.
LEMMA AmountsDiffer ==
  ASSUME TypeOK, NEW a \in Auctions, auction[a].status # "none", BookOf(a),
         NEW i \in DOMAIN bids[a], NEW j \in DOMAIN bids[a],
         bids[a][i].amount = bids[a][j].amount
  PROVE  i = j
<1>1. /\ i \in Nat /\ j \in Nat
      /\ bids[a][i].amount \in Nat /\ bids[a][j].amount \in Nat /\ MinIncrement \in Nat \ {0}
  BY BidsTyped, PriceAssumption
<1>2. /\ i < j => bids[a][i].amount + MinIncrement <= bids[a][j].amount
      /\ j < i => bids[a][j].amount + MinIncrement <= bids[a][i].amount
  BY DEF BookOf
<1> QED
  BY <1>1, <1>2

LEMMA SaleFromBook ==
  ASSUME TypeOK, NEW a \in Auctions, BookOf(a), SettlementOf(a), sale[a] # NoSale
  PROVE  \E best \in [Buyers -> 0 .. MaxStoredMoney] :
           /\ BestBids(a, best)
           /\ Sells(best, sale[a].winner)
           /\ best[sale[a].winner] = sale[a].amount
<1> DEFINE book == bids[a]
           w == sale[a].winner
           Has(b) == \E i \in DOMAIN book : book[i].buyer = b
           Top(b, i) == /\ book[i].buyer = b
                        /\ \A j \in DOMAIN book : book[j].buyer = b => book[j].amount <= book[i].amount
           best == [b \in Buyers |->
                      IF Has(b) THEN book[CHOOSE i \in DOMAIN book : Top(b, i)].amount ELSE 0]
<1>1. auction[a].status # "none" /\ w \in Buyers
  BY DEF SettlementOf, TypeOK, Sale
<1>2. \A i \in DOMAIN book : /\ book[i].amount \in Nat /\ book[i].amount > 0
                             /\ book[i].amount <= MaxStoredMoney
                             /\ book[i] = [buyer |-> book[i].buyer, amount |-> book[i].amount]
  BY BidsTyped
<1>3. ASSUME NEW b \in Buyers, Has(b)
      PROVE  \E i \in DOMAIN book : Top(b, i) /\ best[b] = book[i].amount
  <2>1. \E i \in DOMAIN book : Top(b, i)
    BY <1>1, <1>3, HighestBidOf
  <2>2. Top(b, CHOOSE i \in DOMAIN book : Top(b, i))
        /\ (CHOOSE i \in DOMAIN book : Top(b, i)) \in DOMAIN book
    <3> HIDE DEF Top
    <3> QED
      BY <2>1
  <2> QED
    BY <1>3, <2>2
<1>4. ASSUME NEW b \in Buyers, ~Has(b) PROVE best[b] = 0
  BY <1>4
<1>5. best \in [Buyers -> 0 .. MaxStoredMoney]
  <2>1. ASSUME NEW b \in Buyers PROVE best[b] \in 0 .. MaxStoredMoney
    <3> HIDE DEF best
    <3>1. CASE Has(b)
      <4>1. PICK i \in DOMAIN book : best[b] = book[i].amount
        BY <1>3, <3>1
      <4>2. book[i].amount \in Nat /\ book[i].amount <= MaxStoredMoney
        BY BidsTyped
      <4> HIDE DEF book
      <4> QED
        BY <4>1, <4>2, PriceAssumption
    <3>2. CASE ~Has(b)
      BY <1>4, <3>2, PriceAssumption
    <3> QED
      BY <3>1, <3>2
  <2> HIDE DEF Has, Top
  <2> QED
    BY <2>1
<1>6. PICK k \in DOMAIN book :
        /\ book[k] = [buyer |-> w, amount |-> sale[a].amount]
        /\ \A j \in DOMAIN book : j # k => book[j].amount < book[k].amount
  BY DEF SettlementOf
<1> HIDE DEF best
<1>7. best[w] = book[k].amount
  <2>1. book[k].buyer = w
    BY <1>6
  <2>2. PICK i \in DOMAIN book : Top(w, i) /\ best[w] = book[i].amount
    BY <1>1, <1>3, <2>1
  <2>3. book[k].amount <= book[i].amount
    BY <2>1, <2>2
  <2>4. i # k => book[i].amount < book[k].amount
    BY <1>6
  <2>5. book[k].amount \in Nat /\ book[i].amount \in Nat
    BY <1>2
  <2> QED
    BY <2>2, <2>3, <2>4, <2>5
<1>8. ASSUME NEW b \in Buyers \ {w} PROVE best[b] < best[w]
  <2>1. CASE ~Has(b)
    BY <1>2, <1>4, <1>7, <2>1
  <2>2. CASE Has(b)
    <3>1. PICK i \in DOMAIN book : Top(b, i) /\ best[b] = book[i].amount
      BY <1>3, <2>2
    <3>2. i # k
      BY <1>6, <3>1
    <3> QED
      BY <1>6, <1>7, <3>1, <3>2
  <2> QED
    BY <2>1, <2>2
<1>9. ASSUME NEW b \in Buyers, NEW c \in Buyers, best[b] = best[c], best[b] > 0
      PROVE  b = c
  <2>1. Has(b) /\ Has(c)
    BY <1>4, <1>9
  <2>2. PICK i \in DOMAIN book : Top(b, i) /\ best[b] = book[i].amount
    BY <1>3, <2>1
  <2>3. PICK j \in DOMAIN book : Top(c, j) /\ best[c] = book[j].amount
    BY <1>3, <2>1
  <2>4. i = j
    BY <1>1, <1>9, <2>2, <2>3, AmountsDiffer
  <2> QED
    BY <2>2, <2>3, <2>4
<1>10. BestBids(a, best)
  <2>1. ASSUME NEW b \in Buyers, Has(b)
        PROVE  \E i \in DOMAIN bids[a] :
                 /\ bids[a][i] = [buyer |-> b, amount |-> best[b]]
                 /\ \A j \in DOMAIN bids[a] :
                      bids[a][j].buyer = b => bids[a][j].amount <= best[b]
    BY <1>2, <1>3, <2>1
  <2>2. ASSUME NEW b \in Buyers, ~Has(b)
        PROVE  best[b] = 0 /\ \A i \in DOMAIN bids[a] : bids[a][i].buyer # b
    BY <1>4, <2>2
  <2> QED
    BY <2>1, <2>2 DEF BestBids
<1>11. best[w] > 0 /\ best[w] = sale[a].amount
  BY <1>2, <1>6, <1>7
<1> QED
  BY <1>5, <1>8, <1>9, <1>10, <1>11 DEF Sells

\* Every sale an auction ends in is one that SaleLifecycle starts from: its AuctionSells assumes
\* that the buyers' highest bids differ and that the winner's is above all others, at the price
\* of the sale.  The two models meet in the AuctionTransaction that closeAuction creates, and
\* findNextBid later chooses among these same bids.
THEOREM SalesFitTheBook ==
  Spec => [](\A a \in Auctions : sale[a] # NoSale =>
               \E best \in [Buyers -> 0 .. MaxStoredMoney] :
                 /\ BestBids(a, best)
                 /\ Sells(best, sale[a].winner)
                 /\ best[sale[a].winner] = sale[a].amount)
<1> DEFINE Fits == \A a \in Auctions : sale[a] # NoSale =>
                     \E best \in [Buyers -> 0 .. MaxStoredMoney] :
                       /\ BestBids(a, best)
                       /\ Sells(best, sale[a].winner)
                       /\ best[sale[a].winner] = sale[a].amount
<1>1. TypeOK /\ BookConsistent /\ SettlementCorrect => Fits
  BY SaleFromBook DEF BookConsistent, SettlementCorrect
<1> HIDE DEF Fits
<1>2. Spec => []Fits
  BY <1>1, TypeCorrect, BookAlways, SettlementAlways, PTL
<1> QED
  BY <1>2 DEF Fits
==============================================================================
