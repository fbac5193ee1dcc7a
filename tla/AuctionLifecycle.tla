-------------------------- MODULE AuctionLifecycle --------------------------
(***************************************************************************)
(* One auction from the moment its row is created until it is settled or   *)
(* cancelled: bidding (auctions.routes.ts), cancellation                   *)
(* (auction-control.service.ts), the scheduled close job                   *)
(* (auction-lifecycle.queue.ts), the worker that runs it (close-auction.ts)*)
(* and the sweep that rescues overdue auctions                             *)
(* (auction-lifecycle.worker.ts).                                          *)
(*                                                                         *)
(* A transaction that takes SELECT ... FOR UPDATE on the auction row first *)
(* is one action.  What a handler does outside its transaction -- queueing *)
(* or removing the job, acknowledging it, sending the mail -- is an action *)
(* of its own, so every other actor may run in between, and a crash may    *)
(* come first.                                                             *)
(***************************************************************************)
EXTENDS Naturals, Sequences

CONSTANTS
  Auctions,        \* auction ids
  Buyers,          \* accounts that may bid
  Workers,         \* slots of the worker processes, each running one job
  Sweepers,        \* worker processes, each with its own overdue sweep
  Durations,       \* how long an auction may run, in ticks
  Reserves,        \* reserve prices a listing may carry; 0 is "no reserve"
  StartPrice,      \* the listing's starting price
  MinIncrement,    \* the listing's minimum bid increment
  LeadFactor,      \* a bid may be at most this many times the leading bid (10),
  StartFactor,     \* ... or this many times the starting price (100),
  MaxStoredMoney,  \* ... and never more than MAX_STORED_MONEY
  NotifyWins,      \* buyers who want the AUCTION_WON alert
  NotifyOutbid,    \* buyers who want the BID_OUTBID alert
  MaxAttempts,     \* attempts of a BullMQ job (3)
  MaxStalled,      \* stalls BullMQ forgives a job (1)
  MaxTime,         \* bound on the clock
  NoSale, NoWorker, NoAuction

ASSUME PriceAssumption ==
  /\ StartPrice \in Nat \ {0}
  /\ MinIncrement \in Nat \ {0}
  /\ MaxStoredMoney \in Nat
  /\ StartPrice <= MaxStoredMoney
  /\ LeadFactor \in Nat /\ StartFactor \in Nat
  /\ Reserves \subseteq Nat

ASSUME PeopleAssumption ==
  /\ NotifyWins \subseteq Buyers
  /\ NotifyOutbid \subseteq Buyers

ASSUME QueueAssumption ==
  /\ MaxAttempts \in Nat \ {0}
  /\ MaxStalled \in Nat
  /\ NoWorker \notin Workers
  /\ NoAuction \notin Auctions

ASSUME ClockAssumption == MaxTime \in Nat /\ Durations \subseteq Nat

Amounts == 1 .. MaxStoredMoney
Bid == [buyer : Buyers, amount : Amounts]
Sale == [winner : Buyers, amount : Amounts]

ASSUME NoSaleAssumption == NoSale \notin Sale

VARIABLES
  now,         \* the clock
  auction,     \* the Auction rows
  bids,        \* the Bid rows of each auction, in the order they were created
  sale,        \* the AuctionTransaction of each auction, or NoSale
  notices,     \* outcome notifications of each auction, in order
  outbid,      \* positions of the bids whose bidder got a BID_OUTBID alert
  unread,      \* number of unread BID_RECEIVED notifications of each auction
  mailed,      \* number of "auction ended" mailings of each auction
  job,         \* the BullMQ job auction:end:<id> of each auction
  unscheduled, \* auctions created whose job is still to be added
  unremoved,   \* auctions cancelled whose job is still to be removed
  run,         \* what each worker slot is doing
  sweep        \* what each overdue sweep is doing

rows == <<auction, bids, sale, notices, outbid, unread>>
calls == <<unscheduled, unremoved>>
procs == <<run, sweep>>
vars == <<now, rows, mailed, job, calls, procs>>

Statuses == {"none", "ACTIVE", "CLOSED", "CANCELLED"}
NoticeTypes == {"AUCTION_WON", "RESERVE_NOT_MET", "AUCTION_CANCELLED"}
JobStates == {"none", "delayed", "waiting", "active", "completed", "failed"}
Phases == {"read", "settled", "skipped"}

FreshJob(s) == [state |-> s, tries |-> 0, stalls |-> 0, owner |-> NoWorker]
NoJob == FreshJob("none")
Idle == [auction |-> NoAuction, phase |-> "idle"]
NoSweep == [list |-> {}, at |-> NoAuction, clear |-> FALSE]

AuctionRow == [status : Statuses, currentBid : Nat, bidCount : Nat, reserve : Nat,
               reserveMet : {"null", "true", "false"}, endTime : Nat]
Job == [state : JobStates, tries : Nat, stalls : Nat, owner : Workers \cup {NoWorker}]
Run == [auction : Auctions, phase : Phases] \cup {Idle}
Sweep == [list : SUBSET Auctions, at : Auctions \cup {NoAuction}, clear : BOOLEAN]

NoRow == [status |-> "none", currentBid |-> 0, bidCount |-> 0,
          reserve |-> 0, reserveMet |-> "null", endTime |-> 0]

TypeOK ==
  /\ now \in Nat
  /\ auction \in [Auctions -> AuctionRow]
  /\ bids \in [Auctions -> Seq(Bid)]
  /\ sale \in [Auctions -> Sale \cup {NoSale}]
  /\ notices \in [Auctions -> Seq(NoticeTypes)]
  /\ outbid \in [Auctions -> SUBSET Nat]
  /\ unread \in [Auctions -> {0, 1}]
  /\ mailed \in [Auctions -> Nat]
  /\ job \in [Auctions -> Job]
  /\ unscheduled \in SUBSET Auctions
  /\ unremoved \in SUBSET Auctions
  /\ run \in [Workers -> Run]
  /\ sweep \in [Sweepers -> Sweep]

Init ==
  /\ now = 0
  /\ auction = [a \in Auctions |-> NoRow]
  /\ bids = [a \in Auctions |-> <<>>]
  /\ sale = [a \in Auctions |-> NoSale]
  /\ notices = [a \in Auctions |-> <<>>]
  /\ outbid = [a \in Auctions |-> {}]
  /\ unread = [a \in Auctions |-> 0]
  /\ mailed = [a \in Auctions |-> 0]
  /\ job = [a \in Auctions |-> NoJob]
  /\ unscheduled = {}
  /\ unremoved = {}
  /\ run = [w \in Workers |-> Idle]
  /\ sweep = [s \in Sweepers |-> NoSweep]

-----------------------------------------------------------------------------
(* Creation and scheduling.                                                *)

\* The transaction of an approval or a relist that inserts the auction row.
Open(a) ==
  /\ auction[a].status = "none"
  /\ \E d \in Durations, r \in Reserves :
       auction' = [auction EXCEPT ![a] =
                     [status |-> "ACTIVE", currentBid |-> StartPrice,
                      bidCount |-> 0, reserve |-> r, reserveMet |-> "null",
                      endTime |-> now + d]]
  /\ unscheduled' = unscheduled \cup {a}
  /\ UNCHANGED <<now, bids, sale, notices, outbid, unread, mailed, job,
                 unremoved, procs>>

\* add() of BullMQ: ignored when a job of that id exists, in any state.
AddJob(a, s) == IF job[a].state = "none"
                THEN job' = [job EXCEPT ![a] = FreshJob(s)]
                ELSE UNCHANGED job

\* The end job is added after the transaction, with the time left as its delay.
ScheduleEnd(a) ==
  /\ a \in unscheduled
  /\ AddJob(a, IF auction[a].endTime <= now THEN "waiting" ELSE "delayed")
  /\ unscheduled' = unscheduled \ {a}
  /\ UNCHANGED <<now, rows, mailed, unremoved, procs>>

\* Redis refused the job (swallowed by the caller) or the API process died.
ScheduleLost(a) ==
  /\ a \in unscheduled
  /\ unscheduled' = unscheduled \ {a}
  /\ UNCHANGED <<now, rows, mailed, job, unremoved, procs>>

-----------------------------------------------------------------------------
(* Bidding.                                                                *)

Larger(x, y) == IF x >= y THEN x ELSE y
Smaller(x, y) == IF x <= y THEN x ELSE y

\* Mutant of MinAllowed: the increment is forgotten.
MinAllowedAnyRaise(a) == auction[a].currentBid

MinAllowed(a) == IF auction[a].bidCount = 0
                 THEN auction[a].currentBid
                 ELSE auction[a].currentBid + MinIncrement

MaxAllowed(a) ==
  Smaller(MaxStoredMoney,
          Larger(MinAllowed(a), Larger(auction[a].currentBid * LeadFactor,
                                       StartPrice * StartFactor)))

\* Mutant of PrevHighest: the first bidder is not looked up.
PrevHighestAfterTwo(a) ==
  {i \in DOMAIN bids[a] : auction[a].bidCount > 1 /\ bids[a][i].amount = auction[a].currentBid}

\* The latest bid whose amount is the current bid: whoever a new bid displaces.
PrevHighest(a) ==
  {i \in DOMAIN bids[a] :
     /\ auction[a].bidCount > 0
     /\ bids[a][i].amount = auction[a].currentBid
     /\ \A j \in DOMAIN bids[a] :
          bids[a][j].amount = auction[a].currentBid => j <= i}

\* The seller's one unread BID_RECEIVED is refreshed; a new one follows one that was read.
TellSeller(a) == unread' = [unread EXCEPT ![a] = IF @ = 0 THEN 1 ELSE @]

\* POST /auctions/:id/bids.
PlaceBid(b, a, amount) ==
  /\ auction[a].status = "ACTIVE"
  /\ now < auction[a].endTime
  /\ amount >= MinAllowed(a)
  /\ amount <= MaxAllowed(a)
  /\ bids' = [bids EXCEPT ![a] = Append(@, [buyer |-> b, amount |-> amount])]
  /\ auction' = [auction EXCEPT ![a] = [auction[a] EXCEPT !.currentBid = amount,
                                                         !.bidCount = @ + 1]]
  /\ outbid' = [outbid EXCEPT ![a] = @ \cup
                  {i \in PrevHighest(a) : /\ bids[a][i].buyer # b
                                          /\ bids[a][i].buyer \in NotifyOutbid}]
  /\ TellSeller(a)
  /\ UNCHANGED <<now, sale, notices, mailed, job, calls, procs>>

\* The seller marks the BID_RECEIVED notification as read.
SellerReads(a) ==
  /\ unread[a] > 0
  /\ unread' = [unread EXCEPT ![a] = 0]
  /\ UNCHANGED <<now, auction, bids, sale, notices, outbid, mailed, job,
                 calls, procs>>

-----------------------------------------------------------------------------
(* Cancellation: the transaction, then the removal of the job.             *)

\* cancelAuction, by the seller while there is no bid or by an admin.
Cancel(a, isAdmin) ==
  /\ auction[a].status = "ACTIVE"
  /\ isAdmin \/ auction[a].bidCount = 0
  /\ auction' = [auction EXCEPT ![a].status = "CANCELLED"]
  /\ notices' = [notices EXCEPT ![a] = Append(@, "AUCTION_CANCELLED")]
  /\ unremoved' = unremoved \cup {a}
  /\ UNCHANGED <<now, bids, sale, outbid, unread, mailed, job, unscheduled,
                 procs>>

\* Job.remove() of BullMQ throws while a worker holds the job's lock.
Locked(a) == job[a].state = "active" /\ job[a].owner # NoWorker

RemoveCancelledJob(a) ==
  /\ a \in unremoved
  /\ ~Locked(a)
  /\ job' = [job EXCEPT ![a] = NoJob]
  /\ unremoved' = unremoved \ {a}
  /\ UNCHANGED <<now, rows, mailed, unscheduled, procs>>

\* The removal threw (job locked, Redis down) or the API process died.
RemovalLost(a) ==
  /\ a \in unremoved
  /\ unremoved' = unremoved \ {a}
  /\ UNCHANGED <<now, rows, mailed, job, unscheduled, procs>>

-----------------------------------------------------------------------------
(* The worker.                                                             *)

\* Mutant of JobDue: the job is added without its delay.
JobDueAtOnce(a) ==
  /\ job[a].state = "delayed"
  /\ job' = [job EXCEPT ![a].state = "waiting"]
  /\ UNCHANGED <<now, rows, mailed, calls, procs>>

\* A scheduled job falls due at the end time; a retry after its backoff.
JobDue(a) ==
  /\ job[a].state = "delayed"
  /\ auction[a].endTime <= now
  /\ job' = [job EXCEPT ![a].state = "waiting"]
  /\ UNCHANGED <<now, rows, mailed, calls, procs>>

\* A slot takes the job; closeAuction reads the auction and the settings.
TakeJob(w, a) ==
  /\ run[w] = Idle
  /\ job[a].state = "waiting"
  /\ job' = [job EXCEPT ![a] = [job[a] EXCEPT !.state = "active", !.owner = w]]
  /\ run' = [run EXCEPT ![w] = [auction |-> a, phase |-> "read"]]
  /\ UNCHANGED <<now, rows, mailed, calls, sweep>>

\* Mutant of IsWinning: ordered by time alone.
IsWinningFirst(a, i) == i = 1 /\ i \in DOMAIN bids[a]

\* The bid that wins: highest amount, then the earliest.
IsWinning(a, i) ==
  /\ i \in DOMAIN bids[a]
  /\ \A j \in DOMAIN bids[a] :
       \/ bids[a][i].amount > bids[a][j].amount
       \/ bids[a][i].amount = bids[a][j].amount /\ i <= j

TopAmount(a) == IF bids[a] = <<>> THEN 0
                ELSE bids[a][CHOOSE i \in DOMAIN bids[a] : IsWinning(a, i)].amount

\* Mutant of ReserveMet: a bid at the reserve does not reach it.
ReserveMetAbove(a) == IF auction[a].reserve = 0 THEN "null"
                      ELSE IF TopAmount(a) > auction[a].reserve THEN "true" ELSE "false"

ReserveMet(a) == IF auction[a].reserve = 0 THEN "null"
                 ELSE IF TopAmount(a) >= auction[a].reserve THEN "true" ELSE "false"

\* The closing transaction finds the row CLOSED and writes nothing.
SkipClosed(w) ==
  /\ run[w].phase = "read"
  /\ auction[run[w].auction].status = "CLOSED"
  /\ run' = [run EXCEPT ![w].phase = "skipped"]
  /\ UNCHANGED <<now, rows, mailed, job, calls, sweep>>

\* The closing transaction on a row that is not CLOSED -- which includes CANCELLED.
\* The unique index on AuctionTransaction.auctionId admits one sale per auction.
Settle(w) ==
  LET a == run[w].auction
      met == ReserveMet(a)
  IN /\ run[w].phase = "read"
     /\ auction[a].status # "CLOSED"
     /\ auction' = [auction EXCEPT ![a] = [auction[a] EXCEPT !.status = "CLOSED",
                                                             !.reserveMet = met]]
     /\ \/ /\ bids[a] = <<>>
           /\ UNCHANGED <<sale, notices>>
        \/ /\ bids[a] # <<>> /\ met = "false"
           /\ notices' = [notices EXCEPT ![a] = Append(@, "RESERVE_NOT_MET")]
           /\ UNCHANGED sale
        \/ /\ bids[a] # <<>> /\ met # "false"
           /\ sale[a] = NoSale
           /\ \E i \in DOMAIN bids[a] :
                /\ IsWinning(a, i)
                /\ sale' = [sale EXCEPT ![a] = [winner |-> bids[a][i].buyer,
                                                amount |-> bids[a][i].amount]]
                /\ notices' = IF bids[a][i].buyer \in NotifyWins
                              THEN [notices EXCEPT ![a] = Append(@, "AUCTION_WON")]
                              ELSE notices
     /\ run' = [run EXCEPT ![w].phase = "settled"]
     /\ UNCHANGED <<now, bids, outbid, unread, mailed, job, calls, sweep>>

Owns(w, a) == job[a].state = "active" /\ job[a].owner = w

\* Mutant of FinishJob: mails whether or not this run settled the auction.
FinishJobMailing(w) ==
  LET a == run[w].auction
  IN /\ run[w].phase \in {"settled", "skipped"}
     /\ mailed' = [mailed EXCEPT ![a] = @ + 1]
     /\ job' = IF Owns(w, a)
               THEN [job EXCEPT ![a] = [job[a] EXCEPT !.state = "completed", !.owner = NoWorker]]
               ELSE job
     /\ run' = [run EXCEPT ![w] = Idle]
     /\ UNCHANGED <<now, rows, calls, sweep>>

\* After the transaction: mail if this run settled the auction, then acknowledge.
\* A run that lost its lock cannot acknowledge a job another slot holds.
FinishJob(w) ==
  LET a == run[w].auction
  IN /\ run[w].phase \in {"settled", "skipped"}
     /\ mailed' = IF run[w].phase = "settled"
                  THEN [mailed EXCEPT ![a] = @ + 1] ELSE mailed
     /\ job' = IF Owns(w, a)
               THEN [job EXCEPT ![a] = [job[a] EXCEPT !.state = "completed", !.owner = NoWorker]]
               ELSE job
     /\ run' = [run EXCEPT ![w] = Idle]
     /\ UNCHANGED <<now, rows, calls, sweep>>

\* The job of a run whose worker is gone: still active, its lock no longer renewed.
Abandoned(w) == IF Owns(w, run[w].auction)
                THEN [job EXCEPT ![run[w].auction].owner = NoWorker] ELSE job

\* As FinishJob, but the acknowledgement is lost: the process dies after mailing,
\* or Redis does not answer.
FinishUnacknowledged(w) ==
  LET a == run[w].auction
  IN /\ run[w].phase \in {"settled", "skipped"}
     /\ mailed' = IF run[w].phase = "settled"
                  THEN [mailed EXCEPT ![a] = @ + 1] ELSE mailed
     /\ job' = Abandoned(w)
     /\ run' = [run EXCEPT ![w] = Idle]
     /\ UNCHANGED <<now, rows, calls, sweep>>

\* closeAuction throws before its transaction commits: retried after a backoff
\* until the attempts run out.
CloseFails(w) ==
  LET a == run[w].auction
      tries == job[a].tries + 1
  IN /\ run[w].phase = "read"
     /\ job' = IF Owns(w, a)
               THEN [job EXCEPT ![a] =
                       [state |-> IF tries < MaxAttempts THEN "delayed" ELSE "failed",
                        tries |-> tries, stalls |-> job[a].stalls, owner |-> NoWorker]]
               ELSE job
     /\ run' = [run EXCEPT ![w] = Idle]
     /\ UNCHANGED <<now, rows, mailed, calls, sweep>>

\* The worker process dies: the job stays active until its lock is seen to expire.
WorkerCrash(w) ==
  /\ run[w] # Idle
  /\ job' = Abandoned(w)
  /\ run' = [run EXCEPT ![w] = Idle]
  /\ UNCHANGED <<now, rows, mailed, calls, sweep>>

\* BullMQ finds an active job without a live lock -- its worker died, or is too
\* busy to renew -- and makes it waiting again, or failed the time after.
JobStalled(a) ==
  /\ job[a].state = "active"
  /\ job' = [job EXCEPT ![a] =
       [state |-> IF job[a].stalls < MaxStalled THEN "waiting" ELSE "failed",
        tries |-> job[a].tries, stalls |-> job[a].stalls + 1, owner |-> NoWorker]]
  /\ UNCHANGED <<now, rows, mailed, calls, procs>>

-----------------------------------------------------------------------------
(* The overdue sweep.                                                      *)

Overdue == {a \in Auctions : auction[a].status = "ACTIVE" /\ auction[a].endTime < now}

\* reconcileOverdueAuctions: one sweep of a process at a time (sweepInFlight).
SweepList(s) ==
  /\ sweep[s] = NoSweep
  /\ Overdue # {}
  /\ sweep' = [sweep EXCEPT ![s] = [list |-> Overdue, at |-> NoAuction, clear |-> FALSE]]
  /\ UNCHANGED <<now, rows, mailed, job, calls, run>>

\* Mutant of SweepInspect: a completed or failed job is not cleared.
SweepInspectKeeping(s, a) ==
  /\ a \in sweep[s].list
  /\ sweep[s].at = NoAuction
  /\ sweep' = [sweep EXCEPT ![s] =
       [list |-> sweep[s].list \ {a},
        at |-> IF job[a].state \in {"none", "completed", "failed"} THEN a ELSE NoAuction,
        clear |-> FALSE]]
  /\ UNCHANGED <<now, rows, mailed, job, calls, run>>

\* enqueueAuctionEndNow, first half: a job still pending is left alone.
SweepInspect(s, a) ==
  /\ a \in sweep[s].list
  /\ sweep[s].at = NoAuction
  /\ sweep' = [sweep EXCEPT ![s] =
       [list |-> sweep[s].list \ {a},
        at |-> IF job[a].state \in {"none", "completed", "failed"} THEN a ELSE NoAuction,
        clear |-> job[a].state \in {"completed", "failed"}]]
  /\ UNCHANGED <<now, rows, mailed, job, calls, run>>

\* Second half: the terminal job seen is removed, then a new one is added.
SweepRequeue(s) ==
  LET a == sweep[s].at
  IN /\ a # NoAuction
     /\ IF sweep[s].clear
        THEN ~Locked(a) /\ job' = [job EXCEPT ![a] = FreshJob("waiting")]
        ELSE AddJob(a, "waiting")
     /\ sweep' = [sweep EXCEPT ![s] =
          [list |-> sweep[s].list, at |-> NoAuction, clear |-> FALSE]]
     /\ UNCHANGED <<now, rows, mailed, calls, run>>

\* Redis fails between the halves (before or after the removal); the sweep goes on.
SweepItemFails(s) ==
  LET a == sweep[s].at
  IN /\ a # NoAuction
     /\ \/ UNCHANGED job
        \/ /\ sweep[s].clear /\ ~Locked(a)
           /\ job' = [job EXCEPT ![a] = NoJob]
     /\ sweep' = [sweep EXCEPT ![s] =
          [list |-> sweep[s].list, at |-> NoAuction, clear |-> FALSE]]
     /\ UNCHANGED <<now, rows, mailed, calls, run>>

\* The worker process dies during its sweep.
SweepCrash(s) ==
  /\ sweep[s] # NoSweep
  /\ sweep' = [sweep EXCEPT ![s] = NoSweep]
  /\ UNCHANGED <<now, rows, mailed, job, calls, run>>

-----------------------------------------------------------------------------
Tick ==
  /\ now < MaxTime
  /\ now' = now + 1
  /\ UNCHANGED <<rows, mailed, job, calls, procs>>

Next ==
  \/ Tick
  \/ \E a \in Auctions :
       \/ Open(a) \/ ScheduleEnd(a) \/ ScheduleLost(a)
       \/ SellerReads(a)
       \/ \E isAdmin \in BOOLEAN : Cancel(a, isAdmin)
       \/ RemoveCancelledJob(a) \/ RemovalLost(a)
       \/ JobDue(a) \/ JobStalled(a)
       \/ \E b \in Buyers, amount \in Amounts : PlaceBid(b, a, amount)
       \/ \E w \in Workers : TakeJob(w, a)
       \/ \E s \in Sweepers : SweepInspect(s, a)
  \/ \E w \in Workers :
       \/ SkipClosed(w) \/ Settle(w)
       \/ FinishJob(w) \/ FinishUnacknowledged(w)
       \/ CloseFails(w) \/ WorkerCrash(w)
  \/ \E s \in Sweepers :
       SweepList(s) \/ SweepRequeue(s) \/ SweepItemFails(s) \/ SweepCrash(s)

Spec == Init /\ [][Next]_vars

(***************************************************************************)
(* Liveness assumes that time passes, that the worker process and Redis    *)
(* come back after every failure, and that a step tried again and again    *)
(* (the sweep runs every five minutes, a job is retried) succeeds in the   *)
(* end; people owe the system nothing.                                     *)
(***************************************************************************)
TakenUp(a) == \E w \in Workers : TakeJob(w, a)
LockExpires(a) == job[a].owner = NoWorker /\ JobStalled(a)
Closes(a) == \E w \in Workers : run[w].auction = a /\ (Settle(w) \/ SkipClosed(w))
Requeues(s, a) == sweep[s].at = a /\ SweepRequeue(s)

TimePasses == WF_vars(Tick)
JobFallsDue(a) == WF_vars(JobDue(a))
StallIsSeen(a) == WF_vars(LockExpires(a))
JobIsTaken(a) == SF_vars(TakenUp(a))
CloseGoesThrough(a) == SF_vars(Closes(a))
InspectGoesThrough(s, a) == SF_vars(SweepInspect(s, a))
RequeueGoesThrough(s, a) == SF_vars(Requeues(s, a))
RunEnds(w) == WF_vars(FinishJob(w))
SweepStarts(s) == WF_vars(SweepList(s))

Fairness ==
  /\ TimePasses
  /\ \A a \in Auctions :
       /\ JobFallsDue(a) /\ StallIsSeen(a) /\ JobIsTaken(a) /\ CloseGoesThrough(a)
       /\ \A s \in Sweepers : InspectGoesThrough(s, a) /\ RequeueGoesThrough(s, a)
  /\ \A w \in Workers : RunEnds(w)
  /\ \A s \in Sweepers : SweepStarts(s)

FairSpec == Spec /\ Fairness

-----------------------------------------------------------------------------
(* Properties.                                                             *)

\* The counters kept on the auction row agree with the Bid rows, and every bid
\* clears all the earlier ones by the increment (the first: the starting price).
BookOf(a) ==
  auction[a].status # "none" =>
    /\ auction[a].bidCount = Len(bids[a])
    /\ auction[a].currentBid =
         IF bids[a] = <<>> THEN StartPrice ELSE bids[a][Len(bids[a])].amount
    /\ \A i \in DOMAIN bids[a] : bids[a][i].amount >= StartPrice
    /\ \A i, j \in DOMAIN bids[a] :
         i < j => bids[a][i].amount + MinIncrement <= bids[a][j].amount

BookConsistent == \A a \in Auctions : BookOf(a)

\* A sale exists exactly when the auction closed with a top bid at or above the
\* reserve, and the row's reserveMet says so; it names the bidder whose bid beats
\* every other, at the price shown to all.
SettlementOf(a) ==
  /\ sale[a] # NoSale =>
       /\ auction[a].status = "CLOSED"
       /\ sale[a].amount = auction[a].currentBid
       /\ sale[a].amount >= auction[a].reserve
       /\ \E i \in DOMAIN bids[a] :
            /\ bids[a][i] = [buyer |-> sale[a].winner, amount |-> sale[a].amount]
            /\ \A j \in DOMAIN bids[a] : j # i => bids[a][j].amount < bids[a][i].amount
  /\ /\ auction[a].status = "CLOSED"
     /\ bids[a] # <<>>
     /\ auction[a].currentBid >= auction[a].reserve
     => sale[a] # NoSale
  /\ auction[a].reserveMet = "true" => sale[a] # NoSale
  /\ auction[a].reserveMet = "false" => sale[a] = NoSale

SettlementCorrect == \A a \in Auctions : SettlementOf(a)

\* Nothing settles an auction before its end time, although closeAuction itself
\* never looks at the clock: only the delay of the job and the sweep's filter do.
NeverClosedEarly ==
  \A a \in Auctions : auction[a].status = "CLOSED" => auction[a].endTime <= now

\* Every bidder who lost the lead to somebody else, and wants to know, was told;
\* nobody is told who still leads or who raised their own bid.
Displaced(a) == {i \in 1 .. (Len(bids[a]) - 1) :
                   /\ bids[a][i].buyer # bids[a][i + 1].buyer
                   /\ bids[a][i].buyer \in NotifyOutbid}

OutbidTold == \A a \in Auctions : outbid[a] = Displaced(a)

\* However often the job is retried, re-queued or run twice at once, an auction's
\* outcome is announced once and mailed at most once.
Announcements(a) == {i \in DOMAIN notices[a] : notices[a][i] # "AUCTION_CANCELLED"}

AnnouncedOnceFor(a) ==
  /\ mailed[a] <= 1
  /\ \A i, j \in Announcements(a) : i = j
  /\ \A i \in Announcements(a) :
       notices[a][i] = IF sale[a] = NoSale THEN "RESERVE_NOT_MET" ELSE "AUCTION_WON"

AnnouncedOnce == \A a \in Auctions : AnnouncedOnceFor(a)

\* Once an auction is settled no step of anybody changes its outcome or its bids.
StaysSettled(a) == auction[a].status = "CLOSED" =>
  UNCHANGED <<auction[a], bids[a], sale[a], notices[a]>>
SettlementFinal == [][\A a \in Auctions : StaysSettled(a)]_vars

\* An overdue auction does not stay open: whatever job was lost, failed or stalled,
\* the sweep and the worker settle it (or someone cancels it) in the end.
OverdueSettles ==
  \A a \in Auctions :
    (auction[a].status = "ACTIVE" /\ auction[a].endTime < now)
      ~> auction[a].status # "ACTIVE"

\* schema.prisma: "CANCELLED means the auction was pulled before that could happen,
\* so no AuctionTransaction is ever created for it."
CancelledNeverSold ==
  [][\A a \in Auctions : auction[a].status = "CANCELLED" => sale'[a] = NoSale]_vars

(***************************************************************************)
(* The promise of EnglishAuction, as the rows of the database show it.     *)
(***************************************************************************)
Stage(a) == CASE auction[a].status = "none" -> "unlisted"
              [] auction[a].status = "ACTIVE" -> "open"
              [] auction[a].status = "CANCELLED" -> "stopped"
              [] OTHER -> IF sale[a] = NoSale THEN "unsold" ELSE "sold"

Leader(a) == IF bids[a] = <<>> THEN {} ELSE {bids[a][Len(bids[a])].buyer}

Promise == INSTANCE EnglishAuction WITH
  stage <- [a \in Auctions |-> Stage(a)],
  leader <- [a \in Auctions |-> Leader(a)],
  price <- [a \in Auctions |-> auction[a].currentBid],
  reserve <- [a \in Auctions |-> auction[a].reserve],
  deal <- sale

\* The rows behave like an ascending auction with one fall of the hammer: the sale
\* goes to whoever led when it fell, at the leading price, whatever the jobs did.
ImplementsEnglishAuction == Promise!Spec
=============================================================================
