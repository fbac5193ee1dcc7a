# BidVault: TLA+ models, model checks and proofs

This directory models the backend of BidVault, an auction marketplace: an Express API over
PostgreSQL (Prisma), a worker process driven by BullMQ on Redis, and Socket.IO for live updates.
It holds TLA+ modules translated from the code, TLC configurations that check them on small
instances, and TLAPS proofs for every value of the constants. `PROJECT.json` lists each definition
with the source lines it stands for, each run, each hazard of the code and the properties about it.

    tlc -workers 2 -config MCAuctionLifecycle.cfg MCAuctionLifecycle
    tlapm AuctionLifecycle_proofs.tla

Paths below are relative to the repository (`src/` is its TypeScript source).

## 1. The system

A seller submits a listing; an admin approves it, which opens an auction; buyers bid until its end
time; a delayed job closes it and creates the sale; the winner pays or loses the item to the next
bidder; the seller ships, the buyer confirms, complains or stays silent, and the platform pays the
seller or refunds the buyer.

| Component | State | Operations | Interacts through |
|---|---|---|---|
| Listing moderation (`modules/listings`) | `Listing` rows | submit, resubmit, withdraw, approve, approve-all, reject | creates `Auction` rows, schedules close jobs |
| Bidding (`modules/auctions`) | `Auction` counters, `Bid` rows | place a bid | row lock on the auction; alerts and sockets |
| Close-job queue (`queues/`) | BullMQ jobs in Redis | schedule, remove, requeue | API adds and removes, worker consumes |
| Settlement (`workers/close-auction.ts`) | `Auction.status`, `AuctionTransaction` | close | row lock; mail after the commit |
| Worker sweeps (`workers/auction-lifecycle.worker.ts`) | in-flight flags | overdue auctions, unpaid sales, timed-out shipments | the queue, the sale rows |
| Cancellation, takedown, recovery (`services/auction-control.service.ts`) | auction, listing, sale rows | cancel, take down, void, offer to next bidder, relist | row locks on auction or sale |
| Payment (`modules/payments`) | sale row | pay, confirm receipt | row lock on the sale; gateway |
| Fulfilment (`services/fulfillment.service.ts`) | sale, `Dispute`, `LedgerEntry`, balance | ship, confirm, raise, respond, resolve | row lock on the sale or on the dispute |
| My Items (`modules/seller-items`) | none of its own | stage, filter and actions of an item | reads everything above |
| Sessions (`modules/auth`) | `RefreshToken` rows, `User.passwordHash` | sign in, refresh, sign out, change or reset the password | cookies, database rows; slow hashing between read and write |
| One-time codes (`modules/auth`) | verification and reset codes | issue, try, count a miss, use up | mail, database rows |
| Settings (`services/settings`, `middleware/maintenance`) | one row, a copy per process | read, update, invalidate | Redis pub/sub |
| Access (`middleware/auth`, `services/user-status`, `seller-account`) | `User` flags, a cache per process | let in, suspend, reinstate, enrol | the cache of the process that served the request |
| Account deletion (`services/account`) | `User` rows | ask, count, anonymize, audit | open sales and auctions, sessions, the access flags |
| Socket subscriptions (`socket/`) | rooms and a token bucket per socket | subscribe, unsubscribe, disconnect | an awaited lookup in between |
| Reviews (`modules/reviews`) | review rows | write, correct, delete, reply | the sale they belong to |
| Paged lists (`utils/pagination`, every list route) | none; the cursor is the client's | read a page | the rows that come and go between pages |
| HTTP shell, e-mail, start-up, health, preferences | none that the market depends on | -- | -- |

What is hard here, and what a unit test hardly reaches:

* **Two writers, two ideas of a lock.** The money paths start every transaction with
  `SELECT ... FOR UPDATE`; the moderation routes read a row, test it, and update it by id later with
  no condition. Disputes lock the `Dispute` row while the buyer's actions lock the sale.
* **A job that runs late, twice, or never.** BullMQ retries a failed job, makes a stalled one waiting
  again while its first run may still be going on, and silently ignores an `add` whose id exists in
  any state. Scheduling and removal happen after the commit and may fail.
* **Copies that age.** Each process keeps the settings and the rights of an account for a while. An
  invalidation may be lost, reaches one process only, or comes before the answer of a query that was
  sent earlier; what was dropped is then cached anew.
* **Test, then write.** Codes, reviews, deletions and subscriptions test what they read and write by id
  after another `await`: two requests that pass the same test both go on.
* **Lists that age.** Three sweeps read a list and work through it item by item, in every worker
  process at once, while people pay, ship, complain and take things down.
* **Steps in separate transactions.** A release decision and its payout, a takedown and the
  cancellation of its auction, settling and mailing: a crash may come in between.
* **The same rule in two places.** The counters on an auction row and the bid rows, the running
  balance and the ledger, the stage of an item as a function and as a database filter.

Correctness, per component: the auction row agrees with its bids and is settled once, at or after its
end, for the top bid at or above the reserve; an overdue auction does not stay open; a sale is asked of
one buyer at a time down the bids, paid out once and whole or refunded; an item never has two live
sales; dispute and sale never contradict each other; an approved listing has its auction and a removed
one none that runs; whatever was taken from somebody is in the audit log; My Items shows every item
once and offers only what works; a session never forks and never resumes once it has ended, and tabs
that refresh together are given the same token; parallel guesses at a code exceed its limit by no more
than the requests in flight, and a code that was replaced opens nothing; no process acts on settings or
rights older than its cache allows, and the audit log explains the row of an account; nobody is deleted
who all along owed something; a socket is where its last command put it; a sale has one review, with its
own reply; a walk through a list neither skips nor repeats.

## 2. The modules

| Module | Models | Composes |
|---|---|---|
| `EnglishAuction` | the promise of bidding: an ascending auction, one fall of the hammer | -- |
| `AuctionLifecycle` | bidding, cancellation, close job, worker, overdue sweep | implements `EnglishAuction` |
| `Escrow` | the promise of a sale: one buyer asked at a time, money held and moved once | -- |
| `SaleLifecycle` | payment, recovery, fulfilment, disputes, payout, two sweeps | implements `Escrow` |
| `SellerItemStage` | the stage rules, as pure operators | -- |
| `SellerItems` | the facts My Items reads of a sale, the actions it offers | `SaleLifecycle` + `SellerItemStage` |
| `ListingModeration` | the review of a listing and its takedown, racing its auction | `SellerItemStage` |
| `SessionBook` | the promise of signing in: a session begins once and ends once | -- |
| `Sessions` | refresh-token rotation, repeats, replays, sign-out, new passwords | implements `SessionBook` |
| `OneTimeCodes` | verification and reset codes | -- |
| `SettingsCache` | the settings row, its copies, the maintenance guard | -- |
| `AccountAccess` | `requireAuth` and its cache, suspension, enrolment | -- |
| `AccountDeletion` | deleting an account while it buys and sells | -- |
| `SocketSubscriptions` | the rooms of one socket | -- |
| `Reviews` | the review of one sale | -- |
| `Paging` | a list read page by page while it changes | -- |
| `Services` | the seven modules above, one of them moving at a time | all seven |
| `MC...` | instances for TLC | the module of that name |
| `..._proofs` | theorems | the module of that name (`SaleLifecycle_proofs`: with `SellerItems`) |

**What is one action.** A transaction that first locks the row it decides on is one action: nothing
can change that row between its test and its commit. Where the code reads outside a lock, the read and
the write are two actions and the request remembers what it read (`run`, `sweep`, `voiding`,
`confirming`, `admin`, `seller`). Work after a commit (queueing, removing a job, mailing, the second
transaction of a release or a takedown) is an action of its own, next to one in which it is lost.

**AuctionLifecycle.** `auction`, `bids`, `sale`, `notices` are the rows; `outbid` marks the bids whose
bidder was alerted; `unread` counts the seller's one rolling notification. `job` is the BullMQ job
`auction:end:<id>` with its state, attempts, stalls and lock holder; `run` is what each worker slot is
doing: `read` is between the unlocked read and the transaction of `closeAuction`, `settled` and
`skipped` between its commit and the acknowledgement. `PlaceBid`, `Cancel` and `Settle` are the three
transactions on the row; `Open` inserts it. `Settle` runs on every row that is not CLOSED, a CANCELLED
one included, as the code does. `SweepInspect` and `SweepRequeue` are the two halves of
`enqueueAuctionEndNow`, with the awaits between them. BullMQ is external: `AddJob`, `JobDue`, `TakeJob`,
`JobStalled`, `Locked` model what the code relies on.

**SaleLifecycle.** A listing stands for its auction and its sale too (`Auction.listingId` and
`AuctionTransaction.auctionId` are unique). `AuctionSells` summarises `AuctionLifecycle`: some bids, a
winner. `sale[l]` is the row, re-used by every offer to a next bidder; `from` is `relistedFromId`;
`voiding` and `confirming` are the lists two sweeps work from; `releasing` holds releases decided and
not paid yet. The payment deadline and the review timeout are read from the settings each time, so
each use picks any of the allowed values.

**ListingModeration.** `listing` and `content` are the row's status and version, `auction` the part of
the auction row a listing's fate depends on, `audit` the audit actions on it. `admin` and `seller` are
the requests in flight, with the snapshot each decides on. `approve-all` is a request whose items are
approved one by one in some order; a withdrawn one ends the batch, as the rethrow does.
`Withdraw` is refused by the foreign key of `Auction.listingId` once there is an auction.

**Sessions.** `token` is the table of refresh tokens, `credential` what `passwordHash` says (which
password, at the old bcrypt cost or not), `request` what each request has read and does next. `session`,
`answers` and `chosen` are history: the first token of each line, which token was handed out for which,
and the password the user last set. `Rotate` is the transaction of `/refresh`, one action because
spending the row is its check. A sweep (`rejectReplay`, the transactions of a new password) is one
`updateMany`: under READ COMMITTED it finds its rows when it begins and writes those still unspent, so
its beginning (`FindUnspent`) and its commit (`RejectReplay`, `NewPassword`) are two actions, and a
rotation may commit in between. Deleting an account writes a password nobody knows and sweeps the
tokens: to these rows it is a reset. The cookie, its flags and the access token are left out: any request may
present any token ever issued. A reset code may be right at any time.

**OneTimeCodes.** Verification and reset codes live in two tables and are handled alike, so a behaviour
is about one `purpose`. `code` is the table, a code its number in order of `createdAt`; issuing is two
statements (`RevokeUnused`, `CreateCode`), trying is a read (`TryCode`) and a write by id (`RecordMiss`,
`AcceptCode`). `told` and `accepted` count what was answered.

**SettingsCache.** `inflight` is the query that the requests of one process share, `update` the PUTs
that are stored and not yet answered, `message` the invalidations on their way. `held` remembers when the
row last said each value, so that "recent" can be stated without a second clock.

**AccountAccess.** `cache` is the map of `user-status.service.ts` in each process, `request` the request
between the read of the row and its arrival, or between a commit and the invalidation. `Allows` is the
decision of `requireAuth`; `Entitled` restates it the way its comment does. Suspend, reinstate and enrol
lock the `User` row, so each is one action; deletion's effect on the flags is `Anonymize`.

**AccountDeletion.** The two counts are two actions (`Count`) in either order, the anonymizing another,
the audit row of an admin's deletion one more. `owes` says which kinds of obligation an account has, which
is all the counts tell; `standing` remembers which it had all along.

**SocketSubscriptions.** `pending` is the map of the same name (the last command for each room whose
lookup is in flight); a lookup may answer after the socket is gone. `bucket` is the lazily refilled token
bucket in integer units. `wish` and `served` are history.

**Reviews.** One sale; a review is its number. Every handler is a read and a write by id
(`AskToChange`/`EditReview`, `AskToReply`/`ReplyToReview`), the notification an action of its own.

**Paging.** One walk of one client through one list of `Lists`; each list of the program is an instance
with its direction, whether rows leave it and how they may return. `Page` is the query with its cursor.

**Services.** These seven share no state with one another (what one needs of another is a choice in it),
so one of them moves, the `focus`, and the variables of the others are `AtRest`: a behaviour is one of
one service, and a run sees every behaviour of each and none of their product.

**SellerItemStage.** `deriveStage` and `STAGE_WHERE` keep the two shapes they have in the code;
`InOneStage` says that they agree on an item and that its page can be ordered.

## 3. The runs

| Run | Instance | Shows |
|---|---|---|
| `auction` | 1 auction, 2 bidders with different preferences, 2 worker slots, 1 sweep, 2 attempts, 1 stall, amounts 1..3, reserve none or 2, clock 0..2 | `BookConsistent`, `SettlementCorrect`, `NeverClosedEarly`, `OutbidTold`, `AnnouncedOnce`, refinement of `EnglishAuction` |
| `auction_settles` | 2 sweeping processes, 1 slot, 1 bidder, under fairness | `OverdueSettles` |
| `cancel_race` | as `auction` | *violated*: `CancelledNeverSold` (finding 1) |
| `sale` | 1 sale, 3 bidders, 2 sweeping processes, clock 0..3, deadlines 0 or 1 | `RowIsWinners`, `MoneyFollowsDispute`, `OfferOrder`, `VoidsAudited`, `SweepsNotEarly`, `DecisionFinal`, `OffersWork` |
| `relist` | 2 listings, 2 bidders | `ItemSoldOnce`, `DeadSaleStaysDead`, `LedgerBalances`, refinement of `Escrow` |
| `sale_settles` | 1 sale, 2 bidders, 2 sweeping processes, under fairness | `UnpaidGivenUp`, `ShipmentsResolve` |
| `release_lost` | 1 sale, under fairness | *violated*: `ReleasedIsPaidOut` (finding 2) |
| `moderation` | 1 listing, 3 admin and 2 seller requests in flight, 2 resubmissions | `AuctionWithListing`, `ChangesAudited`, `RemovedNotLive`, `ItemsInOneStage`, `NothingComesBack` |
| `rejected_live` | 1 listing, 2 admin requests | *violated*: `RejectedNeverApproved` (finding 3) |
| `sessions` | 1 account, 3 tokens, 2 requests in flight, reuse interval 1, life of a token 3, clock 0..3, 1 new password | `OneLivePerSession`, `SameAnswer`, `AlertsAreWarranted`, refinement of `SessionBook` |
| `services` | 1 account, 2 processes, 2 requests; see below | `AnswersAreRecent`, `AuditExplainsRow`, `GuessesBounded`, `ReplacedIsDead`, `SettingsAreRecent`, `DeletedFreeOfOldDebts`, `SubscriptionsHold`, `ReviewsDontCross`, `WalksAreFaithful` |
| `password_undone` | as `sessions`, 2 tokens, clock 0..1 | *violated*: `PasswordAsLastSet` (finding 4) |

Why these bounds are enough for the questions asked:

* *One auction, one sale, one listing.* No action reads or writes the rows of two auctions; a sweep's
  list holds several, handled one by one. What the runs check for one, the proofs of
  `AuctionLifecycle`, `SaleLifecycle` and `ListingModeration` establish for any number. Sales meet only through a relist
  and the seller's balance (`relist`); two listings are a sale and its relist. One seller: sellers share
  no state.
* *Two bidders, amounts to 3, reserve 2, increment 1:* a bid at, below and above the reserve, a raise of
  one's own bid, a displaced bidder who wants the alert and one who does not. Three bidders in `sale`:
  winner, second and third, the least that can be offered in a wrong order.
* *Two attempts and one stall* (the code: 3 and 1) reach "retry, then fail for good" and "stall, then
  fail"; two slots are the least for two runs of one job. Two sweeps race each other.
* *Three tokens, two requests* in `sessions`: a line of three (a token, its parent and its grandparent), or
  a line of two beside another session; a race of two requests for one token, or with a sweep. Accounts
  share no row. The interval and the life of a token both run out within the clock. The proofs hold for
  any number of each.
* *`services`.* Two requests and two processes are the least that race; what is proved (section 4) holds
  for any number. Access and settings: a copy lives 2, a query takes 1, the clock runs to 3, so a copy
  made late from an early read is seen after what it copied has changed and after it has expired; two
  events in the log of an account, two sets of seller details; one PUT in flight (more may follow it), two
  values. Codes: limit 2, two codes of which one replaces the other. Sockets: three rooms for a cap of
  two, a bucket of 3 that refills in 2, so that it runs dry and refills. Reviews: two, the second after
  the first was deleted, two ratings, one comment or none, one reply. Paging: three rows, two instants
  (so that rows share one), pages of one or two, one return.
* *Clock:* time before, at and after each deadline, and room for one offer with a deadline of its own.
* *`MaxStoredMoney`, `LeadFactor`, `StartFactor`* are small; the ceiling of a bid binds in the instance.
* `CHECK_DEADLOCK FALSE` everywhere: the clock is bounded and a market may come to rest.
* Symmetry: worker slots, buyers and listings of `SaleLifecycle`, requests of `ListingModeration`, tokens and
  requests of `Sessions`, processes, requests and details of `Services` are interchangeable; bidders
  of `auction` are not (their preferences differ). No liveness run uses it.

Every property of a passing run has a mutant in `PROJECT.json`: a plausible bug (a dropped guard, an
off-by-one, a lost update) in a definition translated from the code, kept next to it under the comment
*Mutant of*, under which TLC finds the property violated. The mutants are not part of `Next`.

### Fairness

`auction_settles` assumes of the code and its platform only: time passes; a due job is moved to waiting
and an unlocked active one is found stalled (BullMQ's own timers); the worker and its sweep, which runs
every five minutes for as long as there is a worker, are restarted after a crash and get through in the
end. The steps a crash or a failure can keep pre-empting (taking a job, the closing transaction, a
sweep's halves) are strongly fair, the others weakly; nothing is assumed of people, of `ScheduleEnd`, or
of the removal of a cancelled job. `sale_settles` and `release_lost` assume the same of the two other
sweeps, and that a request that is not killed goes on to its next statement. Each assumption is an
operator of its own (`JobIsTaken`, `VoidGoesThrough`, ...), so that a theorem can say which it uses.

## 4. The proofs

Eight modules `..._proofs`, for any sets of auctions, buyers, slots, sweeps, listings, tokens, accounts,
processes, requests, rooms and rows of a list, and any prices, limits and intervals, under the
assumptions of the modules (positive starting price and increment, a token or a copy lives for some time,
at least one attempt at a code, finitely many requests, null values outside the sets they extend). The
four large modules state theirs as `ASSUME`; those of the services are operators, `...Assumption`, which
the theorems about one service name and `Services` assumes of all seven. Every invariant and every action
property of a passing run is the conclusion of a theorem, `OffersWork` excepted; the three liveness
properties follow from the fairness of the specification and three premises, given below. Each invariant
is proved from those before it, so that none repeats another:

*AuctionLifecycle.* `TypeCorrect` -> `UnbornAlways` (nothing concerns an auction before its row exists,
so a new row starts from nothing) -> `BookAlways` -> `SettlementAlways`, strengthened with *an auction
not closed has no sale and no verdict on its reserve*. Its heart is `TopIsLast`: since the book rises,
the bid `closeAuction` looks up -- highest, then earliest -- is the last one, whose amount the row shows.
`SettledIsFinal` follows from the status test inside the transaction. `NeverEarlyAlways` needs that
every job ready to run, every run and every swept item concerns an auction whose end has come: nothing
in `closeAuction` looks at the clock. `AnnouncedOnceAlways` needs that at most one run per auction is in
phase `settled`, and none once it was mailed. `OutbidToldAlways` uses `PrevIsLast`: the displaced bid,
found by its amount, is the last. `Refinement` maps every action to a step of `EnglishAuction` or none.
`AcknowledgedIsSettled`: a job that reads completed belongs to a closed auction. It is one conjunct of
`QueueHonest`, with *a run past its transaction works on a closed auction* and *the owner of a job is
running it*. `PulledIsNeverSold`: a cancelled auction whose job is gone and which no slot,
sweep or scheduling has in hand (`Pulled`) stays so, whatever the other auctions' jobs do.
`SalesFitTheBook` joins this module to the next: `AuctionSells` of `SaleLifecycle` starts from each
buyer's highest bid, all different, the winner's above the others; a book that rises by the increment
gives that, since a buyer's latest bid is the highest of theirs and no two bids are of one amount.

*SaleLifecycle.* A step belongs to one listing and leaves the rows of the others alone, so each invariant
is shown for a listing the step acts on and is immediate for the rest. `TypeCorrect`, with *a dispute
stands on a sold listing only* -> `MoneyFollowsDisputeAlways`, `DecisionFinalAlways` ->
`RowIsWinnersAlways` -> `OfferOrderAlways`, which needs that no two bids of an auction are of one amount
(`BidsDiffer`), so that "the next bidder" is one bidder -> `VoidsAuditedAlways`. `ItemSoldOnceAlways`
needs that nothing is relisted from before it exists (`Unborn`); `DeadSaleStaysDeadAlways` follows with it.
`SweepsNotEarlyAlways` is about a read and a write in separate transactions: what a sweep put on its list
was due then (`ListedIsDue`) and nothing that may happen to it afterwards makes it less so without also
failing the test inside the lock. `Refinement` maps every action to a step of `Escrow` or none.
`LedgerBalancesAlways` compares a balance that is counted up with a sum over the ledger. The sum is
recursive over a set, so the proof never unfolds it: it is shown to be the size of a set of coins, one per
unit paid, by taking a smallest set of listings for which it would not be; adding an entry then adds
coins. This theorem alone assumes that there are finitely many listings. `OffersPassGuardsAlways` is
`OffersWork` with the guards of the endpoints in place of `ENABLED`: `RowIsWinners` gives a paid sale its
address, `MoneyFollowsDispute` an open dispute, and a candidate who leaves the least room below the highest
amount is the next bid. It assumes that some payment deadline can be set.

*ListingModeration.* `TypeCorrect` -> `CompanionsAlways` (a takedown is only under way on a listing that
has an auction) gives `AuctionWithListingAlways`. `RemovedNotLiveAlways` needs *a takedown that saw no
live auction is still right when it writes*, because auctions never become active again.
`RejectedNeverApprovedUnlessLate` is about finding 3: with *nothing pending or rejected has an auction*
(`Unreviewed`), it shows which two writes break what the schema says, and that nothing else does.
`NothingReturns` and `ChangesAuditedAlways` follow from `AuctionSteps` and `ListingSteps`, which say what
a step may do to an auction and to a listing. `EveryItemInOneStage` proves the two copies of the stage
rules equal for any facts about an item, and `ItemsInOneStageAlways` that no race leaves other facts.

*Sessions.* `LinesAlways` is the inductive invariant: every token belongs to one session and one account,
a successor to the session of its parent (`Lines`); what a request in flight has read about a spent or a
found token is still true (`Knows`); a session has at most one unspent token; what was handed out for a
token is its successor. `StepOnRows` reduces every action to four ways in which the rows change (a session
begins, a token is exchanged, tokens of one account are revoked, nothing), and each of the four keeps the
invariant and is a step of `SessionBook` or none, which gives `NeverForks`, `SameAnswerAlways` and
`Refinement`. `AlertsAreWarrantedAlways` counts: there are never more theft alerts than sessions of the
account that have ended. An alert is raised by a sweep that revoked something, and by `LineInv` the unspent
token it revoked was the only one of its session, which thereby ends; by the refinement no ended session
comes back. That only finitely many tokens have been issued is part of the invariant.
`PasswordKeptUnlessRehashedLate` is about finding 4: only two steps write a credential.

*AccountDeletion.* `InvAlways`: a request knows (`Informed`) that what stood all the while is still owed,
that a kind it has counted does not stand, and so that nothing stands once both are counted. It is enough
that an obligation that ends is taken out of `standing` in the same step (`EndedDoesNotStand`).
`DeletedFree` follows.

*SettingsCache.* `KnownAlways`: every place that keeps a value also keeps when it was read, that is at most
`MaxQuery` ago while it is on its way, and the value was the row's then or later. `RowMoves` shows that
an update disturbs none of it, because the value the row leaves is remembered with the time. No message
occurs in the argument: `SettingsAreRecentAlways` holds if none ever arrives.

*OneTimeCodes.* `CodesAlways`: a code that can be tried has counted every answered miss, so it has fewer
than the limit, and at most all requests are beside it; once it is dead, only those are left to be
answered and nobody joins them. A sum of a counter and a cardinality, which no instance settles for all.
`GuessesBoundedAlways` follows. `ReplacedIsDeadAlways`: only a code whose row is still there is accepted.

*Services.* `FocusInit` and `FocusStep` reduce a step to one of the service in focus. The last three
components above are proved in their own modules; an instance of a module is, to the prover, a module of
its own, and `DeletionSame`, `CodesSame` and `SettingsSame` state that its definitions are those of the
module the theorems are about, which carries the results over. The other four are proved here:

* *Access* (`AccessInv`). What a process or a request knows of an account was the account's when it was
  read, and, until it is kept, at most `MaxQuery` ago; each is kept with its age, as in `SettingsCache`, now per
  account. `AnswersAreRecentAlways` follows, with `DecisionIsEntitled`: the code's order of tests and the
  rule in its comment decide alike. `AuditExplainsRowAlways`: the row is what the last events of its log say;
  an appended event explains the columns it changes and no other. It assumes that seller details are none
  of the words of the log.
* *Reviews* (`ReviewInv`). Of the reviews ever created only the newest can be there, and a request that
  knows an older one can change nothing; so an edit or a reply that was read before a deletion never
  reaches the review that came after it (`ReviewsDontCrossAlways`).
* *Socket* (`SocketInv`). A lookup in flight carries the last command for its room, or none and is dropped.
  For the rate: since any moment, what was served plus what the bucket still holds is at most a full bucket
  plus what flowed in. The invariant must hold of every moment at once, for the window of `RateBounded` may
  begin anywhere. The count of what was served is a recursive function of the time; a behaviour carries a
  witness of it, and `ServedUnique` (two such functions have no first difference) identifies the two, so no
  induction over data is needed. `SubscriptionsHoldAlways` is both halves.
* *Paging* (`PageInv`). All that was shown lies before the cursor, and all that stayed and lies before it
  was shown. `PageIsFirst` says what `ORDER BY ... LIMIT` returns: a first part of what lies beyond the
  cursor, closed downwards, whole if it is short; it rests on `Ranks`, the number of rows before a row.
  `WalksAreFaithfulAlways` follows for lists of any direction whose rows may leave and come back.

`TypesOKAlways` collects the types. Those of `AuctionLifecycle`, `ListingModeration` and `Sessions`, and
`SettlementFinal`, are proved for every instance and no run repeats them.

### Liveness

A fair step has to be taken when it is enabled, and the prover does not look into `ENABLED`. So each
theorem about liveness has, beside `FairSpec`, premises of its own, all of them in its statement:

1. *Guards enable* (`GuardsSuffice`, `PaymentGuardsSuffice`, `ShipmentGuardsSuffice`,
   `ReleaseGuardsSuffice`). In every state of the behaviour, the fair actions whose guard holds are enabled.
   One reads it off the actions: a guard, then one value for every variable.
2. *One worker process's sweeps end* (`SweepsEnd`, `PaymentSweepsEnd`, `ShipmentSweepsEnd`). Each item of a
   sweep's list leaves it by a fair step and none joins it. From "each item leaves" to "the list is empty" is
   an induction over the list, inside a temporal formula, which the prover cannot do.
3. *Slots serve* (`SlotsServe`, auctions only). A job that is waiting again and again is so at moments when
   some slot is idle. Each slot becomes idle by fair steps, and a waiting job leaves the queue only by being
   taken or by a sweep that removes the ended job it saw before, at most once for each time it was taken;
   here the induction would be over the sweeps.

The three properties of the runs need none of them: TLC computes `ENABLED` and the ends of sweeps.

`UnpaidGivenUpIfFair` and `ShipmentsResolveIfFair` have one argument (`SweepGivesUp`, `SweepConfirms`).
Suppose the sale stays overdue. Being on the list again and again would make its void happen, by strong
fairness, so it is on the list no longer; then the sweep, once at its end, can read no new list, for that
would hold the sale; so it rests with something to list, which weak fairness forbids. Nothing is assumed of
the other sweeps, and crashes are allowed again and again. The shipment property is proved for a sale that
waited longer than *every* timeout in use (`WaitedOut`): a list that was read with a longer timeout may
leave it out. `ShipmentsResolveIfFixed` is the property of the run, for one timeout; with changing timeouts
the run alone shows it.

`OverdueSettlesIfFair` joins two halves. `JobEnds`: if an auction stayed overdue, no
transaction would close it, so from some moment on no run would be on it, hence no slot take its job, hence
the job not wait; a job whose holder is gone is found stalled, a delayed one falls due; so its job would be
ended or missing for good. `SweepDoesNotRest`: it cannot be, for a sweep that comes to its end would list
the auction, find the job so, and put a waiting one in its place. That a run which read an open auction can
always go on (`RunIsReady`) and whose job is whose rest on the safety invariants above.

`ReleasedIsPaidOutUnlessItDies`: a decided release is under way until it is paid out or its request dies
(`UnderWayOrDone`), and fairness takes it on. TLC finds the property violated when requests may die
(finding 2); with `ReleaseLives` for every sale it holds.

Only model-checked: that the premises of the liveness theorems may be dropped, `ShipmentsResolve` with a
changing timeout, and that the guards in `OffersPassGuards` are those of the actions (`OffersWork`).

## 5. Findings

1. `cancel_race`: a close job that outlives a cancellation sells the cancelled auction. `closeAuction`
   tests only `CLOSED`, and removing the job is best effort and cannot touch an active one;
   `prisma/schema.prisma` says no transaction is ever created for a CANCELLED auction. If the removal goes
   through while nobody has the auction in hand, there is no sale (`PulledIsNeverSold`).
2. `release_lost`: a crash between the two transactions of a RELEASE leaves the dispute decided, the sale
   DISPUTED and the seller unpaid for ever; a retry is refused. `OffersWork` had to make an exception for
   the same state: My Items still offers a response to that dispute. That crash is the only way there
   (`ReleasedIsPaidOutUnlessItDies`).
3. `rejected_live`: a reject that read PENDING lands on a listing approved meanwhile: a REJECTED listing
   with a running auction, although the schema says REJECTED means "never approved". A late resubmission
   (`PATCH /listings/:id`) is a second way: it makes an approved listing PENDING again, and a rejection
   may follow. With both updates conditional on the status that was read there is no other
   (`RejectedNeverApprovedUnlessLate`).
4. `password_undone`: a sign-in that found a hash of the old cost stores the password it checked again,
   without looking whether it is still the user's; a change or reset that commits meanwhile is undone,
   although it was answered with success. An update conditional on the password that was checked would be
   enough (`PasswordKeptUnlessRehashedLate`).

A new password ends the sessions its sweep finds. One whose token is being rotated while the sweep waits
for that row goes on (`NewPassword` writes only what `FindUnspent` found), so `SessionBook` promises that
what ended stays ended, not that everything ends.

What the properties of the services do not promise, because the code does not keep it:

* The two counts of a deletion are separate reads. An auction that is counted after it closed, when the
  sale it became was counted before, stops nothing: the account is anonymized while it owes a sale
  (`services/account.service.ts:31`: "nothing unpaid"). Obligations that begin after their count are
  missed as well. `DeletedFreeOfOldDebts` speaks of what was owed all along.
* A deleted account's access token is honoured until it expires, and no process is told to drop what it
  knows of the account: for the life of an entry it may still be let in as a seller.
* `services/user-status.service.ts:19` says a seller who is revoked "must see it on their next request";
  that is so in the process that served the change, and elsewhere after the life of an entry.
* The results of two PUTs of the settings may reach the copy in either order; the older one stays until
  the next invalidation or the end of its life.
* Two resends at once leave two live codes (`RevokeUnused` of both before `CreateCode` of either); only
  the newest is compared until it is used up or its attempts are.
* Two parallel replies to a review are both accepted and the later one stays; an edit writes back the
  fields it read, so of two edits at once one may be lost.
* A seller's socket that is gone when the question about its room is answered still joins the room.

`RemovedNotLive` holds with an exception the code leaves open: a takedown that dies between its two
transactions leaves a removed listing whose auction runs on until its end or an admin's cancellation.

## 6. Not modelled, and why

* The legacy statuses FAILED (sale) and DRAFT (listing) are written by no code; the stage rules, which
  still mention them, are checked for them. Sales with no due date date from before a migration.
* Wording, rendering, validation of forms, search and paging: no state. Reads appear where a decision
  depends on them. Socket events and e-mails appear where a property is about them (`mailed`).
* The payment gateway is a dummy that decides by the card number: a choice (`Pay`, `PayDeclined`).
* A relist creates its listing approved and its auction open in one transaction: `SaleLifecycle`'s
  `Relist`, not `ListingModeration`.
* Rate limits are counters of a library; request validation, error rendering and the published OpenAPI
  documents (a fifth of the source) hold no state. E-mail is a template and an SMTP call: that it is sent
  once is in `AuctionLifecycle`. Start-up, health checks and the heartbeat: their failures are the
  crashes and lost calls of the models.
* Preferences (`PATCH /me/preferences`) are one unconditional update of three flags; `AuctionLifecycle`
  takes them as given. Marking notifications read is likewise one update.
* Statistics and the audit log page read only.

## 7. Plan

Done, most important first: bidding and settlement; the sale; moderation and My Items; sessions; the
seven services; the proofs of all of them, with liveness from the premises above. Next:

1. `Marketplace`: a listing, its auction and its sale in one module, so that a takedown, a late close job
   and an offer meet, and that it implements the three modules it joins (`SalesFitTheBook` is the first
   of the facts this needs).
