-------------------------------- MODULE Services --------------------------------
(***************************************************************************)
(* The services around the market.  They share nothing but the database's  *)
(* rows of other components, so one of them moves, the `focus' of a        *)
(* behaviour, and the variables of the others are AtRest: every behaviour  *)
(* of each, and no product of them.  Where two modules have a variable of  *)
(* the same name, it is that of the focus.                                 *)
(***************************************************************************)
EXTENDS Integers, FiniteSets, Sequences

CONSTANTS
  Users, Processes, Requests, NoUser, NoProcess,
  TTL, MaxQuery, MaxTime,
  Details, NoDetails, MaxLog,
  MAX_OTP_ATTEMPTS, MaxCodes,
  Updates, Values, Closed, DEFAULTS, NoValue,
  Rooms, MAX_AUCTION_ROOMS, BUCKET_CAPACITY, REFILL_WINDOW,
  Stars, Comments, Replies, NoText, NotGiven, MaxReviews,
  Ids, Instants, Limits, MaxReturns,
  AtRest

VARIABLES
  focus,
  clock, user, log, cache, request, held, owes, deleted, reported, purpose, registered,
  verified, issued, code, told, accepted, row, inflight, update, message, connected,
  bucket, joined, pending, seller, wish, served, review, created, editable, answered,
  list, cursor, walk, shown, stayed, returns

all == <<focus, clock, user, log, cache, request, held, owes, deleted, reported, purpose,
         registered, verified, issued, code, told, accepted, row, inflight, update,
         message, connected, bucket, joined, pending, seller, wish, served, review,
         created, editable, answered, list, cursor, walk, shown, stayed, returns>>

Access == INSTANCE AccountAccess
Deletion == INSTANCE AccountDeletion
Codes == INSTANCE OneTimeCodes
Settings == INSTANCE SettingsCache
Socket == INSTANCE SocketSubscriptions
Review == INSTANCE Reviews
Page == INSTANCE Paging

ASSUME ServicesAssumption ==
  /\ Access!AccountAccessAssumption /\ Deletion!AccountDeletionAssumption
  /\ Codes!OneTimeCodesAssumption /\ Settings!SettingsCacheAssumption
  /\ Socket!SocketSubscriptionsAssumption /\ Review!ReviewsAssumption
  /\ Page!PagingAssumption

\* The variables that are not those of the focus.
BesideAccess == <<owes, deleted, reported, purpose, registered, verified, issued, code,
                  told, accepted, row, inflight, update, message, connected, bucket,
                  joined, pending, seller, wish, served, review, created, editable,
                  answered, list, cursor, walk, shown, stayed, returns>>
BesideDeletion == <<clock, user, log, cache, held, purpose, registered, verified,
                    issued, code, told, accepted, row, inflight, update, message,
                    connected, bucket, joined, pending, seller, wish, served, review,
                    created, editable, answered, list, cursor, walk, shown, stayed,
                    returns>>
BesideCodes == <<clock, user, log, cache, held, owes, deleted, reported, row, inflight,
                 update, message, connected, bucket, joined, pending, seller, wish,
                 served, review, created, editable, answered, list, cursor, walk,
                 shown, stayed, returns>>
BesideSettings == <<user, log, request, owes, deleted, reported, purpose, registered,
                    verified, issued, code, told, accepted, connected, bucket, joined,
                    pending, seller, wish, served, review, created, editable, answered,
                    list, cursor, walk, shown, stayed, returns>>
BesideSocket == <<user, log, cache, request, held, owes, deleted, reported, purpose,
                  registered, verified, issued, code, told, accepted, row, inflight,
                  update, message, review, created, editable, answered, list, cursor,
                  walk, shown, stayed, returns>>
BesideReview == <<clock, user, log, cache, held, owes, deleted, reported, purpose,
                  registered, verified, issued, code, accepted, row, inflight, update,
                  message, connected, bucket, joined, pending, seller, wish, served,
                  list, cursor, walk, shown, stayed, returns>>
BesidePage == <<clock, user, log, cache, request, held, owes, deleted, reported,
                purpose, registered, verified, issued, code, told, accepted, inflight,
                update, message, connected, bucket, joined, pending, seller, wish,
                served, review, created, editable, answered>>

Init ==
  /\ \/ focus = "access" /\ Access!Init
     \/ focus = "deletion" /\ Deletion!Init
     \/ focus = "codes" /\ Codes!Init
     \/ focus = "settings" /\ Settings!Init
     \/ focus = "socket" /\ Socket!Init
     \/ focus = "review" /\ Review!Init
     \/ focus = "paging" /\ Page!Init
  /\ focus # "access" => user = AtRest /\ log = AtRest
  /\ focus # "deletion" => owes = AtRest /\ deleted = AtRest /\ reported = AtRest
  /\ focus # "codes" => purpose = AtRest /\ registered = AtRest /\ verified = AtRest
                     /\ issued = AtRest /\ code = AtRest /\ accepted = AtRest
  /\ focus # "settings" => inflight = AtRest /\ update = AtRest /\ message = AtRest
  /\ focus # "socket" => connected = AtRest /\ bucket = AtRest /\ joined = AtRest
                      /\ pending = AtRest /\ seller = AtRest /\ wish = AtRest
                      /\ served = AtRest
  /\ focus # "review" => review = AtRest /\ created = AtRest /\ editable = AtRest
                      /\ answered = AtRest
  /\ focus # "paging" => list = AtRest /\ cursor = AtRest /\ walk = AtRest
                      /\ shown = AtRest /\ stayed = AtRest /\ returns = AtRest
  /\ focus \notin {"access", "settings", "socket"} => clock = AtRest
  /\ focus \notin {"access", "settings"} => cache = AtRest /\ held = AtRest
  /\ focus \notin {"access", "deletion", "codes", "review"} => request = AtRest
  /\ focus \notin {"codes", "review"} => told = AtRest
  /\ focus \notin {"settings", "paging"} => row = AtRest

Next ==
  \/ focus = "access" /\ Access!Next /\ UNCHANGED <<focus, BesideAccess>>
  \/ focus = "deletion" /\ Deletion!Next /\ UNCHANGED <<focus, BesideDeletion>>
  \/ focus = "codes" /\ Codes!Next /\ UNCHANGED <<focus, BesideCodes>>
  \/ focus = "settings" /\ Settings!Next /\ UNCHANGED <<focus, BesideSettings>>
  \/ focus = "socket" /\ Socket!Next /\ UNCHANGED <<focus, BesideSocket>>
  \/ focus = "review" /\ Review!Next /\ UNCHANGED <<focus, BesideReview>>
  \/ focus = "paging" /\ Page!Next /\ UNCHANGED <<focus, BesidePage>>

Spec == Init /\ [][Next]_all

-----------------------------------------------------------------------------
(* What is promised of the component a behaviour is about; the modules     *)
(* state and explain the properties.                                       *)

\* Each service's variables have their types.
TypesOK ==
  CASE focus = "access"   -> Access!TypeOK
    [] focus = "deletion" -> Deletion!TypeOK
    [] focus = "codes"    -> Codes!TypeOK
    [] focus = "settings" -> Settings!TypeOK
    [] focus = "socket"   -> Socket!TypeOK
    [] focus = "review"   -> Review!TypeOK
    [] focus = "paging"   -> Page!TypeOK

\* What a process would answer a request is right for flags the account has or had just now.
AnswersAreRecent == focus = "access" => Access!AnswersAreRecent
\* Suspensions, enrolments and deletions that cross leave the row the audit log tells of.
AuditExplainsRow == focus = "access" => Access!AuditExplainsRow

\* An account is anonymized only when what it owed as its deletion was asked for has ended.
DeletedFreeOfOldDebts ==
  [][focus = "deletion" =>
       \A r \in Requests : Deletion!Anonymize(r) => request[r].standing = {}]_all

\* Parallel tries exceed the limit of a code by at most the requests that ran beside them.
GuessesBounded == focus = "codes" => Codes!GuessesBounded
\* A code that has been replaced is accepted from nobody.
ReplacedIsDead ==
  [][focus = "codes" =>
       \A c \in 1 .. issued : ~code[c].there => accepted'[c] = accepted[c]]_all

\* Every process acts on settings that are, or were a copy's life ago.
SettingsAreRecent == focus = "settings" => Settings!SettingsAreRecent

\* A socket is in the rooms its last commands say, however slow the lookups are, and is
\* served no more subscriptions than its bucket pays for.
SubscriptionsHold ==
  focus = "socket" => Socket!LastCommandWins /\ Socket!RateBounded

\* One review a sale, and a reply stays under the review it answers.
ReviewsDontCross == focus = "review" => Review!ReviewsDontCross

\* A walk through a changing list skips and repeats nothing.
WalksAreFaithful == focus = "paging" => Page!WalksAreFaithful
=================================================================================
