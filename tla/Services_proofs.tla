---------------------------- MODULE Services_proofs ----------------------------
(***************************************************************************)
(* Theorems about the services in one specification.  A behaviour is that  *)
(* of one of them, its focus for good, so that what is proved of a service *)
(* alone holds of Services.  Deletion, codes and settings are proved about *)
(* in modules of their own and the proofs are taken over here; access,     *)
(* sockets, reviews and pages are proved about here.                       *)
(***************************************************************************)
EXTENDS Services, FiniteSetTheorems, TLAPS

DeletionAlone == INSTANCE AccountDeletion_proofs
CodesAlone == INSTANCE OneTimeCodes_proofs
SettingsAlone == INSTANCE SettingsCache_proofs

-----------------------------------------------------------------------------
(* The service in focus.                                                   *)

Foci == {"access", "deletion", "codes", "settings", "socket", "review", "paging"}

\* A behaviour starts as one of its service, and its steps are that service's.
LEMMA FocusInit ==
  Init => /\ focus \in Foci
          /\ focus = "access" => Access!Init
          /\ focus = "deletion" => Deletion!Init
          /\ focus = "codes" => Codes!Init
          /\ focus = "settings" => Settings!Init
          /\ focus = "socket" => Socket!Init
          /\ focus = "review" => Review!Init
          /\ focus = "paging" => Page!Init
  BY DEF Init, Foci

LEMMA FocusStep ==
  [Next]_all => /\ focus' = focus
                /\ focus = "access" => [Access!Next]_(Access!vars)
                /\ focus = "deletion" => [Deletion!Next]_(Deletion!vars)
                /\ focus = "codes" => [Codes!Next]_(Codes!vars)
                /\ focus = "settings" => [Settings!Next]_(Settings!vars)
                /\ focus = "socket" => [Socket!Next]_(Socket!vars)
                /\ focus = "review" => [Review!Next]_(Review!vars)
                /\ focus = "paging" => [Page!Next]_(Page!vars)
<1> SUFFICES ASSUME [Next]_all
             PROVE  /\ focus' = focus
                    /\ focus = "access" => [Access!Next]_(Access!vars)
                    /\ focus = "deletion" => [Deletion!Next]_(Deletion!vars)
                    /\ focus = "codes" => [Codes!Next]_(Codes!vars)
                    /\ focus = "settings" => [Settings!Next]_(Settings!vars)
                    /\ focus = "socket" => [Socket!Next]_(Socket!vars)
                    /\ focus = "review" => [Review!Next]_(Review!vars)
                    /\ focus = "paging" => [Page!Next]_(Page!vars)
  OBVIOUS
<1>1. CASE Next
  BY <1>1 DEF Next
<1>2. CASE UNCHANGED all
  BY <1>2 DEF all, Access!vars, Deletion!vars, Codes!vars, Settings!vars, Socket!vars,
     Review!vars, Page!vars
<1>3. QED
  BY <1>1, <1>2

-----------------------------------------------------------------------------
(* The services whose theorems are in modules of their own.                *)

\* What is proved of a service alone is proved of its instance here: the two are the same
\* formulas of the same variables.
LEMMA DeletionSame ==
  /\ DeletionAlone!AccountDeletionAssumption <=> Deletion!AccountDeletionAssumption
  /\ DeletionAlone!Init <=> Deletion!Init
  /\ [DeletionAlone!Next]_(DeletionAlone!vars) <=> [Deletion!Next]_(Deletion!vars)
  /\ DeletionAlone!TypeOK <=> Deletion!TypeOK
  /\ \A r : DeletionAlone!Anonymize(r) <=> Deletion!Anonymize(r)
<1>1. DeletionAlone!AccountDeletionAssumption <=> Deletion!AccountDeletionAssumption
  BY DEF DeletionAlone!AccountDeletionAssumption, Deletion!AccountDeletionAssumption
<1>2. DeletionAlone!Init <=> Deletion!Init
  BY DEF DeletionAlone!Idle, Deletion!Idle, DeletionAlone!Obligations,
     Deletion!Obligations, DeletionAlone!Init, Deletion!Init
<1>3. [DeletionAlone!Next]_(DeletionAlone!vars) <=> [Deletion!Next]_(Deletion!vars)
  BY DEF DeletionAlone!Obligations, Deletion!Obligations, DeletionAlone!Idle,
     Deletion!Idle, DeletionAlone!Is, Deletion!Is, DeletionAlone!Ends, Deletion!Ends,
     DeletionAlone!AskForDeletion, Deletion!AskForDeletion, DeletionAlone!Count,
     Deletion!Count, DeletionAlone!Anonymize, Deletion!Anonymize, DeletionAlone!Report,
     Deletion!Report, DeletionAlone!Owe, Deletion!Owe, DeletionAlone!Settled,
     Deletion!Settled, DeletionAlone!Discharge, Deletion!Discharge,
     DeletionAlone!AuctionSells, Deletion!AuctionSells, DeletionAlone!RequestDies,
     Deletion!RequestDies, DeletionAlone!Next, Deletion!Next, DeletionAlone!vars,
     Deletion!vars
<1>4. DeletionAlone!TypeOK <=> Deletion!TypeOK
  BY DEF DeletionAlone!Obligations, Deletion!Obligations, DeletionAlone!TypeOK,
     Deletion!TypeOK
<1>5. \A r : DeletionAlone!Anonymize(r) <=> Deletion!Anonymize(r)
  BY DEF DeletionAlone!Anonymize, Deletion!Anonymize, DeletionAlone!Is, Deletion!Is,
     DeletionAlone!Ends, Deletion!Ends, DeletionAlone!Idle, Deletion!Idle
<1>6. QED
  BY <1>1, <1>2, <1>3, <1>4, <1>5

LEMMA CodesSame ==
  /\ CodesAlone!OneTimeCodesAssumption <=> Codes!OneTimeCodesAssumption
  /\ CodesAlone!Init <=> Codes!Init
  /\ [CodesAlone!Next]_(CodesAlone!vars) <=> [Codes!Next]_(Codes!vars)
  /\ CodesAlone!TypeOK <=> Codes!TypeOK
  /\ CodesAlone!GuessesBounded <=> Codes!GuessesBounded
<1>1. CodesAlone!OneTimeCodesAssumption <=> Codes!OneTimeCodesAssumption
  BY DEF CodesAlone!OneTimeCodesAssumption, Codes!OneTimeCodesAssumption,
     CodesAlone!IsFiniteSet, Codes!IsFiniteSet
<1>2. CodesAlone!Init <=> Codes!Init
  BY DEF CodesAlone!Codes, Codes!Codes, CodesAlone!NoRow, Codes!NoRow, CodesAlone!Idle,
     Codes!Idle, CodesAlone!Init, Codes!Init
<1>3. [CodesAlone!Next]_(CodesAlone!vars) <=> [Codes!Next]_(Codes!vars)
  BY DEF CodesAlone!Codes, Codes!Codes, CodesAlone!NoRow, Codes!NoRow, CodesAlone!Idle,
     Codes!Idle, CodesAlone!Unused, Codes!Unused, CodesAlone!Usable, Codes!Usable,
     CodesAlone!Is, Codes!Is, CodesAlone!Goes, Codes!Goes, CodesAlone!Ends, Codes!Ends,
     CodesAlone!Register, Codes!Register, CodesAlone!AskForCode, Codes!AskForCode,
     CodesAlone!RevokeUnused, Codes!RevokeUnused, CodesAlone!CreateCode, Codes!CreateCode,
     CodesAlone!Expire, Codes!Expire, CodesAlone!TryCode, Codes!TryCode,
     CodesAlone!RecordMiss, Codes!RecordMiss, CodesAlone!AcceptCode, Codes!AcceptCode,
     CodesAlone!RequestDies, Codes!RequestDies, CodesAlone!Next, Codes!Next,
     CodesAlone!vars, Codes!vars
<1>4. CodesAlone!TypeOK <=> Codes!TypeOK
  BY DEF CodesAlone!Codes, Codes!Codes, CodesAlone!TypeOK, Codes!TypeOK
<1>5. CodesAlone!GuessesBounded <=> Codes!GuessesBounded
  BY DEF CodesAlone!GuessesBounded, Codes!GuessesBounded, CodesAlone!Codes, Codes!Codes,
     CodesAlone!Cardinality, Codes!Cardinality
<1>6. QED
  BY <1>1, <1>2, <1>3, <1>4, <1>5

LEMMA SettingsSame ==
  /\ SettingsAlone!SettingsCacheAssumption <=> Settings!SettingsCacheAssumption
  /\ SettingsAlone!Init <=> Settings!Init
  /\ [SettingsAlone!Next]_(SettingsAlone!vars) <=> [Settings!Next]_(Settings!vars)
  /\ SettingsAlone!TypeOK <=> Settings!TypeOK
  /\ SettingsAlone!SettingsAreRecent <=> Settings!SettingsAreRecent
<1>1. SettingsAlone!SettingsCacheAssumption <=> Settings!SettingsCacheAssumption
  BY DEF SettingsAlone!SettingsCacheAssumption, Settings!SettingsCacheAssumption
<1>2. SettingsAlone!Init <=> Settings!Init
  BY DEF SettingsAlone!Never, Settings!Never, SettingsAlone!NoCopy, Settings!NoCopy,
     SettingsAlone!NoQuery, Settings!NoQuery, SettingsAlone!NotSent, Settings!NotSent,
     SettingsAlone!Init, Settings!Init
<1>3. [SettingsAlone!Next]_(SettingsAlone!vars) <=> [Settings!Next]_(Settings!vars)
  BY DEF SettingsAlone!Never, Settings!Never, SettingsAlone!NoCopy, Settings!NoCopy,
     SettingsAlone!NoQuery, Settings!NoQuery, SettingsAlone!NotSent, Settings!NotSent,
     SettingsAlone!Live, Settings!Live, SettingsAlone!SendQuery, Settings!SendQuery,
     SettingsAlone!ReadRow, Settings!ReadRow, SettingsAlone!StoreAnswer,
     Settings!StoreAnswer, SettingsAlone!QueryFails, Settings!QueryFails,
     SettingsAlone!StoreUpdate, Settings!StoreUpdate, SettingsAlone!Publish,
     Settings!Publish, SettingsAlone!Invalidate, Settings!Invalidate,
     SettingsAlone!LoseMessage, Settings!LoseMessage, SettingsAlone!Restart,
     Settings!Restart, SettingsAlone!Tick, Settings!Tick, SettingsAlone!Next,
     Settings!Next, SettingsAlone!vars, Settings!vars
<1>4. SettingsAlone!TypeOK <=> Settings!TypeOK
  BY DEF SettingsAlone!Never, Settings!Never, SettingsAlone!Time, Settings!Time,
     SettingsAlone!NoCopy, Settings!NoCopy, SettingsAlone!NoQuery, Settings!NoQuery,
     SettingsAlone!NotSent, Settings!NotSent, SettingsAlone!TypeOK, Settings!TypeOK
<1>5. SettingsAlone!SettingsAreRecent <=> Settings!SettingsAreRecent
  BY DEF SettingsAlone!SettingsAreRecent, Settings!SettingsAreRecent, SettingsAlone!Never,
     Settings!Never, SettingsAlone!Live, Settings!Live, SettingsAlone!Recent,
     Settings!Recent, SettingsAlone!GuardAdmits, Settings!GuardAdmits
<1>6. QED
  BY <1>1, <1>2, <1>3, <1>4, <1>5

DeletionInv == focus = "deletion" => DeletionAlone!DeletionInv
CodesInv == focus = "codes" => CodesAlone!CodesInv
SettingsInv == focus = "settings" => SettingsAlone!KnownInv

\* Their invariants hold while they are in focus, and say nothing while they are not.
LEMMA DeletionInduct == (Init => DeletionInv) /\ (DeletionInv /\ [Next]_all => DeletionInv')
<1>1. Init => DeletionInv
  BY FocusInit, DeletionSame, DeletionAlone!InvInit DEF DeletionInv
<1>2. DeletionInv /\ [Next]_all => DeletionInv'
  BY FocusStep, DeletionSame, DeletionAlone!InvStep DEF DeletionInv
<1>3. QED
  BY <1>1, <1>2

LEMMA CodesInduct == (Init => CodesInv) /\ (CodesInv /\ [Next]_all => CodesInv')
<1>1. CodesAlone!OneTimeCodesAssumption
  BY ServicesAssumption, CodesSame
<1>2. Init => CodesInv
  BY <1>1, FocusInit, CodesSame, CodesAlone!CodesInit DEF CodesInv
<1>3. CodesInv /\ [Next]_all => CodesInv'
  BY <1>1, FocusStep, CodesSame, CodesAlone!CodesStep DEF CodesInv
<1>4. QED
  BY <1>2, <1>3

LEMMA SettingsInduct == (Init => SettingsInv) /\ (SettingsInv /\ [Next]_all => SettingsInv')
<1>1. SettingsAlone!SettingsCacheAssumption
  BY ServicesAssumption, SettingsSame
<1>2. Init => SettingsInv
  BY <1>1, FocusInit, SettingsSame, SettingsAlone!KnownInit DEF SettingsInv
<1>3. SettingsInv /\ [Next]_all => SettingsInv'
  BY <1>1, FocusStep, SettingsSame, SettingsAlone!KnownStep DEF SettingsInv
<1>4. QED
  BY <1>2, <1>3

\* Nobody is anonymized who still owes what was owed when it was asked for (the two counts of
\* checkAccountDeletable are not repeated under a lock, and need not be for that).
THEOREM DeletedFree == Spec => DeletedFreeOfOldDebts
<1>1. DeletionInv /\ [Next]_all
        => [focus = "deletion" =>
              \A r \in Requests : Deletion!Anonymize(r) => request[r].standing = {}]_all
  BY DeletionSame, DeletionAlone!InformedIsFree DEF DeletionInv
<1>2. QED
  BY <1>1, DeletionInduct, PTL DEF Spec, DeletedFreeOfOldDebts

\* However many requests try a code at once, the wrong guesses answered stay below the limit plus
\* the number of requests (verify-email, verify-reset-otp and reset-password read the counter and
\* raise it in separate statements).
THEOREM GuessesBoundedAlways == Spec => []GuessesBounded
<1>1. CodesInv => GuessesBounded
  BY ServicesAssumption, CodesSame, CodesAlone!CountedBounds DEF CodesInv, GuessesBounded
<1>2. QED
  BY <1>1, CodesInduct, PTL DEF Spec

\* A code that was replaced is accepted from nobody, not even from a request that found it right
\* before (reset-password hashes in between; its update by id fails with the row gone).
THEOREM ReplacedIsDeadAlways == Spec => ReplacedIsDead
<1>1. ASSUME CodesInv, [Next]_all, focus = "codes", NEW c \in 1 .. issued, ~code[c].there
      PROVE  accepted'[c] = accepted[c]
  <2>1. CodesAlone!CodesInv /\ [CodesAlone!Next]_(CodesAlone!vars)
    BY <1>1, FocusStep, CodesSame DEF CodesInv
  <2>2. issued \in 0 .. MaxCodes /\ MaxCodes \in Nat
    BY <2>1, ServicesAssumption DEF CodesAlone!CodesInv, CodesAlone!TypeOK,
       Codes!OneTimeCodesAssumption
  <2>3. c \in CodesAlone!Codes
    BY <2>2 DEF CodesAlone!Codes
  <2>4. QED
    BY <1>1, <2>1, <2>3, CodesAlone!TakenIsThere
<1>2. CodesInv /\ [Next]_all
        => [focus = "codes" =>
              \A c \in 1 .. issued : ~code[c].there => accepted'[c] = accepted[c]]_all
  BY <1>1
<1>3. QED
  BY <1>2, CodesInduct, PTL DEF Spec, ReplacedIsDead

\* Every process acts on settings that are, or were less than a copy's life and an answer's way
\* ago, although no message need ever arrive (getPlatformSettings, updatePlatformSettings).
THEOREM SettingsAreRecentAlways == Spec => []SettingsAreRecent
<1>1. SettingsInv => SettingsAreRecent
  BY ServicesAssumption, SettingsSame, SettingsAlone!KnownIsRecent DEF SettingsInv,
     SettingsAreRecent
<1>2. QED
  BY <1>1, SettingsInduct, PTL DEF Spec

-----------------------------------------------------------------------------
(* Reviews.                                                                *)

LEMMA ReviewCounts == \A T : Review!Cardinality(T) = Cardinality(T)
  BY DEF Review!Cardinality, Cardinality

ReviewRequest ==
  [task : {"idle", "create", "edit", "delete", "reply", "tellSeller", "tellBuyer"},
   number : 0 .. MaxReviews, read : Review!Row]

\* With so many reviews created and these answered: what a request is about has been created,
\* what an edit has read was a review, and who is to be told of a reply is told of one stored.
ReviewSound(q, count, replied) ==
  /\ q.task \in {"edit", "delete", "reply", "tellSeller"} => q.number \in 1 .. count
  /\ q.task = "edit" => q.read.there
  /\ q.task = "tellBuyer" => q.number \in replied

\* Why reviews do not cross: only the newest can be there, since one is created where none is,
\* and the numbers of the others are never used again.
ReviewTables(rows, count, replied) ==
  /\ rows \in [Review!Numbers -> Review!Row]
  /\ count \in 0 .. MaxReviews
  /\ replied \subseteq 1 .. count
  /\ \A n \in Review!Numbers : rows[n].there =>
       n = count /\ (rows[n].reply # NoText <=> n \in replied)
ReviewTellings(tellings, count, replied) ==
  /\ tellings \in [seller : SUBSET Review!Numbers, buyer : SUBSET Review!Numbers]
  /\ \A n \in tellings.seller : n <= count
  /\ tellings.buyer \subseteq replied
ReviewRequests(requests, count, replied) ==
  /\ requests \in [Requests -> ReviewRequest]
  /\ \A r \in Requests : ReviewSound(requests[r], count, replied)

AllReviewsSound ==
  /\ ReviewTables(review, created, answered)
  /\ ReviewTellings(told, created, answered)
  /\ ReviewRequests(request, created, answered)
  /\ editable \in BOOLEAN

ReviewInv == focus = "review" => AllReviewsSound

\* Rows and contents have their types.
LEMMA ReviewRows ==
  /\ Review!NoRow \in Review!Row /\ ~Review!NoRow.there /\ Review!NoRow.reply = NoText
  /\ \A q \in Review!Row : q.there => q \in [there : {TRUE}, content : Review!Content,
                                             reply : Replies \cup {NoText}]
  /\ \A content \in Review!Content, reply \in Replies \cup {NoText} :
       [there |-> TRUE, content |-> content, reply |-> reply] \in Review!Row
  /\ Review!Idle \in ReviewRequest /\ Review!Idle.task = "idle"
<1>1. Review!NoRow \in Review!Row /\ ~Review!NoRow.there /\ Review!NoRow.reply = NoText
  BY DEF Review!Row, Review!NoRow
<1>2. \A q \in Review!Row : q.there => q \in [there : {TRUE}, content : Review!Content,
                                             reply : Replies \cup {NoText}]
  <2> SUFFICES ASSUME NEW q \in Review!Row, q.there
               PROVE  q \in [there : {TRUE}, content : Review!Content,
                             reply : Replies \cup {NoText}]
    OBVIOUS
  <2>1. q # Review!NoRow
    BY <1>1
  <2>2. QED
    BY <2>1 DEF Review!Row
<1>3. \A content \in Review!Content, reply \in Replies \cup {NoText} :
       [there |-> TRUE, content |-> content, reply |-> reply] \in Review!Row
  BY DEF Review!Row
<1>4. Review!Idle \in ReviewRequest /\ Review!Idle.task = "idle"
  BY <1>1, ServicesAssumption DEF Review!Idle, ReviewRequest, Review!ReviewsAssumption
<1>5. QED
  BY <1>1, <1>2, <1>3, <1>4

\* A request that turns into a sound one, beside more reviews and more replies.
LEMMA ReviewRequestMoves ==
  ASSUME ReviewRequests(request, created, answered), created \in Nat, created' \in Nat,
         created' >= created, answered \subseteq answered',
         NEW r \in Requests, NEW q \in ReviewRequest, ReviewSound(q, created', answered'),
         request' = [request EXCEPT ![r] = q]
  PROVE  ReviewRequests(request', created', answered')
<1>1. request' \in [Requests -> ReviewRequest]
  BY DEF ReviewRequests
<1>2. ASSUME NEW s \in Requests PROVE ReviewSound(request'[s], created', answered')
  <2>1. CASE s = r
    BY <2>1 DEF ReviewRequests
  <2>2. CASE s # r
    <3>1. request'[s] = request[s] /\ ReviewSound(request[s], created, answered)
      BY <2>2 DEF ReviewRequests
    <3>2. QED
      BY <3>1 DEF ReviewSound
  <2>3. QED
    BY <2>1, <2>2
<1>3. QED
  BY <1>1, <1>2 DEF ReviewRequests

\* The same when there is no new review or reply, and when the request is over.
LEMMA ReviewRequestTurns ==
  ASSUME AllReviewsSound, UNCHANGED <<created, answered>>,
         NEW r \in Requests, NEW q \in ReviewRequest, ReviewSound(q, created, answered),
         request' = [request EXCEPT ![r] = q]
  PROVE  ReviewRequests(request', created', answered')
<1>1. ReviewRequests(request, created, answered) /\ created \in Nat
  BY ServicesAssumption DEF AllReviewsSound, ReviewTables, Review!ReviewsAssumption
<1>2. created' = created /\ answered' = answered
  OBVIOUS
<1>3. ReviewSound(q, created', answered')
  BY <1>2
<1>4. created' >= created /\ answered \subseteq answered' /\ created' \in Nat
  BY <1>1, <1>2
<1>5. QED
  BY <1>1, <1>3, <1>4, ReviewRequestMoves

\* A request that ends leaves nothing to be known of it.
LEMMA ReviewRequestEnds ==
  ASSUME AllReviewsSound, UNCHANGED <<created, answered>>, NEW r \in Requests, Review!Ends(r)
  PROVE  ReviewRequests(request', created', answered')
<1>1. Review!Idle \in ReviewRequest /\ ReviewSound(Review!Idle, created, answered)
  BY ReviewRows DEF ReviewSound
<1>2. request' = [request EXCEPT ![r] = Review!Idle]
  BY DEF Review!Ends
<1>3. QED
  BY <1>1, <1>2, ReviewRequestTurns

\* Each handler of reviews keeps the invariant.
LEMMA ReviewStep ==
  ASSUME AllReviewsSound, [Review!Next]_(Review!vars)
  PROVE  AllReviewsSound'
<1>1. /\ ReviewTables(review, created, answered) /\ ReviewTellings(told, created, answered)
      /\ ReviewRequests(request, created, answered) /\ editable \in BOOLEAN
      /\ created \in Nat /\ MaxReviews \in Nat
      /\ request \in [Requests -> ReviewRequest]
  BY ServicesAssumption DEF AllReviewsSound, ReviewTables, ReviewRequests,
     Review!ReviewsAssumption
<1>2. ASSUME NEW r \in Requests, NEW q \in ReviewRequest, ReviewSound(q, created, answered),
             request' = [request EXCEPT ![r] = q],
             UNCHANGED <<review, created, editable, answered, told>>
      PROVE  AllReviewsSound'
  <2>1. ReviewRequests(request', created', answered')
    BY <1>2, ReviewRequestTurns
  <2>2. QED
    BY <1>1, <1>2, <2>1 DEF AllReviewsSound
<1>3. ASSUME NEW r \in Requests, Review!AskToReview(r) PROVE AllReviewsSound'
  <2> DEFINE q == [request[r] EXCEPT !.task = "create"]
  <2>1. q \in ReviewRequest /\ q.task = "create"
    BY <1>1 DEF ReviewRequest
  <2>2. ReviewSound(q, created, answered)
    BY <2>1 DEF ReviewSound
  <2>3. request' = [request EXCEPT ![r] = q]
    BY <1>3 DEF Review!AskToReview
  <2> HIDE DEF q
  <2>4. QED
    BY <1>2, <1>3, <2>1, <2>2, <2>3 DEF Review!AskToReview
<1>4. ASSUME NEW r \in Requests, NEW content \in Review!Content,
             Review!CreateReview(r, content)
      PROVE  AllReviewsSound'
  <2>1. CASE Review!Living # {} /\ Review!Ends(r) /\ UNCHANGED <<review, created, editable>>
    BY <1>2, <1>4, <2>1, ReviewRows DEF Review!CreateReview, Review!Ends, ReviewSound
  <2>2. CASE Review!Living = {} /\ ~(UNCHANGED created)
    <3>1. /\ created < MaxReviews /\ created' = created + 1
          /\ review' = [review EXCEPT ![created + 1] =
               [there |-> TRUE, content |-> content, reply |-> NoText]]
          /\ editable' = TRUE /\ Review!Tells(r, "tellSeller", created + 1)
          /\ UNCHANGED <<told, answered>>
      BY <1>4, <2>2 DEF Review!CreateReview
    <3>2. created + 1 \in Review!Numbers /\ created + 1 \notin answered
      BY <1>1, <3>1 DEF Review!Numbers, ReviewTables
    <3>3. \A n \in Review!Numbers : ~review[n].there
      BY <2>2 DEF Review!Living
    <3>4. [there |-> TRUE, content |-> content, reply |-> NoText] \in Review!Row
      BY ReviewRows
    <3>5. ReviewTables(review', created', answered')
      BY <1>1, <3>1, <3>2, <3>3, <3>4 DEF ReviewTables
    <3>6. ReviewTellings(told', created', answered')
      BY <1>1, <3>1 DEF ReviewTellings, Review!Numbers
    <3> DEFINE q == [Review!Idle EXCEPT !.task = "tellSeller", !.number = created + 1]
    <3>7. created + 1 \in 0 .. MaxReviews
      BY <1>1, <3>1
    <3>8. q \in ReviewRequest /\ q.task = "tellSeller" /\ q.number = created + 1
      BY <3>7, ReviewRows DEF ReviewRequest, Review!Idle
    <3>9. request' = [request EXCEPT ![r] = q]
      BY <3>1 DEF Review!Tells
    <3> HIDE DEF q
    <3>10. ReviewSound(q, created', answered')
      BY <1>1, <3>1, <3>8 DEF ReviewSound
    <3>11. ReviewRequests(request', created', answered')
      <4>1. created' >= created /\ answered \subseteq answered' /\ created' \in Nat
        BY <1>1, <3>1
      <4>2. QED
        BY <1>1, <3>8, <3>9, <3>10, <4>1, ReviewRequestMoves
    <3>12. QED
      BY <3>1, <3>5, <3>6, <3>11 DEF AllReviewsSound
  <2>3. QED
    BY <1>1, <1>4, <2>1, <2>2 DEF Review!CreateReview
<1>5. ASSUME NEW r \in Requests, NEW task \in {"edit", "delete", "reply"},
             NEW n \in Review!Living, Review!Reads(r, task, n),
             UNCHANGED <<review, created, editable, told, answered>>
      PROVE  AllReviewsSound'
  <2> DEFINE q == [task |-> task, number |-> n, read |-> review[n]]
  <2>1. n \in Review!Numbers /\ review[n].there /\ n = created /\ review[n] \in Review!Row
    BY <1>1, <1>5 DEF Review!Living, ReviewTables
  <2>2. q \in ReviewRequest /\ q.task = task /\ q.number = n /\ q.read = review[n]
    BY <1>1, <2>1 DEF ReviewRequest, Review!Numbers
  <2>3. request' = [request EXCEPT ![r] = q]
    BY <1>5 DEF Review!Reads
  <2> HIDE DEF q
  <2>4. ReviewSound(q, created, answered)
    BY <1>1, <2>1, <2>2 DEF ReviewSound, Review!Numbers
  <2>5. QED
    BY <1>2, <1>5, <2>2, <2>3, <2>4
<1>6. ASSUME NEW r \in Requests, NEW given \in Review!Bodies, Review!EditReview(r, given)
      PROVE  AllReviewsSound'
  <2> DEFINE n == request[r].number
             content == Review!Merged(given, request[r].read.content)
  <2>1. /\ request[r].task = "edit" /\ n \in Review!Living
        /\ review' = [review EXCEPT ![n].content = content]
        /\ Review!Ends(r) /\ UNCHANGED <<created, editable, told, answered>>
    BY <1>6 DEF Review!EditReview, Review!Is
  <2>2. request[r].read.content \in Review!Content
    BY <1>1, <2>1, ReviewRows DEF ReviewRequests, ReviewSound, ReviewRequest
  <2>3. content \in Review!Content
    BY <2>2 DEF Review!Merged, Review!Content, Review!Bodies
  <2> HIDE DEF n, content
  <2>4. n \in Review!Numbers /\ review[n].there /\ review[n] \in Review!Row
    BY <1>1, <2>1 DEF Review!Living, ReviewTables
  <2>5. review[n] \in [there : {TRUE}, content : Review!Content, reply : Replies \cup {NoText}]
    BY <2>4, ReviewRows
  <2>6. /\ review'[n] \in Review!Row /\ review'[n].there
        /\ review'[n].reply = review[n].reply
    BY <1>1, <2>1, <2>3, <2>4, <2>5 DEF ReviewTables, Review!Row
  <2>7. ReviewTables(review', created, answered)
    BY <1>1, <2>1, <2>4, <2>6 DEF ReviewTables
  <2>8. ReviewRequests(request', created', answered')
    BY <2>1, ReviewRequestEnds
  <2>9. QED
    BY <1>1, <2>1, <2>7, <2>8 DEF AllReviewsSound
<1>7. ASSUME NEW r \in Requests, Review!DeleteReview(r) PROVE AllReviewsSound'
  <2>1. /\ review' = [review EXCEPT ![request[r].number] = Review!NoRow]
        /\ Review!Ends(r) /\ UNCHANGED <<created, editable, told, answered>>
    BY <1>7 DEF Review!DeleteReview
  <2>2. ReviewTables(review', created, answered)
    BY <1>1, <2>1, ReviewRows DEF ReviewTables
  <2>3. ReviewRequests(request', created', answered')
    BY <2>1, ReviewRequestEnds
  <2>4. QED
    BY <1>1, <2>1, <2>2, <2>3 DEF AllReviewsSound
<1>8. ASSUME NEW r \in Requests, NEW text \in Replies, Review!ReplyToReview(r, text)
      PROVE  AllReviewsSound'
  <2> DEFINE n == request[r].number
  <2>1. /\ request[r].task = "reply" /\ n \in Review!Living
        /\ review' = [review EXCEPT ![n].reply = text]
        /\ answered' = answered \cup {n}
        /\ Review!Tells(r, "tellBuyer", n) /\ UNCHANGED <<created, editable, told>>
    BY <1>8 DEF Review!ReplyToReview, Review!Is
  <2>2. request' = [request EXCEPT ![r] = [Review!Idle EXCEPT !.task = "tellBuyer",
                                                               !.number = n]]
    BY <2>1 DEF Review!Tells
  <2> HIDE DEF n
  <2>3. n \in Review!Numbers /\ review[n].there /\ review[n] \in Review!Row /\ n = created
    BY <1>1, <2>1 DEF Review!Living, ReviewTables
  <2>4. review[n] \in [there : {TRUE}, content : Review!Content, reply : Replies \cup {NoText}]
    BY <2>3, ReviewRows
  <2>5. /\ review'[n] \in Review!Row /\ review'[n].there
        /\ review'[n].reply = text /\ text # NoText
    BY <1>1, <2>1, <2>3, <2>4, ServicesAssumption
       DEF ReviewTables, Review!Row, Review!ReviewsAssumption
  <2>6. ReviewTables(review', created, answered')
    BY <1>1, <2>1, <2>3, <2>5 DEF ReviewTables, Review!Numbers
  <2>7. ReviewTellings(told', created, answered')
    BY <1>1, <2>1 DEF ReviewTellings
  <2> DEFINE q == [Review!Idle EXCEPT !.task = "tellBuyer", !.number = n]
  <2>8. n \in 0 .. MaxReviews
    BY <1>1, <2>3 DEF Review!Numbers
  <2>9. q \in ReviewRequest /\ q.task = "tellBuyer" /\ q.number = n
    BY <2>8, ReviewRows DEF ReviewRequest, Review!Idle
  <2>10. request' = [request EXCEPT ![r] = q]
    BY <2>2
  <2> HIDE DEF q
  <2>11. ReviewSound(q, created', answered')
    BY <2>1, <2>9 DEF ReviewSound
  <2>12. ReviewRequests(request', created', answered')
    <3>1. created' >= created /\ answered \subseteq answered' /\ created' \in Nat
      BY <1>1, <2>1
    <3>2. QED
      BY <1>1, <2>9, <2>10, <2>11, <3>1, ReviewRequestMoves
  <2>13. QED
    BY <1>1, <2>1, <2>6, <2>7, <2>12 DEF AllReviewsSound
<1>9. ASSUME NEW r \in Requests, Review!Tell(r) PROVE AllReviewsSound'
  <2>1. Review!Ends(r) /\ UNCHANGED <<review, created, editable, answered>>
    BY <1>9 DEF Review!Tell
  <2>2. ReviewRequests(request', created', answered')
    BY <2>1, ReviewRequestEnds
  <2>3. ReviewSound(request[r], created, answered)
    BY <1>1 DEF ReviewRequests
  <2>4. CASE Review!Is(r, "tellSeller")
             /\ told' = [told EXCEPT !.seller = @ \cup {request[r].number}]
    <3>1. request[r].number \in 1 .. created
      BY <2>3, <2>4 DEF ReviewSound, Review!Is
    <3>2. QED
      BY <1>1, <2>1, <2>2, <2>4, <3>1
         DEF AllReviewsSound, ReviewTellings, ReviewTables, Review!Numbers
  <2>5. CASE Review!Is(r, "tellBuyer")
             /\ told' = [told EXCEPT !.buyer = @ \cup {request[r].number}]
    <3>1. request[r].number \in answered
      BY <2>3, <2>5 DEF ReviewSound, Review!Is
    <3>2. QED
      BY <1>1, <2>1, <2>2, <2>5, <3>1
         DEF AllReviewsSound, ReviewTellings, ReviewTables, Review!Numbers
  <2>6. QED
    BY <1>9, <2>4, <2>5 DEF Review!Tell
<1>10. CASE Review!MoveWindow
  BY <1>1, <1>10 DEF Review!MoveWindow, AllReviewsSound
<1>11. ASSUME NEW r \in Requests, Review!RequestDies(r) PROVE AllReviewsSound'
  BY <1>2, <1>11, ReviewRows DEF Review!RequestDies, Review!Ends, ReviewSound
<1>12. CASE UNCHANGED Review!vars
  BY <1>1, <1>12 DEF Review!vars, AllReviewsSound
<1>13. ASSUME NEW r \in Requests, NEW n \in Review!Numbers, Review!AskToReply(r, n)
       PROVE  AllReviewsSound'
  BY <1>5, <1>13 DEF Review!AskToReply
<1>14. ASSUME NEW r \in Requests, NEW n \in Review!Numbers, NEW task \in {"edit", "delete"},
              Review!AskToChange(r, task, n)
       PROVE  AllReviewsSound'
  BY <1>5, <1>14 DEF Review!AskToChange
<1>15. QED
  BY <1>3, <1>4, <1>6, <1>7, <1>8, <1>9, <1>10, <1>11, <1>12, <1>13, <1>14 DEF Review!Next

\* So does each step of Services, whatever it is about.
LEMMA ReviewInduct == (Init => ReviewInv) /\ (ReviewInv /\ [Next]_all => ReviewInv')
<1>1. Review!Init => AllReviewsSound
  <2> SUFFICES ASSUME Review!Init PROVE AllReviewsSound
    OBVIOUS
  <2>1. ReviewTables(review, created, answered) /\ ReviewTellings(told, created, answered)
    BY ReviewRows, ServicesAssumption
       DEF Review!Init, ReviewTables, ReviewTellings, Review!ReviewsAssumption
  <2>2. ReviewRequests(request, created, answered) /\ editable \in BOOLEAN
    BY ReviewRows DEF Review!Init, ReviewRequests, ReviewSound
  <2>3. QED
    BY <2>1, <2>2 DEF AllReviewsSound
<1>2. Init => ReviewInv
  BY <1>1, FocusInit DEF ReviewInv
<1>3. ReviewInv /\ [Next]_all => ReviewInv'
  BY FocusStep, ReviewStep DEF ReviewInv
<1>4. QED
  BY <1>2, <1>3

\* However double submissions, corrections, deletions and replies cross (reviews.routes.ts reads a
\* review and writes it by its id later): the sale has one review at most, a reply stands under
\* the review its seller had read, and nobody is told of a review or a reply not stored.
THEOREM ReviewsDontCrossAlways == Spec => []ReviewsDontCross
<1>1. AllReviewsSound => Review!ReviewsDontCross
  <2> SUFFICES ASSUME AllReviewsSound PROVE Review!ReviewsDontCross
    OBVIOUS
  <2>1. /\ ReviewTables(review, created, answered) /\ ReviewTellings(told, created, answered)
    BY DEF AllReviewsSound
  <2>2. Review!Living \subseteq {created}
    BY <2>1 DEF ReviewTables, Review!Living
  <2>3. Cardinality(Review!Living) <= 1
    <3>1. IsFiniteSet({created}) /\ Cardinality({created}) = 1
      BY FS_Singleton
    <3>2. QED
      BY <2>2, <3>1, FS_Subset
  <2>4. QED
    BY <2>1, <2>3, ReviewCounts
       DEF Review!ReviewsDontCross, ReviewTables, ReviewTellings, Review!Living
<1>2. ReviewInv => ReviewsDontCross
  BY <1>1 DEF ReviewInv, ReviewsDontCross
<1>3. QED
  BY <1>2, ReviewInduct, PTL DEF Spec

-----------------------------------------------------------------------------
(* Access to an account.                                                   *)

UserRow == [role : {"BUYER", "ADMIN"}, status : {"ACTIVE", "SUSPENDED"},
            seller : Details \cup {NoDetails}]
FlagsOf(account) ==
  [suspended |-> account.status = "SUSPENDED", seller |-> account.seller # NoDetails]
AccessEntry == [access : Access!Access, at : Access!Time \cup {Access!Never}]
AccessRequest ==
  [task : Access!Tasks, user : Users \cup {NoUser}, process : Processes \cup {NoProcess},
   enrolls : BOOLEAN, access : Access!Access, since : Access!Time]
Past == [Access!Access -> Access!Time \cup {Access!Never}]

\* An account that was registered so, and had other flags last at the times of past: it has
\* these flags, or had them at t or later.
HadSince(flags, t, account, past) ==
  \/ flags = FlagsOf(account)
  \/ past[flags] # Access!Never /\ past[flags] >= t

\* Why answers are recent: what a process knows was the account's when it was read, and that was
\* at most MaxQuery before it was stored.
AccessCopies(copies, accounts, past, now) ==
  /\ copies \in [Processes -> [Users -> AccessEntry]]
  /\ \A p \in Processes, u \in Users : copies[p][u].at # Access!Never =>
       /\ copies[p][u].at <= now
       /\ HadSince(copies[p][u].access, copies[p][u].at - MaxQuery, accounts[u], past[u])
AccessSound(q, accounts, past, now) ==
  /\ q.task # "idle" => q.user \in Users /\ q.process \in Processes
  /\ q.task = "found" =>
       /\ q.since <= now /\ now - q.since <= MaxQuery
       /\ HadSince(q.access, q.since, accounts[q.user], past[q.user])
AccessRequests(requests, accounts, past, now) ==
  /\ requests \in [Requests -> AccessRequest]
  /\ \A r \in Requests : AccessSound(requests[r], accounts, past, now)
AccessTables(accounts, past, now) ==
  /\ now \in Access!Time
  /\ accounts \in [Users -> UserRow]
  /\ past \in [Users -> Past]
  /\ \A u \in Users, f \in Access!Access : past[u][f] <= now

\* The last of some events, and what a log must say of a row: the last word on its status and
\* its seller's details is its own, and an enrolment follows another only after a deletion.
LastOf(events, s) ==
  LET S == {i \in DOMAIN s : s[i] \in events}
  IN IF S = {} THEN "none" ELSE s[CHOOSE i \in S : \A j \in S : j <= i]
LastSeller(s) ==
  LET last == LastOf(Details \cup {"deleted"}, s) IN IF last \in Details THEN last ELSE NoDetails
DeletedAfter(s, i) == \E k \in DOMAIN s : k > i /\ s[k] = "deleted"
Explains(s, account) ==
  /\ account.status = "SUSPENDED" <=> LastOf({"suspended", "reinstated"}, s) = "suspended"
  /\ account.seller = LastSeller(s)
  /\ \A i, j \in DOMAIN s :
       i < j /\ s[i] \in Details /\ s[j] \in Details => \E k \in i .. j : s[k] = "deleted"
  /\ account.seller = NoDetails =>
       \A i \in DOMAIN s : s[i] \in Details => DeletedAfter(s, i)
AccessLogs(logs, accounts) ==
  /\ logs \in [Users -> Seq(Access!Event)]
  /\ \A u \in Users : Explains(logs[u], accounts[u])

AllAccessSound ==
  /\ AccessTables(user, held, clock)
  /\ AccessLogs(log, user)
  /\ AccessCopies(cache, user, held, clock)
  /\ AccessRequests(request, user, held, clock)

AccessInv == focus = "access" => AllAccessSound

\* The constants of access, and its records.
LEMMA AccessConstants ==
  /\ TTL \in Nat \ {0} /\ MaxQuery \in Nat /\ MaxTime \in Nat
  /\ NoDetails \notin Details /\ Access!Never = -1 /\ Access!Time \subseteq Nat
  /\ 0 \in Access!Time /\ \A t \in Access!Time \cup {Access!Never} : t \in Int
  /\ Details \cap {"none", "suspended", "reinstated", "deleted"} = {}
  BY ServicesAssumption DEF Access!AccountAccessAssumption, Access!Never, Access!Time

LEMMA AccessRecords ==
  /\ Access!NoAccess \in Access!Access /\ Access!NoEntry \in AccessEntry
  /\ Access!Idle \in AccessRequest /\ Access!Idle.task = "idle"
  /\ Access!NoEntry.at = Access!Never
  /\ \A account : FlagsOf(account) \in Access!Access
<1>1. Access!NoAccess \in Access!Access
  BY DEF Access!NoAccess, Access!Access
<1>2. Access!NoEntry \in AccessEntry /\ Access!NoEntry.at = Access!Never
  BY <1>1 DEF Access!NoEntry, AccessEntry
<1>3. Access!Idle \in AccessRequest /\ Access!Idle.task = "idle"
  BY <1>1, AccessConstants DEF Access!Idle, AccessRequest, Access!Tasks
<1>4. \A account : FlagsOf(account) \in Access!Access
  BY DEF FlagsOf, Access!Access
<1>5. QED
  BY <1>1, <1>2, <1>3, <1>4

LEMMA FlagsSame == \A u : Access!Flags(u) = FlagsOf(user[u])
  BY DEF Access!Flags, FlagsOf

\* Some numbers up to n have a largest: of the intervals from one of them up to n, take a smallest.
LEMMA Largest ==
  ASSUME NEW n \in Nat, NEW I \in SUBSET (1 .. n), I # {}
  PROVE  \E i \in I : \A j \in I : j <= i
<1> DEFINE T == {i .. n : i \in I}
<1>1. T \subseteq SUBSET (1 .. n) /\ T # {}
  <2>1. \A i \in I : i .. n \in SUBSET (1 .. n)
    OBVIOUS
  <2>2. QED
    BY <2>1
<1>2. IsWellFoundedOn(StrictSubsetOrdering(1 .. n), SUBSET (1 .. n))
  <2>1. FiniteSubsetsOf(1 .. n) = SUBSET (1 .. n)
    <3>1. IsFiniteSet(1 .. n)
      BY FS_Interval
    <3>2. QED
      BY <3>1, FS_FiniteSubsetsOfFinite
  <2>2. QED
    BY <2>1, FS_StrictSubsetOrderingWellFounded
<1>3. \E t \in T : \A r \in T : <<r, t>> \notin StrictSubsetOrdering(1 .. n)
  <2> HIDE DEF T
  <2>1. QED
    BY <1>1, <1>2, WFMin
<1>4. PICK i \in I : \A r \in T : <<r, i .. n>> \notin StrictSubsetOrdering(1 .. n)
  BY <1>3
<1>5. ASSUME NEW j \in I, j > i PROVE FALSE
  <2>1. j .. n \in T /\ i .. n \in SUBSET (1 .. n) /\ j .. n \in SUBSET (1 .. n)
    OBVIOUS
  <2>2. i \in i .. n /\ i \notin j .. n /\ j .. n \subseteq i .. n
    BY <1>5
  <2>3. <<j .. n, i .. n>> \in StrictSubsetOrdering(1 .. n)
    <3> HIDE DEF T
    <3>1. QED
      BY <2>1, <2>2 DEF StrictSubsetOrdering
  <2>4. QED
    BY <1>4, <2>1, <2>3
<1>6. QED
  BY <1>5

\* The last of some events, when one more is logged.
LEMMA LastAppended ==
  ASSUME NEW T, NEW s \in Seq(T), NEW e \in T, NEW events
  PROVE  LastOf(events, Append(s, e)) = IF e \in events THEN e ELSE LastOf(events, s)
<1> DEFINE S == {i \in DOMAIN s : s[i] \in events}
           R == {i \in DOMAIN Append(s, e) : Append(s, e)[i] \in events}
<1>1. /\ DOMAIN s = 1 .. Len(s) /\ Len(s) \in Nat
      /\ DOMAIN Append(s, e) = 1 .. Len(s) + 1
      /\ Append(s, e)[Len(s) + 1] = e
      /\ \A i \in 1 .. Len(s) : Append(s, e)[i] = s[i]
  OBVIOUS
<1>2. CASE e \in events
  <2>1. Len(s) + 1 \in R /\ \A j \in R : j <= Len(s) + 1
    BY <1>1, <1>2
  <2>2. (CHOOSE i \in R : \A j \in R : j <= i) = Len(s) + 1
    <3>1. \A i \in R : (\A j \in R : j <= i) => i = Len(s) + 1
      BY <1>1, <2>1
    <3> HIDE DEF R
    <3>2. QED
      BY <2>1, <3>1
  <2>3. R # {}
    BY <2>1
  <2>4. QED
    BY <1>1, <1>2, <2>2, <2>3 DEF LastOf
<1>3. CASE e \notin events
  <2>1. R = S
    BY <1>1, <1>3
  <2>2. CASE S = {}
    BY <1>3, <2>1, <2>2 DEF LastOf
  <2>3. CASE S # {} /\ \E i \in S : \A j \in S : j <= i
    <3>1. (CHOOSE i \in S : \A j \in S : j <= i) \in DOMAIN s
      BY <2>3
    <3>2. QED
      BY <1>1, <1>3, <2>1, <2>3, <3>1 DEF LastOf
  <2>4. QED
    <3>1. S \in SUBSET (1 .. Len(s))
      BY <1>1
    <3> HIDE DEF S
    <3>2. S # {} => \E i \in S : \A j \in S : j <= i
      BY <1>1, <3>1, Largest
    <3>3. QED
      BY <2>2, <2>3, <3>2
<1>4. QED
  BY <1>2, <1>3

\* What a log says of a row, when the event of a change is added.
LEMMA ExplainsAppend ==
  ASSUME NEW s \in Seq(Access!Event), NEW before \in UserRow, Explains(s, before),
         NEW e \in Access!Event, NEW after \in UserRow,
         \/ e \in {"suspended", "reinstated"} /\ after.seller = before.seller
         \/ e = "deleted" /\ after.seller = NoDetails
         \/ e \in Details /\ before.seller = NoDetails /\ after.seller = e,
         IF e \in {"suspended", "reinstated"} THEN after.status = "SUSPENDED" <=> e = "suspended"
                                              ELSE after.status = before.status
  PROVE  Explains(Append(s, e), after)
<1>1. /\ DOMAIN s = 1 .. Len(s) /\ Len(s) \in Nat
      /\ DOMAIN Append(s, e) = 1 .. Len(s) + 1
      /\ Append(s, e)[Len(s) + 1] = e
      /\ \A i \in 1 .. Len(s) : Append(s, e)[i] = s[i]
  OBVIOUS
<1>2. after.status = "SUSPENDED"
        <=> LastOf({"suspended", "reinstated"}, Append(s, e)) = "suspended"
  <2>1. LastOf({"suspended", "reinstated"}, Append(s, e))
          = IF e \in {"suspended", "reinstated"} THEN e
                                                 ELSE LastOf({"suspended", "reinstated"}, s)
    BY LastAppended
  <2>2. before.status = "SUSPENDED" <=> LastOf({"suspended", "reinstated"}, s) = "suspended"
    BY DEF Explains
  <2>3. QED
    BY <2>1, <2>2
<1>3. after.seller = LastSeller(Append(s, e))
  <2>1. LastOf(Details \cup {"deleted"}, Append(s, e))
          = IF e \in Details \cup {"deleted"} THEN e ELSE LastOf(Details \cup {"deleted"}, s)
    BY LastAppended
  <2>2. before.seller = LastSeller(s)
    BY DEF Explains
  <2>3. QED
    BY <2>1, <2>2, AccessConstants DEF LastSeller
<1>4. ASSUME NEW i \in 1 .. Len(s) + 1, NEW j \in 1 .. Len(s) + 1, i < j,
             Append(s, e)[i] \in Details, Append(s, e)[j] \in Details
      PROVE  \E k \in i .. j : Append(s, e)[k] = "deleted"
  <2>1. i \in 1 .. Len(s) /\ s[i] \in Details
    BY <1>1, <1>4
  <2>2. CASE j \in 1 .. Len(s)
    <3>1. PICK k \in i .. j : s[k] = "deleted"
      BY <1>1, <1>4, <2>1, <2>2 DEF Explains
    <3>2. k \in 1 .. Len(s)
      BY <1>1, <2>1, <2>2, <3>1
    <3>3. QED
      BY <1>1, <3>1, <3>2
  <2>3. CASE j = Len(s) + 1
    <3>1. e \in Details /\ before.seller = NoDetails
      BY <1>1, <1>4, <2>3, AccessConstants
    <3>2. DeletedAfter(s, i)
      BY <1>1, <2>1, <3>1 DEF Explains
    <3>3. PICK k \in 1 .. Len(s) : k > i /\ s[k] = "deleted"
      BY <1>1, <3>2 DEF DeletedAfter
    <3>4. k \in i .. j
      BY <1>1, <2>1, <2>3, <3>3
    <3>5. QED
      BY <1>1, <3>3, <3>4
  <2>4. QED
    BY <1>1, <2>2, <2>3
<1>5. ASSUME after.seller = NoDetails, NEW i \in 1 .. Len(s) + 1, Append(s, e)[i] \in Details
      PROVE  DeletedAfter(Append(s, e), i)
  <2>1. e \notin Details
    BY <1>5, AccessConstants
  <2>2. i \in 1 .. Len(s) /\ s[i] \in Details
    BY <1>1, <1>5, <2>1
  <2>3. CASE e = "deleted"
    BY <1>1, <2>2, <2>3 DEF DeletedAfter
  <2>4. CASE e # "deleted"
    <3>1. before.seller = NoDetails
      BY <1>5, <2>1, <2>4
    <3>2. DeletedAfter(s, i)
      BY <1>1, <2>2, <3>1 DEF Explains
    <3>3. PICK k \in 1 .. Len(s) : k > i /\ s[k] = "deleted"
      BY <1>1, <3>2 DEF DeletedAfter
    <3>4. QED
      BY <1>1, <3>3 DEF DeletedAfter
  <2>5. QED
    BY <2>3, <2>4
<1>6. QED
  BY <1>1, <1>2, <1>3, <1>4, <1>5 DEF Explains

\* A request that turns into a sound one.
LEMMA AccessRequestTurns ==
  ASSUME AllAccessSound, UNCHANGED <<user, held, clock>>,
         NEW r \in Requests, NEW q \in AccessRequest, AccessSound(q, user, held, clock),
         request' = [request EXCEPT ![r] = q]
  PROVE  AccessRequests(request', user', held', clock')
<1>1. request \in [Requests -> AccessRequest]
      /\ \A s \in Requests : AccessSound(request[s], user, held, clock)
  BY DEF AllAccessSound, AccessRequests
<1>2. request' \in [Requests -> AccessRequest]
      /\ \A s \in Requests : AccessSound(request'[s], user, held, clock)
  BY <1>1
<1>3. QED
  BY <1>2 DEF AccessRequests

\* A cache that gets an entry, or loses one.
LEMMA AccessEntryMoves ==
  ASSUME AllAccessSound, UNCHANGED <<user, held, clock>>,
         NEW p \in Processes, NEW u \in Users, NEW e \in AccessEntry,
         e.at # Access!Never =>
           e.at <= clock /\ HadSince(e.access, e.at - MaxQuery, user[u], held[u]),
         cache' = [cache EXCEPT ![p][u] = e]
  PROVE  AccessCopies(cache', user', held', clock')
<1>1. AccessCopies(cache, user, held, clock)
  BY DEF AllAccessSound
<1>2. cache' \in [Processes -> [Users -> AccessEntry]]
  BY <1>1 DEF AccessCopies
<1>3. \A q \in Processes, v \in Users :
        cache'[q][v] = IF q = p /\ v = u THEN e ELSE cache[q][v]
  BY <1>1 DEF AccessCopies
<1>4. AccessCopies(cache', user, held, clock)
  BY <1>1, <1>2, <1>3 DEF AccessCopies
<1>5. QED
  BY <1>4

\* What a request is turned into by Begins and Decides, or when it ends.
LEMMA AccessTasks ==
  ASSUME AllAccessSound, NEW r \in Requests, UNCHANGED <<user, held, clock>>
  PROVE  /\ Access!Ends(r) => AccessRequests(request', user', held', clock')
         /\ \A task \in {"lookup", "enroll", "invalidate"}, p \in Processes, u \in Users,
               enrolls \in BOOLEAN :
              Access!Begins(r, task, p, u, enrolls)
                => AccessRequests(request', user', held', clock')
<1>1. ASSUME Access!Ends(r) PROVE AccessRequests(request', user', held', clock')
  BY <1>1, AccessRecords, AccessRequestTurns DEF Access!Ends, AccessSound
<1>2. ASSUME NEW task \in {"lookup", "enroll", "invalidate"}, NEW p \in Processes,
             NEW u \in Users, NEW enrolls \in BOOLEAN, Access!Begins(r, task, p, u, enrolls)
      PROVE  AccessRequests(request', user', held', clock')
  <2> DEFINE q == [Access!Idle EXCEPT !.task = task, !.process = p, !.user = u,
                                      !.enrolls = enrolls]
  <2>1. q \in AccessRequest /\ q.task = task /\ q.process = p /\ q.user = u
    BY AccessRecords DEF AccessRequest, Access!Tasks, Access!Idle
  <2>2. request' = [request EXCEPT ![r] = q]
    BY <1>2 DEF Access!Begins
  <2> HIDE DEF q
  <2>3. AccessSound(q, user, held, clock)
    BY <2>1 DEF AccessSound
  <2>4. QED
    BY <2>1, <2>2, <2>3, AccessRequestTurns
<1>3. QED
  BY <1>1, <1>2

\* When a row changes, what was known stays known: the flags it loses are remembered.
LEMMA AccessRowMoves ==
  ASSUME AllAccessSound, NEW u \in Users, NEW account \in UserRow, Access!Sets(u, account),
         UNCHANGED clock
  PROVE  /\ AccessTables(user', held', clock)
         /\ \A v \in Users, f \in Access!Access, t \in Int :
              t <= clock /\ HadSince(f, t, user[v], held[v]) => HadSince(f, t, user'[v], held'[v])
<1>1. /\ user' = [user EXCEPT ![u] = account]
      /\ held' = [held EXCEPT ![u][FlagsOf(user[u])] = clock]
  BY FlagsSame DEF Access!Sets
<1>2. /\ user \in [Users -> UserRow] /\ held \in [Users -> Past] /\ clock \in Access!Time
      /\ \A v \in Users, f \in Access!Access : held[v][f] <= clock
      /\ clock \in Nat /\ Access!Never = -1
  BY AccessConstants DEF AllAccessSound, AccessTables
<1>3. /\ user' \in [Users -> UserRow] /\ held' \in [Users -> Past]
      /\ \A v \in Users \ {u} : user'[v] = user[v] /\ held'[v] = held[v]
      /\ held'[u] = [held[u] EXCEPT ![FlagsOf(user[u])] = clock]
  BY <1>1, <1>2, AccessRecords DEF Past
<1>4. \A f \in Access!Access : held'[u][f] = IF f = FlagsOf(user[u]) THEN clock ELSE held[u][f]
  BY <1>2, <1>3 DEF Past
<1>5. AccessTables(user', held', clock)
  <2>1. ASSUME NEW v \in Users, NEW f \in Access!Access PROVE held'[v][f] <= clock
    <3>1. CASE v = u
      BY <1>2, <1>4, <3>1
    <3>2. CASE v # u
      BY <1>2, <1>3, <3>2
    <3>3. QED
      BY <3>1, <3>2
  <2>2. QED
    BY <1>2, <1>3, <2>1 DEF AccessTables
<1>6. ASSUME NEW v \in Users, NEW f \in Access!Access, NEW t \in Int, t <= clock,
             HadSince(f, t, user[v], held[v])
      PROVE  HadSince(f, t, user'[v], held'[v])
  <2>1. CASE v = u
    BY <1>2, <1>4, <1>6, <2>1 DEF HadSince
  <2>2. CASE v # u
    BY <1>3, <1>6, <2>2
  <2>3. QED
    BY <2>1, <2>2
<1>7. QED
  BY <1>5, <1>6

\* The row changes, its event is logged, and the request goes on to something that is about
\* an account and has read nothing.
LEMMA AccessRowStep ==
  ASSUME AllAccessSound, NEW u \in Users, NEW account \in UserRow, Access!Sets(u, account),
         NEW e \in Access!Event, Access!Logs(u, e), UNCHANGED <<clock, cache>>,
         Explains(Append(log[u], e), account),
         \/ UNCHANGED request
         \/ \E r \in Requests, q \in AccessRequest :
              /\ request' = [request EXCEPT ![r] = q]
              /\ q.task # "found" /\ q.user \in Users /\ q.process \in Processes
  PROVE  AllAccessSound'
<1>1. /\ AccessTables(user', held', clock)
      /\ \A v \in Users, f \in Access!Access, t \in Int :
           t <= clock /\ HadSince(f, t, user[v], held[v]) => HadSince(f, t, user'[v], held'[v])
  BY AccessRowMoves
<1>2. /\ user' = [user EXCEPT ![u] = account] /\ user \in [Users -> UserRow]
      /\ log' = [log EXCEPT ![u] = Append(@, e)] /\ log \in [Users -> Seq(Access!Event)]
      /\ \A v \in Users : Explains(log[v], user[v])
      /\ clock \in Nat /\ MaxQuery \in Nat
  BY AccessConstants DEF Access!Sets, Access!Logs, AllAccessSound, AccessTables, AccessLogs
<1>3. AccessLogs(log', user')
  <2>1. log' \in [Users -> Seq(Access!Event)]
    BY <1>2
  <2>2. \A v \in Users : Explains(log'[v], user'[v])
    BY <1>2
  <2>3. QED
    BY <2>1, <2>2 DEF AccessLogs
<1>4. AccessCopies(cache, user', held', clock)
  <2>1. AccessCopies(cache, user, held, clock)
    BY DEF AllAccessSound
  <2>2. ASSUME NEW p \in Processes, NEW v \in Users, cache[p][v].at # Access!Never
        PROVE  HadSince(cache[p][v].access, cache[p][v].at - MaxQuery, user'[v], held'[v])
    <3>1. cache[p][v] \in AccessEntry
      BY <2>1 DEF AccessCopies
    <3>2. cache[p][v].access \in Access!Access /\ cache[p][v].at \in Nat
      BY <2>2, <3>1, AccessConstants DEF AccessEntry
    <3>3. /\ cache[p][v].at <= clock
          /\ HadSince(cache[p][v].access, cache[p][v].at - MaxQuery, user[v], held[v])
      BY <2>1, <2>2 DEF AccessCopies
    <3>4. cache[p][v].at - MaxQuery \in Int /\ cache[p][v].at - MaxQuery <= clock
      BY <1>2, <3>2, <3>3
    <3>5. QED
      BY <1>1, <3>2, <3>3, <3>4
  <2>3. QED
    BY <2>1, <2>2 DEF AccessCopies
<1>5. ASSUME NEW s \in Requests PROVE AccessSound(request[s], user', held', clock)
  <2>1. request[s] \in AccessRequest /\ AccessSound(request[s], user, held, clock)
    BY DEF AllAccessSound, AccessRequests
  <2>2. CASE request[s].task = "found"
    <3>1. /\ request[s].user \in Users /\ request[s].process \in Processes
          /\ request[s].since <= clock /\ clock - request[s].since <= MaxQuery
          /\ HadSince(request[s].access, request[s].since, user[request[s].user],
                      held[request[s].user])
      BY <2>1, <2>2 DEF AccessSound
    <3>2. request[s].access \in Access!Access /\ request[s].since \in Access!Time
      BY <2>1 DEF AccessRequest
    <3>3. request[s].access \in Access!Access /\ request[s].since \in Int
      BY <3>2, AccessConstants
    <3>4. HadSince(request[s].access, request[s].since, user'[request[s].user],
                   held'[request[s].user])
      BY <1>1, <3>1, <3>3
    <3>5. QED
      BY <3>1, <3>4 DEF AccessSound
  <2>3. CASE request[s].task # "found"
    BY <2>1, <2>3 DEF AccessSound
  <2>4. QED
    BY <2>2, <2>3
<1>6. request \in [Requests -> AccessRequest]
  BY DEF AllAccessSound, AccessRequests
<1>7. AccessRequests(request', user', held', clock)
  <2>1. CASE UNCHANGED request
    BY <1>5, <1>6, <2>1 DEF AccessRequests
  <2>2. ASSUME NEW r \in Requests, NEW q \in AccessRequest,
               request' = [request EXCEPT ![r] = q],
               q.task # "found", q.user \in Users, q.process \in Processes
        PROVE  AccessRequests(request', user', held', clock)
    <3>1. AccessSound(q, user', held', clock)
      BY <2>2 DEF AccessSound
    <3>2. \A s \in Requests : AccessSound(request'[s], user', held', clock)
      BY <1>5, <1>6, <2>2, <3>1
    <3>3. QED
      BY <1>6, <2>2, <3>2 DEF AccessRequests
  <2>3. QED
    BY <2>1, <2>2
<1>8. QED
  BY <1>1, <1>3, <1>4, <1>7 DEF AllAccessSound

\* Each handler keeps the tables, the logs, the copies and what the requests have read.
LEMMA AccessStep ==
  ASSUME AllAccessSound, [Access!Next]_(Access!vars)
  PROVE  AllAccessSound'
<1>1. /\ clock \in Access!Time /\ clock \in Nat /\ MaxQuery \in Nat
      /\ user \in [Users -> UserRow] /\ log \in [Users -> Seq(Access!Event)]
      /\ cache \in [Processes -> [Users -> AccessEntry]]
      /\ request \in [Requests -> AccessRequest]
      /\ \A u \in Users : Explains(log[u], user[u])
      /\ \A r \in Requests : AccessSound(request[r], user, held, clock)
  BY AccessConstants DEF AllAccessSound, AccessTables, AccessLogs, AccessCopies, AccessRequests
<1>2. /\ AccessTables(user, held, clock) /\ AccessLogs(log, user)
      /\ AccessCopies(cache, user, held, clock) /\ AccessRequests(request, user, held, clock)
  BY DEF AllAccessSound
\* Steps that leave the rows alone.
<1>3. ASSUME UNCHANGED <<clock, user, log, held>>,
             AccessCopies(cache', user', held', clock'),
             AccessRequests(request', user', held', clock')
      PROVE  AllAccessSound'
  BY <1>2, <1>3 DEF AllAccessSound
<1>4. ASSUME UNCHANGED <<clock, user, log, held, cache>>,
             AccessRequests(request', user', held', clock')
      PROVE  AllAccessSound'
  BY <1>2, <1>3, <1>4
<1>5. ASSUME NEW r \in Requests, NEW p \in Processes, NEW u \in Users, NEW enrolls \in BOOLEAN,
             NEW known, Access!Decides(r, p, u, enrolls, known), UNCHANGED <<user, held, clock>>
      PROVE  AccessRequests(request', user', held', clock')
  BY <1>5, AccessTasks DEF Access!Decides
<1>6. ASSUME NEW r \in Requests, NEW p \in Processes, NEW u \in Users, NEW route \in Access!Routes,
             Access!Ask(r, p, u, route)
      PROVE  AllAccessSound'
  <2>1. UNCHANGED <<clock, user, log, held, cache>>
    BY <1>6 DEF Access!Ask
  <2>2. (route = "enroll") \in BOOLEAN
    OBVIOUS
  <2>3. CASE Access!Live(p, u)
             /\ Access!Decides(r, p, u, route = "enroll", cache[p][u].access)
    BY <1>4, <1>5, <2>1, <2>2, <2>3
  <2>4. CASE Access!Begins(r, "lookup", p, u, route = "enroll")
    BY <1>4, <2>1, <2>2, <2>4, AccessTasks
  <2>5. QED
    BY <1>6, <2>3, <2>4 DEF Access!Ask
<1>7. ASSUME NEW r \in Requests, Access!ReadAccess(r) PROVE AllAccessSound'
  <2> DEFINE q == [request[r] EXCEPT !.task = "found", !.since = clock,
                                     !.access = Access!Flags(request[r].user)]
  <2>1. request[r].task = "lookup" /\ request[r] \in AccessRequest
        /\ request[r].user \in Users /\ request[r].process \in Processes
    BY <1>1, <1>7 DEF Access!ReadAccess, Access!Is, AccessSound
  <2>2. Access!Flags(request[r].user) = FlagsOf(user[request[r].user])
        /\ FlagsOf(user[request[r].user]) \in Access!Access
    BY FlagsSame, AccessRecords
  <2>3. /\ q \in AccessRequest /\ q.task = "found" /\ q.since = clock
        /\ q.access = FlagsOf(user[request[r].user])
        /\ q.user = request[r].user /\ q.process = request[r].process
    BY <1>1, <2>1, <2>2 DEF AccessRequest, Access!Tasks
  <2>4. request' = [request EXCEPT ![r] = q] /\ UNCHANGED <<clock, user, log, held, cache>>
    BY <1>7 DEF Access!ReadAccess
  <2> HIDE DEF q
  <2>5. AccessSound(q, user, held, clock)
    BY <1>1, <2>1, <2>3 DEF AccessSound, HadSince
  <2>6. QED
    BY <1>4, <2>3, <2>4, <2>5, AccessRequestTurns
<1>8. ASSUME NEW r \in Requests, Access!CacheAccess(r) PROVE AllAccessSound'
  <2> DEFINE p == request[r].process
             u == request[r].user
             e == [access |-> request[r].access, at |-> clock]
  <2>1. /\ cache' = [cache EXCEPT ![p][u] = e]
        /\ Access!Decides(r, p, u, request[r].enrolls, request[r].access)
        /\ UNCHANGED <<clock, user, log, held>> /\ request[r].task = "found"
    BY <1>8 DEF Access!CacheAccess, Access!Is
  <2>2. /\ request[r] \in AccessRequest /\ p \in Processes /\ u \in Users
        /\ request[r].since <= clock /\ clock - request[r].since <= MaxQuery
        /\ HadSince(request[r].access, request[r].since, user[u], held[u])
    BY <1>1, <2>1 DEF AccessSound
  <2>3. /\ e \in AccessEntry /\ e.at = clock /\ e.access = request[r].access
        /\ request[r].enrolls \in BOOLEAN /\ request[r].since \in Nat
        /\ request[r].access \in Access!Access
    BY <1>1, <2>2, AccessConstants DEF AccessEntry, AccessRequest
  <2> HIDE DEF p, u, e
  <2>4. held[u][request[r].access] \in Int
    BY <1>2, <2>2, <2>3, AccessConstants DEF AccessTables, Past
  <2>5. HadSince(e.access, e.at - MaxQuery, user[u], held[u])
    BY <1>1, <2>2, <2>3, <2>4 DEF HadSince
  <2>6. AccessCopies(cache', user', held', clock')
    <3>1. e.at <= clock /\ UNCHANGED <<user, held, clock>>
      BY <1>1, <2>1, <2>3
    <3>2. QED
      BY <2>1, <2>2, <2>3, <2>5, <3>1, AccessEntryMoves
  <2>7. AccessRequests(request', user', held', clock')
    BY <1>5, <2>1, <2>2, <2>3
  <2>8. QED
    BY <1>3, <2>1, <2>6, <2>7
<1>9. ASSUME NEW r \in Requests, Access!Invalidate(r) PROVE AllAccessSound'
  <2>1. /\ cache' = [cache EXCEPT ![request[r].process][request[r].user] = Access!NoEntry]
        /\ Access!Ends(r) /\ UNCHANGED <<clock, user, log, held>>
        /\ request[r].task = "invalidate"
    BY <1>9 DEF Access!Invalidate, Access!Is
  <2>2. request[r].process \in Processes /\ request[r].user \in Users
    BY <1>1, <2>1 DEF AccessSound
  <2>3. AccessCopies(cache', user', held', clock')
    BY <2>1, <2>2, AccessRecords, AccessEntryMoves
  <2>4. QED
    BY <1>3, <2>1, <2>3, AccessTasks
<1>10. ASSUME NEW r \in Requests, Access!RequestDies(r) PROVE AllAccessSound'
  BY <1>4, <1>10, AccessTasks DEF Access!RequestDies
<1>11. ASSUME NEW p \in Processes, Access!Restart(p) PROVE AllAccessSound'
  <2>1. /\ cache' = [cache EXCEPT ![p] = [u \in Users |-> Access!NoEntry]]
        /\ request' = [r \in Requests |-> IF request[r].process = p THEN Access!Idle
                                                                   ELSE request[r]]
        /\ UNCHANGED <<clock, user, log, held>>
    BY <1>11 DEF Access!Restart
  <2>2. AccessCopies(cache', user, held, clock)
    <3>1. cache' \in [Processes -> [Users -> AccessEntry]]
      BY <1>1, <2>1, AccessRecords
    <3>2. \A q \in Processes, u \in Users :
            cache'[q][u] = IF q = p THEN Access!NoEntry ELSE cache[q][u]
      BY <1>1, <2>1
    <3>3. QED
      BY <1>2, <3>1, <3>2, AccessRecords DEF AccessCopies
  <2>3. AccessRequests(request', user, held, clock)
    <3>1. AccessSound(Access!Idle, user, held, clock)
      BY AccessRecords DEF AccessSound
    <3>2. QED
      BY <1>1, <2>1, <3>1, AccessRecords DEF AccessRequests
  <2>4. QED
    BY <1>3, <2>1, <2>2, <2>3
<1>12. CASE Access!Tick
  <2>1. /\ clock < MaxTime /\ clock' = clock + 1
        /\ \A r \in Requests : Access!Is(r, "found") => clock - request[r].since < MaxQuery
        /\ UNCHANGED <<user, log, cache, request, held>>
    BY <1>12 DEF Access!Tick
  <2>2. AccessTables(user, held, clock')
    <3>1. clock' \in Access!Time
      BY <1>1, <2>1, AccessConstants DEF Access!Time
    <3>2. ASSUME NEW u \in Users, NEW f \in Access!Access PROVE held[u][f] <= clock'
      <4>1. held[u] \in Past /\ held[u][f] <= clock
        BY <1>2 DEF AccessTables
      <4>2. held[u][f] \in Access!Time \cup {Access!Never}
        BY <4>1 DEF Past
      <4>3. held[u][f] \in Int
        BY <4>2, AccessConstants
      <4>4. QED
        BY <1>1, <2>1, <4>1, <4>3
    <3>3. QED
      BY <1>2, <3>1, <3>2 DEF AccessTables
  <2>3. AccessCopies(cache, user, held, clock')
    <3>1. ASSUME NEW p \in Processes, NEW u \in Users PROVE cache[p][u].at \in Int
      <4>1. cache[p][u] \in AccessEntry
        BY <1>1
      <4>2. cache[p][u].at \in Access!Time \cup {Access!Never}
        BY <4>1 DEF AccessEntry
      <4>3. QED
        BY <4>2, AccessConstants
    <3>2. QED
      BY <1>1, <1>2, <2>1, <3>1 DEF AccessCopies
  <2>4. AccessRequests(request, user, held, clock')
    <3>1. ASSUME NEW r \in Requests PROVE request[r].since \in Int
      <4>1. request[r].since \in Access!Time
        BY <1>1 DEF AccessRequest
      <4>2. QED
        BY <4>1, AccessConstants
    <3>2. \A r \in Requests : AccessSound(request[r], user, held, clock')
      BY <1>1, <2>1, <3>1 DEF AccessSound, Access!Is
    <3>3. QED
      BY <1>1, <3>2 DEF AccessRequests
  <2>5. QED
    BY <1>2, <2>1, <2>2, <2>3, <2>4 DEF AllAccessSound
<1>13. CASE UNCHANGED Access!vars
  BY <1>2, <1>13 DEF Access!vars, AllAccessSound
\* Steps that change a row.
<1>14. ASSUME NEW u \in Users, NEW status \in {"ACTIVE", "SUSPENDED"}, NEW e \in Access!Event,
              e = IF status = "SUSPENDED" THEN "suspended" ELSE "reinstated",
              Access!Sets(u, [user[u] EXCEPT !.status = status]), Access!Logs(u, e),
              NEW r \in Requests, NEW p \in Processes,
              Access!Begins(r, "invalidate", p, u, FALSE), UNCHANGED <<clock, cache>>
       PROVE  AllAccessSound'
  <2> DEFINE account == [user[u] EXCEPT !.status = status]
             q == [Access!Idle EXCEPT !.task = "invalidate", !.process = p, !.user = u,
                                      !.enrolls = FALSE]
  <2>1. /\ account \in UserRow /\ account.status = status
        /\ account.seller = user[u].seller
    BY <1>1 DEF UserRow
  <2>2. /\ q \in AccessRequest /\ q.task # "found" /\ q.user = u /\ q.process = p
        /\ request' = [request EXCEPT ![r] = q]
    BY <1>14, AccessRecords DEF AccessRequest, Access!Tasks, Access!Idle, Access!Begins
  <2>3. Access!Sets(u, account)
    BY <1>14
  <2> HIDE DEF account, q
  <2>4. Explains(Append(log[u], e), account)
    BY <1>1, <1>14, <2>1, ExplainsAppend
  <2>5. QED
    BY <1>14, <2>1, <2>2, <2>3, <2>4, AccessRowStep
<1>15. ASSUME NEW r \in Requests, NEW p \in Processes, NEW u \in Users,
              Access!Suspend(r, p, u) \/ Access!Reinstate(r, p, u)
       PROVE  AllAccessSound'
  <2>1. "suspended" \in Access!Event /\ "reinstated" \in Access!Event
    BY DEF Access!Event
  <2>2. CASE Access!Suspend(r, p, u)
    BY <1>14, <2>1, <2>2 DEF Access!Suspend
  <2>3. CASE Access!Reinstate(r, p, u)
    BY <1>14, <2>1, <2>3 DEF Access!Reinstate
  <2>4. QED
    BY <1>15, <2>2, <2>3
<1>16. ASSUME NEW r \in Requests, NEW details \in Details, Access!Enroll(r, details)
       PROVE  AllAccessSound'
  <2> DEFINE u == request[r].user
             q == [request[r] EXCEPT !.task = "invalidate"]
             account == [user[u] EXCEPT !.seller = details]
  <2>1. /\ request[r].task = "enroll" /\ UNCHANGED <<clock, cache>>
        /\ request[r] \in AccessRequest /\ u \in Users /\ request[r].process \in Processes
    BY <1>1, <1>16 DEF Access!Enroll, Access!Is, AccessSound
  <2>2. /\ q \in AccessRequest /\ q.task = "invalidate"
        /\ q.user = u /\ q.process = request[r].process
    BY <2>1 DEF AccessRequest, Access!Tasks
  <2>3. /\ account \in UserRow /\ account.seller = details
        /\ account.status = user[u].status
    <3>1. user[u] \in UserRow
      BY <1>1, <2>1
    <3>2. QED
      BY <3>1 DEF UserRow
  <2>4. CASE request' = [request EXCEPT ![r] = q] /\ UNCHANGED <<user, held, log>>
    <3>1. AccessSound(q, user, held, clock)
      BY <2>1, <2>2 DEF AccessSound
    <3> HIDE DEF q
    <3>2. AccessRequests(request', user', held', clock')
      BY <2>1, <2>2, <2>4, <3>1, AccessRequestTurns
    <3>3. QED
      BY <1>4, <2>1, <2>4, <3>2
  <2>5. CASE /\ user[u].seller = NoDetails /\ Access!Sets(u, account)
             /\ Access!Logs(u, details) /\ request' = [request EXCEPT ![r] = q]
    <3>1. details \in Access!Event /\ details \notin {"suspended", "reinstated"}
      BY AccessConstants DEF Access!Event
    <3> HIDE DEF account, q
    <3>2. Explains(Append(log[u], details), account)
      BY <1>1, <2>1, <2>3, <2>5, <3>1, ExplainsAppend
    <3>3. QED
      BY <2>1, <2>2, <2>3, <2>5, <3>1, <3>2, AccessRowStep
  <2>6. CASE Access!Ends(r) /\ UNCHANGED <<user, held, log>>
    BY <1>4, <2>1, <2>6, AccessTasks
  <2>7. QED
    BY <1>16, <2>4, <2>5, <2>6 DEF Access!Enroll
<1>17. ASSUME NEW u \in Users, Access!Anonymize(u) PROVE AllAccessSound'
  <2> DEFINE account == [user[u] EXCEPT !.seller = NoDetails]
  <2>1. /\ account \in UserRow /\ account.seller = NoDetails
        /\ account.status = user[u].status
    <3>1. user[u] \in UserRow
      BY <1>1
    <3>2. QED
      BY <3>1 DEF UserRow
  <2>2. Access!Sets(u, account) /\ Access!Logs(u, "deleted") /\ UNCHANGED <<clock, cache, request>>
    BY <1>17 DEF Access!Anonymize
  <2>3. "deleted" \in Access!Event
    BY DEF Access!Event
  <2> HIDE DEF account
  <2>4. Explains(Append(log[u], "deleted"), account)
    BY <1>1, <2>1, <2>3, ExplainsAppend
  <2>5. QED
    BY <2>1, <2>2, <2>3, <2>4, AccessRowStep
<1>18. QED
  BY <1>6, <1>7, <1>8, <1>9, <1>10, <1>11, <1>12, <1>13, <1>15, <1>16, <1>17 DEF Access!Next

\* So does each step of Services; at the start, nothing has been stored or read.
LEMMA AccessInduct == (Init => AccessInv) /\ (AccessInv /\ [Next]_all => AccessInv')
<1>1. Access!Init => AllAccessSound
  <2> SUFFICES ASSUME Access!Init PROVE AllAccessSound
    OBVIOUS
  <2>1. /\ clock = 0 /\ user \in [Users -> UserRow]
        /\ \A u \in Users : user[u].status = "ACTIVE"
        /\ log = [u \in Users |-> IF user[u].seller = NoDetails THEN <<>> ELSE <<user[u].seller>>]
        /\ cache = [p \in Processes |-> [u \in Users |-> Access!NoEntry]]
        /\ request = [r \in Requests |-> Access!Idle]
        /\ held = [u \in Users |-> [f \in Access!Access |-> Access!Never]]
    BY DEF Access!Init, UserRow
  <2>2. AccessTables(user, held, clock)
    BY <2>1, AccessConstants DEF AccessTables, Past
  <2>3. ASSUME NEW u \in Users
        PROVE  log[u] \in Seq(Access!Event) /\ Explains(log[u], user[u])
    <3>1. user[u] \in UserRow /\ user[u].status # "SUSPENDED"
      BY <2>1
    <3>2. LastOf({"suspended", "reinstated"}, <<>>) = "none" /\ LastSeller(<<>>) = NoDetails
          /\ <<>> \in Seq(Access!Event)
      BY AccessConstants DEF LastOf, LastSeller
    <3>3. CASE user[u].seller = NoDetails
      <4>1. log[u] = <<>>
        BY <2>1, <3>3
      <4>2. QED
        BY <3>1, <3>2, <3>3, <4>1 DEF Explains
    <3>4. CASE user[u].seller # NoDetails
      <4> DEFINE d == user[u].seller
      <4>1. d \in Details /\ d \in Access!Event /\ log[u] = <<d>> /\ <<d>> = Append(<<>>, d)
        BY <2>1, <3>1, <3>4 DEF UserRow, Access!Event
      <4>2. /\ d \notin {"suspended", "reinstated", "deleted"}
            /\ <<d>> \in Seq(Access!Event) /\ d \in Details \cup {"deleted"}
        BY <4>1, AccessConstants
      <4> HIDE DEF d
      <4>3. \A events : LastOf(events, Append(<<>>, d))
                           = IF d \in events THEN d ELSE LastOf(events, <<>>)
        BY <3>2, <4>1, LastAppended
      <4>4. LastOf({"suspended", "reinstated"}, <<d>>) = "none"
        BY <3>2, <4>1, <4>2, <4>3
      <4>5. LastOf(Details \cup {"deleted"}, <<d>>) = d
        BY <4>1, <4>2, <4>3
      <4>6. Explains(<<d>>, user[u])
        <5>1. LastSeller(<<d>>) = d
          BY <4>1, <4>5 DEF LastSeller
        <5>2. user[u].seller = d /\ user[u].seller # NoDetails /\ user[u].status # "SUSPENDED"
          BY <3>1, <3>4 DEF d
        <5>3. DOMAIN <<d>> = 1 .. 1
          OBVIOUS
        <5>4. QED
          BY <4>4, <5>1, <5>2, <5>3 DEF Explains
      <4>7. QED
        BY <4>1, <4>2, <4>6
    <3>5. QED
      BY <3>3, <3>4
  <2>4. AccessLogs(log, user)
    BY <2>1, <2>3 DEF AccessLogs
  <2>5. AccessCopies(cache, user, held, clock)
    BY <2>1, AccessRecords DEF AccessCopies
  <2>6. AccessRequests(request, user, held, clock)
    BY <2>1, AccessRecords DEF AccessRequests, AccessSound
  <2>7. QED
    BY <2>2, <2>4, <2>5, <2>6 DEF AllAccessSound
<1>2. Init => AccessInv
  BY <1>1, FocusInit DEF AccessInv
<1>3. AccessInv /\ [Next]_all => AccessInv'
  BY FocusStep, AccessStep DEF AccessInv
<1>4. QED
  BY <1>2, <1>3

\* The decision requireAuth makes from what it knows is the one its comment promises for that.
LEMMA DecisionIsEntitled ==
  ASSUME NEW u, NEW route \in Access!Routes, NEW known
  PROVE  Access!Allows(u, route, known) <=> Access!Entitled(u, route, known)
<1>1. route \in {"own", "manage", "sell", "finish", "enroll"}
  BY DEF Access!Routes
<1>2. /\ Access!Roles("own") = {"BUYER", "SELLER", "ADMIN"}
      /\ Access!Roles("manage") = {"ADMIN"} /\ Access!Roles("enroll") = {"BUYER"}
      /\ Access!Roles("sell") = {"SELLER"} /\ Access!Roles("finish") = {"BUYER", "SELLER"}
  BY DEF Access!Roles
<1>3. Access!RoleRefused(u, route)
        <=> IF Access!Admin(u) THEN route \notin {"own", "manage"} ELSE route = "manage"
  BY <1>1, <1>2 DEF Access!RoleRefused
<1>4. "BUYER" \in Access!Roles(route) <=> route \in {"own", "finish", "enroll"}
  BY <1>1, <1>2
<1>5. "SELLER" \in Access!Roles(route) <=> route \in {"own", "finish", "sell"}
  BY <1>1, <1>2
<1>6. CASE Access!Admin(u)
  BY <1>1, <1>3, <1>6 DEF Access!Allows, Access!Entitled
<1>7. CASE ~Access!Admin(u)
  BY <1>1, <1>3, <1>4, <1>5, <1>7 DEF Access!Allows, Access!Entitled
<1>8. QED
  BY <1>6, <1>7

\* Whatever a process answers a request, from its cache or from a row on its way there, is right
\* for flags the account has, or had less than a cache life and a query ago, although only the
\* process that served a change drops its entry (requireAuth, getAccountAccess).
THEOREM AnswersAreRecentAlways == Spec => []AnswersAreRecent
<1>1. ASSUME AllAccessSound, NEW u \in Users, NEW flags \in Access!Access, NEW t \in Int,
             clock - t < TTL + MaxQuery, HadSince(flags, t, user[u], held[u])
      PROVE  Access!Recent(u, flags)
  <2>1. clock \in Int /\ held[u][flags] \in Access!Time \cup {Access!Never}
        /\ TTL \in Int /\ MaxQuery \in Int
    BY <1>1, AccessConstants DEF AllAccessSound, AccessTables, Past
  <2>2. held[u][flags] \in Int
    BY <2>1, AccessConstants
  <2>3. QED
    BY <1>1, <2>1, <2>2, FlagsSame DEF HadSince, Access!Recent
<1>2. AllAccessSound => Access!AnswersAreRecent
  <2> SUFFICES ASSUME AllAccessSound, NEW u \in Users, NEW route \in Access!Routes
               PROVE  /\ \A p \in Processes : Access!Live(p, u) =>
                           \E f \in Access!Access : Access!Recent(u, f)
                             /\ (Access!Allows(u, route, cache[p][u].access)
                                   <=> Access!Entitled(u, route, f))
                      /\ \A r \in Requests : Access!Is(r, "found") /\ request[r].user = u =>
                           \E f \in Access!Access : Access!Recent(u, f)
                             /\ (Access!Allows(u, route, request[r].access)
                                   <=> Access!Entitled(u, route, f))
    BY DEF Access!AnswersAreRecent
  <2>1. clock \in Int /\ TTL \in Nat \ {0} /\ MaxQuery \in Nat
    BY AccessConstants DEF AllAccessSound, AccessTables
  <2>2. ASSUME NEW p \in Processes, Access!Live(p, u)
        PROVE  cache[p][u].access \in Access!Access /\ Access!Recent(u, cache[p][u].access)
    <3>1. cache[p][u].at # Access!Never /\ clock - cache[p][u].at < TTL
      BY <2>2 DEF Access!Live
    <3>2. /\ cache[p][u] \in AccessEntry
          /\ HadSince(cache[p][u].access, cache[p][u].at - MaxQuery, user[u], held[u])
      BY <3>1 DEF AllAccessSound, AccessCopies
    <3>3. cache[p][u].access \in Access!Access /\ cache[p][u].at \in Access!Time \cup {Access!Never}
      BY <3>2 DEF AccessEntry
    <3>4. cache[p][u].at \in Int
      BY <3>3, AccessConstants
    <3>5. cache[p][u].at - MaxQuery \in Int /\ clock - (cache[p][u].at - MaxQuery) < TTL + MaxQuery
      BY <2>1, <3>1, <3>4
    <3>6. QED
      BY <1>1, <3>2, <3>3, <3>5
  <2>3. ASSUME NEW r \in Requests, Access!Is(r, "found"), request[r].user = u
        PROVE  request[r].access \in Access!Access /\ Access!Recent(u, request[r].access)
    <3>1. /\ request[r] \in AccessRequest
          /\ clock - request[r].since <= MaxQuery
          /\ HadSince(request[r].access, request[r].since, user[u], held[u])
      BY <2>3 DEF AllAccessSound, AccessRequests, AccessSound, Access!Is
    <3>2. request[r].access \in Access!Access /\ request[r].since \in Access!Time
      BY <3>1 DEF AccessRequest
    <3>3. request[r].since \in Int
      BY <3>2, AccessConstants
    <3>4. clock - request[r].since < TTL + MaxQuery
      BY <2>1, <3>1, <3>3
    <3>5. QED
      BY <1>1, <3>1, <3>2, <3>3, <3>4
  <2>4. QED
    BY <2>2, <2>3, DecisionIsEntitled
<1>3. AccessInv => AnswersAreRecent
  BY <1>2 DEF AccessInv, AnswersAreRecent
<1>4. QED
  BY <1>3, AccessInduct, PTL DEF Spec

\* The audit log explains the row of an account, whoever suspends, reinstates, enrols and deletes
\* it at the same time: the last word on its status stands, and its seller's details are those of
\* the one enrolment since it was last deleted (suspendUser, reinstateUser, enrollSeller,
\* anonymizeUser).
THEOREM AuditExplainsRowAlways == Spec => []AuditExplainsRow
<1>1. AllAccessSound => Access!AuditExplainsRow
  <2> SUFFICES ASSUME AllAccessSound, NEW u \in Users
               PROVE  /\ user[u].status = "SUSPENDED"
                           <=> Access!Last(u, {"suspended", "reinstated"}) = "suspended"
                      /\ LET last == Access!Last(u, Details \cup {"deleted"})
                         IN user[u].seller = IF last \in Details THEN last ELSE NoDetails
                      /\ \A i, j \in DOMAIN log[u] :
                           i < j /\ {log[u][i], log[u][j]} \subseteq Details
                             => \E k \in i .. j : log[u][k] = "deleted"
    BY DEF Access!AuditExplainsRow
  <2>1. Explains(log[u], user[u])
    BY DEF AllAccessSound, AccessLogs
  <2>2. \A events : Access!Last(u, events) = LastOf(events, log[u])
    BY DEF Access!Last, LastOf
  <2>3. QED
    BY <2>1, <2>2 DEF Explains, LastSeller
<1>2. AccessInv => AuditExplainsRow
  BY <1>1 DEF AccessInv, AuditExplainsRow
<1>3. QED
  BY <1>2, AccessInduct, PTL DEF Spec

-----------------------------------------------------------------------------
(* The rooms of a socket.                                                  *)

Wishes == {"none", "join", "leave"}
PendingOf(commands) == {room \in Rooms : commands[room] # "none"}

\* Why the last command wins: a lookup in flight knows it, and where there is none the room is
\* joined exactly if it asked for that.
RoomsSound(up, rooms, commands, wishes) ==
  /\ up \in BOOLEAN /\ rooms \subseteq Rooms
  /\ commands \in [Rooms -> Wishes] /\ wishes \in [Rooms -> Wishes]
  /\ \A room \in Rooms :
       /\ commands[room] # "none" => wishes[room] = commands[room] /\ room \notin rooms
       /\ room \in rooms => wishes[room] = "join"
       /\ up /\ wishes[room] = "join" /\ commands[room] = "none" => room \in rooms
  /\ ~up => rooms = {}
RoomsCounted(rooms, commands) ==
  /\ IsFiniteSet(rooms) /\ IsFiniteSet(PendingOf(commands))
  /\ Cardinality(rooms) + Cardinality(PendingOf(commands)) <= MAX_AUCTION_ROOMS

\* What has been served up to each time: the sum that Served computes.  A behaviour yields it
\* step by step, so no induction over the numbers is needed to know that there is one.
SumsUp(g, counts) ==
  g = [t \in Socket!Time |-> counts[t] + IF t = 0 THEN 0 ELSE g[t - 1]]
IsServed(g, counts) == g \in [Socket!Time -> Nat] /\ SumsUp(g, counts)
UpTo(g, s) == IF s = 0 THEN 0 ELSE g[s - 1]
AvailableOf(b, now) ==
  Socket!Smaller(Socket!FullBucket, b.tokens + (now - b.refilledAt) * BUCKET_CAPACITY)

\* Why the rate is bounded: since any time s, what was served and what is left in the bucket
\* amount to no more than a full bucket and what has flowed in.
Bounded(g, b, now) ==
  /\ \A t \in Socket!Time : t >= now => g[t] = g[now]
  /\ \A s, t \in Socket!Time : s <= t /\ t <= now =>
       (g[t] - UpTo(g, s)) * REFILL_WINDOW <= Socket!FullBucket + (t - s) * BUCKET_CAPACITY
  /\ \A s \in Socket!Time : s <= now =>
       (g[now] - UpTo(g, s)) * REFILL_WINDOW + AvailableOf(b, now)
         <= Socket!FullBucket + (now - s) * BUCKET_CAPACITY
RateSound(counts, b, now) ==
  /\ counts \in [Socket!Time -> Nat]
  /\ now \in Socket!Time
  /\ b \in [tokens : 0 .. Socket!FullBucket, refilledAt : Socket!Time]
  /\ b.refilledAt <= now
  /\ \E g : IsServed(g, counts) /\ Bounded(g, b, now)

AllRoomsSound ==
  /\ RoomsSound(connected, joined, pending, wish) /\ RoomsCounted(joined, pending)
  /\ RateSound(served, bucket, clock)
  /\ seller \in {"asked", "in", "out"}

SocketInv == focus = "socket" => AllRoomsSound

\* The constants of sockets; a full bucket pays for one subscription at least.
LEMMA SocketConstants ==
  /\ MAX_AUCTION_ROOMS \in Nat /\ MaxTime \in Nat
  /\ BUCKET_CAPACITY \in Nat \ {0} /\ REFILL_WINDOW \in Nat \ {0}
  /\ Socket!FullBucket \in Nat /\ Socket!FullBucket >= REFILL_WINDOW
  /\ Socket!Time = 0 .. MaxTime
  /\ \A T : Socket!Cardinality(T) = Cardinality(T)
<1>1. /\ MAX_AUCTION_ROOMS \in Nat /\ MaxTime \in Nat
      /\ BUCKET_CAPACITY \in Nat \ {0} /\ REFILL_WINDOW \in Nat \ {0}
      /\ Socket!Time = 0 .. MaxTime
  BY ServicesAssumption DEF Socket!SocketSubscriptionsAssumption, Socket!Time
<1>2. Socket!FullBucket \in Nat /\ Socket!FullBucket >= REFILL_WINDOW
  <2>1. \A a, b \in Nat \ {0} : a * b \in Nat /\ a * b >= b
    OBVIOUS
  <2>2. QED
    BY <1>1, <2>1 DEF Socket!FullBucket
<1>3. \A T : Socket!Cardinality(T) = Cardinality(T)
  BY DEF Socket!Cardinality, Cardinality
<1>4. QED
  BY <1>1, <1>2, <1>3

\* The products of the argument.
LEMMA Products ==
  ASSUME NEW a \in Int, NEW b \in Int, NEW w \in Nat
  PROVE  /\ a * w \in Int
         /\ (a + 1 - b) * w = (a - b) * w + w
         /\ (a - a) * w = 0
         /\ a >= b => a * w >= b * w
         /\ a >= 0 => a * w >= 0
<1>1. a * w \in Int /\ (a + 1 - b) * w = (a - b) * w + w /\ (a - a) * w = 0
  OBVIOUS
<1>2. ASSUME NEW d \in Int, d >= 0 PROVE d * w >= 0
  BY <1>2
<1>3. ASSUME a >= b PROVE a * w >= b * w
  <2>1. (a - b) * w >= 0
    BY <1>2, <1>3
  <2>2. (a - b) * w = a * w - b * w
    OBVIOUS
  <2>3. QED
    BY <2>1, <2>2
<1>4. QED
  BY <1>1, <1>2, <1>3

\* What is in the bucket at some time.
LEMMA AvailableBetween ==
  ASSUME NEW b \in [tokens : 0 .. Socket!FullBucket, refilledAt : Socket!Time],
         NEW now \in Socket!Time, b.refilledAt <= now
  PROVE  /\ AvailableOf(b, now) \in 0 .. Socket!FullBucket
         /\ AvailableOf(b, now + 1) \in Int
         /\ AvailableOf(b, now + 1) <= AvailableOf(b, now) + BUCKET_CAPACITY
         /\ AvailableOf(b, now + 1) <= Socket!FullBucket
<1> DEFINE d == now - b.refilledAt
           w == BUCKET_CAPACITY
<1>1. /\ b.tokens \in Nat /\ b.refilledAt \in Nat /\ now \in Nat /\ d \in Nat /\ w \in Nat
      /\ b.tokens <= Socket!FullBucket /\ Socket!FullBucket \in Nat
      /\ now + 1 - b.refilledAt = d + 1
  BY SocketConstants
<1>2. d * w \in Int /\ d * w >= 0 /\ (d + 1) * w = d * w + w
  <2> HIDE DEF d, w
  <2>1. /\ d * w \in Int /\ d * w >= 0
    BY <1>1, Products
  <2>2. (d + 1 - 0) * w = (d - 0) * w + w
    BY <1>1, Products
  <2>3. QED
    BY <1>1, <2>1, <2>2
<1>3. /\ AvailableOf(b, now) = Socket!Smaller(Socket!FullBucket, b.tokens + d * w)
      /\ AvailableOf(b, now + 1) = Socket!Smaller(Socket!FullBucket, b.tokens + (d + 1) * w)
  BY <1>1 DEF AvailableOf
<1> HIDE DEF d, w
<1>4. QED
  BY <1>1, <1>2, <1>3 DEF Socket!Smaller, w

\* Two sums of the same numbers are the same: there is no first time they differ at.
LEMMA ServedUnique ==
  ASSUME NEW counts, NEW g, NEW h, SumsUp(g, counts), SumsUp(h, counts)
  PROVE  g = h
<1> DEFINE I == {i \in 1 .. MaxTime + 1 : g[MaxTime + 1 - i] # h[MaxTime + 1 - i]}
<1>1. MaxTime \in Nat /\ Socket!Time = 0 .. MaxTime
  BY SocketConstants
<1>2. CASE I # {}
  <2>1. PICK i \in I : \A j \in I : j <= i
    <3>1. I \in SUBSET (1 .. MaxTime + 1) /\ MaxTime + 1 \in Nat
      BY <1>1
    <3> HIDE DEF I
    <3>2. QED
      BY <1>2, <3>1, Largest
  <2> DEFINE t == MaxTime + 1 - i
  <2>2. t \in Socket!Time /\ g[t] # h[t] /\ i \in 1 .. MaxTime + 1
    BY <1>1, <2>1
  <2>3. t # 0 => g[t - 1] = h[t - 1]
    <3> SUFFICES ASSUME t # 0 PROVE g[t - 1] = h[t - 1]
      OBVIOUS
    <3>1. i + 1 \in 1 .. MaxTime + 1 /\ t - 1 = MaxTime + 1 - (i + 1)
      BY <1>1, <2>2
    <3>2. i + 1 \notin I
      BY <2>1, <2>2
    <3>3. QED
      BY <3>1, <3>2
  <2> HIDE DEF I, t
  <2>4. g[t] = h[t]
    BY <2>2, <2>3 DEF SumsUp
  <2>5. QED
    BY <2>2, <2>4
<1>3. CASE I = {}
  <2>1. \A t \in Socket!Time : g[t] = h[t]
    <3> TAKE t \in Socket!Time
    <3>1. MaxTime + 1 - t \in 1 .. MaxTime + 1 /\ MaxTime + 1 - (MaxTime + 1 - t) = t
      BY <1>1
    <3>2. MaxTime + 1 - t \notin I
      BY <1>3
    <3>3. QED
      BY <3>1, <3>2
  <2>2. /\ g = [t \in Socket!Time |-> g[t]]
        /\ h = [t \in Socket!Time |-> h[t]]
    BY DEF SumsUp
  <2>3. QED
    BY <2>1, <2>2
<1>4. QED
  BY <1>2, <1>3

\* Served is that sum.
LEMMA ServedIs ==
  ASSUME NEW g, IsServed(g, served)
  PROVE  Socket!Served = g
<1>1. Socket!Served = CHOOSE h : SumsUp(h, served)
  BY Zenon DEF Socket!Served, SumsUp
<1>2. SumsUp(Socket!Served, served) /\ SumsUp(g, served)
  BY <1>1 DEF IsServed
<1>3. QED
  BY <1>2, ServedUnique

\* One more is served now.
LEMMA ServeOne ==
  ASSUME NEW counts, NEW b, NEW now, RateSound(counts, b, now), AvailableOf(b, now) >= REFILL_WINDOW
  PROVE  RateSound([counts EXCEPT ![now] = @ + 1],
                   [tokens |-> AvailableOf(b, now) - REFILL_WINDOW, refilledAt |-> now], now)
<1> DEFINE c == [counts EXCEPT ![now] = @ + 1]
           left == AvailableOf(b, now) - REFILL_WINDOW
           d == [tokens |-> left, refilledAt |-> now]
<1>1. /\ counts \in [Socket!Time -> Nat] /\ now \in Socket!Time
      /\ b \in [tokens : 0 .. Socket!FullBucket, refilledAt : Socket!Time]
      /\ b.refilledAt <= now
      /\ Socket!Time = 0 .. MaxTime /\ MaxTime \in Nat /\ now \in Nat
      /\ REFILL_WINDOW \in Nat \ {0} /\ BUCKET_CAPACITY \in Nat \ {0}
      /\ Socket!FullBucket \in Nat
  BY SocketConstants DEF RateSound
<1>2. PICK g : IsServed(g, counts) /\ Bounded(g, b, now)
  BY DEF RateSound
<1>3. AvailableOf(b, now) \in 0 .. Socket!FullBucket
  BY <1>1, AvailableBetween
<1>4. /\ left \in 0 .. Socket!FullBucket
      /\ d \in [tokens : 0 .. Socket!FullBucket, refilledAt : Socket!Time]
      /\ d.tokens = left /\ d.refilledAt = now
  BY <1>1, <1>3
<1>5. AvailableOf(d, now) = left
  <2>1. (now - now) * BUCKET_CAPACITY = 0
    BY <1>1, Products
  <2> HIDE DEF left, d
  <2>2. QED
    BY <1>1, <1>4, <2>1 DEF AvailableOf, Socket!Smaller
<1> DEFINE h == [t \in Socket!Time |-> IF t >= now THEN g[t] + 1 ELSE g[t]]
<1>6. g \in [Socket!Time -> Nat] /\ \A t \in Socket!Time :
        g[t] = counts[t] + IF t = 0 THEN 0 ELSE g[t - 1]
  BY <1>2 DEF IsServed, SumsUp
<1>7. IsServed(h, c)
  <2>1. h \in [Socket!Time -> Nat]
    BY <1>6
  <2>2. \A t \in Socket!Time : h[t] = c[t] + IF t = 0 THEN 0 ELSE h[t - 1]
    <3> TAKE t \in Socket!Time
    <3>1. g[t] = counts[t] + (IF t = 0 THEN 0 ELSE g[t - 1]) /\ counts[t] \in Nat /\ t \in Nat
          /\ g[t] \in Nat /\ (t # 0 => t - 1 \in Socket!Time /\ g[t - 1] \in Nat)
      BY <1>1, <1>6
    <3>2. c[t] = IF t = now THEN counts[t] + 1 ELSE counts[t]
      BY <1>1
    <3>3. /\ h[t] = IF t >= now THEN g[t] + 1 ELSE g[t]
          /\ t # 0 => h[t - 1] = IF t - 1 >= now THEN g[t - 1] + 1 ELSE g[t - 1]
      BY <3>1
    <3> HIDE DEF h, c
    <3>4. CASE t < now
      <4>1. h[t] = g[t] /\ c[t] = counts[t] /\ (t # 0 => h[t - 1] = g[t - 1])
        BY <1>1, <3>1, <3>2, <3>3, <3>4
      <4>2. QED
        BY <3>1, <4>1
    <3>5. CASE t = now
      <4>1. h[t] = g[t] + 1 /\ c[t] = counts[t] + 1 /\ (t # 0 => h[t - 1] = g[t - 1])
        BY <1>1, <3>1, <3>2, <3>3, <3>5
      <4>2. QED
        BY <3>1, <4>1
    <3>6. CASE t > now
      <4>1. /\ t # 0 /\ h[t] = g[t] + 1 /\ c[t] = counts[t] /\ h[t - 1] = g[t - 1] + 1
        BY <1>1, <3>1, <3>2, <3>3, <3>6
      <4>2. QED
        BY <3>1, <4>1
    <3>7. QED
      BY <1>1, <3>1, <3>4, <3>5, <3>6
  <2>3. SumsUp(h, c)
    <3>1. h = [t \in Socket!Time |-> h[t]]
      OBVIOUS
    <3> HIDE DEF h, c
    <3>2. QED
      BY <2>2, <3>1 DEF SumsUp
  <2>4. QED
    BY <2>1, <2>3 DEF IsServed
<1>8. /\ \A t \in Socket!Time : t >= now => h[t] = g[t] + 1
      /\ \A t \in Socket!Time : t < now => h[t] = g[t]
      /\ \A s \in Socket!Time : s <= now => UpTo(h, s) = UpTo(g, s) /\ UpTo(g, s) \in Int
  <2>1. ASSUME NEW s \in Socket!Time, s <= now
        PROVE  UpTo(h, s) = UpTo(g, s) /\ UpTo(g, s) \in Int
    <3>1. s # 0 => s - 1 \in Socket!Time /\ s - 1 < now
      BY <1>1, <2>1
    <3>2. QED
      BY <1>1, <1>6, <2>1, <3>1 DEF UpTo
  <2>2. /\ \A t \in Socket!Time : t >= now => h[t] = g[t] + 1
        /\ \A t \in Socket!Time : t < now => h[t] = g[t]
    <3>1. \A t \in Socket!Time : h[t] = IF t >= now THEN g[t] + 1 ELSE g[t]
      OBVIOUS
    <3> HIDE DEF h
    <3>2. QED
      BY <1>1, <3>1
  <2>3. QED
    BY <2>1, <2>2
<1> HIDE DEF h, c, d, left
<1>9. Bounded(h, d, now)
  <2>1. ASSUME NEW t \in Socket!Time, t >= now PROVE h[t] = h[now]
    <3>1. g[t] = g[now]
      BY <1>2, <2>1 DEF Bounded
    <3>2. h[t] = g[t] + 1 /\ h[now] = g[now] + 1
      BY <1>1, <1>8, <2>1
    <3>3. QED
      BY <3>1, <3>2
  <2>2. ASSUME NEW s \in Socket!Time, s <= now
        PROVE  /\ (h[now] - UpTo(h, s)) * REFILL_WINDOW + left
                    <= Socket!FullBucket + (now - s) * BUCKET_CAPACITY
               /\ (h[now] - UpTo(h, s)) * REFILL_WINDOW
                    <= Socket!FullBucket + (now - s) * BUCKET_CAPACITY
    <3>1. h[now] = g[now] + 1 /\ g[now] \in Int /\ UpTo(h, s) = UpTo(g, s) /\ UpTo(g, s) \in Int
      BY <1>1, <1>6, <1>8, <2>2
    <3>2. (g[now] + 1 - UpTo(g, s)) * REFILL_WINDOW
            = (g[now] - UpTo(g, s)) * REFILL_WINDOW + REFILL_WINDOW
      BY <1>1, <3>1, Products
    <3>3. (g[now] - UpTo(g, s)) * REFILL_WINDOW + AvailableOf(b, now)
            <= Socket!FullBucket + (now - s) * BUCKET_CAPACITY
      BY <1>2, <2>2 DEF Bounded
    <3>4. /\ (g[now] - UpTo(g, s)) * REFILL_WINDOW \in Int
          /\ (now - s) * BUCKET_CAPACITY \in Int
      BY <1>1, <3>1
    <3>5. left = AvailableOf(b, now) - REFILL_WINDOW /\ left >= 0 /\ AvailableOf(b, now) \in Int
          /\ left \in Int
      BY <1>1, <1>3, <1>4 DEF left
    <3>6. (h[now] - UpTo(h, s)) * REFILL_WINDOW
            = (g[now] - UpTo(g, s)) * REFILL_WINDOW + REFILL_WINDOW
      BY <3>1, <3>2
    <3> DEFINE x == (g[now] - UpTo(g, s)) * REFILL_WINDOW
               y == (now - s) * BUCKET_CAPACITY
    <3>7. /\ x \in Int /\ y \in Int /\ x + AvailableOf(b, now) <= Socket!FullBucket + y
          /\ (h[now] - UpTo(h, s)) * REFILL_WINDOW = x + REFILL_WINDOW
      BY <3>3, <3>4, <3>6
    <3> HIDE DEF x, y
    <3>8. /\ x + REFILL_WINDOW + left <= Socket!FullBucket + y
          /\ x + REFILL_WINDOW <= Socket!FullBucket + y
      BY <1>1, <3>5, <3>7
    <3>9. QED
      BY <3>7, <3>8 DEF y
  <2>3. ASSUME NEW s \in Socket!Time, NEW t \in Socket!Time, s <= t, t <= now
        PROVE  (h[t] - UpTo(h, s)) * REFILL_WINDOW
                 <= Socket!FullBucket + (t - s) * BUCKET_CAPACITY
    <3>1. CASE t = now
      BY <2>2, <2>3, <3>1
    <3>2. CASE t < now
      <4>1. h[t] = g[t] /\ UpTo(h, s) = UpTo(g, s)
        BY <1>1, <1>8, <2>3, <3>2
      <4>2. QED
        BY <1>2, <2>3, <4>1 DEF Bounded
    <3>3. QED
      BY <1>1, <2>3, <3>1, <3>2
  <2>4. QED
    BY <1>5, <2>1, <2>2, <2>3 DEF Bounded
<1>10. c \in [Socket!Time -> Nat]
  BY <1>1 DEF c
<1>11. QED
  BY <1>1, <1>4, <1>7, <1>9, <1>10 DEF RateSound, c, d, left

\* The bucket is refilled and nothing is served.
LEMMA ServeNone ==
  ASSUME NEW counts, NEW b, NEW now, RateSound(counts, b, now)
  PROVE  RateSound(counts, [tokens |-> AvailableOf(b, now), refilledAt |-> now], now)
<1> DEFINE d == [tokens |-> AvailableOf(b, now), refilledAt |-> now]
<1>1. /\ now \in Socket!Time /\ now \in Nat /\ BUCKET_CAPACITY \in Nat
      /\ b \in [tokens : 0 .. Socket!FullBucket, refilledAt : Socket!Time]
      /\ b.refilledAt <= now /\ Socket!FullBucket \in Nat
  BY SocketConstants DEF RateSound
<1>2. AvailableOf(b, now) \in 0 .. Socket!FullBucket
  BY <1>1, AvailableBetween
<1>3. /\ d \in [tokens : 0 .. Socket!FullBucket, refilledAt : Socket!Time]
      /\ d.tokens = AvailableOf(b, now) /\ d.refilledAt = now
  BY <1>1, <1>2
<1> HIDE DEF d
<1>4. AvailableOf(d, now) = AvailableOf(b, now)
  <2>1. (now - now) * BUCKET_CAPACITY = 0
    BY <1>1, Products
  <2>2. AvailableOf(d, now) = Socket!Smaller(Socket!FullBucket, AvailableOf(b, now) + 0)
    BY <1>3, <2>1 DEF AvailableOf
  <2>3. QED
    BY <1>1, <1>2, <2>2 DEF Socket!Smaller
<1>5. \A g : Bounded(g, b, now) => Bounded(g, d, now)
  BY <1>4 DEF Bounded
<1>6. QED
  BY <1>1, <1>3, <1>5 DEF RateSound, d

\* What flows in covers what is saved up.
LEMMA FlowsIn ==
  ASSUME NEW x \in Int, NEW y \in Int, NEW a \in Int, NEW later \in Int, NEW f \in Int,
         NEW w \in Nat, x + a <= f + y, later <= a + w, a >= 0
  PROVE  x + later <= f + (y + w) /\ x <= f + (y + w)
OBVIOUS

\* Time passes.
LEMMA ServeLater ==
  ASSUME NEW counts, NEW b, NEW now, RateSound(counts, b, now), now < MaxTime
  PROVE  RateSound(counts, b, now + 1)
<1>1. /\ counts \in [Socket!Time -> Nat] /\ now \in Socket!Time
      /\ b \in [tokens : 0 .. Socket!FullBucket, refilledAt : Socket!Time]
      /\ b.refilledAt <= now /\ b.refilledAt \in Nat
      /\ Socket!Time = 0 .. MaxTime /\ MaxTime \in Nat /\ now \in Nat /\ now + 1 \in Socket!Time
      /\ REFILL_WINDOW \in Nat /\ BUCKET_CAPACITY \in Nat
      /\ Socket!FullBucket \in Nat
  BY SocketConstants DEF RateSound
<1>2. PICK g : IsServed(g, counts) /\ Bounded(g, b, now)
  BY DEF RateSound
<1> DEFINE n == now + 1
<1>3. /\ n \in Socket!Time /\ n \in Nat /\ n = now + 1
      /\ AvailableOf(b, now) \in 0 .. Socket!FullBucket
      /\ AvailableOf(b, n) \in Int
      /\ AvailableOf(b, n) <= AvailableOf(b, now) + BUCKET_CAPACITY
      /\ AvailableOf(b, n) <= Socket!FullBucket
  BY <1>1, AvailableBetween
<1> HIDE DEF n
<1>4. /\ g \in [Socket!Time -> Nat]
      /\ \A t \in Socket!Time : t >= now => g[t] = g[now]
      /\ g[n] = g[now] /\ g[now] \in Int
  <2>1. g \in [Socket!Time -> Nat]
    BY <1>2 DEF IsServed
  <2>2. \A t \in Socket!Time : t >= now => g[t] = g[now]
    BY <1>2 DEF Bounded
  <2>3. g[n] = g[now]
    BY <1>1, <1>3, <2>2
  <2>4. QED
    BY <1>1, <2>1, <2>2, <2>3
<1>5. \A t \in Socket!Time : t >= n => g[t] = g[n]
  BY <1>1, <1>3, <1>4
<1>6. ASSUME NEW s \in Socket!Time, s <= n
      PROVE  /\ (g[n] - UpTo(g, s)) * REFILL_WINDOW + AvailableOf(b, n)
                  <= Socket!FullBucket + (n - s) * BUCKET_CAPACITY
             /\ (g[n] - UpTo(g, s)) * REFILL_WINDOW
                  <= Socket!FullBucket + (n - s) * BUCKET_CAPACITY
  <2>1. CASE s <= now
    <3> DEFINE x == (g[now] - UpTo(g, s)) * REFILL_WINDOW
               y == (now - s) * BUCKET_CAPACITY
    <3>1. UpTo(g, s) \in Int
      BY <1>1, <1>4, <2>1 DEF UpTo
    <3>2. x + AvailableOf(b, now) <= Socket!FullBucket + y
      BY <1>2, <2>1 DEF Bounded
    <3>3. (n - s) * BUCKET_CAPACITY = y + BUCKET_CAPACITY
      BY <1>1, <1>3, Products
    <3>4. x \in Int /\ y \in Int
      BY <1>1, <1>4, <3>1
    <3>5. (g[n] - UpTo(g, s)) * REFILL_WINDOW = x
      BY <1>4
    <3> HIDE DEF x, y
    <3>6. /\ AvailableOf(b, now) \in Int /\ AvailableOf(b, now) >= 0
          /\ Socket!FullBucket \in Int /\ BUCKET_CAPACITY \in Nat
      BY <1>1, <1>3
    <3>7. /\ x + AvailableOf(b, n) <= Socket!FullBucket + (y + BUCKET_CAPACITY)
          /\ x <= Socket!FullBucket + (y + BUCKET_CAPACITY)
      BY <1>3, <3>2, <3>4, <3>6, FlowsIn
    <3>8. QED
      BY <3>3, <3>5, <3>7
  <2>2. CASE s = n
    <3>1. UpTo(g, s) = g[n]
      BY <1>1, <1>3, <1>4, <2>2 DEF UpTo
    <3>2. (g[n] - g[n]) * REFILL_WINDOW = 0 /\ (s - s) * BUCKET_CAPACITY = 0
      BY <1>1, <1>4, Products
    <3>3. QED
      BY <1>1, <1>3, <2>2, <3>1, <3>2
  <2>3. QED
    BY <1>1, <1>3, <1>6, <2>1, <2>2
<1>7. ASSUME NEW s \in Socket!Time, NEW t \in Socket!Time, s <= t, t <= n
      PROVE  (g[t] - UpTo(g, s)) * REFILL_WINDOW
               <= Socket!FullBucket + (t - s) * BUCKET_CAPACITY
  <2>1. CASE t <= now
    BY <1>2, <1>7, <2>1 DEF Bounded
  <2>2. CASE t = n
    BY <1>6, <1>7, <2>2
  <2>3. QED
    BY <1>1, <1>3, <1>7, <2>1, <2>2
<1>8. Bounded(g, b, n)
  BY <1>5, <1>6, <1>7 DEF Bounded
<1>9. b.refilledAt <= n
  BY <1>1, <1>3
<1>10. RateSound(counts, b, n)
  BY <1>1, <1>2, <1>3, <1>8, <1>9 DEF RateSound
<1>11. QED
  BY <1>10 DEF n

\* The lookups in flight after a command and after an answer.
LEMMA PendingThen ==
  ASSUME NEW commands, commands \in [Rooms -> Wishes], NEW room \in Rooms
  PROVE  /\ PendingOf([commands EXCEPT ![room] = "join"]) = PendingOf(commands) \cup {room}
         /\ PendingOf([commands EXCEPT ![room] = "none"]) = PendingOf(commands) \ {room}
         /\ PendingOf([commands EXCEPT ![room] = IF @ = "none" THEN @ ELSE "leave"])
              = PendingOf(commands)
<1>1. PendingOf([commands EXCEPT ![room] = "join"]) = PendingOf(commands) \cup {room}
  BY DEF PendingOf
<1>2. PendingOf([commands EXCEPT ![room] = "none"]) = PendingOf(commands) \ {room}
  BY DEF PendingOf
<1>3. PendingOf([commands EXCEPT ![room] = IF @ = "none" THEN @ ELSE "leave"])
        = PendingOf(commands)
  BY DEF PendingOf
<1>4. QED
  BY <1>1, <1>2, <1>3

\* The count survives a room more where there was one fewer, and rooms that go.
LEMMA CountedThen ==
  ASSUME NEW T, IsFiniteSet(T), NEW x
  PROVE  /\ Cardinality(T) \in Nat
         /\ IsFiniteSet(T \cup {x}) /\ Cardinality(T \cup {x}) \in Nat
         /\ Cardinality(T \cup {x}) <= Cardinality(T) + 1
         /\ x \in T => Cardinality(T \cup {x}) = Cardinality(T)
         /\ IsFiniteSet(T \ {x}) /\ Cardinality(T \ {x}) \in Nat
         /\ Cardinality(T \ {x}) <= Cardinality(T)
         /\ x \in T => Cardinality(T \ {x}) = Cardinality(T) - 1
<1>1. Cardinality(T) \in Nat
  BY FS_CardinalityType
<1>2. /\ IsFiniteSet(T \cup {x})
      /\ Cardinality(T \cup {x}) = IF x \in T THEN Cardinality(T) ELSE Cardinality(T) + 1
  BY FS_AddElement
<1>3. /\ IsFiniteSet(T \ {x})
      /\ Cardinality(T \ {x}) = IF x \in T THEN Cardinality(T) - 1 ELSE Cardinality(T)
  BY FS_RemoveElement
<1>4. Cardinality(T \ {x}) \in Nat
  BY <1>3, FS_CardinalityType
<1>5. QED
  BY <1>1, <1>2, <1>3, <1>4

\* A socket that is gone is in no room.
LEMMA RoomsLeft ==
  ASSUME NEW up, NEW rooms, NEW commands, NEW wishes,
         RoomsSound(up, rooms, commands, wishes), RoomsCounted(rooms, commands)
  PROVE  RoomsSound(FALSE, {}, commands, wishes) /\ RoomsCounted({}, commands)
<1>1. RoomsSound(FALSE, {}, commands, wishes)
  BY DEF RoomsSound
<1>2. /\ IsFiniteSet({}) /\ Cardinality({}) = 0
      /\ Cardinality(rooms) \in Nat /\ Cardinality(PendingOf(commands)) \in Nat
  BY FS_EmptySet, FS_CardinalityType DEF RoomsCounted
<1>3. /\ IsFiniteSet(PendingOf(commands)) /\ MAX_AUCTION_ROOMS \in Nat
      /\ Cardinality(rooms) + Cardinality(PendingOf(commands)) <= MAX_AUCTION_ROOMS
  BY SocketConstants DEF RoomsCounted
<1>4. Cardinality({}) + Cardinality(PendingOf(commands)) <= MAX_AUCTION_ROOMS
  BY <1>2, <1>3
<1>5. QED
  BY <1>1, <1>2, <1>3, <1>4 DEF RoomsCounted

\* A subscription, by what becomes of it: the socket is cut off, a lookup in flight is told,
\* nothing changes, or a lookup begins.
LEMMA SubscribeStep ==
  ASSUME AllRoomsSound, NEW room \in Rooms, Socket!Subscribe(room)
  PROVE  AllRoomsSound'
<1>1. /\ RoomsSound(connected, joined, pending, wish) /\ RoomsCounted(joined, pending)
      /\ RateSound(served, bucket, clock) /\ seller \in {"asked", "in", "out"}
  BY DEF AllRoomsSound
<1>2. /\ Socket!Available = AvailableOf(bucket, clock)
      /\ Socket!Pending = PendingOf(pending)
  BY Zenon DEF Socket!Available, AvailableOf, Socket!Pending, PendingOf
<1>3. connected /\ clock' = clock
  BY DEF Socket!Subscribe
<1>4. AvailableOf(bucket, clock) \in Int /\ REFILL_WINDOW \in Int
  BY <1>1, AvailableBetween, SocketConstants DEF RateSound
<1>5. CASE Socket!Available < REFILL_WINDOW
  <2>1. /\ bucket' = [tokens |-> AvailableOf(bucket, clock), refilledAt |-> clock]
        /\ connected' = FALSE /\ joined' = {} /\ pending' = pending /\ wish' = wish
        /\ served' = served /\ seller' = IF seller = "in" THEN "out" ELSE seller
    BY <1>2, <1>5 DEF Socket!Subscribe, Socket!Disconnects
  <2>2. RoomsSound(FALSE, {}, pending, wish) /\ RoomsCounted({}, pending)
    BY <1>1, RoomsLeft
  <2>3. RateSound(served, [tokens |-> AvailableOf(bucket, clock), refilledAt |-> clock], clock)
    BY <1>1, ServeNone
  <2>4. /\ RoomsSound(connected', joined', pending', wish') /\ RoomsCounted(joined', pending')
        /\ RateSound(served', bucket', clock')
    BY <1>3, <2>1, <2>2, <2>3
  <2>5. seller' \in {"asked", "in", "out"}
    BY <1>1, <2>1
  <2>6. QED
    BY <2>4, <2>5 DEF AllRoomsSound
<1>6. CASE ~(Socket!Available < REFILL_WINDOW)
  <2>1. /\ bucket' = [tokens |-> AvailableOf(bucket, clock) - REFILL_WINDOW,
                      refilledAt |-> clock]
        /\ served' = [served EXCEPT ![clock] = @ + 1]
        /\ connected' = connected /\ joined' = joined /\ seller' = seller
    BY <1>2, <1>6 DEF Socket!Subscribe
  <2>2. RateSound(served', bucket', clock')
    <3>1. AvailableOf(bucket, clock) >= REFILL_WINDOW
      BY <1>2, <1>4, <1>6
    <3>2. RateSound([served EXCEPT ![clock] = @ + 1],
                    [tokens |-> AvailableOf(bucket, clock) - REFILL_WINDOW,
                     refilledAt |-> clock], clock)
      BY <1>1, <3>1, ServeOne
    <3>3. QED
      BY <1>3, <2>1, <3>2
  <2>3. RoomsSound(connected', joined', pending', wish') /\ RoomsCounted(joined', pending')
    <3>1. CASE pending' = pending /\ wish' = wish
      BY <1>1, <2>1, <3>1
    <3>2. CASE /\ room \in joined \ PendingOf(pending) /\ pending' = pending
               /\ wish' = [wish EXCEPT ![room] = "join"]
      <4>1. RoomsSound(connected', joined', pending', wish')
        BY <1>1, <2>1, <3>2 DEF RoomsSound, PendingOf, Wishes
      <4>2. QED
        BY <1>1, <2>1, <3>2, <4>1
    <3>3. CASE /\ pending' = [pending EXCEPT ![room] = "join"]
               /\ wish' = [wish EXCEPT ![room] = "join"]
               /\ \/ room \in PendingOf(pending)
                  \/ /\ room \notin joined
                     /\ Cardinality(joined) + Cardinality(PendingOf(pending)) < MAX_AUCTION_ROOMS
      <4>1. room \notin joined
        BY <1>1, <3>3 DEF RoomsSound, PendingOf
      <4>2. RoomsSound(connected', joined', pending', wish')
        BY <1>1, <2>1, <3>3, <4>1 DEF RoomsSound, Wishes
      <4>3. PendingOf(pending') = PendingOf(pending) \cup {room}
        BY <1>1, <3>3, PendingThen DEF RoomsSound
      <4>4. /\ IsFiniteSet(joined) /\ IsFiniteSet(PendingOf(pending))
            /\ Cardinality(joined) \in Nat
            /\ Cardinality(joined) + Cardinality(PendingOf(pending)) <= MAX_AUCTION_ROOMS
            /\ MAX_AUCTION_ROOMS \in Nat
        BY <1>1, SocketConstants, FS_CardinalityType DEF RoomsCounted
      <4> DEFINE T == PendingOf(pending)
      <4>5. /\ Cardinality(T) \in Nat
            /\ IsFiniteSet(T \cup {room}) /\ Cardinality(T \cup {room}) \in Nat
            /\ Cardinality(T \cup {room}) <= Cardinality(T) + 1
            /\ room \in T => Cardinality(T \cup {room}) = Cardinality(T)
        <5>1. IsFiniteSet(T)
          BY <4>4
        <5> HIDE DEF T
        <5>2. QED
          BY <5>1, CountedThen
      <4>6. Cardinality(joined) + Cardinality(T \cup {room}) <= MAX_AUCTION_ROOMS
        BY <3>3, <4>4, <4>5
      <4>7. RoomsCounted(joined, pending')
        BY <4>3, <4>4, <4>5, <4>6 DEF RoomsCounted
      <4>8. QED
        BY <2>1, <4>2, <4>7
    <3>4. \/ /\ room \in Socket!Pending
             /\ pending' = [pending EXCEPT ![room] = "join"]
             /\ wish' = [wish EXCEPT ![room] = "join"]
          \/ /\ room \in joined \ Socket!Pending /\ pending' = pending
             /\ wish' = [wish EXCEPT ![room] = "join"]
          \/ pending' = pending /\ wish' = wish
          \/ /\ room \notin joined
             /\ Cardinality(joined) + Cardinality(Socket!Pending) < MAX_AUCTION_ROOMS
             /\ pending' = [pending EXCEPT ![room] = "join"]
             /\ wish' = [wish EXCEPT ![room] = "join"]
      <4>1. \A T : Socket!Cardinality(T) = Cardinality(T)
        BY SocketConstants
      <4>2. QED
        BY <1>6, <4>1 DEF Socket!Subscribe
    <3>5. QED
      BY <1>2, <3>1, <3>2, <3>3, <3>4
  <2>4. QED
    BY <1>1, <2>1, <2>2, <2>3 DEF AllRoomsSound
<1>7. QED
  BY <1>5, <1>6

\* Leaving a room, and what a lookup answers.
LEMMA UnsubscribeStep ==
  ASSUME AllRoomsSound, NEW room \in Rooms, Socket!Unsubscribe(room)
  PROVE  AllRoomsSound'
<1>1. /\ RoomsSound(connected, joined, pending, wish) /\ RoomsCounted(joined, pending)
      /\ RateSound(served, bucket, clock) /\ seller \in {"asked", "in", "out"}
  BY DEF AllRoomsSound
<1>2. /\ pending' = [pending EXCEPT ![room] = IF @ = "none" THEN @ ELSE "leave"]
      /\ joined' = joined \ {room} /\ wish' = [wish EXCEPT ![room] = "leave"]
      /\ connected' = connected /\ bucket' = bucket /\ clock' = clock /\ served' = served
      /\ seller' = seller
  BY DEF Socket!Unsubscribe
<1>3. RoomsSound(connected', joined', pending', wish')
  BY <1>1, <1>2 DEF RoomsSound, Wishes
<1>4. RoomsCounted(joined', pending')
  <2>1. PendingOf(pending') = PendingOf(pending)
    BY <1>1, <1>2, PendingThen DEF RoomsSound
  <2>2. /\ IsFiniteSet(joined \ {room}) /\ Cardinality(joined \ {room}) \in Nat
        /\ Cardinality(joined \ {room}) <= Cardinality(joined) /\ Cardinality(joined) \in Nat
    BY <1>1, CountedThen DEF RoomsCounted
  <2>3. Cardinality(PendingOf(pending)) \in Nat /\ MAX_AUCTION_ROOMS \in Nat
    BY <1>1, SocketConstants, FS_CardinalityType DEF RoomsCounted
  <2>4. QED
    BY <1>1, <1>2, <2>1, <2>2, <2>3 DEF RoomsCounted
<1>5. RateSound(served', bucket', clock')
  BY <1>1, <1>2
<1>6. QED
  BY <1>1, <1>2, <1>3, <1>4, <1>5 DEF AllRoomsSound

LEMMA LookupStep ==
  ASSUME AllRoomsSound, NEW room \in Rooms, NEW exists \in BOOLEAN,
         Socket!LookupAnswers(room, exists)
  PROVE  AllRoomsSound'
<1>1. /\ RoomsSound(connected, joined, pending, wish) /\ RoomsCounted(joined, pending)
      /\ RateSound(served, bucket, clock) /\ seller \in {"asked", "in", "out"}
  BY DEF AllRoomsSound
<1>2. /\ room \in PendingOf(pending) /\ pending[room] # "none"
      /\ joined' = IF exists /\ connected /\ pending[room] = "join" THEN joined \cup {room}
                                                                    ELSE joined
      /\ pending' = [pending EXCEPT ![room] = "none"]
      /\ wish' = IF exists THEN wish ELSE [wish EXCEPT ![room] = "none"]
      /\ connected' = connected /\ bucket' = bucket /\ clock' = clock /\ served' = served
      /\ seller' = seller
  BY DEF Socket!LookupAnswers, Socket!Pending, PendingOf
<1>3. RoomsSound(connected', joined', pending', wish')
  <2>1. wish[room] = pending[room] /\ room \notin joined
    BY <1>1, <1>2 DEF RoomsSound
  <2>2. CASE exists /\ connected /\ pending[room] = "join"
    <3>1. joined' = joined \cup {room} /\ wish' = wish
      BY <1>2, <2>2
    <3>2. QED
      BY <1>1, <1>2, <2>1, <2>2, <3>1 DEF RoomsSound, Wishes
  <2>3. CASE exists /\ ~(connected /\ pending[room] = "join")
    <3>1. joined' = joined /\ wish' = wish
      BY <1>2, <2>3
    <3>2. QED
      BY <1>1, <1>2, <2>1, <2>3, <3>1 DEF RoomsSound, Wishes
  <2>4. CASE ~exists
    <3>1. joined' = joined /\ wish' = [wish EXCEPT ![room] = "none"]
      BY <1>2, <2>4
    <3>2. QED
      BY <1>1, <1>2, <2>1, <2>4, <3>1 DEF RoomsSound, Wishes
  <2>5. QED
    BY <2>2, <2>3, <2>4
<1>4. RoomsCounted(joined', pending')
  <2> DEFINE T == PendingOf(pending)
  <2>1. PendingOf(pending') = T \ {room}
    BY <1>1, <1>2, PendingThen DEF RoomsSound
  <2>2. IsFiniteSet(joined) /\ IsFiniteSet(T) /\ room \in T /\ MAX_AUCTION_ROOMS \in Nat
        /\ Cardinality(joined) + Cardinality(T) <= MAX_AUCTION_ROOMS
    BY <1>1, <1>2, SocketConstants DEF RoomsCounted
  <2> HIDE DEF T
  <2>3. /\ Cardinality(T) \in Nat /\ IsFiniteSet(T \ {room})
        /\ Cardinality(T \ {room}) = Cardinality(T) - 1
    BY <2>2, CountedThen
  <2>4. /\ Cardinality(joined) \in Nat /\ IsFiniteSet(joined \cup {room})
        /\ Cardinality(joined \cup {room}) \in Nat
        /\ Cardinality(joined \cup {room}) <= Cardinality(joined) + 1
    BY <2>2, CountedThen
  <2>5. joined' = joined \/ joined' = joined \cup {room}
    BY <1>2
  <2>6. /\ IsFiniteSet(joined') /\ Cardinality(joined') \in Nat
        /\ Cardinality(joined') <= Cardinality(joined) + 1
    <3>1. CASE joined' = joined
      <4>1. Cardinality(joined') = Cardinality(joined)
        BY <3>1
      <4>2. QED
        BY <2>2, <2>4, <3>1, <4>1
    <3>2. CASE joined' = joined \cup {room}
      BY <2>4, <3>2
    <3>3. QED
      BY <2>5, <3>1, <3>2
  <2>7. QED
    BY <2>1, <2>2, <2>3, <2>4, <2>6 DEF RoomsCounted
<1>5. RateSound(served', bucket', clock')
  BY <1>1, <1>2
<1>6. QED
  BY <1>1, <1>2, <1>3, <1>4, <1>5 DEF AllRoomsSound

\* Every step of a socket, and its start with a full bucket and nothing served.
LEMMA SocketStep ==
  ASSUME AllRoomsSound, [Socket!Next]_(Socket!vars)
  PROVE  AllRoomsSound'
<1>1. /\ RoomsSound(connected, joined, pending, wish) /\ RoomsCounted(joined, pending)
      /\ RateSound(served, bucket, clock) /\ seller \in {"asked", "in", "out"}
  BY DEF AllRoomsSound
<1>2. ASSUME NEW isSeller \in BOOLEAN, Socket!SellerAnswers(isSeller) PROVE AllRoomsSound'
  <2>1. /\ connected' = connected /\ bucket' = bucket /\ clock' = clock /\ served' = served
        /\ joined' = joined /\ pending' = pending /\ wish' = wish
        /\ seller' \in {"asked", "in", "out"}
    BY <1>2 DEF Socket!SellerAnswers
  <2>2. QED
    BY <1>1, <2>1 DEF AllRoomsSound
<1>3. CASE Socket!Disconnect
  <2>1. /\ connected' = FALSE /\ joined' = {} /\ pending' = pending /\ wish' = wish
        /\ bucket' = bucket /\ clock' = clock /\ served' = served
        /\ seller' \in {"asked", "in", "out"}
    BY <1>1, <1>3 DEF Socket!Disconnect, Socket!Disconnects
  <2>2. RoomsSound(FALSE, {}, pending, wish) /\ RoomsCounted({}, pending)
    BY <1>1, RoomsLeft
  <2>3. QED
    BY <1>1, <2>1, <2>2 DEF AllRoomsSound
<1>4. CASE Socket!Tick
  <2>1. /\ clock < MaxTime /\ clock' = clock + 1
        /\ connected' = connected /\ bucket' = bucket /\ served' = served
        /\ joined' = joined /\ pending' = pending /\ wish' = wish /\ seller' = seller
    BY <1>4 DEF Socket!Tick
  <2>2. RateSound(served, bucket, clock + 1)
    BY <1>1, <2>1, ServeLater
  <2>3. QED
    BY <1>1, <2>1, <2>2 DEF AllRoomsSound
<1>5. CASE UNCHANGED Socket!vars
  BY <1>1, <1>5 DEF Socket!vars, AllRoomsSound
<1>6. QED
  BY <1>2, <1>3, <1>4, <1>5, SubscribeStep, UnsubscribeStep, LookupStep DEF Socket!Next

LEMMA SocketStart ==
  ASSUME Socket!Init
  PROVE  AllRoomsSound
<1>1. /\ clock = 0 /\ connected = TRUE
      /\ bucket = [tokens |-> Socket!FullBucket, refilledAt |-> 0]
      /\ joined = {} /\ pending = [room \in Rooms |-> "none"]
      /\ wish = [room \in Rooms |-> "none"] /\ served = [t \in Socket!Time |-> 0]
      /\ seller \in {"asked", "in", "out"}
  BY DEF Socket!Init
<1>2. RoomsSound(connected, joined, pending, wish)
  BY <1>1 DEF RoomsSound, Wishes
<1>3. RoomsCounted(joined, pending)
  <2>1. PendingOf(pending) = {}
    BY <1>1 DEF PendingOf
  <2>2. IsFiniteSet({}) /\ Cardinality({}) = 0
    BY FS_EmptySet
  <2>3. /\ IsFiniteSet(joined) /\ IsFiniteSet(PendingOf(pending))
        /\ Cardinality(joined) = 0 /\ Cardinality(PendingOf(pending)) = 0
    BY <1>1, <2>1, <2>2
  <2>4. MAX_AUCTION_ROOMS \in Nat
    BY SocketConstants
  <2>5. Cardinality(joined) + Cardinality(PendingOf(pending)) <= MAX_AUCTION_ROOMS
    BY <2>3, <2>4
  <2>6. QED
    BY <2>3, <2>5 DEF RoomsCounted
<1>4. RateSound(served, bucket, clock)
  <2> DEFINE g == [t \in Socket!Time |-> 0]
  <2>1. /\ Socket!Time = 0 .. MaxTime /\ MaxTime \in Nat /\ 0 \in Socket!Time
        /\ Socket!FullBucket \in Nat /\ REFILL_WINDOW \in Nat /\ BUCKET_CAPACITY \in Nat
    BY SocketConstants
  <2>2. served \in [Socket!Time -> Nat] /\ g \in [Socket!Time -> Nat]
        /\ bucket \in [tokens : 0 .. Socket!FullBucket, refilledAt : Socket!Time]
        /\ bucket.tokens = Socket!FullBucket /\ bucket.refilledAt = 0 /\ clock = 0
    BY <1>1, <2>1
  <2>3. IsServed(g, served)
    <3>1. \A t \in Socket!Time : 0 = served[t] + IF t = 0 THEN 0 ELSE g[t - 1]
      BY <1>1, <2>1
    <3>2. g = [t \in Socket!Time |-> served[t] + IF t = 0 THEN 0 ELSE g[t - 1]]
      BY <3>1
    <3> HIDE DEF g
    <3>3. QED
      BY <2>2, <3>2 DEF IsServed, SumsUp
  <2>4. /\ \A t \in Socket!Time : g[t] = 0
        /\ \A s \in Socket!Time : UpTo(g, s) = 0
    BY <2>1 DEF UpTo
  <2> HIDE DEF g
  <2>5. /\ (0 - 0) * REFILL_WINDOW = 0 /\ (0 - 0) * BUCKET_CAPACITY = 0
    BY <2>1
  <2>6. AvailableOf(bucket, 0) = Socket!FullBucket
    BY <2>1, <2>2, <2>5 DEF AvailableOf, Socket!Smaller
  <2>7. \A s \in Socket!Time : s <= 0 => s = 0
    BY <2>1
  <2>8. Bounded(g, bucket, 0)
    <3>1. \A t \in Socket!Time : t >= 0 => g[t] = g[0]
      BY <2>1, <2>4
    <3>2. ASSUME NEW s \in Socket!Time, NEW t \in Socket!Time, s <= t, t <= 0
          PROVE  (g[t] - UpTo(g, s)) * REFILL_WINDOW
                   <= Socket!FullBucket + (t - s) * BUCKET_CAPACITY
      <4>1. s = 0 /\ t = 0
        BY <2>1, <3>2
      <4>2. QED
        BY <2>1, <2>4, <2>5, <4>1
    <3>3. ASSUME NEW s \in Socket!Time, s <= 0
          PROVE  (g[0] - UpTo(g, s)) * REFILL_WINDOW + AvailableOf(bucket, 0)
                   <= Socket!FullBucket + (0 - s) * BUCKET_CAPACITY
      BY <2>1, <2>4, <2>5, <2>6, <2>7, <3>3
    <3>4. QED
      BY <3>1, <3>2, <3>3 DEF Bounded
  <2>9. QED
    BY <2>1, <2>2, <2>3, <2>8 DEF RateSound
<1>5. QED
  BY <1>1, <1>2, <1>3, <1>4 DEF AllRoomsSound

\* Each step of Services keeps it, too.
LEMMA SocketInduct ==
  (Init => SocketInv) /\ (SocketInv /\ [Next]_all => SocketInv')
<1>1. Init => SocketInv
  BY SocketStart, FocusInit DEF SocketInv
<1>2. SocketInv /\ [Next]_all => SocketInv'
  BY SocketStep, FocusStep DEF SocketInv
<1>3. QED
  BY <1>1, <1>2

\* What the invariant says of rooms, and of any stretch of time: what lies ahead adds nothing.
LEMMA SocketGives ==
  ASSUME AllRoomsSound
  PROVE  Socket!LastCommandWins /\ Socket!RateBounded
<1>1. Socket!LastCommandWins
  <2>1. /\ RoomsSound(connected, joined, pending, wish) /\ RoomsCounted(joined, pending)
        /\ Socket!Pending = PendingOf(pending)
    BY DEF AllRoomsSound, Socket!Pending, PendingOf
  <2>2. Socket!Cardinality(joined \cup PendingOf(pending)) <= MAX_AUCTION_ROOMS
    <3> DEFINE T == PendingOf(pending)
    <3>1. /\ IsFiniteSet(joined) /\ IsFiniteSet(T)
          /\ Cardinality(joined) + Cardinality(T) <= MAX_AUCTION_ROOMS
      BY <2>1 DEF RoomsCounted
    <3>2. /\ Socket!Cardinality(joined \cup T) = Cardinality(joined \cup T)
          /\ MAX_AUCTION_ROOMS \in Nat
      BY SocketConstants
    <3> HIDE DEF T
    <3>3. Cardinality(joined \cup T)
            = Cardinality(joined) + Cardinality(T) - Cardinality(joined \cap T)
      BY <3>1, FS_Union
    <3>4. /\ Cardinality(joined) \in Nat /\ Cardinality(T) \in Nat
          /\ Cardinality(joined \cap T) \in Nat
      BY <3>1, FS_Intersection, FS_CardinalityType
    <3>5. Cardinality(joined \cup T) <= MAX_AUCTION_ROOMS
      BY <3>1, <3>2, <3>3, <3>4
    <3>6. QED
      BY <3>2, <3>5 DEF T
  <2>3. \A room \in Rooms :
          /\ room \in joined => wish[room] = "join"
          /\ connected /\ wish[room] = "join" /\ room \notin PendingOf(pending) => room \in joined
    BY <2>1 DEF RoomsSound, PendingOf
  <2>4. ~connected => joined = {}
    BY <2>1 DEF RoomsSound
  <2>5. QED
    BY <2>1, <2>2, <2>3, <2>4 DEF Socket!LastCommandWins
<1>2. Socket!RateBounded
  <2>1. PICK g : IsServed(g, served) /\ Bounded(g, bucket, clock)
    BY DEF AllRoomsSound, RateSound
  <2>2. Socket!Served = g
    BY <2>1, ServedIs
  <2>3. \A s, t \in Socket!Time : Socket!ServedBetween(s, t) = g[t] - UpTo(g, s)
    BY <2>2 DEF Socket!ServedBetween, UpTo
  <2>4. /\ Socket!Time = 0 .. MaxTime /\ MaxTime \in Nat /\ clock \in Socket!Time
        /\ REFILL_WINDOW \in Nat /\ BUCKET_CAPACITY \in Nat /\ Socket!FullBucket \in Nat
        /\ g \in [Socket!Time -> Nat]
    BY <2>1, SocketConstants DEF AllRoomsSound, RateSound, IsServed
  <2>5. ASSUME NEW s \in Socket!Time, NEW t \in Socket!Time, s <= t
        PROVE  (g[t] - UpTo(g, s)) * REFILL_WINDOW
                 <= Socket!FullBucket + (t - s) * BUCKET_CAPACITY
    <3>1. CASE t <= clock
      BY <2>1, <2>5, <3>1 DEF Bounded
    <3>2. CASE clock < t /\ s <= clock
      <4> DEFINE x == (g[clock] - UpTo(g, s)) * REFILL_WINDOW
                 y == (clock - s) * BUCKET_CAPACITY
                 z == (t - s) * BUCKET_CAPACITY
      <4>1. clock \in Nat /\ s \in Nat /\ t \in Nat /\ clock <= clock
        BY <2>4
      <4>2. x <= Socket!FullBucket + y
        BY <2>1, <2>4, <3>2, <4>1 DEF Bounded
      <4>3. g[t] = g[clock]
        BY <2>1, <2>4, <3>2, <4>1 DEF Bounded
      <4>4. UpTo(g, s) \in Int /\ g[clock] \in Int
        BY <2>4, <4>1 DEF UpTo
      <4>5. x \in Int /\ y \in Int /\ z \in Int
        BY <2>4, <4>1, <4>4
      <4>6. z >= y
        <5>1. t - s \in Int /\ clock - s \in Int /\ t - s >= clock - s
          BY <3>2, <4>1
        <5>2. QED
          BY <2>4, <5>1, Products
      <4>7. (g[t] - UpTo(g, s)) * REFILL_WINDOW = x
        BY <4>3
      <4> HIDE DEF x, y, z
      <4>8. x <= Socket!FullBucket + z
        BY <2>4, <4>2, <4>5, <4>6
      <4>9. QED
        BY <4>7, <4>8 DEF z
    <3>3. CASE clock < s
      <4>1. clock \in Nat /\ s \in Nat /\ t \in Nat /\ s # 0 /\ s - 1 \in Socket!Time
            /\ s - 1 >= clock /\ t >= clock
        BY <2>4, <2>5, <3>3
      <4>2. g[t] = g[clock] /\ g[s - 1] = g[clock] /\ g[clock] \in Int
        BY <2>1, <2>4, <4>1 DEF Bounded
      <4>3. UpTo(g, s) = g[clock]
        BY <4>1, <4>2 DEF UpTo
      <4>4. (g[clock] - g[clock]) * REFILL_WINDOW = 0
        BY <2>4, <4>2, Products
      <4>5. (t - s) * BUCKET_CAPACITY >= 0 /\ (t - s) * BUCKET_CAPACITY \in Int
        <5>1. t - s \in Int /\ t - s >= 0
          BY <2>5, <4>1
        <5>2. QED
          BY <2>4, <5>1, Products
      <4>6. QED
        BY <2>4, <4>2, <4>3, <4>4, <4>5
    <3>4. QED
      BY <2>4, <2>5, <3>1, <3>2, <3>3
  <2>6. QED
    BY <2>3, <2>5 DEF Socket!RateBounded
<1>3. QED
  BY <1>1, <1>2

(***************************************************************************)
(* A socket is in the rooms its last commands say, in no more than it may  *)
(* and in none once it is gone, and over any stretch of time it is served  *)
(* no more subscriptions than a full bucket and what flows in pay for      *)
(* (auction-subscriptions.ts).                                             *)
(***************************************************************************)
THEOREM SubscriptionsHoldAlways == Spec => []SubscriptionsHold
<1>1. (Init => SocketInv) /\ (SocketInv /\ [Next]_all => SocketInv')
  BY SocketInduct
<1>2. SocketInv => SubscriptionsHold
  BY SocketGives DEF SocketInv, SubscriptionsHold
<1>3. QED
  BY <1>1, <1>2, PTL DEF Spec
-----------------------------------------------------------------------------
(* Pages of a list.                                                        *)

PageRow == [there : {"new", "in", "out"}, at : Instants \cup {0}]
IsBeyond(kind, rows, i, c) ==
  LET further(a, b) == IF kind.dir = "asc" THEN a > b ELSE a < b
  IN \/ c.start
     \/ further(rows[i].at, c.at)
     \/ rows[i].at = c.at /\ further(i, c.id)

\* The order of a list, with the instants its rows have.
PageTyped(kind, rows) ==
  /\ kind.dir \in {"asc", "desc"} /\ (kind.back = "later" => kind.dir = "desc")
  /\ rows \in [Ids -> PageRow]
  /\ \A i \in Ids : rows[i].there # "new" => rows[i].at \in Instants

\* Why a walk is faithful: all that was shown lies before the cursor, and so does nothing else
\* that was in the list all along.
WalkSound(kind, rows, c, stage, seen, kept) ==
  /\ c \in {Page!Start} \cup [start : {FALSE}, at : Instants, id : Ids]
  /\ stage \in {"none", "on", "ended"}
  /\ seen \in [Ids -> {0, 1}]
  /\ kept \subseteq Ids /\ \A i \in kept : rows[i].there = "in"
  /\ \A i \in Ids : seen[i] = 1 => rows[i].there # "new"
  /\ stage = "on" => \A i \in Ids :
       /\ seen[i] = 1 => ~IsBeyond(kind, rows, i, c)
       /\ i \in kept /\ ~IsBeyond(kind, rows, i, c) => seen[i] = 1
  /\ stage = "ended" => \A i \in kept : seen[i] = 1

AllPagesSound ==
  /\ list \in Page!Lists /\ PageTyped(list, row)
  /\ WalkSound(list, row, cursor, walk, shown, stayed)
  /\ returns \in 0 .. MaxReturns

PageInv == focus = "paging" => AllPagesSound

\* The constants of paging.
LEMMA PageConstants ==
  /\ IsFiniteSet(Ids) /\ Ids \subseteq Nat /\ Instants \subseteq Nat
  /\ Limits \subseteq Nat \ {0} /\ MaxReturns \in Nat
  /\ \A T : Page!Cardinality(T) = Cardinality(T)
  /\ Page!Start.start = TRUE
<1>1. Page!PagingAssumption
  BY ServicesAssumption
<1>2. Page!IsFiniteSet(Ids) <=> IsFiniteSet(Ids)
  BY DEF Page!IsFiniteSet, IsFiniteSet
<1>3. \A T : Page!Cardinality(T) = Cardinality(T)
  BY DEF Page!Cardinality, Cardinality
<1>4. QED
  BY <1>1, <1>2, <1>3 DEF Page!PagingAssumption, Page!Start

\* A list to which rows come back as new ones is read from the newest on.
LEMMA ListKinds ==
  ASSUME NEW l \in Page!Lists
  PROVE  /\ l.dir \in {"asc", "desc"}
         /\ l.back = "later" => l.dir = "desc"
<1>1. ASSUME NEW dir \in {"asc", "desc"}, NEW leaves, NEW back, back = "later" => dir = "desc",
             l = Page!Kind(dir, leaves, back)
      PROVE  l.dir \in {"asc", "desc"} /\ (l.back = "later" => l.dir = "desc")
  BY <1>1 DEF Page!Kind
<1>2. CASE l \in {Page!PublicAuctions, Page!MyBids, Page!BidFeed, Page!MySales,
                  Page!MyListings, Page!PendingListings, Page!UserList, Page!WatchedAuctions}
  BY <1>2 DEF Page!Kind, Page!PublicAuctions, Page!MyBids, Page!BidFeed, Page!MySales,
     Page!MyListings, Page!PendingListings, Page!UserList, Page!WatchedAuctions
<1>3. ASSUME NEW status, l = Page!MyAuctions(status)
      PROVE  l.dir \in {"asc", "desc"} /\ (l.back = "later" => l.dir = "desc")
  BY <1>3 DEF Page!Kind, Page!MyAuctions
<1>4. ASSUME NEW tab, l = Page!SellerItems(tab)
      PROVE  l.dir \in {"asc", "desc"} /\ (l.back = "later" => l.dir = "desc")
  BY <1>4 DEF Page!Kind, Page!SellerItems, Page!TAB_ORDER
<1>5. QED
  BY <1>2, <1>3, <1>4 DEF Page!Lists

\* The order of the list, as the order of its rows and as the place of a cursor.
LEMMA PageOrder ==
  ASSUME PageTyped(list, row)
  PROVE  /\ \A i \in Ids : row[i].at \in Int /\ i \in Int
         /\ \A i \in Ids : ~Page!Before(i, i)
         /\ \A i, j \in Ids : i # j => Page!Before(i, j) \/ Page!Before(j, i)
         /\ \A i, j \in Ids : Page!Before(i, j) => ~Page!Before(j, i)
         /\ \A i, j, k \in Ids : Page!Before(i, j) /\ Page!Before(j, k) => Page!Before(i, k)
         /\ \A i, c : Page!Beyond(i, c) <=> IsBeyond(list, row, i, c)
         /\ \A i, j \in Ids :
              IsBeyond(list, row, i, Page!After(j)) <=> Page!Before(j, i)
<1>1. \A i \in Ids : row[i].at \in Int /\ i \in Int
  <2>1. ASSUME NEW i \in Ids PROVE row[i].at \in Int /\ i \in Int
    <3>1. row[i] \in PageRow
      BY DEF PageTyped
    <3>2. row[i].at \in Instants \/ row[i].at = 0
      BY <3>1 DEF PageRow
    <3>3. Instants \subseteq Nat /\ Ids \subseteq Nat
      BY PageConstants
    <3>4. row[i].at \in Nat
      <4>1. CASE row[i].at \in Instants
        BY <3>3, <4>1
      <4>2. CASE row[i].at = 0
        BY <4>2
      <4>3. QED
        BY <3>2, <4>1, <4>2
    <3>5. i \in Nat
      BY <3>3
    <3>6. QED
      BY <3>4, <3>5
  <2>2. QED
    BY <2>1
<1>2. \A i, c : Page!Beyond(i, c) <=> IsBeyond(list, row, i, c)
  BY DEF Page!Beyond, IsBeyond, Page!Further
<1>3. \A i, j \in Ids : IsBeyond(list, row, i, Page!After(j)) <=> Page!Before(j, i)
  BY DEF Page!After, Page!Before, IsBeyond, Page!Further
<1>4. \A i \in Ids : ~Page!Before(i, i)
  BY <1>1 DEF Page!Before, Page!Further
<1>5. \A i, j \in Ids : i # j => Page!Before(i, j) \/ Page!Before(j, i)
  BY <1>1 DEF Page!Before, Page!Further
<1>6. \A i, j \in Ids : Page!Before(i, j) => ~Page!Before(j, i)
  BY <1>1 DEF Page!Before, Page!Further
<1>7. \A i, j, k \in Ids : Page!Before(i, j) /\ Page!Before(j, k) => Page!Before(i, k)
  BY <1>1 DEF Page!Before, Page!Further
<1>8. QED
  BY <1>1, <1>2, <1>3, <1>4, <1>5, <1>6, <1>7

\* Some of the rows, ranked by how many of them come before.
RankIn(T, i) == Cardinality({j \in T : Page!Before(j, i)})

\* They are finitely many, so that ranks are numbers and grow along the list.
LEMMA Ranks ==
  ASSUME PageTyped(list, row), NEW T \in SUBSET Ids
  PROVE  /\ IsFiniteSet(T) /\ Cardinality(T) \in Nat
         /\ \A i \in T : RankIn(T, i) \in 0 .. Cardinality(T)
         /\ \A i, j \in T : Page!Before(j, i) => RankIn(T, j) < RankIn(T, i)
<1>1. IsFiniteSet(T) /\ Cardinality(T) \in Nat
  BY PageConstants, FS_Subset, FS_CardinalityType
<1>2. \A S \in SUBSET T : IsFiniteSet(S) /\ Cardinality(S) \in 0 .. Cardinality(T)
  <2>1. ASSUME NEW S \in SUBSET T PROVE IsFiniteSet(S) /\ Cardinality(S) \in 0 .. Cardinality(T)
    <3>1. IsFiniteSet(S) /\ Cardinality(S) <= Cardinality(T)
      BY <1>1, FS_Subset
    <3>2. Cardinality(S) \in Nat
      BY <3>1, FS_CardinalityType
    <3>3. QED
      BY <1>1, <3>1, <3>2
  <2>2. QED
    BY <2>1
<1>3. \A i \in T : RankIn(T, i) \in 0 .. Cardinality(T)
  BY <1>2 DEF RankIn
<1>4. ASSUME NEW i \in T, NEW j \in T, Page!Before(j, i)
      PROVE  RankIn(T, j) < RankIn(T, i)
  <2> DEFINE A == {k \in T : Page!Before(k, j)}
             B == {k \in T : Page!Before(k, i)}
  <2>1. A \in SUBSET B /\ j \in B /\ j \notin A /\ B \in SUBSET T
    BY <1>4, PageOrder
  <2>2. RankIn(T, j) = Cardinality(A) /\ RankIn(T, i) = Cardinality(B)
    BY DEF RankIn
  <2> HIDE DEF A, B
  <2>3. IsFiniteSet(B) /\ Cardinality(A) \in Nat /\ Cardinality(B) \in Nat
    BY <1>1, <1>2, <2>1
  <2>4. Cardinality(A) < Cardinality(B)
    <3>1. A # B
      BY <2>1
    <3>2. Cardinality(A) <= Cardinality(B) /\ (Cardinality(A) = Cardinality(B) => A = B)
      BY <2>1, <2>3, FS_Subset
    <3>3. QED
      BY <2>3, <3>1, <3>2
  <2>5. QED
    BY <2>2, <2>4
<1>5. QED
  BY <1>1, <1>3, <1>4

\* So there is a last row among them, and a first.
LEMMA FirstAndLast ==
  ASSUME PageTyped(list, row), NEW T \in SUBSET Ids, T # {}
  PROVE  /\ \E i \in T : \A j \in T \ {i} : Page!Before(j, i)
         /\ \E i \in T : \A j \in T : ~Page!Before(j, i)
<1> DEFINE n == Cardinality(T) + 1
           Up == {RankIn(T, i) + 1 : i \in T}
           Down == {n - RankIn(T, i) : i \in T}
<1>1. /\ n \in Nat /\ \A i \in T : RankIn(T, i) \in 0 .. Cardinality(T)
      /\ Cardinality(T) \in Nat
      /\ \A i, j \in T : Page!Before(j, i) => RankIn(T, j) < RankIn(T, i)
  BY Ranks
<1>2. Up \in SUBSET (1 .. n) /\ Up # {} /\ Down \in SUBSET (1 .. n) /\ Down # {}
  BY <1>1
<1>3. \E i \in T : \A j \in T \ {i} : Page!Before(j, i)
  <2>1. PICK u \in Up : \A v \in Up : v <= u
    <3> HIDE DEF Up, n
    <3>1. QED
      BY <1>1, <1>2, Largest
  <2>2. PICK i \in T : u = RankIn(T, i) + 1
    BY <2>1
  <2>3. ASSUME NEW j \in T \ {i} PROVE Page!Before(j, i)
    <3>1. RankIn(T, j) + 1 <= RankIn(T, i) + 1
      BY <2>1, <2>2
    <3>2. ~Page!Before(i, j)
      BY <1>1, <3>1
    <3>3. QED
      BY <3>2, PageOrder
  <2>4. QED
    BY <2>3
<1>4. \E i \in T : \A j \in T : ~Page!Before(j, i)
  <2>1. PICK d \in Down : \A e \in Down : e <= d
    <3> HIDE DEF Down, n
    <3>1. QED
      BY <1>1, <1>2, Largest
  <2>2. PICK i \in T : d = n - RankIn(T, i)
    BY <2>1
  <2>3. ASSUME NEW j \in T PROVE ~Page!Before(j, i)
    <3>1. n - RankIn(T, j) <= n - RankIn(T, i)
      BY <2>1, <2>2
    <3>2. QED
      BY <1>1, <3>1
  <2>4. QED
    BY <2>3
<1>5. QED
  BY <1>3, <1>4

\* A page is a first part of what lies beyond the cursor, and empty only if nothing does.
LEMMA PageIsFirst ==
  ASSUME PageTyped(list, row), NEW limit \in Limits
  PROVE  LET page == Page!Page(limit)
             rest == {i \in Page!Listed : Page!Beyond(i, cursor)}
         IN /\ page \subseteq rest /\ rest \subseteq Ids
            /\ \A i \in page, j \in rest : Page!Before(j, i) => j \in page
            /\ rest # {} => page # {}
            /\ page # {} => /\ Page!LastOf(page) \in page
                            /\ \A j \in page \ {Page!LastOf(page)} :
                                 Page!Before(j, Page!LastOf(page))
<1> DEFINE page == Page!Page(limit)
           rest == {i \in Page!Listed : Page!Beyond(i, cursor)}
<1>1. rest \in SUBSET Ids /\ limit \in Nat \ {0}
  BY PageConstants DEF Page!Listed
<1>2. page = {i \in rest : RankIn(rest, i) < limit}
  BY PageConstants DEF Page!Page, RankIn
<1> HIDE DEF page, rest
<1>3. ASSUME NEW i \in page, NEW j \in rest, Page!Before(j, i) PROVE j \in page
  <2>1. /\ RankIn(rest, j) < RankIn(rest, i) /\ RankIn(rest, i) < limit
        /\ RankIn(rest, j) \in Int /\ RankIn(rest, i) \in Int
    BY <1>1, <1>2, <1>3, Ranks
  <2>2. QED
    BY <1>1, <1>2, <2>1
<1>4. ASSUME rest # {} PROVE page # {}
  <2>1. PICK i \in rest : \A j \in rest : ~Page!Before(j, i)
    BY <1>1, <1>4, FirstAndLast
  <2>2. {j \in rest : Page!Before(j, i)} = {}
    BY <2>1
  <2>3. RankIn(rest, i) = 0
    BY <2>2, FS_EmptySet DEF RankIn
  <2>4. QED
    BY <1>1, <1>2, <2>3
<1>5. ASSUME page # {}
      PROVE  /\ Page!LastOf(page) \in page
             /\ \A j \in page \ {Page!LastOf(page)} : Page!Before(j, Page!LastOf(page))
  <2>1. page \in SUBSET Ids
    BY <1>1, <1>2
  <2>2. \E i \in page : \A j \in page \ {i} : Page!Before(j, i)
    BY <1>5, <2>1, FirstAndLast
  <2>3. Page!LastOf(page) = CHOOSE i \in page : \A j \in page \ {i} : Page!Before(j, i)
    BY DEF Page!LastOf
  <2>4. QED
    BY <2>2, <2>3
<1>6. page \subseteq rest
  BY <1>2
<1>7. QED
  BY <1>1, <1>3, <1>4, <1>5, <1>6 DEF page, rest

\* What is not beyond a cursor comes before all that is.
LEMMA BeyondOnwards ==
  ASSUME PageTyped(list, row), NEW i \in Ids, NEW j \in Ids,
         WalkSound(list, row, cursor, walk, shown, stayed),
         ~IsBeyond(list, row, i, cursor), IsBeyond(list, row, j, cursor)
  PROVE  ~Page!Before(j, i)
<1>1. /\ row[i].at \in Int /\ row[j].at \in Int /\ i \in Int /\ j \in Int
      /\ list.dir \in {"asc", "desc"}
  BY PageOrder DEF PageTyped
<1>2. ~cursor.start
  BY DEF IsBeyond
<1>3. cursor \in [start : {FALSE}, at : Instants, id : Ids]
  BY <1>2, PageConstants DEF WalkSound
<1>4. cursor.at \in Int /\ cursor.id \in Int
  <2>1. cursor.at \in Instants /\ cursor.id \in Ids
    BY <1>3
  <2>2. Instants \subseteq Nat /\ Ids \subseteq Nat
    BY PageConstants
  <2>3. cursor.at \in Nat /\ cursor.id \in Nat
    BY <2>1, <2>2
  <2>4. QED
    BY <2>3
<1>5. QED
  BY <1>1, <1>2, <1>4 DEF IsBeyond, Page!Before, Page!Further

\* A page is shown: what it shows lies beyond the old cursor and not beyond the new one, and what
\* stayed in the list and lies between the two is on it.
LEMMA ShowStep ==
  ASSUME AllPagesSound, NEW limit \in Limits, Page!ShowPage(limit)
  PROVE  AllPagesSound'
<1> DEFINE page == Page!Page(limit)
           rest == {i \in Page!Listed : Page!Beyond(i, cursor)}
           more == \E i \in Page!Listed \ page : Page!Beyond(i, cursor)
           last == Page!LastOf(page)
<1>1. /\ list \in Page!Lists /\ PageTyped(list, row)
      /\ WalkSound(list, row, cursor, walk, shown, stayed) /\ returns \in 0 .. MaxReturns
  BY DEF AllPagesSound
<1>2. /\ walk = "on"
      /\ shown' = [i \in Ids |-> IF i \in page THEN shown[i] + 1 ELSE shown[i]]
      /\ cursor' = IF more THEN Page!After(last) ELSE Page!Start
      /\ walk' = IF more THEN "on" ELSE "ended"
      /\ list' = list /\ row' = row /\ stayed' = stayed /\ returns' = returns
  BY Zenon DEF Page!ShowPage
<1>3. /\ page \subseteq rest /\ rest \subseteq Ids
      /\ \A i \in page, j \in rest : Page!Before(j, i) => j \in page
      /\ rest # {} => page # {}
      /\ page # {} => last \in page /\ \A j \in page \ {last} : Page!Before(j, last)
  <2> HIDE DEF page, rest, last
  <2>1. QED
    BY <1>1, PageIsFirst DEF page, rest, last
<1>4. /\ \A i \in Ids : Page!Beyond(i, cursor) <=> IsBeyond(list, row, i, cursor)
      /\ \A i, j \in Ids : IsBeyond(list, row, i, Page!After(j)) <=> Page!Before(j, i)
      /\ \A i \in Ids : ~Page!Before(i, i)
      /\ \A i, j \in Ids : i # j => Page!Before(i, j) \/ Page!Before(j, i)
      /\ \A i, j \in Ids : Page!Before(i, j) => ~Page!Before(j, i)
  BY <1>1, PageOrder
<1>5. /\ \A i \in Ids : i \in rest <=> row[i].there = "in" /\ IsBeyond(list, row, i, cursor)
      /\ more => rest # {}
      /\ ~more => rest \subseteq page
  BY <1>4 DEF Page!Listed
<1>6. /\ shown \in [Ids -> {0, 1}] /\ stayed \subseteq Ids
      /\ \A i \in stayed : row[i].there = "in"
      /\ \A i \in Ids : shown[i] = 1 => row[i].there # "new"
      /\ \A i \in Ids : shown[i] = 1 => ~IsBeyond(list, row, i, cursor)
      /\ \A i \in Ids : i \in stayed /\ ~IsBeyond(list, row, i, cursor) => shown[i] = 1
  BY <1>1, <1>2 DEF WalkSound
<1>7. \A i \in page : i \in Ids /\ shown[i] = 0 /\ row[i].there = "in"
  <2>1. ASSUME NEW i \in page PROVE i \in Ids /\ shown[i] = 0 /\ row[i].there = "in"
    <3>1. i \in rest /\ i \in Ids
      BY <1>3, <2>1
    <3> HIDE DEF page, rest, more
    <3>2. QED
      BY <1>5, <1>6, <3>1
  <2>2. QED
    BY <2>1
<1> HIDE DEF page, rest, more, last
<1>8. /\ shown' \in [Ids -> {0, 1}]
      /\ \A i \in Ids : shown'[i] = 1 <=> i \in page \/ shown[i] = 1
  BY <1>2, <1>6, <1>7
<1>9. CASE more
  <2>1. last \in page /\ last \in Ids /\ \A j \in page \ {last} : Page!Before(j, last)
    BY <1>3, <1>5, <1>9
  <2>2. cursor' = Page!After(last) /\ walk' = "on"
    BY <1>2, <1>9
  <2>3. Page!After(last) \in [start : {FALSE}, at : Instants, id : Ids]
    <3>1. row[last].at \in Instants
      BY <1>1, <1>7, <2>1 DEF PageTyped
    <3>2. QED
      BY <2>1, <3>1 DEF Page!After
  <2>4. ASSUME NEW i \in Ids, shown'[i] = 1 PROVE ~IsBeyond(list, row, i, Page!After(last))
    <3>1. CASE i \in page
      <4>1. i = last \/ Page!Before(i, last)
        BY <2>1, <3>1
      <4>2. QED
        BY <1>4, <2>1, <4>1
    <3>2. CASE i \notin page
      <4>1. ~IsBeyond(list, row, i, cursor)
        BY <1>6, <1>8, <2>4, <3>2
      <4>2. IsBeyond(list, row, last, cursor)
        BY <1>3, <1>5, <2>1
      <4>3. ~Page!Before(last, i)
        BY <1>1, <2>1, <4>1, <4>2, BeyondOnwards
      <4>4. QED
        BY <1>4, <2>1, <4>3
    <3>3. QED
      BY <3>1, <3>2
  <2>5. ASSUME NEW i \in Ids, i \in stayed, ~IsBeyond(list, row, i, Page!After(last))
        PROVE  shown'[i] = 1
    <3>1. CASE IsBeyond(list, row, i, cursor)
      <4>1. i \in rest
        BY <1>5, <1>6, <2>5, <3>1
      <4>2. i = last \/ Page!Before(i, last)
        BY <1>4, <2>1, <2>5
      <4>3. i \in page
        BY <1>3, <2>1, <4>1, <4>2
      <4>4. QED
        BY <1>8, <4>3
    <3>2. CASE ~IsBeyond(list, row, i, cursor)
      BY <1>6, <1>8, <2>5, <3>2
    <3>3. QED
      BY <3>1, <3>2
  <2>6. \A i \in Ids : shown'[i] = 1 => row[i].there # "new"
    BY <1>6, <1>7, <1>8
  <2>7. WalkSound(list, row, Page!After(last), "on", shown', stayed)
    BY <1>6, <1>8, <2>3, <2>4, <2>5, <2>6 DEF WalkSound
  <2>8. QED
    BY <1>1, <1>2, <2>2, <2>7 DEF AllPagesSound
<1>10. CASE ~more
  <2>1. cursor' = Page!Start /\ walk' = "ended"
    BY <1>2, <1>10
  <2>2. ASSUME NEW i \in stayed PROVE shown'[i] = 1
    <3>1. i \in Ids /\ row[i].there = "in"
      BY <1>6
    <3>2. CASE IsBeyond(list, row, i, cursor)
      BY <1>5, <1>8, <1>10, <3>1, <3>2
    <3>3. CASE ~IsBeyond(list, row, i, cursor)
      BY <1>6, <1>8, <3>1, <3>3
    <3>4. QED
      BY <3>2, <3>3
  <2>3. \A i \in Ids : shown'[i] = 1 => row[i].there # "new"
    BY <1>6, <1>7, <1>8
  <2>4. WalkSound(list, row, Page!Start, "ended", shown', stayed)
    BY <1>6, <1>8, <2>2, <2>3 DEF WalkSound
  <2>5. QED
    BY <1>1, <1>2, <2>1, <2>4 DEF AllPagesSound
<1>11. QED
  BY <1>9, <1>10

\* A walk begins, with nothing shown and everything beyond the cursor.
LEMMA BeginStep ==
  ASSUME AllPagesSound, Page!BeginWalk
  PROVE  AllPagesSound'
<1>1. /\ list \in Page!Lists /\ PageTyped(list, row) /\ returns \in 0 .. MaxReturns
  BY DEF AllPagesSound
<1>2. /\ walk' = "on" /\ cursor' = Page!Start /\ shown' = [i \in Ids |-> 0]
      /\ stayed' = Page!Listed /\ list' = list /\ row' = row /\ returns' = returns
  BY DEF Page!BeginWalk
<1>3. \A i \in Ids : IsBeyond(list, row, i, Page!Start)
  BY PageConstants DEF IsBeyond
<1>4. Page!Listed \subseteq Ids /\ \A i \in Page!Listed : row[i].there = "in"
  BY DEF Page!Listed
<1>5. WalkSound(list, row, Page!Start, "on", [i \in Ids |-> 0], Page!Listed)
  BY <1>3, <1>4 DEF WalkSound
<1>6. QED
  BY <1>1, <1>2, <1>5 DEF AllPagesSound

\* A row that was not in the list, or leaves it, does not disturb the walk; where it was shown, it
\* comes back to no place beyond the cursor.
LEMMA RowMoves ==
  ASSUME NEW l, NEW rows, NEW c, NEW stage, NEW seen, NEW kept, NEW i \in Ids, NEW q \in PageRow,
         l.dir \in {"asc", "desc"},
         PageTyped(l, rows), WalkSound(l, rows, c, stage, seen, kept),
         q.there # "new" /\ q.at \in Instants,
         rows[i].there # "in" \/ (q.there = "out" /\ q.at = rows[i].at),
         \/ rows[i].there = "new"
         \/ q.at = rows[i].at
         \/ l.dir = "desc" /\ q.at > rows[i].at
  PROVE  LET then == [rows EXCEPT ![i] = q]
         IN /\ PageTyped(l, then)
            /\ WalkSound(l, then, c, stage, seen, kept \ {i})
<1> DEFINE then == [rows EXCEPT ![i] = q]
<1>1. PageTyped(l, then)
  BY DEF PageTyped
<1>2. /\ then[i] = q /\ \A j \in Ids \ {i} : then[j] = rows[j]
      /\ \A j \in Ids \ {i} : IsBeyond(l, then, j, c) <=> IsBeyond(l, rows, j, c)
  BY DEF PageTyped, IsBeyond
<1>3. ASSUME seen[i] = 1, stage = "on" PROVE ~IsBeyond(l, then, i, c)
  <2>1. ~IsBeyond(l, rows, i, c) /\ rows[i].there # "new"
    BY <1>3 DEF WalkSound
  <2>2. ~c.start /\ c \in [start : {FALSE}, at : Instants, id : Ids]
    BY <2>1, PageConstants DEF WalkSound, IsBeyond
  <2>3. c.at \in Nat /\ c.id \in Nat /\ i \in Nat /\ q.at \in Nat /\ rows[i].at \in Nat
    <3>1. Instants \subseteq Nat /\ Ids \subseteq Nat
      BY PageConstants
    <3>2. rows[i].at \in Instants
      BY <2>1 DEF PageTyped
    <3>3. c.at \in Instants /\ c.id \in Ids
      BY <2>2
    <3>4. QED
      BY <3>1, <3>2, <3>3
  <2>4. then[i].at = q.at
    BY <1>2
  <2> HIDE DEF then
  <2>5. CASE q.at = rows[i].at
    BY <2>1, <2>4, <2>5 DEF IsBeyond
  <2>6. CASE l.dir = "desc" /\ q.at > rows[i].at
    BY <2>1, <2>2, <2>3, <2>4, <2>6 DEF IsBeyond
  <2>7. QED
    BY <2>1, <2>5, <2>6
<1> HIDE DEF then
<1>4. /\ c \in {Page!Start} \cup [start : {FALSE}, at : Instants, id : Ids]
      /\ stage \in {"none", "on", "ended"} /\ seen \in [Ids -> {0, 1}]
      /\ kept \ {i} \subseteq Ids /\ \A j \in kept \ {i} : then[j].there = "in"
      /\ \A j \in Ids : seen[j] = 1 => then[j].there # "new"
  BY <1>2 DEF WalkSound
<1>5. stage = "on" => \A j \in Ids :
        /\ seen[j] = 1 => ~IsBeyond(l, then, j, c)
        /\ j \in kept \ {i} /\ ~IsBeyond(l, then, j, c) => seen[j] = 1
  BY <1>2, <1>3 DEF WalkSound
<1>6. stage = "ended" => \A j \in kept \ {i} : seen[j] = 1
  BY DEF WalkSound
<1>7. WalkSound(l, then, c, stage, seen, kept \ {i})
  BY <1>4, <1>5, <1>6 DEF WalkSound
<1>8. QED
  BY <1>1, <1>7 DEF then

\* A row appears, leaves or returns.
LEMMA OthersStep ==
  ASSUME AllPagesSound, NEW i \in Ids,
         Page!Leave(i) \/ \E at \in Instants : Page!Appear(i, at) \/ Page!Return(i, at)
  PROVE  AllPagesSound'
<1>1. /\ list \in Page!Lists /\ PageTyped(list, row)
      /\ WalkSound(list, row, cursor, walk, shown, stayed) /\ returns \in 0 .. MaxReturns
      /\ list.dir \in {"asc", "desc"} /\ (list.back = "later" => list.dir = "desc")
  BY ListKinds DEF AllPagesSound
<1>2. row[i] \in PageRow /\ (row[i].there # "new" => row[i].at \in Instants)
      /\ (i \in stayed => row[i].there = "in")
  BY <1>1 DEF PageTyped, WalkSound
<1>3. ASSUME NEW q \in PageRow, q.there # "new" /\ q.at \in Instants,
             row[i].there # "in" \/ (q.there = "out" /\ q.at = row[i].at),
             \/ row[i].there = "new"
             \/ q.at = row[i].at
             \/ list.dir = "desc" /\ q.at > row[i].at,
             row' = [row EXCEPT ![i] = q], stayed' = stayed \ {i}, returns' \in 0 .. MaxReturns,
             UNCHANGED <<list, cursor, walk, shown>>
      PROVE  AllPagesSound'
  <2>1. LET then == [row EXCEPT ![i] = q]
        IN PageTyped(list, then) /\ WalkSound(list, then, cursor, walk, shown, stayed \ {i})
    BY <1>1, <1>3, RowMoves
  <2>2. PageTyped(list, row') /\ WalkSound(list, row', cursor, walk, shown, stayed')
    BY <1>3, <2>1
  <2>3. QED
    BY <1>1, <1>3, <2>2 DEF AllPagesSound
<1>4. CASE Page!Leave(i)
  <2> DEFINE q == [row[i] EXCEPT !.there = "out"]
  <2>1. /\ row[i].there = "in" /\ row' = [row EXCEPT ![i].there = "out"]
        /\ stayed' = stayed \ {i} /\ UNCHANGED <<list, cursor, walk, shown>>
        /\ returns' = returns
    BY <1>4 DEF Page!Leave
  <2>2. q \in PageRow /\ q.there = "out" /\ q.at = row[i].at /\ row[i].at \in Instants
    BY <1>2, <2>1 DEF PageRow
  <2>3. row' = [row EXCEPT ![i] = q]
    BY <2>1
  <2> HIDE DEF q
  <2>4. QED
    BY <1>1, <1>3, <2>1, <2>2, <2>3
<1>5. ASSUME NEW at \in Instants, Page!Appear(i, at) PROVE AllPagesSound'
  <2> DEFINE q == [there |-> "in", at |-> at]
  <2>1. /\ row[i].there = "new" /\ row' = [row EXCEPT ![i] = q]
        /\ stayed' = stayed /\ UNCHANGED <<list, cursor, walk, shown>> /\ returns' = returns
    BY <1>5 DEF Page!Appear
  <2>2. q \in PageRow /\ q.there = "in" /\ q.at \in Instants
    BY DEF PageRow
  <2>3. stayed' = stayed \ {i}
    BY <1>2, <2>1
  <2> HIDE DEF q
  <2>4. QED
    BY <1>1, <1>3, <2>1, <2>2, <2>3
<1>6. ASSUME NEW at \in Instants, Page!Return(i, at) PROVE AllPagesSound'
  <2> DEFINE q == [there |-> "in", at |-> at]
  <2>1. /\ row[i].there = "out" /\ returns < MaxReturns /\ returns' = returns + 1
        /\ row' = [row EXCEPT ![i] = q]
        /\ stayed' = stayed /\ UNCHANGED <<list, cursor, walk, shown>>
    BY <1>6 DEF Page!Return
  <2>2. at = row[i].at \/ (list.back = "later" /\ at > row[i].at)
    BY <1>6 DEF Page!Return
  <2>3. q \in PageRow /\ q.there = "in" /\ q.at \in Instants /\ q.at = at
    BY DEF PageRow
  <2>4. stayed' = stayed \ {i}
    BY <1>2, <2>1
  <2>5. returns' \in 0 .. MaxReturns
    BY <1>1, <2>1, PageConstants
  <2> HIDE DEF q
  <2>6. q.at = row[i].at \/ (list.dir = "desc" /\ q.at > row[i].at)
    BY <1>1, <2>2, <2>3
  <2>7. QED
    BY <1>3, <2>1, <2>3, <2>4, <2>5, <2>6
<1>7. QED
  BY <1>4, <1>5, <1>6

\* So every step of Services keeps walks sound.
LEMMA PageInduct == (Init => PageInv) /\ (PageInv /\ [Next]_all => PageInv')
<1>1. Page!Init => AllPagesSound
  <2> SUFFICES ASSUME Page!Init PROVE AllPagesSound
    OBVIOUS
  <2>1. /\ list \in Page!Lists /\ row = [i \in Ids |-> [there |-> "new", at |-> 0]]
        /\ cursor = Page!Start /\ walk = "none" /\ shown = [i \in Ids |-> 0]
        /\ stayed = {} /\ returns = 0
    BY DEF Page!Init
  <2>2. PageTyped(list, row)
    BY <2>1, ListKinds DEF PageTyped, PageRow
  <2>3. WalkSound(list, row, cursor, walk, shown, stayed)
    BY <2>1 DEF WalkSound
  <2>4. returns \in 0 .. MaxReturns
    BY <2>1, PageConstants
  <2>5. QED
    BY <2>1, <2>2, <2>3, <2>4 DEF AllPagesSound
<1>2. AllPagesSound /\ [Page!Next]_(Page!vars) => AllPagesSound'
  <2> SUFFICES ASSUME AllPagesSound, [Page!Next]_(Page!vars) PROVE AllPagesSound'
    OBVIOUS
  <2>1. CASE UNCHANGED Page!vars
    BY <2>1 DEF Page!vars, AllPagesSound
  <2>2. CASE Page!Next
    BY <2>2, BeginStep, ShowStep, OthersStep DEF Page!Next
  <2>3. QED
    BY <2>1, <2>2
<1>3. Init => PageInv
  BY <1>1, FocusInit DEF PageInv
<1>4. PageInv /\ [Next]_all => PageInv'
  BY <1>2, FocusStep DEF PageInv
<1>5. QED
  BY <1>3, <1>4

(***************************************************************************)
(* A walk through a list shows no row twice, and when it ends it has shown *)
(* every row that was in the list all along, whatever came, went and       *)
(* returned between its pages (utils/pagination.ts).                       *)
(***************************************************************************)
THEOREM WalksAreFaithfulAlways == Spec => []WalksAreFaithful
<1>1. AllPagesSound => Page!WalksAreFaithful
  BY DEF AllPagesSound, WalkSound, Page!WalksAreFaithful
<1>2. PageInv => WalksAreFaithful
  BY <1>1 DEF PageInv, WalksAreFaithful
<1>3. QED
  BY <1>2, PageInduct, PTL DEF Spec
-----------------------------------------------------------------------------
(* The types of all services.                                              *)

FocusOK == focus \in Foci

\* Each invariant contains the types of its service.
LEMMA TypesFollow ==
  FocusOK /\ AccessInv /\ DeletionInv /\ CodesInv /\ SettingsInv /\ SocketInv /\ ReviewInv
    /\ PageInv => TypesOK
<1> SUFFICES ASSUME FocusOK, AccessInv, DeletionInv, CodesInv, SettingsInv, SocketInv, ReviewInv,
                    PageInv
             PROVE  TypesOK
  OBVIOUS
<1>1. ASSUME focus = "access" PROVE Access!TypeOK
  <2>1. AccessTables(user, held, clock) /\ AccessCopies(cache, user, held, clock)
        /\ AccessRequests(request, user, held, clock) /\ AccessLogs(log, user)
    BY <1>1 DEF AccessInv, AllAccessSound
  <2>2. clock \in Access!Time /\ log \in [Users -> Seq(Access!Event)]
    BY <2>1 DEF AccessTables, AccessLogs
  <2>3. user \in [Users -> UserRow] /\ held \in [Users -> Past]
    BY <2>1 DEF AccessTables
  <2>4. cache \in [Processes -> [Users -> AccessEntry]]
    BY <2>1 DEF AccessCopies
  <2>5. /\ request \in [Requests -> AccessRequest]
        /\ \A r \in Requests : request[r].task # "idle"
             => request[r].user \in Users /\ request[r].process \in Processes
    BY <2>1 DEF AccessRequests, AccessSound
  <2>6. QED
    BY Zenon, <2>2, <2>3, <2>4, <2>5 DEF Access!TypeOK, UserRow, Past, AccessEntry, AccessRequest
<1>2. ASSUME focus = "deletion" PROVE Deletion!TypeOK
  <2>1. DeletionAlone!DeletionInv
    BY <1>2 DEF DeletionInv
  <2>2. DeletionAlone!TypeOK
    BY <2>1 DEF DeletionAlone!DeletionInv, DeletionAlone!WellFormed,
       DeletionAlone!RequestRecord, DeletionAlone!TypeOK
  <2>3. QED
    BY <2>2, DeletionSame
<1>3. ASSUME focus = "codes" PROVE Codes!TypeOK
  BY <1>3, CodesSame DEF CodesInv, CodesAlone!CodesInv
<1>4. ASSUME focus = "settings" PROVE Settings!TypeOK
  BY <1>4, SettingsSame DEF SettingsInv, SettingsAlone!KnownInv
<1>5. ASSUME focus = "socket" PROVE Socket!TypeOK
  BY <1>5 DEF SocketInv, AllRoomsSound, RoomsSound, RateSound, Wishes, Socket!TypeOK
<1>6. ASSUME focus = "review" PROVE Review!TypeOK
  <2>1. /\ ReviewTables(review, created, answered) /\ ReviewTellings(told, created, answered)
        /\ ReviewRequests(request, created, answered) /\ editable \in BOOLEAN
    BY <1>6 DEF ReviewInv, AllReviewsSound
  <2>2. answered \subseteq Review!Numbers
    <3>1. created \in 0 .. MaxReviews /\ answered \subseteq 1 .. created
          /\ MaxReviews \in Nat
      BY <2>1, ServicesAssumption DEF ReviewTables, Review!ReviewsAssumption
    <3>2. QED
      BY <3>1 DEF Review!Numbers
  <2>3. QED
    BY <2>1, <2>2 DEF ReviewTables, ReviewTellings, ReviewRequests, ReviewRequest, Review!TypeOK
<1>7. ASSUME focus = "paging" PROVE Page!TypeOK
  <2>1. /\ list \in Page!Lists /\ row \in [Ids -> PageRow] /\ returns \in 0 .. MaxReturns
        /\ WalkSound(list, row, cursor, walk, shown, stayed)
    BY <1>7 DEF PageInv, AllPagesSound, PageTyped
  <2>2. shown \in [Ids -> Nat]
    BY <2>1 DEF WalkSound
  <2>3. QED
    BY <2>1, <2>2 DEF WalkSound, PageRow, Page!TypeOK
<1>8. QED
  BY <1>1, <1>2, <1>3, <1>4, <1>5, <1>6, <1>7 DEF FocusOK, Foci, TypesOK

\* Each service's variables have their types, whichever a behaviour is about.
THEOREM TypesOKAlways == Spec => []TypesOK
<1>1. Init => FocusOK
  BY FocusInit DEF FocusOK
<1>2. FocusOK /\ [Next]_all => FocusOK'
  BY FocusStep DEF FocusOK
<1>3. QED
  BY <1>1, <1>2, AccessInduct, DeletionInduct, CodesInduct, SettingsInduct, SocketInduct,
     ReviewInduct, PageInduct, TypesFollow, PTL DEF Spec
=============================================================================
