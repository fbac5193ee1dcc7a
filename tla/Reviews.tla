--------------------------------- MODULE Reviews ---------------------------------
(***************************************************************************)
(* The review of a delivered sale (reviews.routes.ts): the buyer writes    *)
(* one, may correct or delete it within a window, and may then write       *)
(* another; the seller replies to it.  Every handler reads the review and  *)
(* writes it by its id in a later statement, without looking again.        *)
(*                                                                         *)
(* A review is its number, in the order they are created.  The model is of *)
(* one sale, whose buyer and seller are the only ones let through.         *)
(***************************************************************************)
EXTENDS Integers, FiniteSets

CONSTANTS
  Requests,
  Stars, Comments,
  Replies,
  NoText,       \* no comment, no reply
  NotGiven,     \* a field the body of an edit leaves out
  MaxReviews    \* bound on the reviews created

ReviewsAssumption ==
  /\ NotGiven \notin Stars \cup Comments \cup {NoText}
  /\ NoText \notin Comments \cup Replies
  /\ MaxReviews \in Nat

VARIABLES
  review,     \* the SellerReview rows
  created,    \* how many there have been
  editable,   \* the edit window of the newest is open
  request,    \* what each request does next, and the row as it read it
  told,       \* notifications: reviews the seller, and replies the buyer, was told of
  answered    \* history: the reviews that some request replied to, successfully

vars == <<review, created, editable, request, told, answered>>

Numbers == 1 .. MaxReviews
Content == [stars : Stars, comment : Comments \cup {NoText}]
NoContent == [stars |-> 0, comment |-> NoText]
NoRow == [there |-> FALSE, content |-> NoContent, reply |-> NoText]
Row == {NoRow} \cup [there : {TRUE}, content : Content, reply : Replies \cup {NoText}]
Idle == [task |-> "idle", number |-> 0, read |-> NoRow]

TypeOK ==
  /\ review \in [Numbers -> Row]
  /\ created \in 0 .. MaxReviews
  /\ editable \in BOOLEAN
  /\ request \in [Requests ->
       [task : {"idle", "create", "edit", "delete", "reply", "tellSeller", "tellBuyer"},
        number : 0 .. MaxReviews, read : Row]]
  /\ told \in [seller : SUBSET Numbers, buyer : SUBSET Numbers]
  /\ answered \subseteq Numbers

Init ==
  /\ review = [n \in Numbers |-> NoRow]
  /\ created = 0
  /\ editable = FALSE
  /\ request = [r \in Requests |-> Idle]
  /\ told = [seller |-> {}, buyer |-> {}]
  /\ answered = {}

Living == {n \in Numbers : review[n].there}

Is(r, task) == request[r].task = task
Ends(r) == request' = [request EXCEPT ![r] = Idle]
Reads(r, task, n) ==
  request' = [request EXCEPT ![r] = [task |-> task, number |-> n, read |-> review[n]]]
Tells(r, task, n) ==
  request' = [request EXCEPT ![r] = [Idle EXCEPT !.task = task, !.number = n]]

-----------------------------------------------------------------------------
(* The buyer.                                                              *)

\* POST / as far as the pre-check: there is no review of the sale.
AskToReview(r) ==
  /\ Is(r, "idle") /\ Living = {}
  /\ request' = [request EXCEPT ![r].task = "create"]
  /\ UNCHANGED <<review, created, editable, told, answered>>

\* The insert; a second one for the sale is refused by the unique transactionId (P2002).
CreateReview(r, content) ==
  /\ Is(r, "create") /\ created < MaxReviews
  /\ \/ /\ Living # {}
        /\ Ends(r)
        /\ UNCHANGED <<review, created, editable>>
     \/ /\ Living = {}
        /\ created' = created + 1
        /\ review' = [review EXCEPT ![created + 1] =
             [there |-> TRUE, content |-> content, reply |-> NoText]]
        /\ editable' = TRUE
        /\ Tells(r, "tellSeller", created + 1)
  /\ UNCHANGED <<told, answered>>

\* PATCH and DELETE /:reviewId as far as the window, which only the newest review can be in.
AskToChange(r, task, n) ==
  /\ Is(r, "idle") /\ task \in {"edit", "delete"}
  /\ n \in Living /\ n = created /\ editable
  /\ Reads(r, task, n)
  /\ UNCHANGED <<review, created, editable, told, answered>>

\* What the columns become: what the body gives, and else what was read.
Merged(given, read) ==
  [stars |-> IF given.stars = NotGiven THEN read.stars ELSE given.stars,
   comment |-> IF given.comment = NotGiven THEN read.comment ELSE given.comment]

\* Mutant of EditReview: the row is written back whole, with the columns as they were read.
EditWholeRow(r, given) ==
  LET n == request[r].number
      read == request[r].read
  IN /\ Is(r, "edit") /\ n \in Living
     /\ review' = [review EXCEPT ![n] = [read EXCEPT !.content = Merged(given, @)]]
     /\ Ends(r)
     /\ UNCHANGED <<created, editable, told, answered>>
\* The update of an edit, by id: it fails when the review has been deleted (P2025).
EditReview(r, given) ==
  LET n == request[r].number
  IN /\ Is(r, "edit") /\ n \in Living
     /\ review' = [review EXCEPT ![n].content = Merged(given, request[r].read.content)]
     /\ Ends(r)
     /\ UNCHANGED <<created, editable, told, answered>>

DeleteReview(r) ==
  /\ Is(r, "delete") /\ request[r].number \in Living
  /\ review' = [review EXCEPT ![request[r].number] = NoRow]
  /\ Ends(r)
  /\ UNCHANGED <<created, editable, told, answered>>

-----------------------------------------------------------------------------
(* The seller.                                                             *)

\* POST /:reviewId/reply as far as "You've already replied to this review."
AskToReply(r, n) ==
  /\ Is(r, "idle")
  /\ n \in Living /\ review[n].reply = NoText
  /\ Reads(r, "reply", n)
  /\ UNCHANGED <<review, created, editable, told, answered>>

\* The update of a reply, whether there is one by now or not.
ReplyToReview(r, text) ==
  LET n == request[r].number
  IN /\ Is(r, "reply") /\ n \in Living
     /\ review' = [review EXCEPT ![n].reply = text]
     /\ answered' = answered \cup {n}
     /\ Tells(r, "tellBuyer", n)
     /\ UNCHANGED <<created, editable, told>>

-----------------------------------------------------------------------------
(* What else happens.                                                      *)

\* The notification of the other side; the buyer's may fail without a word to the seller.
Tell(r) ==
  /\ \/ Is(r, "tellSeller") /\ told' = [told EXCEPT !.seller = @ \cup {request[r].number}]
     \/ Is(r, "tellBuyer") /\ told' = [told EXCEPT !.buyer = @ \cup {request[r].number}]
  /\ Ends(r)
  /\ UNCHANGED <<review, created, editable, answered>>

\* Time passes, or an admin changes reviewEditWindowHours.
MoveWindow ==
  /\ created > 0
  /\ editable' = ~editable
  /\ UNCHANGED <<review, created, request, told, answered>>

\* A request dies, or its statement fails: P2025 when the row is gone.
RequestDies(r) ==
  /\ ~Is(r, "idle")
  /\ Ends(r)
  /\ UNCHANGED <<review, created, editable, told, answered>>

\* The bodies of an edit: each column may be left out.
Bodies == [stars : Stars \cup {NotGiven}, comment : Comments \cup {NoText, NotGiven}]

Next ==
  \/ \E r \in Requests :
       \/ AskToReview(r) \/ DeleteReview(r) \/ Tell(r) \/ RequestDies(r)
       \/ \E content \in Content : CreateReview(r, content)
       \/ \E n \in Numbers :
            \/ AskToReply(r, n)
            \/ \E task \in {"edit", "delete"} : AskToChange(r, task, n)
       \/ \E given \in Bodies : EditReview(r, given)
       \/ \E text \in Replies : ReplyToReview(r, text)
  \/ MoveWindow

Spec == Init /\ [][Next]_vars

-----------------------------------------------------------------------------
(* Properties.                                                             *)

\* However double submissions, corrections, deletions and replies cross: the sale has one review
\* at most, a reply stands under the review its seller had read, and stays there as long as that
\* review does, and nobody is told of a review or a reply that was not stored.
ReviewsDontCross ==
  /\ Cardinality(Living) <= 1
  /\ \A n \in Living : review[n].reply # NoText <=> n \in answered
  /\ \A n \in told.seller : n <= created
  /\ told.buyer \subseteq answered
=============================================================================
