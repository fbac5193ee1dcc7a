---------------------------- MODULE AccountDeletion ----------------------------
(***************************************************************************)
(* Deleting an account (account.service.ts): its owner asks for it with    *)
(* the password, or an admin does.  Two counts, sent together, look for an *)
(* active auction of the account and for an unpaid sale of either side; if *)
(* both find none, the row is anonymized after a slow hash, without        *)
(* looking again.  Auctions and sales go on meanwhile.                     *)
(*                                                                         *)
(* Of what the account owes, the counts see whether there is any of each   *)
(* kind, and so does the model.                                            *)
(***************************************************************************)
CONSTANTS Users, Requests, NoUser

AccountDeletionAssumption == NoUser \notin Users

VARIABLES
  owes,       \* the kinds of obligation each account has one of, or more
  deleted,    \* the accounts that are anonymized
  reported,   \* the accounts an audit row says an admin has anonymized
  request     \* what each request does next; `standing': the kinds owed ever since it began

vars == <<owes, deleted, reported, request>>

Obligations == {"auction", "sale"}
Idle == [task |-> "idle", user |-> NoUser, by |-> "owner", uncounted |-> {}, standing |-> {}]

TypeOK ==
  /\ owes \in [Users -> SUBSET Obligations]
  /\ deleted \subseteq Users /\ reported \subseteq deleted
  /\ request \in [Requests ->
       [task : {"idle", "count", "anonymize", "report"}, user : Users \cup {NoUser},
        by : {"owner", "admin"}, uncounted : SUBSET Obligations, standing : SUBSET Obligations]]
  /\ \A r \in Requests : request[r].task # "idle" => request[r].user \in Users

Init ==
  /\ owes \in [Users -> SUBSET Obligations]
  /\ deleted = {}
  /\ reported = {}
  /\ request = [r \in Requests |-> Idle]

Is(r, task) == request[r].task = task
Ends(r) == request' = [request EXCEPT ![r] = Idle]

-----------------------------------------------------------------------------
(* The request.                                                            *)

\* POST /delete-account up to the check, or an admin's /users/:userId/anonymize.  The password
\* of a deleted account matches nothing; an admin may repeat the deletion.
AskForDeletion(r, u, by) ==
  /\ Is(r, "idle")
  /\ by = "owner" => u \notin deleted
  /\ request' = [request EXCEPT ![r] =
       [task |-> "count", user |-> u, by |-> by, uncounted |-> Obligations,
        standing |-> owes[u]]]
  /\ UNCHANGED <<owes, deleted, reported>>

\* Mutant of Count: purchases and sales are forgotten, as if only auctions were in the way.
CountAuctionsOnly(r, kind) ==
  LET q == request[r]
  IN /\ Is(r, "count") /\ kind \in q.uncounted
     /\ IF kind = "auction" /\ kind \in owes[q.user] THEN Ends(r)
        ELSE request' = [request EXCEPT
               ![r].uncounted = @ \ {kind},
               ![r].task = IF q.uncounted = {kind} THEN "anonymize" ELSE @]
     /\ UNCHANGED <<owes, deleted, reported>>
\* One of the two counts of checkAccountDeletable, in either order; finding one is a refusal.
Count(r, kind) ==
  LET q == request[r]
  IN /\ Is(r, "count") /\ kind \in q.uncounted
     /\ IF kind \in owes[q.user] THEN Ends(r)
        ELSE request' = [request EXCEPT
               ![r].uncounted = @ \ {kind},
               ![r].task = IF q.uncounted = {kind} THEN "anonymize" ELSE @]
     /\ UNCHANGED <<owes, deleted, reported>>

\* The transaction of anonymizeUser.  An admin's request still has to write its audit row.
Anonymize(r) ==
  /\ Is(r, "anonymize")
  /\ deleted' = deleted \cup {request[r].user}
  /\ IF request[r].by = "admin" THEN request' = [request EXCEPT ![r].task = "report"]
                                ELSE Ends(r)
  /\ UNCHANGED <<owes, reported>>

\* The audit row of an admin's deletion, a statement of its own.
Report(r) ==
  /\ Is(r, "report")
  /\ reported' = reported \cup {request[r].user}
  /\ Ends(r)
  /\ UNCHANGED <<owes, deleted>>

-----------------------------------------------------------------------------
(* Auctions and sales, of which only this is told here; see                *)
(* AuctionLifecycle and SaleLifecycle.                                     *)

\* An auction begins or a sale is won: an access token opens them as long as it lives.
Owe(u, kind) ==
  /\ kind \notin owes[u]
  /\ owes' = [owes EXCEPT ![u] = @ \cup {kind}]
  /\ UNCHANGED <<deleted, reported, request>>

Settled(u, kind) == [r \in Requests |->
  IF request[r].user = u THEN [request[r] EXCEPT !.standing = @ \ {kind}] ELSE request[r]]

\* The sale is paid for or given up, or the auction ends without one.
Discharge(u, kind) ==
  /\ kind \in owes[u]
  /\ owes' = [owes EXCEPT ![u] = @ \ {kind}]
  /\ request' = Settled(u, kind)
  /\ UNCHANGED <<deleted, reported>>

\* The auction closes with a winner: what was an open auction is an unpaid sale.
AuctionSells(u) ==
  /\ "auction" \in owes[u]
  /\ owes' = [owes EXCEPT ![u] = {"sale"}]
  /\ request' = Settled(u, "auction")
  /\ UNCHANGED <<deleted, reported>>

\* A request dies with its connection, or a statement of it fails.
RequestDies(r) ==
  /\ ~Is(r, "idle")
  /\ Ends(r)
  /\ UNCHANGED <<owes, deleted, reported>>

Next ==
  \/ \E r \in Requests :
       \/ Anonymize(r) \/ Report(r) \/ RequestDies(r)
       \/ \E kind \in Obligations : Count(r, kind)
       \/ \E u \in Users, by \in {"owner", "admin"} : AskForDeletion(r, u, by)
  \/ \E u \in Users :
       \/ AuctionSells(u)
       \/ \E kind \in Obligations : Owe(u, kind) \/ Discharge(u, kind)

Spec == Init /\ [][Next]_vars

-----------------------------------------------------------------------------
(* Properties.                                                             *)

\* "no ACTIVE auction as seller and no PENDING transaction on either side": an account is
\* anonymized only if whatever it owed when the deletion was asked for has come to an end,
\* in whichever order the counts are answered and whatever begins or ends between them.
DeletedFreeOfOldDebts ==
  [][\A r \in Requests : Anonymize(r) => request[r].standing = {}]_vars
=============================================================================
