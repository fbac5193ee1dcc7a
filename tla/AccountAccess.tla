----------------------------- MODULE AccountAccess -----------------------------
(***************************************************************************)
(* Who may do what: requireAuth, the per-process cache it asks, and the    *)
(* handlers that change the row the cache copies.  Every request that      *)
(* carries a token is let in or turned away by the account's status and    *)
(* seller flag as the process last knew them; suspending, reinstating and  *)
(* enrolling drop the entry of the process that did it, and no other.      *)
(*                                                                         *)
(* A lookup reads the row in one step and stores it in a later one.        *)
(* Suspend, reinstate and enrol lock the User row, so each is one action,  *)
(* followed by the invalidation in the same process.  Deleting an account  *)
(* (AccountDeletion) takes its seller flag away and drops no entry.        *)
(***************************************************************************)
EXTENDS Integers, Sequences

CONSTANTS
  Users, Processes, Requests,
  Details,     \* what a seller may give at enrolment, or at registration
  NoDetails,   \* of an account that is not a seller
  TTL,         \* life of a cache entry
  MaxQuery,    \* bound on the time a row takes from the table to the cache
  MaxTime,     \* bound on the clock
  MaxLog,      \* bound on what may happen to one account
  NoUser, NoProcess

AccountAccessAssumption ==
  /\ TTL \in Nat \ {0} /\ MaxQuery \in Nat /\ MaxTime \in Nat /\ MaxLog \in Nat
  /\ NoDetails \notin Details /\ NoUser \notin Users /\ NoProcess \notin Processes
  /\ Details \cap {"none", "suspended", "reinstated", "deleted"} = {}

VARIABLES
  clock,
  user,      \* User rows: role, status, and the seller's details
  log,       \* AuditLog rows about each account, with registration as a seller and deletions
  cache,     \* the map of user-status.service.ts in each process
  request,   \* what each request in flight does next
  held       \* history: when an account last had each pair of flags, before now

vars == <<clock, user, log, cache, request, held>>

Never == -1
Time == 0 .. MaxTime
Access == [suspended : BOOLEAN, seller : BOOLEAN]
NoAccess == [suspended |-> FALSE, seller |-> FALSE]
NoEntry == [access |-> NoAccess, at |-> Never]

\* The roles a route passes to requireAuth; "own" names none, which admits all.
Routes == {"own", "manage", "sell", "finish", "enroll"}
Roles(route) == CASE route = "manage" -> {"ADMIN"}
                  [] route = "enroll" -> {"BUYER"}
                  [] route = "sell"   -> {"SELLER"}
                  [] route = "finish" -> {"BUYER", "SELLER"}
                  [] OTHER            -> {"BUYER", "SELLER", "ADMIN"}

Tasks == {"idle", "lookup", "found", "enroll", "invalidate"}
Idle == [task |-> "idle", user |-> NoUser, process |-> NoProcess, enrolls |-> FALSE,
         access |-> NoAccess, since |-> 0]

Event == {"suspended", "reinstated", "deleted"} \cup Details

TypeOK ==
  /\ clock \in Time
  /\ user \in [Users -> [role : {"BUYER", "ADMIN"}, status : {"ACTIVE", "SUSPENDED"},
                         seller : Details \cup {NoDetails}]]
  /\ log \in [Users -> Seq(Event)]
  /\ cache \in [Processes -> [Users -> [access : Access, at : Time \cup {Never}]]]
  /\ request \in [Requests ->
       [task : Tasks, user : Users \cup {NoUser}, process : Processes \cup {NoProcess},
        enrolls : BOOLEAN, access : Access, since : Time]]
  /\ \A r \in Requests : request[r].task # "idle"
       => request[r].user \in Users /\ request[r].process \in Processes
  /\ held \in [Users -> [Access -> Time \cup {Never}]]

\* Older clients still register as sellers; an admin never is one.
Init ==
  /\ clock = 0
  /\ user \in [Users -> [role : {"BUYER", "ADMIN"}, status : {"ACTIVE"},
                         seller : Details \cup {NoDetails}]]
  /\ \A u \in Users : user[u].role = "ADMIN" => user[u].seller = NoDetails
  /\ log = [u \in Users |-> IF user[u].seller = NoDetails THEN <<>> ELSE <<user[u].seller>>]
  /\ cache = [p \in Processes |-> [u \in Users |-> NoEntry]]
  /\ request = [r \in Requests |-> Idle]
  /\ held = [u \in Users |-> [f \in Access |-> Never]]

Flags(u) == [suspended |-> user[u].status = "SUSPENDED", seller |-> user[u].seller # NoDetails]
Admin(u) == user[u].role = "ADMIN"
Live(p, u) == cache[p][u].at # Never /\ clock - cache[p][u].at < TTL

Is(r, task) == request[r].task = task
Ends(r) == request' = [request EXCEPT ![r] = Idle]
Begins(r, task, p, u, enrolls) ==
  request' = [request EXCEPT ![r] =
    [Idle EXCEPT !.task = task, !.process = p, !.user = u, !.enrolls = enrolls]]

\* The row of u changes: it is remembered when it last had the flags it loses.
Sets(u, row) ==
  /\ user' = [user EXCEPT ![u] = row]
  /\ held' = [held EXCEPT ![u][Flags(u)] = clock]
Logs(u, event) ==
  /\ Len(log[u]) < MaxLog
  /\ log' = [log EXCEPT ![u] = Append(@, event)]

-----------------------------------------------------------------------------
(* requireAuth, and the cache behind it.                                   *)

\* The refusals that need no lookup: an admin is nothing but an admin.
RoleRefused(u, route) ==
  IF Admin(u) THEN "ADMIN" \notin Roles(route)
              ELSE Roles(route) \cap {"BUYER", "SELLER"} = {}

\* requireAuth's decision, given what the process knows of the account.
Allows(u, route, access) ==
  /\ ~RoleRefused(u, route)
  /\ \/ Admin(u) \/ "BUYER" \in Roles(route)
     \/ "SELLER" \in Roles(route) /\ access.seller
  /\ ~access.suspended

\* The request is answered; if it asked to become a seller its handler goes on with it.
Decides(r, p, u, enrolls, access) ==
  IF enrolls /\ Allows(u, "enroll", access) THEN Begins(r, "enroll", p, u, FALSE)
                                            ELSE Ends(r)

\* Mutant of Ask: an entry that answers is taken for fresh, so that a busy account's never expires.
AskAndTouch(r, p, u, route) ==
  /\ Is(r, "idle")
  /\ ~RoleRefused(u, route)
  /\ \/ /\ Live(p, u)
        /\ Decides(r, p, u, route = "enroll", cache[p][u].access)
        /\ cache' = [cache EXCEPT ![p][u].at = clock]
     \/ /\ ~Live(p, u)
        /\ Begins(r, "lookup", p, u, route = "enroll")
        /\ UNCHANGED cache
  /\ UNCHANGED <<clock, user, log, held>>
\* A request with a token of u: refused by its role, answered from the cache, or looked up.
Ask(r, p, u, route) ==
  /\ Is(r, "idle")
  /\ ~RoleRefused(u, route)
  /\ IF Live(p, u) THEN Decides(r, p, u, route = "enroll", cache[p][u].access)
                   ELSE Begins(r, "lookup", p, u, route = "enroll")
  /\ UNCHANGED <<clock, user, log, cache, held>>

\* The database reads the row for getAccountAccess.
ReadAccess(r) ==
  /\ Is(r, "lookup")
  /\ request' = [request EXCEPT ![r].task = "found", ![r].since = clock,
                                ![r].access = Flags(request[r].user)]
  /\ UNCHANGED <<clock, user, log, cache, held>>

\* Its answer arrives: cached from now on, and acted on.
CacheAccess(r) ==
  LET q == request[r]
  IN /\ Is(r, "found")
     /\ cache' = [cache EXCEPT ![q.process][q.user] = [access |-> q.access, at |-> clock]]
     /\ Decides(r, q.process, q.user, q.enrolls, q.access)
     /\ UNCHANGED <<clock, user, log, held>>

-----------------------------------------------------------------------------
(* The handlers that change the row, and what they do once it is committed. *)

\* suspendUser: an admin other than u.  The test and both writes are under the row lock.
Suspend(r, p, u) ==
  /\ Is(r, "idle") /\ user[u].status # "SUSPENDED"
  /\ Sets(u, [user[u] EXCEPT !.status = "SUSPENDED"])
  /\ Logs(u, "suspended")
  /\ Begins(r, "invalidate", p, u, FALSE)
  /\ UNCHANGED <<clock, cache>>

\* reinstateUser, likewise.
Reinstate(r, p, u) ==
  /\ Is(r, "idle") /\ user[u].status = "SUSPENDED"
  /\ Sets(u, [user[u] EXCEPT !.status = "ACTIVE"])
  /\ Logs(u, "reinstated")
  /\ Begins(r, "invalidate", p, u, FALSE)
  /\ UNCHANGED <<clock, cache>>

\* Mutant of Enroll: without the test under the lock, the second enrolment is stored too.
EnrollAgain(r, details) ==
  LET u == request[r].user
  IN /\ Is(r, "enroll")
     /\ Sets(u, [user[u] EXCEPT !.seller = details])
     /\ Logs(u, details)
     /\ request' = [request EXCEPT ![r].task = "invalidate"]
     /\ UNCHANGED <<clock, cache>>
\* enrollSeller: an account that is a seller already keeps its record; so does one
\* that accepted terms no longer current, and its request ends.
Enroll(r, details) ==
  LET u == request[r].user
  IN /\ Is(r, "enroll")
     /\ \/ /\ user[u].seller # NoDetails
           /\ request' = [request EXCEPT ![r].task = "invalidate"]
           /\ UNCHANGED <<user, held, log>>
        \/ /\ user[u].seller = NoDetails
           /\ Sets(u, [user[u] EXCEPT !.seller = details])
           /\ Logs(u, details)
           /\ request' = [request EXCEPT ![r].task = "invalidate"]
        \/ /\ user[u].seller = NoDetails
           /\ Ends(r)
           /\ UNCHANGED <<user, held, log>>
     /\ UNCHANGED <<clock, cache>>

\* invalidateUserStatusCache, in the process that served the request.
Invalidate(r) ==
  LET q == request[r]
  IN /\ Is(r, "invalidate")
     /\ cache' = [cache EXCEPT ![q.process][q.user] = NoEntry]
     /\ Ends(r)
     /\ UNCHANGED <<clock, user, log, held>>

\* anonymizeUser: the seller's details and the flag go; no process is told.
Anonymize(u) ==
  /\ Sets(u, [user[u] EXCEPT !.seller = NoDetails])
  /\ Logs(u, "deleted")
  /\ UNCHANGED <<clock, cache, request>>

-----------------------------------------------------------------------------
(* What happens meanwhile.                                                 *)

\* A request dies with its connection, or a query fails (a failed lookup is answered 401).
RequestDies(r) ==
  /\ ~Is(r, "idle")
  /\ Ends(r)
  /\ UNCHANGED <<clock, user, log, cache, held>>

\* A process is restarted: its map is empty and its requests are gone.
Restart(p) ==
  /\ cache' = [cache EXCEPT ![p] = [u \in Users |-> NoEntry]]
  /\ request' = [r \in Requests |-> IF request[r].process = p THEN Idle ELSE request[r]]
  /\ UNCHANGED <<clock, user, log, held>>

\* Time passes; a row read for a cache reaches it within MaxQuery.
Tick ==
  /\ clock < MaxTime
  /\ \A r \in Requests : Is(r, "found") => clock - request[r].since < MaxQuery
  /\ clock' = clock + 1
  /\ UNCHANGED <<user, log, cache, request, held>>

Next ==
  \/ \E r \in Requests :
       \/ ReadAccess(r) \/ CacheAccess(r) \/ Invalidate(r)
       \/ RequestDies(r)
       \/ \E d \in Details : Enroll(r, d)
       \/ \E p \in Processes, u \in Users :
            \/ Suspend(r, p, u) \/ Reinstate(r, p, u)
            \/ \E route \in Routes : Ask(r, p, u, route)
  \/ \E u \in Users : Anonymize(u)
  \/ \E p \in Processes : Restart(p)
  \/ Tick

Spec == Init /\ [][Next]_vars

-----------------------------------------------------------------------------
(* Properties.                                                             *)

\* The account had these flags less than a cache life and a query ago.
Recent(u, access) ==
  \/ access = Flags(u)
  \/ held[u][access] # Never /\ clock - held[u][access] < TTL + MaxQuery

\* What an account may do on a route, as the comment of requireAuth says it.
Entitled(u, route, access) ==
  /\ ~access.suspended
  /\ Admin(u) => route \in {"own", "manage"}
  /\ ~Admin(u) => route # "manage" /\ (route = "sell" => access.seller)

\* Whatever a process would answer now, from its cache or from a row on its way there, is right
\* for flags the account has, or had less than a cache life and a query ago: a suspension, a
\* reinstatement, an enrolment and a deletion come to bite everywhere, though only one process
\* is told and a lookup in flight may store the old flags after it was.
AnswersAreRecent ==
  \A u \in Users, route \in Routes :
    LET Right(known) == \E access \in Access :
          Recent(u, access) /\ (Allows(u, route, known) <=> Entitled(u, route, access))
    IN /\ \A p \in Processes : Live(p, u) => Right(cache[p][u].access)
       /\ \A r \in Requests : Is(r, "found") /\ request[r].user = u => Right(request[r].access)

Last(u, events) ==
  LET S == {i \in DOMAIN log[u] : log[u][i] \in events}
  IN IF S = {} THEN "none" ELSE log[u][CHOOSE i \in S : \A j \in S : j <= i]

\* The audit log accounts for the row: the account is suspended exactly if the last word on
\* it was a suspension, and its seller details are those of the one enrolment since the
\* last deletion, whoever else enrolled, suspended or deleted at the same time.
AuditExplainsRow ==
  \A u \in Users :
    /\ user[u].status = "SUSPENDED" <=> Last(u, {"suspended", "reinstated"}) = "suspended"
    /\ LET last == Last(u, Details \cup {"deleted"})
       IN user[u].seller = IF last \in Details THEN last ELSE NoDetails
    /\ \A i, j \in DOMAIN log[u] :
         i < j /\ {log[u][i], log[u][j]} \subseteq Details
           => \E k \in i .. j : log[u][k] = "deleted"

=============================================================================
