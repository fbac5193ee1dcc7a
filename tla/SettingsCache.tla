----------------------------- MODULE SettingsCache -----------------------------
(***************************************************************************)
(* The platform settings (settings.service.ts): one row, copied by every   *)
(* process for TTL, and the maintenance guard that asks the copy before    *)
(* every request.  Requests that miss together share one query.  An update *)
(* keeps its own result and tells every process, its own included, to drop *)
(* its copy; the message may be lost, may come late, and does not reach a  *)
(* query in flight, whose answer is stored whatever happened since.        *)
(***************************************************************************)
EXTENDS Integers

CONSTANTS
  Processes,
  Updates,        \* PUT requests
  Values,         \* what the row may say
  Closed,         \* the values with maintenanceMode on
  DEFAULTS,       \* what it says before it is first written
  TTL,
  MaxQuery,       \* bound on the time an answer of the database is on its way
  MaxTime,        \* bound on the clock
  NoValue, NoProcess

SettingsCacheAssumption ==
  /\ DEFAULTS \in Values /\ Closed \subseteq Values /\ NoValue \notin Values
  /\ TTL \in Nat \ {0} /\ MaxQuery \in Nat /\ MaxTime \in Nat
  /\ NoProcess \notin Processes

VARIABLES
  clock,
  row,       \* the PlatformSetting row, or the defaults while there is none
  cache,     \* the copy of each process
  inflight,  \* its shared query
  update,    \* the PUTs in flight: stored, and not yet answered
  message,   \* the processes an invalidation is on its way to
  held       \* history: when the row last said each value, before now

vars == <<clock, row, cache, inflight, update, message, held>>

Never == -1
Time == 0 .. MaxTime
NoCopy == [data |-> NoValue, at |-> Never]
NoQuery == [stage |-> "none", data |-> NoValue, since |-> 0]
NotSent == [process |-> NoProcess, data |-> NoValue, since |-> 0]

TypeOK ==
  /\ clock \in Time
  /\ row \in Values
  /\ cache \in [Processes -> [data : Values, at : Time] \cup {NoCopy}]
  /\ inflight \in [Processes -> {NoQuery}
       \cup [stage : {"sent"}, data : {NoValue}, since : {0}]
       \cup [stage : {"read"}, data : Values, since : Time]]
  /\ update \in [Updates -> {NotSent} \cup [process : Processes, data : Values, since : Time]]
  /\ message \subseteq Processes
  /\ held \in [Values -> Time \cup {Never}]

Init ==
  /\ clock = 0
  /\ row = DEFAULTS
  /\ cache = [p \in Processes |-> NoCopy]
  /\ inflight = [p \in Processes |-> NoQuery]
  /\ update = [u \in Updates |-> NotSent]
  /\ message = {}
  /\ held = [v \in Values |-> Never]

Live(p) == cache[p].at # Never /\ clock - cache[p].at < TTL

-----------------------------------------------------------------------------
(* Reading.                                                                *)

\* getPlatformSettings on a miss: the first caller sends the query, the others wait for it.
SendQuery(p) ==
  /\ ~Live(p) /\ inflight[p].stage = "none"
  /\ inflight' = [inflight EXCEPT ![p] = [NoQuery EXCEPT !.stage = "sent"]]
  /\ UNCHANGED <<clock, row, cache, update, message, held>>

\* The database reads the row (fetchSettings).
ReadRow(p) ==
  /\ inflight[p].stage = "sent"
  /\ inflight' = [inflight EXCEPT ![p] = [stage |-> "read", data |-> row, since |-> clock]]
  /\ UNCHANGED <<clock, row, cache, update, message, held>>

\* Its answer is stored, and given to all who waited.
StoreAnswer(p) ==
  /\ inflight[p].stage = "read"
  /\ cache' = [cache EXCEPT ![p] = [data |-> inflight[p].data, at |-> clock]]
  /\ inflight' = [inflight EXCEPT ![p] = NoQuery]
  /\ UNCHANGED <<clock, row, update, message, held>>

\* The query fails: whoever waited gets the error, and the next caller tries again.
QueryFails(p) ==
  /\ inflight[p].stage # "none"
  /\ inflight' = [inflight EXCEPT ![p] = NoQuery]
  /\ UNCHANGED <<clock, row, cache, update, message, held>>

\* maintenanceGuard, given what the process knows, NoValue when it could not be read:
\* some paths are exempt, an admin's token opens the others, and it fails open.
GuardAdmits(caller, known) ==
  known \notin Closed \/ caller \in {"exempt", "admin"}

-----------------------------------------------------------------------------
(* Writing.                                                                *)

\* PUT /settings: the upsert merges the patch into the row and returns it.
StoreUpdate(u, p, v) ==
  /\ update[u] = NotSent
  /\ row' = v
  /\ held' = [held EXCEPT ![row] = clock]
  /\ update' = [update EXCEPT ![u] = [process |-> p, data |-> v, since |-> clock]]
  /\ UNCHANGED <<clock, cache, inflight, message>>

\* Its result becomes the copy of this process, and the invalidation is sent to every one.
\* Two results may arrive in either order.
Publish(u) ==
  /\ update[u] # NotSent
  /\ cache' = [cache EXCEPT ![update[u].process] = [data |-> update[u].data, at |-> clock]]
  /\ message' = Processes
  /\ update' = [update EXCEPT ![u] = NotSent]
  /\ UNCHANGED <<clock, row, inflight, held>>

\* Mutant of Invalidate: an entry that is confirmed is worth another life.
InvalidateExtends(p) ==
  /\ p \in message
  /\ cache' = [cache EXCEPT ![p] = IF Live(p) THEN [@ EXCEPT !.at = clock] ELSE NoCopy]
  /\ message' = message \ {p}
  /\ UNCHANGED <<clock, row, inflight, update, held>>
\* The subscriber of p drops its copy.
Invalidate(p) ==
  /\ p \in message
  /\ cache' = [cache EXCEPT ![p] = NoCopy]
  /\ message' = message \ {p}
  /\ UNCHANGED <<clock, row, inflight, update, held>>

\* Redis was down, or p not subscribed at the time: pub/sub keeps nothing.
LoseMessage(p) ==
  /\ p \in message
  /\ message' = message \ {p}
  /\ UNCHANGED <<clock, row, cache, inflight, update, held>>

\* A process is restarted.
Restart(p) ==
  /\ cache' = [cache EXCEPT ![p] = NoCopy]
  /\ inflight' = [inflight EXCEPT ![p] = NoQuery]
  /\ update' = [u \in Updates |-> IF update[u].process = p THEN NotSent ELSE update[u]]
  /\ message' = message \ {p}
  /\ UNCHANGED <<clock, row, held>>

\* Time passes; what the database has answered arrives within MaxQuery.
Tick ==
  /\ clock < MaxTime
  /\ \A p \in Processes : inflight[p].stage = "read" => clock - inflight[p].since < MaxQuery
  /\ \A u \in Updates : update[u] # NotSent => clock - update[u].since < MaxQuery
  /\ clock' = clock + 1
  /\ UNCHANGED <<row, cache, inflight, update, message, held>>

Next ==
  \/ \E p \in Processes :
       \/ SendQuery(p) \/ ReadRow(p) \/ StoreAnswer(p) \/ QueryFails(p)
       \/ Invalidate(p) \/ LoseMessage(p) \/ Restart(p)
       \/ \E u \in Updates, v \in Values : StoreUpdate(u, p, v)
  \/ \E u \in Updates : Publish(u)
  \/ Tick

Spec == Init /\ [][Next]_vars

-----------------------------------------------------------------------------
(* Properties.                                                             *)

Recent(v) == v = row \/ (held[v] # Never /\ clock - held[v] < TTL + MaxQuery)

\* What the guard answers a caller who is neither an admin nor on an exempt path, and every
\* other use of the settings, is right for what the row says, or said less than a copy's life
\* and an answer's way ago, however updates, lost messages and queries in flight meet.
SettingsAreRecent ==
  \A p \in Processes :
    /\ Live(p) => Recent(cache[p].data)
    /\ inflight[p].stage = "read" => Recent(inflight[p].data)
    /\ Live(p) /\ ~GuardAdmits("visitor", cache[p].data)
         => \E v \in Closed : Recent(v)
=============================================================================
