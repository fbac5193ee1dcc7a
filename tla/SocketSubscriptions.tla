-------------------------- MODULE SocketSubscriptions --------------------------
(***************************************************************************)
(* The rooms of one socket (auction-subscriptions.ts, seller-room.ts).     *)
(* Packets are handled one at a time; the lookup a subscription waits for  *)
(* answers between any two of them, or after the socket is gone.  `pending'*)
(* holds the last command for each room with a lookup in flight.           *)
(***************************************************************************)
EXTENDS Integers, FiniteSets

CONSTANTS
  Rooms,
  MAX_AUCTION_ROOMS,
  BUCKET_CAPACITY,   \* subscriptions a full bucket pays for
  REFILL_WINDOW,     \* ticks in which an empty bucket fills up
  MaxTime            \* bound on the clock

SocketSubscriptionsAssumption ==
  /\ MAX_AUCTION_ROOMS \in Nat /\ MaxTime \in Nat
  /\ BUCKET_CAPACITY \in Nat \ {0} /\ REFILL_WINDOW \in Nat \ {0}

VARIABLES
  clock,
  connected,
  bucket,     \* tokens, in units of 1/REFILL_WINDOW, and when it was last refilled
  joined,     \* the rooms the socket is in
  pending,    \* the last command for a room whose lookup is in flight, or "none"
  seller,     \* its seller room: not asked about yet, in it, or not
  wish,       \* history: the last command for each room that was not turned down
  served      \* history: the subscriptions paid for at each time

vars == <<clock, connected, bucket, joined, pending, seller, wish, served>>

Time == 0 .. MaxTime
FullBucket == BUCKET_CAPACITY * REFILL_WINDOW

TypeOK ==
  /\ clock \in Time /\ connected \in BOOLEAN
  /\ bucket \in [tokens : 0 .. FullBucket, refilledAt : Time]
  /\ joined \subseteq Rooms
  /\ pending \in [Rooms -> {"none", "join", "leave"}]
  /\ seller \in {"asked", "in", "out"}
  /\ wish \in [Rooms -> {"none", "join", "leave"}]
  /\ served \in [Time -> Nat]

\* An anonymous socket and an admin's are not asked about a seller room.
Init ==
  /\ clock = 0 /\ connected = TRUE
  /\ bucket = [tokens |-> FullBucket, refilledAt |-> 0]
  /\ joined = {}
  /\ pending = [room \in Rooms |-> "none"]
  /\ seller \in {"asked", "out"}
  /\ wish = [room \in Rooms |-> "none"]
  /\ served = [t \in Time |-> 0]

Pending == {room \in Rooms : pending[room] # "none"}
Smaller(a, b) == IF a < b THEN a ELSE b

\* Mutant of Available: what an idle socket saves up is not capped.
AvailableUncapped == bucket.tokens + (clock - bucket.refilledAt) * BUCKET_CAPACITY
\* The lazy refill of consumeSubscriptionToken: what has accrued since the last subscription.
Available == Smaller(FullBucket, bucket.tokens + (clock - bucket.refilledAt) * BUCKET_CAPACITY)

Disconnects ==
  /\ connected' = FALSE
  /\ joined' = {}
  /\ seller' = IF seller = "in" THEN "out" ELSE seller

\* auction:subscribe.  An empty bucket ends the connection; a lookup in flight is told of the
\* new wish; a room the socket is in, or one too many, changes nothing; else a lookup begins.
Subscribe(room) ==
  /\ connected
  /\ IF Available < REFILL_WINDOW
     THEN /\ bucket' = [tokens |-> Available, refilledAt |-> clock]
          /\ Disconnects
          /\ UNCHANGED <<pending, wish, served>>
     ELSE /\ bucket' = [tokens |-> Available - REFILL_WINDOW, refilledAt |-> clock]
          /\ served' = [served EXCEPT ![clock] = @ + 1]
          /\ \/ /\ room \in Pending
                /\ pending' = [pending EXCEPT ![room] = "join"]
                /\ wish' = [wish EXCEPT ![room] = "join"]
             \/ /\ room \in joined \ Pending
                /\ wish' = [wish EXCEPT ![room] = "join"]
                /\ UNCHANGED pending
             \/ /\ room \notin joined \cup Pending
                /\ Cardinality(joined) + Cardinality(Pending) >= MAX_AUCTION_ROOMS
                /\ UNCHANGED <<pending, wish>>
             \/ /\ room \notin joined \cup Pending
                /\ Cardinality(joined) + Cardinality(Pending) < MAX_AUCTION_ROOMS
                /\ pending' = [pending EXCEPT ![room] = "join"]
                /\ wish' = [wish EXCEPT ![room] = "join"]
          /\ UNCHANGED <<connected, joined, seller>>
  /\ UNCHANGED clock

\* Mutant of Unsubscribe: a lookup in flight is not told.
UnsubscribeJoined(room) ==
  /\ connected
  /\ joined' = joined \ {room}
  /\ wish' = [wish EXCEPT ![room] = "leave"]
  /\ UNCHANGED <<clock, connected, bucket, pending, seller, served>>
\* auction:unsubscribe: recorded where a lookup is in flight, and carried out at once.
Unsubscribe(room) ==
  /\ connected
  /\ pending' = [pending EXCEPT ![room] = IF @ = "none" THEN @ ELSE "leave"]
  /\ joined' = joined \ {room}
  /\ wish' = [wish EXCEPT ![room] = "leave"]
  /\ UNCHANGED <<clock, connected, bucket, seller, served>>

\* The lookup answers, from the cache or the table: the room is joined if it exists, the socket
\* is still there, and its last command says so.
LookupAnswers(room, exists) ==
  /\ room \in Pending
  /\ joined' = IF exists /\ connected /\ pending[room] = "join" THEN joined \cup {room}
                                                               ELSE joined
  /\ pending' = [pending EXCEPT ![room] = "none"]
  /\ wish' = IF exists THEN wish ELSE [wish EXCEPT ![room] = "none"]
  /\ UNCHANGED <<clock, connected, bucket, seller, served>>

\* registerSellerRoom's question is answered: a seller's socket joins, be it gone meanwhile.
SellerAnswers(isSeller) ==
  /\ seller = "asked"
  /\ seller' = IF isSeller THEN "in" ELSE "out"
  /\ UNCHANGED <<clock, connected, bucket, joined, pending, wish, served>>

\* The client leaves.
Disconnect ==
  /\ connected
  /\ Disconnects
  /\ UNCHANGED <<clock, bucket, pending, wish, served>>

Tick ==
  /\ clock < MaxTime
  /\ clock' = clock + 1
  /\ UNCHANGED <<connected, bucket, joined, pending, seller, wish, served>>

Next ==
  \/ \E room \in Rooms :
       \/ Subscribe(room) \/ Unsubscribe(room)
       \/ \E exists \in BOOLEAN : LookupAnswers(room, exists)
  \/ \E isSeller \in BOOLEAN : SellerAnswers(isSeller)
  \/ Disconnect
  \/ Tick

Spec == Init /\ [][Next]_vars

-----------------------------------------------------------------------------
(* Properties.                                                             *)

Served[t \in Time] == served[t] + IF t = 0 THEN 0 ELSE Served[t - 1]
ServedBetween(s, t) == Served[t] - IF s = 0 THEN 0 ELSE Served[s - 1]

\* The last command wins: once the lookups for a room are over, the socket is in it exactly if
\* the last command that was not turned down asked for it; a socket is never in a room it has
\* asked to leave, in no more rooms than it may, and in none once it is gone.
LastCommandWins ==
  /\ \A room \in Rooms :
       /\ room \in joined => wish[room] = "join"
       /\ connected /\ wish[room] = "join" /\ room \notin Pending => room \in joined
  /\ Cardinality(joined \cup Pending) <= MAX_AUCTION_ROOMS
  /\ ~connected => joined = {}

\* Over any stretch of time a socket is served no more subscriptions than a full bucket and
\* what flows into it meanwhile pay for, idle or not before.
RateBounded ==
  \A s, t \in Time : s <= t =>
    ServedBetween(s, t) * REFILL_WINDOW <= FullBucket + (t - s) * BUCKET_CAPACITY
=============================================================================
