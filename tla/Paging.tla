--------------------------------- MODULE Paging ---------------------------------
(***************************************************************************)
(* Reading a long list page by page (utils/pagination.ts) while its rows   *)
(* come and go.  Every list is sorted by an instant, ties broken by id,    *)
(* and the cursor of a page names its last row by both: the next page is   *)
(* drawn from the rows beyond it, whether that row still exists or not.    *)
(*                                                                         *)
(* A page is one query, so one action.  The lists differ in the way they   *)
(* run and in what may happen to a row meanwhile; a behaviour is about one *)
(* kind of list, `list'.  Ids stand for the ids of the rows, in the order  *)
(* the database compares them, which is unrelated to that of the instants. *)
(***************************************************************************)
EXTENDS Integers, FiniteSets

CONSTANTS
  Ids,
  Instants,
  Limits,      \* what parseLimit may answer
  MaxReturns   \* bound on how often rows come back to the list

PagingAssumption ==
  /\ Ids \subseteq Nat /\ IsFiniteSet(Ids) /\ Instants \subseteq Nat
  /\ Limits \subseteq Nat \ {0}
  /\ MaxReturns \in Nat

VARIABLES
  list,      \* the kind of list that is read
  row,       \* the rows: whether they are in the list, and the instant they are sorted by
  cursor,    \* what the client sends next: the last row it was shown, or the start
  walk,      \* no walk yet, pages to come, or the last page has been shown
  shown,     \* how often the walk has shown each row
  stayed,    \* the rows that have been in the list since the walk began
  returns    \* history, bounded: how often a row came back

vars == <<list, row, cursor, walk, shown, stayed, returns>>

-----------------------------------------------------------------------------
(* The lists: their direction, whether a row may leave, and as what it may *)
(* return: never, with the instant it had, or with a later one.            *)

Kind(dir, leaves, back) == [dir |-> dir, leaves |-> leaves, back |-> back]

\* Auctions of one status, by endTime, which nothing changes; a status is left for good.
PublicAuctions == Kind("asc", TRUE, "never")
\* A seller's: the live ones ending soonest first, the others latest first.
MyAuctions(status) == Kind(IF status = "ACTIVE" THEN "asc" ELSE "desc", status = "ACTIVE", "never")
\* Bids, a caller's own or an auction's, newest first; none is ever deleted.
MyBids == Kind("desc", FALSE, "never")
BidFeed == Kind("desc", FALSE, "never")
\* The sales of a seller, newest first.
MySales == Kind("desc", FALSE, "never")
\* A seller's listings, newest first, until withdrawn; those an admin has to decide, oldest
\* first: one that was rejected and is handed in again keeps its submittedAt.
MyListings == Kind("desc", TRUE, "never")
PendingListings == Kind("asc", TRUE, "same")
\* The accounts an admin looks through; a search forgets one that has been anonymized.
UserList == Kind("desc", TRUE, "never")
\* Watched auctions, by when the caller began to watch; one watched anew comes back as new.
WatchedAuctions == Kind("desc", TRUE, "later")
\* The tabs of a seller's items: an item goes from tab to tab, and its instants stay.
TAB_ORDER(tab) == IF tab \in {"action", "live"} THEN "asc" ELSE "desc"
SellerItems(tab) == Kind(TAB_ORDER(tab), TRUE, "same")

Lists ==
  {PublicAuctions, MyBids, BidFeed, MySales, MyListings, PendingListings, UserList, WatchedAuctions}
    \cup {MyAuctions(status) : status \in {"ACTIVE", "CLOSED", "CANCELLED"}}
    \cup {SellerItems(tab) : tab \in {"action", "live", "sold", "unsold", "review", "closed"}}

-----------------------------------------------------------------------------
Start == [start |-> TRUE, at |-> 0, id |-> 0]
After(i) == [start |-> FALSE, at |-> row[i].at, id |-> i]

TypeOK ==
  /\ list \in Lists
  /\ row \in [Ids -> [there : {"new", "in", "out"}, at : Instants \cup {0}]]
  /\ cursor \in {Start} \cup [start : {FALSE}, at : Instants, id : Ids]
  /\ walk \in {"none", "on", "ended"}
  /\ shown \in [Ids -> Nat]
  /\ stayed \subseteq Ids
  /\ returns \in 0 .. MaxReturns

Listed == {i \in Ids : row[i].there = "in"}

Init ==
  /\ list \in Lists
  /\ row = [i \in Ids |-> [there |-> "new", at |-> 0]]
  /\ cursor = Start
  /\ walk = "none"
  /\ shown = [i \in Ids |-> 0]
  /\ stayed = {}
  /\ returns = 0

\* gt in an ascending list, lt in a descending one.
Further(a, b) == IF list.dir = "asc" THEN a > b ELSE a < b

\* The orderBy of a list.
Before(i, j) ==
  \/ Further(row[j].at, row[i].at)
  \/ row[i].at = row[j].at /\ Further(j, i)

\* Mutant of Beyond: the tiebreak is forgotten.
BeyondInstant(i, c) == c.start \/ Further(row[i].at, c.at)
\* The where clause of a cursor: past its instant, or at that instant and past its id.
Beyond(i, c) ==
  \/ c.start
  \/ Further(row[i].at, c.at)
  \/ row[i].at = c.at /\ Further(i, c.id)

\* The first limit of the rows beyond the cursor, in the order of the list.
Page(limit) ==
  LET rest == {i \in Listed : Beyond(i, cursor)}
  IN {i \in rest : Cardinality({j \in rest : Before(j, i)}) < limit}
LastOf(page) == CHOOSE i \in page : \A j \in page \ {i} : Before(j, i)

-----------------------------------------------------------------------------
(* The client.                                                             *)

\* A walk begins without a cursor, or with one that does not decode.
BeginWalk ==
  /\ walk' = "on"
  /\ cursor' = Start
  /\ shown' = [i \in Ids |-> 0]
  /\ stayed' = Listed
  /\ UNCHANGED <<list, row, returns>>

\* A page is read and shown: limit + 1 rows are asked for, and the extra one, if there is one,
\* tells that the walk goes on after the last row shown.
ShowPage(limit) ==
  LET page == Page(limit)
      more == \E i \in Listed \ page : Beyond(i, cursor)
  IN /\ walk = "on"
     /\ shown' = [i \in Ids |-> IF i \in page THEN shown[i] + 1 ELSE shown[i]]
     /\ cursor' = IF more THEN After(LastOf(page)) ELSE Start
     /\ walk' = IF more THEN "on" ELSE "ended"
     /\ UNCHANGED <<list, row, stayed, returns>>

-----------------------------------------------------------------------------
(* The others.                                                             *)

\* A row is created, anywhere in the order: an instant may be older than its commit.
Appear(i, at) ==
  /\ row[i].there = "new"
  /\ row' = [row EXCEPT ![i] = [there |-> "in", at |-> at]]
  /\ UNCHANGED <<list, cursor, walk, shown, stayed, returns>>

Leave(i) ==
  /\ list.leaves
  /\ row[i].there = "in"
  /\ row' = [row EXCEPT ![i].there = "out"]
  /\ stayed' = stayed \ {i}
  /\ UNCHANGED <<list, cursor, walk, shown, returns>>

Return(i, at) ==
  /\ row[i].there = "out" /\ returns < MaxReturns
  /\ CASE list.back = "same"  -> at = row[i].at
       [] list.back = "later" -> at > row[i].at
       [] OTHER -> FALSE
  /\ row' = [row EXCEPT ![i] = [there |-> "in", at |-> at]]
  /\ returns' = returns + 1
  /\ UNCHANGED <<list, cursor, walk, shown, stayed>>

Next ==
  \/ BeginWalk
  \/ \E limit \in Limits : ShowPage(limit)
  \/ \E i \in Ids : Leave(i)
  \/ \E i \in Ids, at \in Instants : Appear(i, at) \/ Return(i, at)

Spec == Init /\ [][Next]_vars

-----------------------------------------------------------------------------
(* Properties.                                                             *)

\* "an offset silently skips or repeats rows across pages": a walk shows no row twice, and when
\* it ends it has shown every row that was in the list all along, whatever came, went and
\* returned between its pages, however many rows share an instant and however long each page is.
WalksAreFaithful ==
  /\ \A i \in Ids : shown[i] <= 1
  /\ walk = "ended" => \A i \in stayed : shown[i] = 1
=============================================================================
