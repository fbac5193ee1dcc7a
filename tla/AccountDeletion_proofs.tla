------------------------ MODULE AccountDeletion_proofs ------------------------
(***************************************************************************)
(* Theorems about AccountDeletion, for any accounts and requests.          *)
(***************************************************************************)
EXTENDS AccountDeletion, TLAPS

RequestRecord ==
  [task : {"idle", "count", "anonymize", "report"}, user : Users \cup {NoUser},
   by : {"owner", "admin"}, uncounted : SUBSET Obligations, standing : SUBSET Obligations]

\* A request in flight is about an account.
WellFormed(q) == q \in RequestRecord /\ (q.task # "idle" => q.user \in Users)

\* With these debts, and these accounts gone: what stood all the while is owed now, has yet to be
\* counted, and is nothing once both counts have been passed -- why no later look is needed.
Informed(q, debts, gone) ==
  q.task # "idle" =>
    /\ q.standing \subseteq debts[q.user]
    /\ q.task = "count" => q.standing \subseteq q.uncounted
    /\ q.task = "anonymize" => q.standing = {}
    /\ q.task = "report" => q.user \in gone

DeletionInv ==
  /\ owes \in [Users -> SUBSET Obligations]
  /\ deleted \subseteq Users /\ reported \subseteq deleted
  /\ request \in [Requests -> RequestRecord]
  /\ \A r \in Requests : WellFormed(request[r]) /\ Informed(request[r], owes, deleted)

LEMMA IdleSound ==
  ASSUME NEW debts, NEW gone
  PROVE  WellFormed(Idle) /\ Informed(Idle, debts, gone)
  BY DEF WellFormed, RequestRecord, Idle, Obligations, Informed

LEMMA InvInit == Init => DeletionInv
  BY IdleSound DEF Init, DeletionInv, WellFormed

\* A request that turns into a sound one keeps the invariant.
LEMMA OneRequestMoves ==
  ASSUME DeletionInv, NEW r \in Requests, NEW q, WellFormed(q), Informed(q, owes, deleted'),
         request' = [request EXCEPT ![r] = q], UNCHANGED owes,
         deleted \subseteq deleted', deleted' \subseteq Users, reported' \subseteq deleted'
  PROVE  DeletionInv'
<1>1. request' \in [Requests -> RequestRecord]
  BY DEF DeletionInv, WellFormed
<1>2. ASSUME NEW s \in Requests
      PROVE  WellFormed(request'[s]) /\ Informed(request'[s], owes, deleted')
  BY DEF DeletionInv, Informed
<1>3. QED
  BY <1>1, <1>2 DEF DeletionInv

\* An obligation that ends is none that stands.
LEMMA EndedDoesNotStand ==
  ASSUME DeletionInv, NEW u \in Users, NEW kind \in Obligations,
         request' = Settled(u, kind), UNCHANGED <<deleted, reported>>,
         owes' \in [Users -> SUBSET Obligations],
         \A v \in Users \ {u} : owes'[v] = owes[v],
         owes[u] \ {kind} \subseteq owes'[u]
  PROVE  DeletionInv'
<1>1. ASSUME NEW s \in Requests
      PROVE  /\ request'[s].task = request[s].task /\ request'[s].user = request[s].user
             /\ request'[s].uncounted = request[s].uncounted
             /\ request'[s].standing \subseteq request[s].standing
             /\ request[s].user = u => kind \notin request'[s].standing
             /\ WellFormed(request'[s])
  BY DEF DeletionInv, Settled, WellFormed, RequestRecord
<1>2. ASSUME NEW s \in Requests PROVE Informed(request'[s], owes', deleted')
  <2>1. Informed(request[s], owes, deleted) /\ WellFormed(request[s])
    BY DEF DeletionInv
  <2>2. QED
    BY <1>1, <2>1 DEF Informed, WellFormed
<1>3. request' \in [Requests -> RequestRecord]
  BY <1>1 DEF Settled, WellFormed
<1>4. QED
  BY <1>1, <1>2, <1>3 DEF DeletionInv

\* The invariant is inductive.
LEMMA InvStep == DeletionInv /\ [Next]_vars => DeletionInv'
<1> SUFFICES ASSUME DeletionInv, [Next]_vars PROVE DeletionInv'
  OBVIOUS
<1>1. /\ deleted \subseteq Users /\ reported \subseteq deleted
      /\ owes \in [Users -> SUBSET Obligations]
      /\ request \in [Requests -> RequestRecord]
  BY DEF DeletionInv
<1>2. \A r \in Requests : WellFormed(request[r]) /\ Informed(request[r], owes, deleted)
  BY DEF DeletionInv
<1>3. ASSUME NEW r \in Requests, NEW u \in Users, NEW by \in {"owner", "admin"},
             AskForDeletion(r, u, by)
      PROVE  DeletionInv'
  <2> DEFINE q == [task |-> "count", user |-> u, by |-> by, uncounted |-> Obligations,
                   standing |-> owes[u]]
  <2>1. WellFormed(q) /\ Informed(q, owes, deleted')
    BY <1>1 DEF WellFormed, RequestRecord, Informed
  <2>2. QED
    BY <1>1, <1>3, <2>1, OneRequestMoves DEF AskForDeletion
<1>4. ASSUME NEW r \in Requests, Ends(r), UNCHANGED owes, deleted \subseteq deleted',
             deleted' \subseteq Users, reported' \subseteq deleted'
      PROVE  DeletionInv'
  BY <1>4, IdleSound, OneRequestMoves DEF Ends
<1>5. ASSUME NEW r \in Requests, NEW kind \in Obligations, Count(r, kind)
      PROVE  DeletionInv'
  <2> DEFINE old == request[r]
             q == [old EXCEPT !.uncounted = @ \ {kind},
                              !.task = IF old.uncounted = {kind} THEN "anonymize" ELSE @]
  <2>1. CASE kind \in owes[old.user]
    BY <1>1, <1>4, <1>5, <2>1 DEF Count
  <2>2. CASE kind \notin owes[old.user]
    <3>1. request' = [request EXCEPT ![r] = q] /\ UNCHANGED <<owes, deleted, reported>>
      BY <1>1, <1>5, <2>2 DEF Count
    <3>2. old.task = "count" /\ WellFormed(old) /\ Informed(old, owes, deleted)
      BY <1>2, <1>5 DEF Count, Is
    <3>3. WellFormed(q)
      BY <3>2 DEF WellFormed, RequestRecord
    <3>4. old.standing \subseteq old.uncounted \ {kind}
      BY <2>2, <3>2 DEF Informed
    <3>5. q.standing = old.standing /\ q.user = old.user /\ q.uncounted = old.uncounted \ {kind}
      BY <3>2 DEF WellFormed, RequestRecord
    <3>6. q.task = IF old.uncounted = {kind} THEN "anonymize" ELSE "count"
      BY <3>2 DEF WellFormed, RequestRecord
    <3>7. Informed(q, owes, deleted)
      BY <3>2, <3>4, <3>5, <3>6 DEF Informed
    <3>8. QED
      BY <1>1, <3>1, <3>3, <3>7, OneRequestMoves
  <2>3. QED
    BY <2>1, <2>2
<1>6. ASSUME NEW r \in Requests, Anonymize(r) PROVE DeletionInv'
  <2>1. request[r].task = "anonymize" /\ request[r].user \in Users
    BY <1>2, <1>6 DEF Anonymize, Is, WellFormed
  <2>2. /\ deleted \subseteq deleted' /\ deleted' \subseteq Users
        /\ request[r].user \in deleted' /\ reported' \subseteq deleted' /\ UNCHANGED owes
    BY <1>1, <1>6, <2>1 DEF Anonymize
  <2>3. CASE request[r].by = "admin"
    <3> DEFINE q == [request[r] EXCEPT !.task = "report"]
    <3>1. request' = [request EXCEPT ![r] = q]
      BY <1>1, <1>6, <2>3 DEF Anonymize
    <3>2. WellFormed(q) /\ q.task = "report" /\ q.user = request[r].user
          /\ q.standing = request[r].standing
      BY <1>2, <2>1 DEF WellFormed, RequestRecord
    <3>3. Informed(q, owes, deleted')
      BY <1>2, <2>1, <2>2, <3>2 DEF Informed
    <3>4. QED
      BY <2>2, <3>1, <3>2, <3>3, OneRequestMoves
  <2>4. CASE request[r].by # "admin"
    BY <1>4, <1>6, <2>2, <2>4 DEF Anonymize
  <2>5. QED
    BY <2>3, <2>4
<1>7. ASSUME NEW r \in Requests, Report(r) PROVE DeletionInv'
  <2>1. request[r].user \in deleted
    BY <1>2, <1>7 DEF Report, Is, Informed
  <2>2. QED
    BY <1>1, <1>4, <1>7, <2>1 DEF Report
<1>8. ASSUME NEW r \in Requests, RequestDies(r) PROVE DeletionInv'
  BY <1>1, <1>4, <1>8 DEF RequestDies
<1>9. ASSUME NEW u \in Users, NEW kind \in Obligations, Owe(u, kind) PROVE DeletionInv'
  <2>1. owes' \in [Users -> SUBSET Obligations] /\ \A v \in Users : owes[v] \subseteq owes'[v]
    BY <1>1, <1>9 DEF Owe
  <2>2. ASSUME NEW s \in Requests PROVE Informed(request[s], owes', deleted)
    BY <1>2, <2>1 DEF Informed, WellFormed
  <2>3. QED
    BY <1>9, <2>1, <2>2 DEF Owe, DeletionInv
<1>10. ASSUME NEW u \in Users, NEW kind \in Obligations, Discharge(u, kind) PROVE DeletionInv'
  BY <1>1, <1>10, EndedDoesNotStand DEF Discharge
<1>11. ASSUME NEW u \in Users, AuctionSells(u) PROVE DeletionInv'
  BY <1>1, <1>11, EndedDoesNotStand DEF AuctionSells, Obligations
<1>12. CASE UNCHANGED vars
  BY <1>12 DEF vars, DeletionInv
<1>13. QED
  BY <1>3, <1>5, <1>6, <1>7, <1>8, <1>9, <1>10, <1>11, <1>12 DEF Next

\* Whoever has counted both kinds knows that nothing stood all the while.
LEMMA InformedIsFree ==
  DeletionInv => \A r \in Requests : Anonymize(r) => request[r].standing = {}
  BY DEF DeletionInv, Informed, Anonymize, Is

THEOREM InvAlways == Spec => []DeletionInv
  BY InvInit, InvStep, PTL DEF Spec

\* Every variable keeps its type, for any accounts and requests.
THEOREM TypeCorrect == Spec => []TypeOK
<1>1. DeletionInv => TypeOK
  BY DEF DeletionInv, TypeOK, WellFormed, RequestRecord
<1>2. QED
  BY <1>1, InvAlways, PTL

\* Nobody is anonymized who still owes what was owed when it was asked for (the two counts of
\* checkAccountDeletable), however many accounts, requests and obligations come and go.
THEOREM DeletedFree == Spec => DeletedFreeOfOldDebts
<1>1. DeletionInv /\ [Next]_vars
        => [\A r \in Requests : Anonymize(r) => request[r].standing = {}]_vars
  BY InformedIsFree
<1>2. QED
  BY <1>1, InvAlways, PTL DEF Spec, DeletedFreeOfOldDebts
=============================================================================
