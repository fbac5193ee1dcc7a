-------------------------- MODULE SettingsCache_proofs --------------------------
(***************************************************************************)
(* Theorems about SettingsCache, for any processes, updates, values and    *)
(* lives.  What the run checks of two processes and one update holds of    *)
(* any number: a value is known where it is no older than the step that    *)
(* read it, and every place that keeps one remembers when that was.        *)
(***************************************************************************)
EXTENDS SettingsCache, TLAPS

\* With this row and this history: v is what the row says, or said at t or later.
Since(v, t, rowNow, heldNow) ==
  \/ v = rowNow
  \/ heldNow[v] # Never /\ heldNow[v] >= t

Copies(copies, rowNow, heldNow, now) ==
  \A p \in Processes : copies[p].at # Never =>
    /\ copies[p].at <= now
    /\ Since(copies[p].data, copies[p].at - MaxQuery, rowNow, heldNow)
Queries(queries, rowNow, heldNow, now) ==
  \A p \in Processes : queries[p].stage = "read" =>
    /\ queries[p].since <= now /\ now - queries[p].since <= MaxQuery
    /\ Since(queries[p].data, queries[p].since, rowNow, heldNow)
Updated(updates, rowNow, heldNow, now) ==
  \A u \in Updates : updates[u] # NotSent =>
    /\ updates[u].since <= now /\ now - updates[u].since <= MaxQuery
    /\ Since(updates[u].data, updates[u].since, rowNow, heldNow)

\* Why copies are recent: whatever is on its way to a copy was read, or written, MaxQuery ago
\* at most, and nothing that has been read is older than its reading.
KnownInv ==
  /\ TypeOK
  /\ \A v \in Values : held[v] <= clock
  /\ Copies(cache, row, held, clock)
  /\ Queries(inflight, row, held, clock)
  /\ Updated(update, row, held, clock)

LEMMA CopyTypes ==
  ASSUME TypeOK, NEW p \in Processes, cache[p].at # Never
  PROVE  cache[p] \in [data : Values, at : Time]
  BY DEF TypeOK, NoCopy

LEMMA QueryTypes ==
  ASSUME TypeOK, NEW p \in Processes, inflight[p].stage = "read"
  PROVE  inflight[p] \in [stage : {"read"}, data : Values, since : Time]
  BY DEF TypeOK, NoQuery

LEMMA UpdateTypes ==
  ASSUME TypeOK, NEW u \in Updates, update[u] # NotSent
  PROVE  update[u] \in [process : Processes, data : Values, since : Time]
  BY DEF TypeOK

LEMMA TypeInit == SettingsCacheAssumption /\ Init => TypeOK
  BY DEF SettingsCacheAssumption, Init, TypeOK, Time

\* Every step keeps the types.
LEMMA TypeStep ==
  SettingsCacheAssumption /\ TypeOK /\ [Next]_vars => TypeOK'
<1> SUFFICES ASSUME SettingsCacheAssumption, TypeOK, [Next]_vars PROVE TypeOK'
  OBVIOUS
<1>1. ASSUME NEW p \in Processes, SendQuery(p) PROVE TypeOK'
  BY <1>1 DEF SendQuery, TypeOK, NoQuery
<1>2. ASSUME NEW p \in Processes, ReadRow(p) PROVE TypeOK'
  BY <1>2 DEF ReadRow, TypeOK
<1>3. ASSUME NEW p \in Processes, StoreAnswer(p) PROVE TypeOK'
  BY <1>3, QueryTypes DEF StoreAnswer, TypeOK
<1>4. ASSUME NEW p \in Processes, QueryFails(p) PROVE TypeOK'
  BY <1>4 DEF QueryFails, TypeOK
<1>5. ASSUME NEW p \in Processes, Invalidate(p) \/ LoseMessage(p) PROVE TypeOK'
  BY <1>5 DEF Invalidate, LoseMessage, TypeOK
<1>6. ASSUME NEW p \in Processes, Restart(p) PROVE TypeOK'
  BY <1>6 DEF Restart, TypeOK
<1>7. ASSUME NEW p \in Processes, NEW u \in Updates, NEW v \in Values, StoreUpdate(u, p, v)
      PROVE  TypeOK'
  BY <1>7 DEF StoreUpdate, TypeOK
<1>8. ASSUME NEW u \in Updates, Publish(u) PROVE TypeOK'
  BY <1>8, UpdateTypes DEF Publish, TypeOK
<1>9. CASE Tick
  BY <1>9 DEF Tick, TypeOK, Time, SettingsCacheAssumption
<1>10. CASE UNCHANGED vars
  BY <1>10 DEF vars, TypeOK
<1>11. QED
  BY <1>1, <1>2, <1>3, <1>4, <1>5, <1>6, <1>7, <1>8, <1>9, <1>10 DEF Next

LEMMA KnownInit == SettingsCacheAssumption /\ Init => KnownInv
<1> SUFFICES ASSUME SettingsCacheAssumption, Init PROVE KnownInv
  OBVIOUS
<1>1. \A v \in Values : held[v] <= clock
  BY DEF Init, Never
<1>2. Copies(cache, row, held, clock) /\ Queries(inflight, row, held, clock)
      /\ Updated(update, row, held, clock)
  BY DEF Init, Copies, Queries, Updated, NoCopy, NoQuery
<1>3. QED
  BY <1>1, <1>2, TypeInit DEF KnownInv

\* What was known stays known when the row moves on: the value it leaves is remembered.
LEMMA RowMoves ==
  ASSUME SettingsCacheAssumption, KnownInv, NEW v \in Values, row' = v,
         held' = [held EXCEPT ![row] = clock]
  PROVE  /\ \A w \in Values : held'[w] <= clock
         /\ \A w \in Values, t \in Int : t <= clock /\ Since(w, t, row, held)
              => Since(w, t, row', held')
<1>1. clock \in Nat /\ row \in Values /\ held \in [Values -> Nat \cup {Never}]
  BY DEF KnownInv, TypeOK, Time
<1>2. /\ held'[row] = clock
      /\ \A w \in Values \ {row} : held'[w] = held[w]
  BY <1>1
<1>3. QED
  BY <1>1, <1>2 DEF KnownInv, Since, Never

\* The invariant is inductive.
LEMMA KnownStep == SettingsCacheAssumption /\ KnownInv /\ [Next]_vars => KnownInv'
<1> SUFFICES ASSUME SettingsCacheAssumption, KnownInv, [Next]_vars PROVE KnownInv'
  OBVIOUS
<1>1. /\ TypeOK /\ TypeOK'
      /\ clock \in Nat /\ MaxQuery \in Nat
  BY TypeStep DEF KnownInv, TypeOK, Time, SettingsCacheAssumption
<1>2. /\ \A v \in Values : held[v] <= clock
      /\ Copies(cache, row, held, clock)
      /\ Queries(inflight, row, held, clock)
      /\ Updated(update, row, held, clock)
  BY DEF KnownInv
<1> USE DEF Time
<1>3. ASSUME NEW p \in Processes, SendQuery(p) \/ QueryFails(p) PROVE KnownInv'
  <2>1. Queries(inflight', row, held, clock)
    BY <1>1, <1>2, <1>3 DEF SendQuery, QueryFails, Queries, NoQuery, TypeOK
  <2>2. QED
    BY <1>1, <1>2, <1>3, <2>1 DEF SendQuery, QueryFails, KnownInv
<1>4. ASSUME NEW p \in Processes, ReadRow(p) PROVE KnownInv'
  <2>1. Queries(inflight', row, held, clock)
    BY <1>1, <1>2, <1>4 DEF ReadRow, Queries, Since, TypeOK
  <2>2. QED
    BY <1>1, <1>2, <1>4, <2>1 DEF ReadRow, KnownInv
<1>5. ASSUME NEW p \in Processes, StoreAnswer(p) PROVE KnownInv'
  <2>1. /\ inflight[p].data \in Values /\ inflight[p].since \in Nat
        /\ inflight[p].since >= clock - MaxQuery
        /\ Since(inflight[p].data, inflight[p].since, row, held)
    BY <1>1, <1>2, <1>5, QueryTypes DEF StoreAnswer, Queries
  <2>2. held[inflight[p].data] \in Int
    BY <1>1, <2>1 DEF TypeOK, Never
  <2>3. Since(inflight[p].data, clock - MaxQuery, row, held)
    BY <1>1, <2>1, <2>2 DEF Since
  <2>4. Copies(cache', row, held, clock)
    BY <1>1, <1>2, <1>5, <2>3 DEF StoreAnswer, Copies, TypeOK
  <2>5. Queries(inflight', row, held, clock)
    BY <1>1, <1>2, <1>5 DEF StoreAnswer, Queries, NoQuery, TypeOK
  <2>6. QED
    BY <1>1, <1>2, <1>5, <2>4, <2>5 DEF StoreAnswer, KnownInv
<1>6. ASSUME NEW p \in Processes, Invalidate(p) \/ LoseMessage(p) PROVE KnownInv'
  <2>1. Copies(cache', row, held, clock)
    BY <1>1, <1>2, <1>6 DEF Invalidate, LoseMessage, Copies, NoCopy, TypeOK
  <2>2. QED
    BY <1>1, <1>2, <1>6, <2>1 DEF Invalidate, LoseMessage, KnownInv
<1>7. ASSUME NEW p \in Processes, Restart(p) PROVE KnownInv'
  <2>1. Copies(cache', row, held, clock) /\ Queries(inflight', row, held, clock)
    BY <1>1, <1>2, <1>7 DEF Restart, Copies, Queries, NoCopy, NoQuery, TypeOK
  <2>2. Updated(update', row, held, clock)
    BY <1>1, <1>2, <1>7 DEF Restart, Updated, TypeOK
  <2>3. QED
    BY <1>1, <1>2, <1>7, <2>1, <2>2 DEF Restart, KnownInv
<1>8. ASSUME NEW p \in Processes, NEW u \in Updates, NEW v \in Values, StoreUpdate(u, p, v)
      PROVE  KnownInv'
  <2>1. row' = v /\ held' = [held EXCEPT ![row] = clock] /\ UNCHANGED <<clock, cache, inflight>>
    BY <1>8 DEF StoreUpdate
  <2>2. /\ \A w \in Values : held'[w] <= clock
        /\ \A w \in Values, t \in Int : t <= clock /\ Since(w, t, row, held)
             => Since(w, t, row', held')
    BY <2>1, RowMoves
  <2>3. Copies(cache, row', held', clock)
    <3> SUFFICES ASSUME NEW q \in Processes, cache[q].at # Never
                 PROVE  /\ cache[q].at <= clock
                        /\ Since(cache[q].data, cache[q].at - MaxQuery, row', held')
      BY DEF Copies
    <3>1. cache[q].data \in Values /\ cache[q].at \in Nat /\ cache[q].at - MaxQuery \in Int
      BY <1>1, CopyTypes
    <3>2. cache[q].at <= clock /\ Since(cache[q].data, cache[q].at - MaxQuery, row, held)
      BY <1>2 DEF Copies
    <3>3. cache[q].at - MaxQuery <= clock
      BY <1>1, <3>1, <3>2
    <3>4. QED
      BY <2>2, <3>1, <3>2, <3>3
  <2>4. Queries(inflight, row', held', clock)
    BY <1>1, <1>2, <2>2, QueryTypes DEF Queries
  <2>5. Updated(update', row', held', clock)
    <3> SUFFICES ASSUME NEW w \in Updates, update'[w] # NotSent
                 PROVE  /\ update'[w].since <= clock /\ clock - update'[w].since <= MaxQuery
                        /\ Since(update'[w].data, update'[w].since, row', held')
      BY DEF Updated
    <3>1. CASE w = u
      <4>1. update'[w].data = row' /\ update'[w].since = clock
        BY <1>1, <1>8, <3>1 DEF StoreUpdate, TypeOK
      <4>2. QED
        BY <1>1, <4>1 DEF Since
    <3>2. CASE w # u
      <4>1. update'[w] = update[w]
        BY <1>1, <1>8, <3>2 DEF StoreUpdate, TypeOK
      <4>2. QED
        BY <1>1, <1>2, <2>2, <4>1, UpdateTypes DEF Updated
    <3>3. QED
      BY <3>1, <3>2
  <2>6. QED
    BY <1>1, <2>1, <2>2, <2>3, <2>4, <2>5 DEF KnownInv
<1>9. ASSUME NEW u \in Updates, Publish(u) PROVE KnownInv'
  <2>1. /\ update[u].data \in Values /\ update[u].since \in Nat
        /\ update[u].since >= clock - MaxQuery
        /\ Since(update[u].data, update[u].since, row, held)
    BY <1>1, <1>2, <1>9, UpdateTypes DEF Publish, Updated
  <2>2. held[update[u].data] \in Int
    BY <1>1, <2>1 DEF TypeOK, Never
  <2>3. Since(update[u].data, clock - MaxQuery, row, held)
    BY <1>1, <2>1, <2>2 DEF Since
  <2>4. Copies(cache', row, held, clock)
    BY <1>1, <1>2, <1>9, <2>3 DEF Publish, Copies, TypeOK
  <2>5. Updated(update', row, held, clock)
    BY <1>1, <1>2, <1>9 DEF Publish, Updated, TypeOK
  <2>6. QED
    BY <1>1, <1>2, <1>9, <2>4, <2>5 DEF Publish, KnownInv
<1>10. CASE Tick
  <2>1. \A v \in Values : held[v] <= clock'
    BY <1>1, <1>2, <1>10 DEF Tick, TypeOK, Never
  <2>2. Copies(cache, row, held, clock')
    BY <1>1, <1>2, <1>10, CopyTypes DEF Tick, Copies
  <2>3. Queries(inflight, row, held, clock')
    BY <1>1, <1>2, <1>10, QueryTypes DEF Tick, Queries
  <2>4. Updated(update, row, held, clock')
    BY <1>1, <1>2, <1>10, UpdateTypes DEF Tick, Updated
  <2>5. QED
    BY <1>1, <1>10, <2>1, <2>2, <2>3, <2>4 DEF Tick, KnownInv
<1>11. CASE UNCHANGED vars
  BY <1>1, <1>2, <1>11 DEF vars, KnownInv
<1>12. QED
  BY <1>3, <1>4, <1>5, <1>6, <1>7, <1>8, <1>9, <1>10, <1>11 DEF Next

\* What is known is recent.
LEMMA KnownIsRecent == SettingsCacheAssumption /\ KnownInv => SettingsAreRecent
<1> SUFFICES ASSUME SettingsCacheAssumption, KnownInv, NEW p \in Processes
             PROVE  /\ Live(p) => Recent(cache[p].data)
                    /\ inflight[p].stage = "read" => Recent(inflight[p].data)
                    /\ Live(p) /\ ~GuardAdmits("visitor", cache[p].data)
                         => \E v \in Closed : Recent(v)
  BY DEF SettingsAreRecent
<1>1. /\ TypeOK /\ clock \in Nat /\ MaxQuery \in Nat /\ TTL \in Nat \ {0}
      /\ held \in [Values -> Nat \cup {Never}] /\ Never \in Int
  BY DEF KnownInv, TypeOK, Time, SettingsCacheAssumption, Never
<1>2. ASSUME Live(p) PROVE Recent(cache[p].data)
  <2>1. cache[p].at # Never /\ clock - cache[p].at < TTL
    BY <1>2 DEF Live
  <2>2. cache[p].data \in Values /\ cache[p].at \in Nat
    BY <1>1, <2>1, CopyTypes DEF Time
  <2>3. Since(cache[p].data, cache[p].at - MaxQuery, row, held)
    BY <2>1 DEF KnownInv, Copies
  <2>4. held[cache[p].data] \in Int
    BY <1>1, <2>2
  <2>5. QED
    BY <1>1, <2>1, <2>2, <2>3, <2>4 DEF Since, Recent
<1>3. ASSUME inflight[p].stage = "read" PROVE Recent(inflight[p].data)
  <2>1. inflight[p].data \in Values /\ inflight[p].since \in Nat
    BY <1>1, <1>3, QueryTypes DEF Time
  <2>2. /\ clock - inflight[p].since <= MaxQuery
        /\ Since(inflight[p].data, inflight[p].since, row, held)
    BY <1>3 DEF KnownInv, Queries
  <2>3. held[inflight[p].data] \in Int
    BY <1>1, <2>1
  <2>4. QED
    BY <1>1, <2>1, <2>2, <2>3 DEF Since, Recent
<1>4. QED
  BY <1>2, <1>3 DEF GuardAdmits

\* Whatever is known or on its way to be known was read no longer ago than it may take.
THEOREM KnownAlways == ASSUME SettingsCacheAssumption PROVE Spec => []KnownInv
  BY KnownInit, KnownStep, PTL DEF Spec

\* Every variable keeps its type.
THEOREM TypeCorrect == ASSUME SettingsCacheAssumption PROVE Spec => []TypeOK
<1>1. KnownInv => TypeOK
  BY DEF KnownInv
<1>2. QED
  BY <1>1, KnownAlways, PTL

\* Every process acts on settings that are, or were less than a copy's life and an answer's way
\* ago: for any number of processes and updates, although no message need ever arrive
\* (getPlatformSettings, updatePlatformSettings).
THEOREM SettingsAreRecentAlways ==
  ASSUME SettingsCacheAssumption PROVE Spec => []SettingsAreRecent
  BY KnownIsRecent, KnownAlways, PTL
=============================================================================
