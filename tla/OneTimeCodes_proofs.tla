--------------------------- MODULE OneTimeCodes_proofs ---------------------------
(***************************************************************************)
(* Theorems about OneTimeCodes, for any number of requests, attempts and   *)
(* codes.                                                                  *)
(***************************************************************************)
EXTENDS OneTimeCodes, FiniteSetTheorems, TLAPS

CodeRow == [there : BOOLEAN, consumed : BOOLEAN, expired : BOOLEAN,
            attempts : 0 .. MAX_OTP_ATTEMPTS]
RequestRecord == [task : {"idle", "revoke", "create", "miss", "accept"}, code : 0 .. MaxCodes]

\* The parts of TypeOK.
AccountTyped ==
  purpose \in {"verification", "reset"} /\ registered \in BOOLEAN /\ verified \in BOOLEAN
RowsTyped ==
  /\ issued \in 0 .. MaxCodes /\ code \in [Codes -> CodeRow]
  /\ told \in [Codes -> Nat] /\ accepted \in [Codes -> Nat]
RequestsTyped ==
  /\ request \in [Requests -> RequestRecord]
  /\ \A r \in Requests : request[r].task \in {"miss", "accept"} => request[r].code \in Codes

\* The requests that found c, were wrong, and have not been answered.
Missing(c) == {r \in Requests : request[r].task = "miss" /\ request[r].code = c}

\* Why guesses are bounded.  A code that can still be tried counts every answer; each answer yet
\* to come was let in beside it, and once it is dead only those remain.
Counted(c) ==
  /\ Unused(c) => told[c] = code[c].attempts /\ code[c].attempts < MAX_OTP_ATTEMPTS
  /\ told[c] + Cardinality(Missing(c)) < MAX_OTP_ATTEMPTS + Cardinality(Requests)
  /\ code[c].attempts >= MAX_OTP_ATTEMPTS => code[c].consumed
  /\ c > issued => told[c] = 0 /\ code[c] = NoRow /\ \A r \in Requests : request[r].code # c

CodesInv ==
  /\ TypeOK
  /\ \A c \in Codes : Counted(c)

LEMMA RequestsCounted ==
  ASSUME OneTimeCodesAssumption
  PROVE  /\ IsFiniteSet(Requests) /\ Cardinality(Requests) \in Nat
         /\ \A S \in SUBSET Requests :
              /\ IsFiniteSet(S) /\ Cardinality(S) \in Nat
              /\ Cardinality(S) <= Cardinality(Requests)
  BY FS_CardinalityType, FS_Subset DEF OneTimeCodesAssumption

\* A row that keeps its counter, and comes from nothing only by CreateCode.
LEMMA RowsSettle ==
  ASSUME OneTimeCodesAssumption, CodesInv, TypeOK', UNCHANGED told, issued' >= issued,
         NEW c \in Codes, c <= issued,
         Unused(c)' => Unused(c), code'[c].attempts = code[c].attempts,
         code[c].consumed => code'[c].consumed,
         Missing(c)' \subseteq Missing(c) \/ (Unused(c) /\ Missing(c)' \subseteq Requests)
  PROVE  Counted(c)'
<1>1. Missing(c) \subseteq Requests /\ IsFiniteSet(Missing(c))
  BY RequestsCounted DEF Missing
<1>2. told[c] + Cardinality(Missing(c)') < MAX_OTP_ATTEMPTS + Cardinality(Requests)
  <2>1. CASE Missing(c)' \subseteq Missing(c)
    <3>1. Cardinality(Missing(c)') <= Cardinality(Missing(c))
      BY <1>1, <2>1, FS_Subset
    <3>2. /\ Cardinality(Missing(c)) \in Nat /\ Cardinality(Missing(c)') \in Nat
          /\ Cardinality(Requests) \in Nat
      BY <1>1, <2>1, RequestsCounted
    <3>3. QED
      BY <3>1, <3>2 DEF CodesInv, Counted, TypeOK, OneTimeCodesAssumption
  <2>2. CASE Unused(c) /\ Missing(c)' \subseteq Requests
    <3>1. Cardinality(Missing(c)') <= Cardinality(Requests) /\ Cardinality(Missing(c)') \in Nat
          /\ Cardinality(Requests) \in Nat
      BY <2>2, RequestsCounted
    <3>2. told[c] < MAX_OTP_ATTEMPTS /\ told[c] \in Nat
      BY <2>2 DEF CodesInv, Counted, TypeOK
    <3>3. QED
      BY <3>1, <3>2 DEF OneTimeCodesAssumption
  <2>3. QED
    BY <2>1, <2>2
<1>3. c \in Nat /\ issued \in Nat /\ issued' \in Nat
  BY DEF TypeOK, Codes, CodesInv
<1>4. QED
  BY <1>2, <1>3 DEF CodesInv, Counted, TypeOK

\* A request that turns to a task in order.
LEMMA RequestGoes ==
  ASSUME OneTimeCodesAssumption, TypeOK, NEW r \in Requests, NEW q \in RequestRecord,
         q.task \in {"miss", "accept"} => q.code \in Codes,
         request' = [request EXCEPT ![r] = q]
  PROVE  RequestsTyped'
  BY DEF TypeOK, RequestsTyped, RequestRecord

LEMMA Tasks ==
  ASSUME OneTimeCodesAssumption
  PROVE  /\ Idle \in RequestRecord /\ Idle.task = "idle" /\ Idle.code = 0
         /\ [task |-> "create", code |-> 0] \in RequestRecord
         /\ [task |-> "revoke", code |-> 0] \in RequestRecord
         /\ \A c \in Codes : /\ [task |-> "miss", code |-> c] \in RequestRecord
                            /\ [task |-> "accept", code |-> c] \in RequestRecord
  BY DEF Idle, RequestRecord, Codes, OneTimeCodesAssumption

LEMMA CodelessTasks ==
  /\ [task |-> "create", code |-> 0].task # "miss" /\ [task |-> "create", code |-> 0].code = 0
  /\ [task |-> "revoke", code |-> 0].task # "miss" /\ [task |-> "revoke", code |-> 0].code = 0
  /\ Idle.task # "miss" /\ Idle.code = 0
  BY DEF Idle

LEMMA Rows ==
  ASSUME OneTimeCodesAssumption
  PROVE  /\ NoRow \in CodeRow /\ [NoRow EXCEPT !.there = TRUE] \in CodeRow
         /\ \A row \in CodeRow : /\ [row EXCEPT !.there = FALSE] \in CodeRow
                               /\ [row EXCEPT !.expired = TRUE] \in CodeRow
                               /\ [row EXCEPT !.consumed = TRUE] \in CodeRow
<1>1. 0 \in 0 .. MAX_OTP_ATTEMPTS
  BY DEF OneTimeCodesAssumption
<1>2. NoRow \in CodeRow
  BY <1>1 DEF NoRow, CodeRow
<1>3. [NoRow EXCEPT !.there = TRUE] \in CodeRow
  BY <1>2 DEF CodeRow
<1>4. ASSUME NEW row \in CodeRow
      PROVE  /\ [row EXCEPT !.there = FALSE] \in CodeRow
             /\ [row EXCEPT !.expired = TRUE] \in CodeRow
             /\ [row EXCEPT !.consumed = TRUE] \in CodeRow
  BY DEF CodeRow
<1>5. QED
  BY <1>2, <1>3, <1>4

LEMMA TypeParts == TypeOK <=> AccountTyped /\ RowsTyped /\ RequestsTyped
  BY DEF TypeOK, AccountTyped, RowsTyped, RequestsTyped, CodeRow, RequestRecord

LEMMA CodesInit == OneTimeCodesAssumption /\ Init => CodesInv
<1> SUFFICES ASSUME OneTimeCodesAssumption, Init PROVE CodesInv
  OBVIOUS
<1>1. TypeOK
  <2>1. AccountTyped
    BY DEF Init, AccountTyped
  <2>2. RowsTyped /\ RequestsTyped
    BY Rows, Tasks DEF Init, RowsTyped, RequestsTyped, OneTimeCodesAssumption
  <2>3. QED
    BY <2>1, <2>2, TypeParts
<1>2. ASSUME NEW c \in Codes PROVE Counted(c)
  <2>1. Missing(c) = {}
    BY DEF Init, Missing, Idle
  <2>2. Cardinality(Missing(c)) = 0
    BY <2>1, FS_EmptySet
  <2>3. QED
    BY <2>2, RequestsCounted
    DEF Counted, Init, Unused, NoRow, Codes, Idle, OneTimeCodesAssumption
<1>3. QED
  BY <1>1, <1>2 DEF CodesInv

\* Every step keeps the types.
LEMMA TypeStep == OneTimeCodesAssumption /\ CodesInv /\ [Next]_vars => TypeOK'
<1> SUFFICES ASSUME OneTimeCodesAssumption, CodesInv, [Next]_vars
             PROVE  AccountTyped' /\ RowsTyped' /\ RequestsTyped'
  BY DEF TypeOK, AccountTyped, RowsTyped, RequestsTyped, CodeRow, RequestRecord
<1>1. /\ TypeOK /\ \A c \in Codes : Counted(c)
      /\ AccountTyped /\ RowsTyped /\ RequestsTyped
  BY TypeParts DEF CodesInv
<1>2. ASSUME NEW r \in Requests, Register(r) \/ AskForCode(r) \/ RequestDies(r)
      PROVE  AccountTyped' /\ RowsTyped' /\ RequestsTyped'
  <2>1. AccountTyped' /\ RowsTyped'
    BY <1>1, <1>2 DEF Register, AskForCode, RequestDies, AccountTyped, RowsTyped
  <2>2. RequestsTyped'
    BY <1>1, <1>2, Tasks, RequestGoes DEF Register, AskForCode, RequestDies, Goes, Ends
  <2>3. QED
    BY <2>1, <2>2
<1>3. ASSUME NEW r \in Requests, RevokeUnused(r)
      PROVE  AccountTyped' /\ RowsTyped' /\ RequestsTyped'
  <2>1. AccountTyped' /\ RowsTyped'
    BY <1>1, <1>3, Rows DEF RevokeUnused, AccountTyped, RowsTyped
  <2>2. RequestsTyped'
    BY <1>1, <1>3, Tasks, RequestGoes DEF RevokeUnused, Goes
  <2>3. QED
    BY <2>1, <2>2
<1>4. ASSUME NEW r \in Requests, CreateCode(r)
      PROVE  AccountTyped' /\ RowsTyped' /\ RequestsTyped'
  <2>1. AccountTyped' /\ RowsTyped'
    BY <1>1, <1>4, Rows DEF CreateCode, AccountTyped, RowsTyped, Codes, OneTimeCodesAssumption
  <2>2. RequestsTyped'
    BY <1>1, <1>4, Tasks, RequestGoes DEF CreateCode, Ends
  <2>3. QED
    BY <2>1, <2>2
<1>5. ASSUME NEW r \in Requests, NEW right \in BOOLEAN, TryCode(r, right)
      PROVE  AccountTyped' /\ RowsTyped' /\ RequestsTyped'
  <2>1. AccountTyped' /\ RowsTyped'
    BY <1>1, <1>5 DEF TryCode, AccountTyped, RowsTyped
  <2>2. RequestsTyped'
    BY <1>1, <1>5, Tasks, RequestGoes DEF TryCode, Goes
  <2>3. QED
    BY <2>1, <2>2
<1>6. ASSUME NEW r \in Requests, RecordMiss(r)
      PROVE  AccountTyped' /\ RowsTyped' /\ RequestsTyped'
  <2>1. request[r].code \in Codes
    BY <1>1, <1>6 DEF RecordMiss, Is, RequestsTyped
  <2>2. Unused(request[r].code) => code[request[r].code].attempts + 1 \in 0 .. MAX_OTP_ATTEMPTS
    BY <1>1, <2>1 DEF Counted, RowsTyped, CodeRow, OneTimeCodesAssumption
  <2>3. code' \in [Codes -> CodeRow]
    <3>1. CASE Unused(request[r].code)
      <4> DEFINE d == request[r].code
                 n == code[d].attempts + 1
                 b == n >= MAX_OTP_ATTEMPTS
      <4>1. code[d] \in CodeRow /\ n \in 0 .. MAX_OTP_ATTEMPTS /\ b \in BOOLEAN
        BY <1>1, <2>1, <2>2, <3>1 DEF RowsTyped
      <4>2. code' = [code EXCEPT ![d] = [code[d] EXCEPT !.attempts = n, !.consumed = b]]
        BY <1>1, <1>6, <2>1, <3>1 DEF RecordMiss, RowsTyped
      <4> HIDE DEF n, b
      <4>3. [code[d] EXCEPT !.attempts = n, !.consumed = b] \in CodeRow
        BY <4>1 DEF CodeRow
      <4>4. QED
        BY <1>1, <2>1, <4>2, <4>3 DEF RowsTyped
    <3>2. CASE ~Unused(request[r].code)
      BY <1>1, <1>6, <3>2 DEF RecordMiss, RowsTyped
    <3>3. QED
      BY <3>1, <3>2
  <2>4. told' \in [Codes -> Nat] /\ UNCHANGED <<issued, accepted>>
    BY <1>1, <1>6, <2>1 DEF RecordMiss, RowsTyped
  <2>5. AccountTyped' /\ RowsTyped'
    BY <1>1, <1>6, <2>3, <2>4 DEF RecordMiss, AccountTyped, RowsTyped
  <2>6. RequestsTyped'
    BY <1>1, <1>6, Tasks, RequestGoes DEF RecordMiss, Ends
  <2>7. QED
    BY <2>5, <2>6
<1>7. ASSUME NEW r \in Requests, AcceptCode(r)
      PROVE  AccountTyped' /\ RowsTyped' /\ RequestsTyped'
  <2>1. AccountTyped'
    BY <1>1, <1>7 DEF AcceptCode, AccountTyped
  <2>2. RowsTyped'
    <3>1. request[r].code \in Codes
      BY <1>1, <1>7 DEF AcceptCode, Is, RequestsTyped
    <3>2. code' = [code EXCEPT ![request[r].code] = [code[request[r].code] EXCEPT !.consumed = TRUE]]
      BY <1>1, <1>7, <3>1 DEF AcceptCode, RowsTyped
    <3>3. code' \in [Codes -> CodeRow]
      BY <1>1, <3>1, <3>2, Rows DEF RowsTyped
    <3>4. accepted' \in [Codes -> Nat] /\ UNCHANGED <<issued, told>>
      BY <1>1, <1>7, <3>1 DEF AcceptCode, RowsTyped
    <3>5. QED
      BY <1>1, <3>3, <3>4 DEF RowsTyped
  <2>3. RequestsTyped'
    BY <1>1, <1>7, Tasks, RequestGoes DEF AcceptCode, Ends
  <2>4. QED
    BY <2>1, <2>2, <2>3
<1>8. ASSUME NEW c \in Codes, Expire(c) PROVE AccountTyped' /\ RowsTyped' /\ RequestsTyped'
  BY <1>1, <1>8, Rows DEF Expire, AccountTyped, RowsTyped, RequestsTyped
<1>9. CASE UNCHANGED vars
  BY <1>1, <1>9 DEF vars, AccountTyped, RowsTyped, RequestsTyped
<1>10. QED
  BY <1>2, <1>3, <1>4, <1>5, <1>6, <1>7, <1>8, <1>9 DEF Next

\* The invariant is inductive.
LEMMA CodesStep == OneTimeCodesAssumption /\ CodesInv /\ [Next]_vars => CodesInv'
<1> SUFFICES ASSUME OneTimeCodesAssumption, CodesInv, [Next]_vars, NEW c \in Codes
             PROVE  Counted(c)'
  BY TypeStep DEF CodesInv
<1>a. TypeOK /\ TypeOK' /\ \A d \in Codes : Counted(d)
  BY TypeStep DEF CodesInv
<1>b. issued \in Nat /\ c \in Nat \ {0} /\ MaxCodes \in Nat
  BY <1>a, TypeParts DEF RowsTyped, Codes, OneTimeCodesAssumption
<1>1. /\ TypeOK /\ TypeOK' /\ \A d \in Codes : Counted(d)
      /\ issued \in Nat /\ c \in Nat \ {0} /\ MaxCodes \in Nat
  BY <1>a, <1>b
\* A request that stops, or turns to a task that is no miss, leaves the others as they were.
<1>2. ASSUME NEW r \in Requests, NEW q,
             request' = [request EXCEPT ![r] = q], q.task # "miss", q.code = 0
      PROVE  /\ Missing(c)' \subseteq Missing(c)
             /\ c > issued => \A s \in Requests : request'[s].code # c
  <2>1. /\ request \in [Requests -> RequestRecord] /\ c # 0
        /\ c > issued => \A s \in Requests : request[s].code # c
    BY <1>1 DEF TypeOK, RequestRecord, Counted
  <2>2. \A s \in Requests : request'[s] = IF s = r THEN q ELSE request[s]
    BY <1>2, <2>1
  <2>3. QED
    BY <1>2, <2>1, <2>2 DEF Missing
<1>3. ASSUME UNCHANGED <<issued, told>>, Unused(c)' => Unused(c),
             code'[c].attempts = code[c].attempts,
             code[c].consumed => code'[c].consumed,
             c > issued => code'[c] = code[c] /\ \A s \in Requests : request'[s].code # c,
             Missing(c)' \subseteq Missing(c)
      PROVE  Counted(c)'
  <2>1. CASE c <= issued
    BY <1>1, <1>3, <2>1, RowsSettle
  <2>2. CASE c > issued
    <3>1. Missing(c)' = {}
      BY <1>3, <2>2 DEF Missing
    <3>2. Cardinality(Missing(c)') = 0
      BY <3>1, FS_EmptySet
    <3>3. QED
      BY <1>1, <1>3, <2>2, <3>2, RequestsCounted
      DEF Counted, Unused, NoRow, OneTimeCodesAssumption
  <2>3. QED
    BY <1>1, <2>1, <2>2
<1>4. ASSUME NEW r \in Requests, Register(r) \/ AskForCode(r) \/ RequestDies(r)
      PROVE  Counted(c)'
  <2>1. /\ Missing(c)' \subseteq Missing(c)
        /\ c > issued => \A s \in Requests : request'[s].code # c
    <3>1. CASE Register(r)
      BY <1>2, <3>1, CodelessTasks DEF Register, Goes
    <3>2. CASE AskForCode(r)
      BY <1>2, <3>2, CodelessTasks DEF AskForCode, Goes
    <3>3. CASE RequestDies(r)
      BY <1>2, <3>3, CodelessTasks DEF RequestDies, Ends
    <3>4. QED
      BY <1>4, <3>1, <3>2, <3>3
  <2>2. UNCHANGED <<issued, told, code>>
    BY <1>4 DEF Register, AskForCode, RequestDies
  <2>3. QED
    BY <1>3, <2>1, <2>2 DEF Unused
<1>5. ASSUME NEW r \in Requests, RevokeUnused(r) PROVE Counted(c)'
  <2>1. /\ Missing(c)' \subseteq Missing(c)
        /\ c > issued => \A s \in Requests : request'[s].code # c
    BY <1>2, <1>5, CodelessTasks DEF RevokeUnused, Goes
  <2>2. /\ UNCHANGED <<issued, told>>
        /\ code'[c] = IF Unused(c) THEN [code[c] EXCEPT !.there = FALSE] ELSE code[c]
    BY <1>5 DEF RevokeUnused
  <2>3. code[c] \in CodeRow
    BY <1>1 DEF TypeOK, CodeRow
  <2>4. c > issued => ~Unused(c)
    BY <1>1 DEF Counted, Unused, NoRow
  <2>5. QED
    BY <1>3, <2>1, <2>2, <2>3, <2>4 DEF Unused, CodeRow
<1>6. ASSUME NEW r \in Requests, CreateCode(r) PROVE Counted(c)'
  <2>1. /\ Missing(c)' \subseteq Missing(c)
        /\ c > issued => \A s \in Requests : request'[s].code # c
    BY <1>2, <1>6, CodelessTasks DEF CreateCode, Ends
  <2>2. UNCHANGED told /\ issued' = issued + 1
        /\ code' = [code EXCEPT ![issued + 1] = [NoRow EXCEPT !.there = TRUE]]
    BY <1>6 DEF CreateCode
  <2>3. CASE c <= issued
    <3>1. code'[c] = code[c]
      BY <1>1, <2>2, <2>3 DEF TypeOK
    <3>2. QED
      BY <1>1, <2>1, <2>2, <2>3, <3>1, RowsSettle DEF Unused
  <2>4. CASE c > issued
    <3>1. Missing(c)' = {}
      BY <2>1, <2>4 DEF Missing
    <3>2. Cardinality(Missing(c)') = 0
      BY <3>1, FS_EmptySet
    <3>3. told'[c] = 0 /\ code[c] = NoRow
      BY <1>1, <2>2, <2>4 DEF Counted
    <3>4. code'[c] = NoRow \/ code'[c] = [NoRow EXCEPT !.there = TRUE]
      BY <1>1, <2>2, <3>3 DEF TypeOK
    <3>5. code'[c].attempts = 0 /\ (c > issued' => code'[c] = NoRow)
      BY <1>1, <2>2, <3>3, <3>4 DEF NoRow, TypeOK
    <3>6. QED
      BY <1>1, <2>1, <2>2, <2>4, <3>2, <3>3, <3>5, RequestsCounted
      DEF Counted, OneTimeCodesAssumption
  <2>5. QED
    BY <1>1, <2>3, <2>4
<1>7. ASSUME NEW r \in Requests, NEW right \in BOOLEAN, TryCode(r, right) PROVE Counted(c)'
  <2>1. PICK d \in Codes :
          Usable(d) /\ Goes(r, IF right THEN "accept" ELSE "miss", d)
    BY <1>7 DEF TryCode
  <2>2. UNCHANGED <<issued, told, code>>
    BY <1>7 DEF TryCode
  <2>3. Unused(d) /\ d <= issued
    BY <1>1, <2>1 DEF Usable, Unused, Counted, NoRow, Codes
  <2>4. CASE c = d
    <3>1. Missing(c)' \subseteq Requests
      BY DEF Missing
    <3>2. QED
      BY <1>1, <2>2, <2>3, <2>4, <3>1, RowsSettle DEF Unused
  <2>5. CASE c # d
    <3>1. Missing(c)' \subseteq Missing(c)
      BY <1>1, <2>1, <2>5 DEF Missing, Goes, TypeOK
    <3>2. c > issued => \A s \in Requests : request'[s].code # c
      BY <1>1, <2>1, <2>5 DEF Goes, Counted, TypeOK
    <3>3. QED
      BY <1>3, <2>2, <3>1, <3>2 DEF Unused
  <2>6. QED
    BY <2>4, <2>5
<1>8. ASSUME NEW r \in Requests, RecordMiss(r) PROVE Counted(c)'
  <2> DEFINE d == request[r].code
  <2>1. d \in Codes /\ request[r] = [task |-> "miss", code |-> d] /\ d <= issued
    <3>1. request[r] \in RequestRecord /\ request[r].task = "miss" /\ d \in Codes
      BY <1>1, <1>8 DEF RecordMiss, Is, TypeOK, RequestRecord
    <3>2. d <= issued
      BY <1>1, <3>1 DEF Counted, Codes
    <3>3. QED
      BY <3>1, <3>2 DEF RequestRecord
  <2>2. /\ Missing(c)' \subseteq Missing(c)
        /\ c > issued => \A s \in Requests : request'[s].code # c
    BY <1>2, <1>8, CodelessTasks DEF RecordMiss, Ends
  <2>3. CASE c # d
    <3>1. code'[c] = code[c] /\ told'[c] = told[c] /\ UNCHANGED issued
      BY <1>1, <1>8, <2>1, <2>3 DEF RecordMiss, TypeOK
    <3>2. Cardinality(Missing(c)') <= Cardinality(Missing(c))
          /\ Cardinality(Missing(c)') \in Nat /\ Cardinality(Missing(c)) \in Nat
          /\ Cardinality(Requests) \in Nat
      BY <2>2, RequestsCounted, FS_Subset DEF Missing
    <3>3. told[c] \in Nat /\ MAX_OTP_ATTEMPTS \in Nat
      BY <1>1 DEF TypeOK, OneTimeCodesAssumption
    <3>4. QED
      BY <1>1, <2>2, <3>1, <3>2, <3>3 DEF Counted, Unused
  <2>4. CASE c = d
    <3>1. Missing(c)' = Missing(c) \ {r} /\ r \in Missing(c)
      BY <1>1, <1>8, <2>1, <2>4 DEF RecordMiss, Ends, Idle, Missing, TypeOK
    <3>2. Cardinality(Missing(c)') = Cardinality(Missing(c)) - 1 /\ Cardinality(Missing(c)) \in Nat
      <4>1. IsFiniteSet(Missing(c)) /\ Cardinality(Missing(c)) \in Nat
        BY RequestsCounted DEF Missing
      <4>2. QED
        BY <3>1, <4>1, FS_RemoveElement
    <3>3. told[c] \in Nat /\ told'[c] = told[c] + 1
      BY <1>1, <1>8, <2>4 DEF RecordMiss, TypeOK
    <3>4. told'[c] + Cardinality(Missing(c)') < MAX_OTP_ATTEMPTS + Cardinality(Requests)
      BY <1>1, <3>2, <3>3, RequestsCounted DEF Counted, OneTimeCodesAssumption
    <3>5. code[c] \in CodeRow /\ MAX_OTP_ATTEMPTS \in Nat
      BY <1>1 DEF TypeOK, CodeRow, OneTimeCodesAssumption
    <3>6. UNCHANGED issued
      BY <1>8 DEF RecordMiss
    <3>7. CASE Unused(c)
      <4>1. /\ code'[c].attempts = code[c].attempts + 1
            /\ code'[c].consumed <=> code[c].attempts + 1 >= MAX_OTP_ATTEMPTS
            /\ code[c].attempts \in Nat
        BY <1>1, <1>8, <2>4, <3>5, <3>7 DEF RecordMiss, TypeOK, CodeRow
      <4>2. QED
        BY <1>1, <2>1, <2>4, <3>3, <3>4, <3>5, <3>6, <3>7, <4>1 DEF Counted, Unused
    <3>8. CASE ~Unused(c)
      <4>1. UNCHANGED code
        BY <1>8, <2>4, <3>8 DEF RecordMiss
      <4>2. QED
        BY <1>1, <2>1, <2>4, <3>4, <3>6, <3>8, <4>1 DEF Counted, Unused
    <3>9. QED
      BY <3>7, <3>8
  <2>5. QED
    BY <2>3, <2>4
<1>9. ASSUME NEW r \in Requests, AcceptCode(r) PROVE Counted(c)'
  <2>1. /\ Missing(c)' \subseteq Missing(c)
        /\ c > issued => \A s \in Requests : request'[s].code # c
    BY <1>2, <1>9, CodelessTasks DEF AcceptCode, Ends
  <2>2. UNCHANGED <<issued, told>> /\ request[r].code \in Codes /\ code[request[r].code].there
        /\ code' = [code EXCEPT ![request[r].code].consumed = TRUE]
    BY <1>1, <1>9 DEF AcceptCode, Is, TypeOK
  <2>3. code[c] \in CodeRow
    BY <1>1 DEF TypeOK, CodeRow
  <2>4. c > issued => c # request[r].code
    BY <1>1 DEF Counted
  <2>5. QED
    BY <1>1, <1>3, <2>1, <2>2, <2>3, <2>4 DEF Unused, TypeOK, CodeRow
<1>10. ASSUME NEW d \in Codes, Expire(d) PROVE Counted(c)'
  <2>1. UNCHANGED <<issued, told, request>> /\ d <= issued
        /\ code' = [code EXCEPT ![d].expired = TRUE]
    BY <1>10 DEF Expire
  <2>2. Missing(c)' = Missing(c)
    BY <2>1 DEF Missing
  <2>3. code[c] \in CodeRow
    BY <1>1 DEF TypeOK, CodeRow
  <2>4. c > issued => c # d
    BY <1>1, <2>1 DEF TypeOK, Codes
  <2>5. QED
    BY <1>1, <1>3, <2>1, <2>2, <2>3, <2>4 DEF Unused, TypeOK, CodeRow, Counted
<1>11. CASE UNCHANGED vars
  BY <1>1, <1>11 DEF vars, Counted, Missing, Unused
<1>12. QED
  BY <1>4, <1>5, <1>6, <1>7, <1>8, <1>9, <1>10, <1>11 DEF Next

\* What has been counted bounds the guesses.
LEMMA CountedBounds == OneTimeCodesAssumption /\ CodesInv => GuessesBounded
<1> SUFFICES ASSUME OneTimeCodesAssumption, CodesInv, NEW c \in Codes
             PROVE  /\ told[c] < MAX_OTP_ATTEMPTS + Cardinality(Requests)
                    /\ code[c].attempts >= MAX_OTP_ATTEMPTS => code[c].consumed
  BY DEF GuessesBounded
<1>1. Cardinality(Missing(c)) \in Nat /\ Cardinality(Requests) \in Nat
  BY RequestsCounted DEF Missing
<1>2. QED
  BY <1>1 DEF CodesInv, Counted, TypeOK, OneTimeCodesAssumption

\* Only AcceptCode takes a code, and it takes one whose row is there.
LEMMA TakenIsThere ==
  ASSUME CodesInv, [Next]_vars, NEW c \in Codes, ~code[c].there
  PROVE  accepted'[c] = accepted[c]
<1>1. accepted \in [Codes -> Nat]
  BY DEF CodesInv, TypeOK
<1>2. ASSUME NEW r \in Requests, AcceptCode(r) PROVE accepted'[c] = accepted[c]
  BY <1>1, <1>2 DEF AcceptCode
<1>3. ASSUME NEW r \in Requests,
             \/ Register(r) \/ AskForCode(r) \/ RevokeUnused(r) \/ CreateCode(r)
             \/ RecordMiss(r) \/ RequestDies(r) \/ \E right \in BOOLEAN : TryCode(r, right)
      PROVE  accepted'[c] = accepted[c]
  BY <1>3 DEF Register, AskForCode, RevokeUnused, CreateCode, RecordMiss, RequestDies, TryCode
<1>4. ASSUME NEW d \in Codes, Expire(d) PROVE accepted'[c] = accepted[c]
  BY <1>4 DEF Expire
<1>5. QED
  BY <1>2, <1>3, <1>4 DEF Next, vars

\* A code that can still be tried has counted every answered miss, and no more requests than
\* there are can be beside it.
THEOREM CodesAlways == ASSUME OneTimeCodesAssumption PROVE Spec => []CodesInv
  BY CodesInit, CodesStep, PTL DEF Spec

\* However many requests try a code at once (the test of the counter and its increment in
\* verify-email, verify-reset-otp and reset-password are separate statements), the wrong
\* guesses answered stay below the limit plus the number of requests.
THEOREM GuessesBoundedAlways ==
  ASSUME OneTimeCodesAssumption PROVE Spec => []GuessesBounded
  BY CountedBounds, CodesAlways, PTL

\* A code that was replaced is accepted from nobody, not even from a request that found it right
\* before (reset-password hashes in between; its update by id fails with the row gone).
THEOREM ReplacedIsDeadAlways == ASSUME OneTimeCodesAssumption PROVE Spec => ReplacedIsDead
<1>1. CodesInv /\ [Next]_vars
        => [\A c \in Codes : c <= issued /\ ~code[c].there => accepted'[c] = accepted[c]]_vars
  BY TakenIsThere
<1>2. QED
  BY <1>1, CodesAlways, PTL DEF Spec, ReplacedIsDead
=============================================================================
