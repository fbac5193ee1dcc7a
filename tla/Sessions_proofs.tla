--------------------------- MODULE Sessions_proofs ---------------------------
(***************************************************************************)
(* Theorems about Sessions, for any accounts, tokens and requests, and any *)
(* bounds.                                                                 *)
(***************************************************************************)
EXTENDS Sessions, FiniteSetTheorems, TLAPS

USE SessionsAssumption

-----------------------------------------------------------------------------
(* Type correctness.                                                       *)

\* Revoking rows keeps them rows.
LEMMA RevokeTyped ==
  ASSUME TypeOK, NEW T \in SUBSET Tokens
  PROVE  Revoke(T) \in [Tokens -> TokenRow]
<1>1. ASSUME NEW t \in Tokens PROVE [token[t] EXCEPT !.revokedAt = clock] \in TokenRow
  BY DEF TypeOK, TokenRow, Time, Never
<1>2. QED
  BY <1>1 DEF Revoke, TypeOK

\* A row for a new token is a row, for an account.
LEMMA FreshTyped ==
  ASSUME TypeOK, NEW a \in Accounts
  PROVE  FreshRow(a) \in TokenRow
<1>1. clock + REFRESH_EXPIRES_IN \in Nat
  BY DEF TypeOK, Time
<1>2. QED
  BY <1>1 DEF FreshRow, TokenRow, Never

\* What the requests are about to do is well formed, step by step.
RequestRecord == [task : Tasks, account : Accounts \cup {NoAccount},
                  token : Tokens \cup {NoToken}, found : SUBSET Tokens,
                  password : Passwords]

LEMMA IdleTyped ==
  /\ Idle \in RequestRecord
  /\ \A a \in Accounts : Opening(a) \in RequestRecord
<1>1. 0 \in Passwords
  BY DEF Passwords
<1>2. "idle" \in Tasks /\ "open" \in Tasks
  BY DEF Tasks
<1>3. Idle \in RequestRecord
  BY <1>1, <1>2 DEF Idle, RequestRecord
<1>4. ASSUME NEW a \in Accounts PROVE Opening(a) \in RequestRecord
  BY <1>2, <1>3 DEF Opening, RequestRecord
<1>5. QED
  BY <1>3, <1>4

\* TypeOK holds at the start and each step keeps it.
THEOREM TypeCorrect == Spec => []TypeOK
<1>1. Init => TypeOK
  <2> SUFFICES ASSUME Init PROVE TypeOK
    OBVIOUS
  <2>1. clock \in Time /\ NoRow \in TokenRow
    BY DEF Init, Time, NoRow, TokenRow, Never
  <2>2. token \in [Tokens -> TokenRow]
    BY <2>1 DEF Init
  <2>3. credential \in [Accounts -> [password : Passwords, oldCost : BOOLEAN]]
    BY DEF Init, Passwords
  <2>4. request \in [Requests -> RequestRecord]
    BY IdleTyped DEF Init
  <2>5. \A r \in Requests : request[r].task = "idle"
    BY DEF Init, Idle
  <2>6. QED
    BY <2>1, <2>2, <2>3, <2>4, <2>5 DEF Init, TypeOK, RequestRecord, Passwords
<1>2. TypeOK /\ [Next]_vars => TypeOK'
  <2> SUFFICES ASSUME TypeOK, [Next]_vars PROVE TypeOK'
    OBVIOUS
  <2> DEFINE Sound(q) == /\ q \in RequestRecord
                         /\ q.task # "idle" => q.account \in Accounts
                         /\ q.task \in {"rotate", "lost", "repeat"} => q.token \in Tokens
  <2>0. \A r \in Requests : Sound(request[r])
    BY DEF TypeOK, RequestRecord
  <2>1. ASSUME NEW r \in Requests, NEW q, Sound(q),
               request' = [request EXCEPT ![r] = q]
        PROVE  /\ request' \in [Requests -> RequestRecord]
               /\ \A x \in Requests : request'[x].task # "idle"
                                        => request'[x].account \in Accounts
               /\ \A x \in Requests : request'[x].task \in {"rotate", "lost", "repeat"}
                                        => request'[x].token \in Tokens
    <3>1. request \in [Requests -> RequestRecord]
      BY DEF TypeOK, RequestRecord
    <3>2. \A x \in Requests : Sound(request'[x])
      BY <2>0, <2>1, <3>1
    <3>3. request' \in [Requests -> RequestRecord]
      BY <2>1, <3>1
    <3>4. QED
      BY <3>2, <3>3
  <2>2. ASSUME NEW a \in Accounts
        PROVE  Sound(Opening(a)) /\ Sound(Idle)
    BY IdleTyped DEF Opening, Idle
  <2>3. Sound(Idle)
    BY IdleTyped DEF Idle
  <2>4. ASSUME NEW r \in Requests, NEW task \in {"lost", "repeat", "replay"},
               ~Is(r, "idle"), request[r].token \in Tokens, Goes(r, task)
        PROVE  /\ request' \in [Requests -> RequestRecord]
               /\ \A x \in Requests : request'[x].task # "idle"
                                        => request'[x].account \in Accounts
               /\ \A x \in Requests : request'[x].task \in {"rotate", "lost", "repeat"}
                                        => request'[x].token \in Tokens
    <3> DEFINE q == [request[r] EXCEPT !.task = task]
    <3>1. task \in Tasks
      BY DEF Tasks
    <3>2. Sound(q)
      BY <2>0, <2>4, <3>1 DEF Is, RequestRecord
    <3>3. request' = [request EXCEPT ![r] = q]
      BY <2>4 DEF Goes
    <3>4. QED
      BY <2>1, <3>2, <3>3
  <2>5. ASSUME NEW r \in Requests, NEW from, NEW to \in Tasks, from # "idle",
               to \notin {"rotate", "lost", "repeat"}, FindUnspent(r, from, to)
        PROVE  TypeOK'
    <3> DEFINE q == [request[r] EXCEPT !.task = to, !.found = UnspentOf(request[r].account)]
    <3>1. request' = [request EXCEPT ![r] = q]
      BY <2>5 DEF FindUnspent
    <3>2. UnspentOf(request[r].account) \in SUBSET Tokens
      BY DEF UnspentOf
    <3>3. Sound(q)
      BY <2>0, <2>5, <3>2 DEF FindUnspent, Is, RequestRecord
    <3>4. QED
      BY <2>1, <2>5, <3>1, <3>3 DEF FindUnspent, TypeOK, RequestRecord
  <2>6. CASE UNCHANGED vars
    BY <2>6 DEF vars, TypeOK
  <2>7. ASSUME NEW r \in Requests, NEW a \in Accounts, SignInRead(r, a) PROVE TypeOK'
    <3> DEFINE q == IF credential[a].oldCost
                    THEN [Idle EXCEPT !.task = "rehash", !.account = a,
                                      !.password = credential[a].password]
                    ELSE Opening(a)
    <3>1. request' = [request EXCEPT ![r] = q]
      BY <2>7 DEF SignInRead
    <3>2. Sound(q)
      <4>1. credential[a].password \in Passwords
        BY DEF TypeOK
      <4>2. QED
        BY <2>2, <4>1 DEF Idle, RequestRecord, Tasks
    <3>3. QED
      BY <2>1, <2>7, <3>1, <3>2 DEF SignInRead, TypeOK, RequestRecord
  <2>8. ASSUME NEW r \in Requests, NEW a \in Accounts, NEW task \in {"change", "reset"},
               NewPasswordRead(r, a, task)
        PROVE  TypeOK'
    <3> DEFINE q == [Idle EXCEPT !.task = task, !.account = a]
    <3>1. Sound(q)
      BY IdleTyped DEF Idle, RequestRecord, Tasks
    <3>2. QED
      BY <2>1, <2>8, <3>1 DEF NewPasswordRead, TypeOK, RequestRecord
  <2>9. ASSUME NEW r \in Requests, NEW t \in Tokens, OpenSession(r, t) PROVE TypeOK'
    <3>1. request[r].account \in Accounts
      BY <2>9, <2>0 DEF OpenSession, Is
    <3>2. token' \in [Tokens -> TokenRow]
      BY <2>9, <3>1, FreshTyped DEF OpenSession, TypeOK
    <3>3. QED
      BY <2>1, <2>3, <2>9, <3>2 DEF OpenSession, Ends, TypeOK, RequestRecord
  <2>10. ASSUME NEW r \in Requests, NEW t \in Tokens, RefreshRead(r, t) PROVE TypeOK'
    <3> DEFINE q == [Idle EXCEPT !.task = IF Unspent(t) THEN "rotate" ELSE "repeat",
                                 !.account = token[t].owner, !.token = t]
    <3>1. token[t].owner \in Accounts
      BY <2>10 DEF RefreshRead, Issued, TypeOK, TokenRow
    <3>2. Sound(q)
      BY IdleTyped, <3>1 DEF Idle, RequestRecord, Tasks
    <3>3. QED
      BY <2>1, <2>10, <3>2 DEF RefreshRead, TypeOK, RequestRecord
  <2>11. ASSUME NEW r \in Requests, Rehash(r) PROVE TypeOK'
    <3>1. request[r].account \in Accounts /\ request[r].password \in Passwords
      BY <2>0, <2>11 DEF Rehash, Is, RequestRecord
    <3>2. credential' \in [Accounts -> [password : Passwords, oldCost : BOOLEAN]]
      BY <2>11, <3>1 DEF Rehash, TypeOK
    <3>3. QED
      BY <2>1, <2>2, <2>11, <3>1, <3>2 DEF Rehash, TypeOK, RequestRecord
  <2>12. ASSUME NEW r \in Requests, Rotate(r) PROVE TypeOK'
    <3> DEFINE t == request[r].token
    <3>1. t \in Tokens
      BY <2>0, <2>12 DEF Rotate, Is
    <3>2. CASE Unspent(t)
      <4>1. PICK s \in Tokens : ~Issued(s) /\ Exchange(t, s)
        BY <2>12, <3>2 DEF Rotate
      <4>2. token[t].owner \in Accounts
        BY <3>1, <3>2 DEF Unspent, Issued, TypeOK, TokenRow
      <4>3. [token[t] EXCEPT !.revokedAt = clock, !.replacedBy = s] \in TokenRow
        <5>1. token[t] \in TokenRow /\ clock \in Time
          BY <3>1 DEF TypeOK
        <5>2. QED
          BY <5>1 DEF TokenRow
      <4>4. token' \in [Tokens -> TokenRow]
        BY <3>1, <4>1, <4>2, <4>3, FreshTyped DEF Exchange, TypeOK
      <4>5. session' \in [Tokens -> Tokens \cup {NoToken}] /\ answers' \subseteq Tokens \X Tokens
        BY <3>1, <4>1 DEF Exchange, TypeOK
      <4>6. QED
        BY <2>1, <2>3, <2>12, <3>2, <4>4, <4>5 DEF Rotate, Ends, TypeOK, RequestRecord
    <3>3. CASE ~Unspent(t)
      <4>1. Goes(r, "lost") /\ ~Is(r, "idle")
        BY <2>12, <3>3 DEF Rotate, Is
      <4>2. QED
        BY <2>4, <2>12, <3>1, <3>3, <4>1 DEF Rotate, TypeOK, RequestRecord
    <3>4. QED
      BY <3>2, <3>3
  <2>13. ASSUME NEW r \in Requests, LostRead(r) PROVE TypeOK'
    <3>1. request[r].token \in Tokens /\ ~Is(r, "idle")
      BY <2>0, <2>13 DEF LostRead, Is
    <3>2. QED
      BY <2>4, <2>13, <3>1 DEF LostRead, TypeOK, RequestRecord
  <2>14. ASSUME NEW r \in Requests, AnswerRepeat(r) PROVE TypeOK'
    <3> DEFINE t == request[r].token
    <3>1. t \in Tokens /\ ~Is(r, "idle")
      BY <2>0, <2>14 DEF AnswerRepeat, Is
    <3>2. CASE Successor(t) # {}
      <4>1. answers' \subseteq Tokens \X Tokens
        BY <2>14, <3>1, <3>2 DEF AnswerRepeat, Successor, TypeOK
      <4>2. QED
        BY <2>1, <2>3, <2>14, <3>2, <4>1 DEF AnswerRepeat, Ends, TypeOK, RequestRecord
    <3>3. CASE Successor(t) = {}
      BY <2>4, <2>14, <3>1, <3>3 DEF AnswerRepeat, TypeOK, RequestRecord
    <3>4. QED
      BY <3>2, <3>3
  <2>15. ASSUME NEW r \in Requests, ReplaySweep(r) PROVE TypeOK'
    BY <2>5, <2>15 DEF ReplaySweep, Tasks
  <2>16. ASSUME NEW r \in Requests, RejectReplay(r) PROVE TypeOK'
    <3> DEFINE T == StillUnspent(request[r].found)
    <3>1. T \in SUBSET Tokens
      BY <2>0 DEF StillUnspent, RequestRecord
    <3>2. Revoke(T) \in [Tokens -> TokenRow]
      BY <3>1, RevokeTyped
    <3>3. alerts' \in [Accounts -> Nat]
      <4>1. request[r].account \in Accounts
        BY <2>0, <2>16 DEF RejectReplay, Is
      <4>2. QED
        BY <2>16, <4>1 DEF RejectReplay, TypeOK
    <3>4. QED
      BY <2>1, <2>3, <2>16, <3>2, <3>3 DEF RejectReplay, Ends, TypeOK, RequestRecord
  <2>17. ASSUME NEW r \in Requests, NewPasswordSweep(r) PROVE TypeOK'
    BY <2>5, <2>17 DEF NewPasswordSweep, Tasks
  <2>18. ASSUME NEW r \in Requests, NewPassword(r) PROVE TypeOK'
    <3> DEFINE T == StillUnspent(request[r].found)
               a == request[r].account
               q == IF Is(r, "changeSweep") THEN Opening(a) ELSE Idle
    <3>1. T \in SUBSET Tokens
      BY <2>0 DEF StillUnspent, RequestRecord
    <3>2. Revoke(T) \in [Tokens -> TokenRow]
      BY <3>1, RevokeTyped
    <3>3. a \in Accounts
      BY <2>0, <2>18 DEF NewPassword
    <3>4. chosen[a] + 1 \in Passwords
      BY <2>18, <3>3 DEF NewPassword, TypeOK, Passwords
    <3>5. /\ chosen' \in [Accounts -> Passwords]
          /\ credential' \in [Accounts -> [password : Passwords, oldCost : BOOLEAN]]
      BY <2>18, <3>4 DEF NewPassword, TypeOK
    <3>6. Sound(q)
      BY <2>2, <3>3
    <3>7. request' = [request EXCEPT ![r] = q]
      BY <2>18 DEF NewPassword
    <3>8. QED
      BY <2>1, <2>18, <3>2, <3>5, <3>6, <3>7 DEF NewPassword, TypeOK, RequestRecord
  <2>19. ASSUME NEW r \in Requests, RequestDies(r) PROVE TypeOK'
    BY <2>1, <2>3, <2>19 DEF RequestDies, Ends, TypeOK, RequestRecord
  <2>20. ASSUME NEW t \in Tokens, Logout(t) PROVE TypeOK'
    <3>1. Revoke({t}) \in [Tokens -> TokenRow]
      BY RevokeTyped
    <3>2. QED
      BY <2>20, <3>1 DEF Logout, TypeOK
  <2>21. CASE Tick
    BY <2>21 DEF Tick, TypeOK, Time
  <2>22. QED
    BY <2>6, <2>7, <2>8, <2>9, <2>10, <2>11, <2>12, <2>13, <2>14, <2>15, <2>16, <2>17,
       <2>18, <2>19, <2>20, <2>21 DEF Next
<1>3. QED
  BY <1>1, <1>2, PTL DEF Spec

-----------------------------------------------------------------------------
(* Sessions are lines of tokens.                                           *)

\* Every token belongs to one session, which is one account's; a spent token's successor is
\* of the same session, and nothing concerns a token that was not issued.
Lines ==
  /\ \A t \in Tokens : ~Issued(t) => session[t] = NoToken /\ token[t].replacedBy = NoToken
  /\ \A t \in Tokens : Issued(t) =>
       LET s == session[t]
       IN s \in Tokens /\ Issued(s) /\ session[s] = s /\ token[s].owner = token[t].owner
  /\ \A t, s \in Tokens : token[t].replacedBy = s =>
       ~Unspent(t) /\ Issued(s) /\ session[s] = session[t]

\* What a request in flight knows: its token was issued, to its account; a token to be
\* repeated is spent; a sweep has found tokens of its account.
Informed(q) ==
  /\ q.task \in {"rotate", "lost", "repeat"} => Issued(q.token)
  /\ q.task \in {"lost", "repeat"} => ~Unspent(q.token)
  /\ \A t \in q.found : Issued(t) /\ token[t].owner = q.account
Knows == \A r \in Requests : Informed(request[r])

\* What was handed out for a token is its successor.
Handed == \A p \in answers : token[p[1]].replacedBy = p[2]

LineInv == Lines /\ Knows /\ OneLivePerSession /\ Handed

\* The four ways in which the rows change: a session begins, a token is exchanged, tokens of
\* one account are revoked, or nothing.
Begins(t, a) ==
  /\ ~Issued(t) /\ a \in Accounts
  /\ token' = [token EXCEPT ![t] = FreshRow(a)]
  /\ session' = [session EXCEPT ![t] = t]
  /\ UNCHANGED answers

Exchanges(t, s) ==
  /\ t \in Tokens /\ s \in Tokens
  /\ Unspent(t) /\ ~Issued(s)
  /\ Exchange(t, s)

Revokes(T, a) ==
  /\ a \in Accounts /\ T \subseteq Tokens
  /\ \A t \in T : Issued(t) /\ Unspent(t) /\ token[t].owner = a
  /\ token' = Revoke(T)
  /\ UNCHANGED <<session, answers>>

RowStep ==
  \/ \E t \in Tokens, a \in Accounts : Begins(t, a)
  \/ \E t, s \in Tokens : Exchanges(t, s)
  \/ \E T \in SUBSET Tokens, a \in Accounts : Revokes(T, a)
  \/ /\ UNCHANGED <<token, session>>
     /\ \A p \in answers' : p \in answers \/ token[p[1]].replacedBy = p[2]

\* A sweep writes the tokens it found that are unspent: all of its account.
LEMMA SweepRevokes ==
  ASSUME TypeOK, Knows, NEW r \in Requests, request[r].account \in Accounts,
         token' = Revoke(StillUnspent(request[r].found)), UNCHANGED <<session, answers>>
  PROVE  Revokes(StillUnspent(request[r].found), request[r].account)
<1>1. request[r].found \subseteq Tokens
  BY DEF TypeOK
<1>2. \A t \in StillUnspent(request[r].found) :
        Issued(t) /\ Unspent(t) /\ token[t].owner = request[r].account
  BY DEF Knows, Informed, StillUnspent, Unspent
<1>3. QED
  BY <1>1, <1>2 DEF Revokes, StillUnspent

\* Every step of the specification is one of the four.
LEMMA StepOnRows ==
  ASSUME TypeOK, Knows, [Next]_vars
  PROVE  RowStep
<1>1. CASE UNCHANGED vars
  BY <1>1 DEF vars, RowStep
<1>2. ASSUME NEW r \in Requests, NEW a \in Accounts, SignInRead(r, a) PROVE RowStep
  BY <1>2 DEF SignInRead, RowStep
<1>3. ASSUME NEW r \in Requests, NEW a \in Accounts, NEW task, NewPasswordRead(r, a, task)
      PROVE  RowStep
  BY <1>3 DEF NewPasswordRead, RowStep
<1>4. ASSUME NEW r \in Requests, NEW t \in Tokens, OpenSession(r, t) PROVE RowStep
  <2>1. request[r].account \in Accounts
    BY <1>4 DEF OpenSession, Is, TypeOK
  <2>2. Begins(t, request[r].account)
    BY <1>4, <2>1 DEF OpenSession, Begins
  <2>3. QED
    BY <2>1, <2>2 DEF RowStep
<1>5. ASSUME NEW r \in Requests, NEW t \in Tokens, RefreshRead(r, t) PROVE RowStep
  BY <1>5 DEF RefreshRead, RowStep
<1>6. ASSUME NEW r \in Requests, Rehash(r) PROVE RowStep
  BY <1>6 DEF Rehash, RowStep
<1>7. ASSUME NEW r \in Requests, Rotate(r) PROVE RowStep
  <2>1. request[r].token \in Tokens
    BY <1>7 DEF Rotate, Is, TypeOK
  <2>2. CASE Unspent(request[r].token)
    BY <1>7, <2>1, <2>2 DEF Rotate, Exchanges, RowStep
  <2>3. CASE ~Unspent(request[r].token)
    BY <1>7, <2>3 DEF Rotate, RowStep
  <2>4. QED
    BY <2>2, <2>3
<1>8. ASSUME NEW r \in Requests, LostRead(r) PROVE RowStep
  BY <1>8 DEF LostRead, RowStep
<1>9. ASSUME NEW r \in Requests, AnswerRepeat(r) PROVE RowStep
  BY <1>9 DEF AnswerRepeat, Successor, RowStep
<1>10. ASSUME NEW r \in Requests, RejectReplay(r) PROVE RowStep
  <2>1. request[r].account \in Accounts
    BY <1>10 DEF RejectReplay, Is, TypeOK
  <2>2. request[r].found \subseteq Tokens
    BY DEF TypeOK
  <2>3. Revokes(StillUnspent(request[r].found), request[r].account)
    BY <1>10, <2>1, SweepRevokes DEF RejectReplay
  <2>4. QED
    BY <2>1, <2>2, <2>3 DEF RowStep, StillUnspent
<1>11. ASSUME NEW r \in Requests, NewPassword(r) PROVE RowStep
  <2>1. request[r].account \in Accounts
    BY <1>11 DEF NewPassword, TypeOK
  <2>2. request[r].found \subseteq Tokens
    BY DEF TypeOK
  <2>3. Revokes(StillUnspent(request[r].found), request[r].account)
    BY <1>11, <2>1, SweepRevokes DEF NewPassword
  <2>4. QED
    BY <2>1, <2>2, <2>3 DEF RowStep, StillUnspent
<1>12. ASSUME NEW r \in Requests, ReplaySweep(r) \/ NewPasswordSweep(r) PROVE RowStep
  BY <1>12 DEF ReplaySweep, NewPasswordSweep, FindUnspent, RowStep
<1>13. ASSUME NEW r \in Requests, RequestDies(r) PROVE RowStep
  BY <1>13 DEF RequestDies, RowStep
<1>14. ASSUME NEW t \in Tokens, Logout(t) PROVE RowStep
  <2>1. token[t].owner \in Accounts
    BY <1>14 DEF Logout, Unspent, Issued, TypeOK, TokenRow
  <2>2. Revokes({t}, token[t].owner)
    BY <1>14, <2>1 DEF Logout, Revokes, Unspent
  <2>3. QED
    BY <2>1, <2>2 DEF RowStep
<1>15. CASE Tick
  BY <1>15 DEF Tick, RowStep
<1>16. QED
  BY <1>1, <1>2, <1>3, <1>4, <1>5, <1>6, <1>7, <1>8, <1>9, <1>10, <1>11, <1>12, <1>13, <1>14,
     <1>15 DEF Next

\* What the four do to the rows, one by one.
LEMMA BeginsRows ==
  ASSUME TypeOK, NEW t \in Tokens, NEW a \in Accounts, Begins(t, a)
  PROVE  /\ Unspent(t)' /\ Issued(t)' /\ session'[t] = t /\ token'[t].owner = a
         /\ token'[t].replacedBy = NoToken
         /\ \A x \in Tokens \ {t} : /\ token'[x] = token[x] /\ session'[x] = session[x]
                                    /\ Unspent(x)' <=> Unspent(x)
                                    /\ Issued(x)' <=> Issued(x)
  BY DEF Begins, FreshRow, Unspent, Issued, TypeOK

LEMMA ExchangesRows ==
  ASSUME TypeOK, NEW t \in Tokens, NEW s \in Tokens, Exchanges(t, s)
  PROVE  /\ t # s
         /\ ~Unspent(t)' /\ Issued(t)' /\ session'[t] = session[t]
         /\ token'[t].owner = token[t].owner /\ token'[t].replacedBy = s
         /\ Unspent(s)' /\ Issued(s)' /\ session'[s] = session[t]
         /\ token'[s].owner = token[t].owner /\ token'[s].replacedBy = NoToken
         /\ answers' = answers \cup {<<t, s>>}
         /\ \A x \in Tokens \ {t, s} : /\ token'[x] = token[x] /\ session'[x] = session[x]
                                       /\ Unspent(x)' <=> Unspent(x)
                                       /\ Issued(x)' <=> Issued(x)
<1>1. t # s
  BY DEF Exchanges, Unspent
<1>2. clock # Never
  BY DEF TypeOK, Time, Never
<1>3. token[t] \in TokenRow /\ token[t].owner \in Accounts
  BY DEF Exchanges, Unspent, Issued, TypeOK, TokenRow
<1>4. /\ token' = [token EXCEPT ![t] = [token[t] EXCEPT !.revokedAt = clock, !.replacedBy = s],
                                ![s] = FreshRow(token[t].owner)]
      /\ session' = [session EXCEPT ![s] = session[t]]
      /\ answers' = answers \cup {<<t, s>>}
  BY DEF Exchanges, Exchange
<1>5. /\ token'[t] = [token[t] EXCEPT !.revokedAt = clock, !.replacedBy = s]
      /\ token'[s] = FreshRow(token[t].owner)
      /\ \A x \in Tokens \ {t, s} : token'[x] = token[x] /\ session'[x] = session[x]
      /\ session'[t] = session[t] /\ session'[s] = session[t]
  BY <1>1, <1>4 DEF TypeOK
<1>6. /\ token'[t].owner = token[t].owner /\ token'[t].replacedBy = s
      /\ token'[t].revokedAt = clock
  BY <1>3, <1>5 DEF TokenRow
<1>7. ~Unspent(t)' /\ Issued(t)'
  BY <1>2, <1>3, <1>6 DEF Unspent, Issued
<1>8. Unspent(s)' /\ Issued(s)' /\ token'[s].owner = token[t].owner
        /\ token'[s].replacedBy = NoToken
  BY <1>3, <1>5 DEF FreshRow, Unspent, Issued
<1>9. \A x \in Tokens \ {t, s} : (Unspent(x)' <=> Unspent(x)) /\ (Issued(x)' <=> Issued(x))
  BY <1>5 DEF Unspent, Issued
<1>10. QED
  BY <1>1, <1>4, <1>5, <1>6, <1>7, <1>8, <1>9

LEMMA RevokesRows ==
  ASSUME TypeOK, NEW T \in SUBSET Tokens, NEW a \in Accounts, Revokes(T, a)
  PROVE  /\ \A x \in Tokens : /\ token'[x].owner = token[x].owner
                              /\ token'[x].replacedBy = token[x].replacedBy
                              /\ Issued(x)' <=> Issued(x)
                              /\ Unspent(x)' <=> (Unspent(x) /\ x \notin T)
         /\ UNCHANGED <<session, answers>>
<1>1. clock # Never
  BY DEF TypeOK, Time, Never
<1>2. ASSUME NEW x \in Tokens
      PROVE  /\ token'[x].owner = token[x].owner
             /\ token'[x].replacedBy = token[x].replacedBy
             /\ x \in T => token'[x].revokedAt = clock
             /\ x \notin T => token'[x] = token[x]
  <2>1. token[x] \in TokenRow
    BY DEF TypeOK
  <2>2. QED
    BY <2>1 DEF Revokes, Revoke, TokenRow
<1>3. QED
  BY <1>1, <1>2 DEF Revokes, Issued, Unspent

\* A token once issued stays its account's, and once spent stays spent.
LEMMA RowsGrow ==
  ASSUME TypeOK, RowStep
  PROVE  \A x \in Tokens : Issued(x) =>
           /\ Issued(x)' /\ token'[x].owner = token[x].owner
           /\ ~Unspent(x) => ~Unspent(x)'
<1>1. ASSUME NEW t \in Tokens, NEW a \in Accounts, Begins(t, a), NEW x \in Tokens, Issued(x)
      PROVE  Issued(x)' /\ token'[x].owner = token[x].owner /\ (~Unspent(x) => ~Unspent(x)')
  <2>1. x # t
    BY <1>1 DEF Begins
  <2>2. QED
    BY <1>1, <2>1, BeginsRows
<1>2. ASSUME NEW t \in Tokens, NEW s \in Tokens, Exchanges(t, s), NEW x \in Tokens, Issued(x)
      PROVE  Issued(x)' /\ token'[x].owner = token[x].owner /\ (~Unspent(x) => ~Unspent(x)')
  <2>1. x # s
    BY <1>2 DEF Exchanges
  <2>2. QED
    BY <1>2, <2>1, ExchangesRows
<1>3. ASSUME NEW T \in SUBSET Tokens, NEW a \in Accounts, Revokes(T, a),
             NEW x \in Tokens, Issued(x)
      PROVE  Issued(x)' /\ token'[x].owner = token[x].owner /\ (~Unspent(x) => ~Unspent(x)')
  BY <1>3, RevokesRows
<1>4. CASE UNCHANGED <<token, session>>
  BY <1>4 DEF Issued, Unspent
<1>5. QED
  BY <1>1, <1>2, <1>3, <1>4 DEF RowStep

\* So what a request knows does not become untrue.
LEMMA StillInformed ==
  ASSUME TypeOK, RowStep, NEW r \in Requests, Informed(request[r])
  PROVE  Informed(request[r])'
         \/ request'[r] # request[r]
<1> SUFFICES ASSUME request'[r] = request[r] PROVE Informed(request[r])'
  OBVIOUS
<1>1. request[r].found \subseteq Tokens
  BY DEF TypeOK
<1>2. request[r].task \in {"rotate", "lost", "repeat"} => request[r].token \in Tokens
  BY DEF TypeOK
<1>3. request[r].task \in {"rotate", "lost", "repeat"} => Issued(request[r].token)'
  BY <1>2, RowsGrow DEF Informed
<1>4. request[r].task \in {"lost", "repeat"} => ~Unspent(request[r].token)'
  BY <1>2, RowsGrow DEF Informed
<1>5. \A t \in request[r].found : Issued(t)' /\ token'[t].owner = request[r].account
  BY <1>1, RowsGrow DEF Informed
<1>6. QED
  BY <1>3, <1>4, <1>5 DEF Informed

-----------------------------------------------------------------------------
(* The invariant is inductive.                                             *)

LEMMA LineInit == Init => LineInv
<1> SUFFICES ASSUME Init PROVE LineInv
  OBVIOUS
<1>1. \A t \in Tokens : ~Issued(t) /\ token[t].replacedBy = NoToken /\ session[t] = NoToken
  BY DEF Init, NoRow, Issued
<1>2. Lines
  BY <1>1 DEF Lines
<1>3. Knows
  BY DEF Init, Knows, Informed, Idle
<1>4. OneLivePerSession
  BY <1>1 DEF OneLivePerSession, Unspent
<1>5. Handed
  BY DEF Init, Handed
<1>6. QED
  BY <1>2, <1>3, <1>4, <1>5 DEF LineInv

\* A session begins: its token is the first and only one of its line.
LEMMA BeginsKeepsLines ==
  ASSUME TypeOK, LineInv, NEW t \in Tokens, NEW a \in Accounts, Begins(t, a)
  PROVE  Lines' /\ OneLivePerSession' /\ Handed'
<1>1. ~Issued(t)
  BY DEF Begins
<1>2. Lines'
  <2>1. ASSUME NEW x \in Tokens, ~Issued(x)'
        PROVE  session'[x] = NoToken /\ token'[x].replacedBy = NoToken
    BY <2>1, BeginsRows DEF LineInv, Lines
  <2>2. ASSUME NEW x \in Tokens, Issued(x)', NEW y, y = session'[x]
        PROVE  y \in Tokens /\ Issued(y)' /\ session'[y] = y
               /\ token'[y].owner = token'[x].owner
    <3>1. CASE x = t
      BY <2>2, <3>1, BeginsRows
    <3>2. CASE x # t
      <4>1. Issued(x) /\ y = session[x]
        BY <2>2, <3>2, BeginsRows
      <4>2. y \in Tokens /\ Issued(y) /\ session[y] = y /\ token[y].owner = token[x].owner
        BY <4>1 DEF LineInv, Lines
      <4>3. y # t
        BY <1>1, <4>2
      <4>4. QED
        BY <3>2, <4>2, <4>3, BeginsRows
    <3>3. QED
      BY <3>1, <3>2
  <2>3. ASSUME NEW x \in Tokens, NEW y \in Tokens, token'[x].replacedBy = y
        PROVE  ~Unspent(x)' /\ Issued(y)' /\ session'[y] = session'[x]
    <3>1. x # t
      BY <2>3, BeginsRows
    <3>2. ~Unspent(x) /\ Issued(y) /\ session[y] = session[x]
      BY <2>3, <3>1, BeginsRows DEF LineInv, Lines
    <3>3. y # t
      BY <1>1, <3>2
    <3>4. QED
      BY <3>1, <3>2, <3>3, BeginsRows
  <2>4. QED
    BY <2>1, <2>2, <2>3 DEF Lines
<1>3. OneLivePerSession'
  <2>1. ASSUME NEW x \in Tokens, NEW y \in Tokens, Unspent(x)', Unspent(y)',
               session'[x] = session'[y]
        PROVE  x = y
    <3>1. \A z \in Tokens : Unspent(z)' /\ z # t =>
            Unspent(z) /\ session'[z] = session[z] /\ session[z] # t
      BY <1>1, BeginsRows DEF LineInv, Lines, Unspent
    <3>2. CASE x = t \/ y = t
      BY <2>1, <3>1, <3>2, BeginsRows
    <3>3. CASE x # t /\ y # t
      BY <2>1, <3>1, <3>3 DEF LineInv, OneLivePerSession
    <3>4. QED
      BY <3>2, <3>3
  <2>2. QED
    BY <2>1 DEF OneLivePerSession
<1>4. Handed'
  <2>1. ASSUME NEW p \in answers PROVE token'[p[1]].replacedBy = p[2]
    <3>1. p[1] \in Tokens /\ p[2] \in Tokens /\ token[p[1]].replacedBy = p[2]
      BY DEF TypeOK, LineInv, Handed
    <3>2. p[1] # t
      BY <1>1, <3>1 DEF LineInv, Lines
    <3>3. QED
      BY <3>1, <3>2, BeginsRows
  <2>2. answers' = answers
    BY DEF Begins
  <2>3. QED
    BY <2>1, <2>2 DEF Handed
<1>5. QED
  BY <1>2, <1>3, <1>4

\* A token is exchanged: its successor takes its place in the line.
LEMMA ExchangesKeepsLines ==
  ASSUME TypeOK, LineInv, NEW t \in Tokens, NEW s \in Tokens, Exchanges(t, s)
  PROVE  Lines' /\ OneLivePerSession' /\ Handed'
<1>1. ~Issued(s) /\ Unspent(t) /\ Issued(t) /\ t # s
  BY ExchangesRows DEF Exchanges, Unspent
<1>2. Lines'
  <2>1. ASSUME NEW x \in Tokens, ~Issued(x)'
        PROVE  session'[x] = NoToken /\ token'[x].replacedBy = NoToken
    BY <2>1, ExchangesRows DEF LineInv, Lines
  <2>2. ASSUME NEW x \in Tokens, Issued(x)', NEW y, y = session'[x]
        PROVE  y \in Tokens /\ Issued(y)' /\ session'[y] = y
               /\ token'[y].owner = token'[x].owner
    <3> DEFINE z == IF x = s THEN t ELSE x
    <3>1. z \in Tokens /\ Issued(z) /\ y = session[z] /\ token'[x].owner = token[z].owner
      BY <1>1, <2>2, ExchangesRows
    <3>2. y \in Tokens /\ Issued(y) /\ session[y] = y /\ token[y].owner = token[z].owner
      BY <3>1 DEF LineInv, Lines
    <3>3. y # s
      BY <1>1, <3>2
    <3>4. QED
      BY <3>1, <3>2, <3>3, ExchangesRows
  <2>3. ASSUME NEW x \in Tokens, NEW y \in Tokens, token'[x].replacedBy = y
        PROVE  ~Unspent(x)' /\ Issued(y)' /\ session'[y] = session'[x]
    <3>1. CASE x = t
      BY <2>3, <3>1, ExchangesRows
    <3>2. CASE x = s
      BY <2>3, <3>2, ExchangesRows
    <3>3. CASE x # t /\ x # s
      <4>1. ~Unspent(x) /\ Issued(y) /\ session[y] = session[x]
        BY <2>3, <3>3, ExchangesRows DEF LineInv, Lines
      <4>2. y # s
        BY <1>1, <4>1
      <4>3. QED
        BY <3>3, <4>1, <4>2, ExchangesRows
    <3>4. QED
      BY <3>1, <3>2, <3>3
  <2>4. QED
    BY <2>1, <2>2, <2>3 DEF Lines
<1>3. OneLivePerSession'
  <2>1. ASSUME NEW x \in Tokens, NEW y \in Tokens, Unspent(x)', Unspent(y)',
               session'[x] = session'[y]
        PROVE  x = y
    <3>1. \A z \in Tokens : Unspent(z)' /\ z # s =>
            z # t /\ Unspent(z) /\ session'[z] = session[z] /\ session[z] # session[t]
      BY <1>1, ExchangesRows DEF LineInv, OneLivePerSession
    <3>2. session'[s] = session[t]
      BY ExchangesRows
    <3>3. CASE x = s \/ y = s
      BY <2>1, <3>1, <3>2, <3>3
    <3>4. CASE x # s /\ y # s
      BY <2>1, <3>1, <3>4 DEF LineInv, OneLivePerSession
    <3>5. QED
      BY <3>3, <3>4
  <2>2. QED
    BY <2>1 DEF OneLivePerSession
<1>4. Handed'
  <2>1. ASSUME NEW p \in answers PROVE token'[p[1]].replacedBy = p[2]
    <3>1. p[1] \in Tokens /\ p[2] \in Tokens /\ token[p[1]].replacedBy = p[2]
      BY DEF TypeOK, LineInv, Handed
    <3>2. p[1] # t /\ p[1] # s
      BY <1>1, <3>1 DEF LineInv, Lines
    <3>3. QED
      BY <3>1, <3>2, ExchangesRows
  <2>2. answers' = answers \cup {<<t, s>>} /\ token'[t].replacedBy = s
    BY ExchangesRows
  <2>3. QED
    BY <2>1, <2>2 DEF Handed
<1>5. QED
  BY <1>2, <1>3, <1>4

LEMMA RowStepKeepsLines ==
  ASSUME TypeOK, LineInv, RowStep
  PROVE  Lines' /\ OneLivePerSession' /\ Handed'
<1>1. ASSUME NEW T \in SUBSET Tokens, NEW a \in Accounts, Revokes(T, a)
      PROVE  Lines' /\ OneLivePerSession' /\ Handed'
  <2>1. Lines'
    <3>1. \A x \in Tokens : ~Issued(x)' => session'[x] = NoToken
                                          /\ token'[x].replacedBy = NoToken
      BY <1>1, RevokesRows DEF LineInv, Lines
    <3>2. ASSUME NEW x \in Tokens, Issued(x)', NEW y, y = session'[x]
          PROVE  y \in Tokens /\ Issued(y)' /\ session'[y] = y
                 /\ token'[y].owner = token'[x].owner
      <4>1. Issued(x) /\ y = session[x]
        BY <1>1, <3>2, RevokesRows
      <4>2. y \in Tokens /\ Issued(y) /\ session[y] = y /\ token[y].owner = token[x].owner
        BY <4>1 DEF LineInv, Lines
      <4>3. QED
        BY <1>1, <4>2, RevokesRows
    <3>3. ASSUME NEW x \in Tokens, NEW y \in Tokens, token'[x].replacedBy = y
          PROVE  ~Unspent(x)' /\ Issued(y)' /\ session'[y] = session'[x]
      <4>1. token[x].replacedBy = y
        BY <1>1, <3>3, RevokesRows
      <4>2. ~Unspent(x) /\ Issued(y) /\ session[y] = session[x]
        BY <4>1 DEF LineInv, Lines
      <4>3. QED
        BY <1>1, <4>2, RevokesRows
    <3>4. QED
      BY <3>1, <3>2, <3>3 DEF Lines
  <2>2. OneLivePerSession'
    BY <1>1, RevokesRows DEF LineInv, OneLivePerSession
  <2>3. \A p \in answers : p[1] \in Tokens
    BY DEF TypeOK
  <2>4. Handed'
    BY <1>1, <2>3, RevokesRows DEF LineInv, Handed
  <2>5. QED
    BY <2>1, <2>2, <2>4
<1>2. ASSUME UNCHANGED <<token, session>>,
             \A p \in answers' : p \in answers \/ token[p[1]].replacedBy = p[2]
      PROVE  Lines' /\ OneLivePerSession' /\ Handed'
  BY <1>2 DEF LineInv, Lines, OneLivePerSession, Handed, Issued, Unspent
<1>3. QED
  BY <1>1, <1>2, BeginsKeepsLines, ExchangesKeepsLines DEF RowStep

\* Every request goes on with what it knows.
LEMMA KnowsKept ==
  ASSUME TypeOK, LineInv, [Next]_vars
  PROVE  Knows'
<1> DEFINE Moves(r, q) == request' = [request EXCEPT ![r] = q]
<1>1. RowStep
  BY StepOnRows DEF LineInv
<1>2. request \in [Requests -> RequestRecord]
  BY DEF TypeOK, RequestRecord
<1>3. \A r \in Requests : Informed(request[r])
  BY DEF LineInv, Knows
<1>4. ASSUME NEW r \in Requests, request'[r] = request[r] PROVE Informed(request[r])'
  BY <1>1, <1>3, <1>4, StillInformed
<1>5. ASSUME NEW r \in Requests, NEW q, Moves(r, q), Informed(request[r])'
      PROVE  Knows'
  <2>1. \A x \in Requests \ {r} : request'[x] = request[x]
    BY <1>2, <1>5
  <2>2. QED
    BY <1>4, <1>5, <2>1 DEF Knows
<1>6. ASSUME NEW r \in Requests, NEW q, Moves(r, q), q.found = {},
             q.task \notin {"rotate", "lost", "repeat"}
      PROVE  Knows'
  <2>1. request'[r] = q
    BY <1>2, <1>6
  <2>2. Informed(request[r])'
    BY <1>6, <2>1 DEF Informed
  <2>3. QED
    BY <1>5, <1>6, <2>2
<1>6a. ASSUME NEW r \in Requests, Ends(r) PROVE Knows'
  <2>1. Moves(r, Idle)
    BY <1>6a DEF Ends
  <2>2. Idle.found = {} /\ Idle.task = "idle"
    BY DEF Idle
  <2>3. QED
    BY <1>6, <2>1, <2>2
<1>6b. ASSUME NEW r \in Requests, NEW a, Moves(r, Opening(a)) PROVE Knows'
  <2>1. Opening(a).found = {} /\ Opening(a).task = "open"
    BY DEF Idle, Opening
  <2>2. QED
    BY <1>6, <1>6b, <2>1
<1>7. CASE UNCHANGED vars
  BY <1>4, <1>7 DEF vars, Knows
<1>8. ASSUME NEW r \in Requests, NEW a \in Accounts, SignInRead(r, a) PROVE Knows'
  <2> DEFINE q == [Idle EXCEPT !.task = "rehash", !.account = a,
                               !.password = credential[a].password]
  <2>1. q.found = {} /\ q.task = "rehash"
    BY DEF Idle
  <2>2. Moves(r, q) \/ Moves(r, Opening(a))
    BY <1>8 DEF SignInRead
  <2> HIDE DEF q
  <2>3. QED
    BY <1>6, <1>6b, <2>1, <2>2
<1>9. ASSUME NEW r \in Requests, NEW a \in Accounts, NEW task \in {"change", "reset"},
             NewPasswordRead(r, a, task)
      PROVE  Knows'
  <2> DEFINE q == [Idle EXCEPT !.task = task, !.account = a]
  <2>1. q.found = {} /\ q.task = task
    BY DEF Idle
  <2>2. Moves(r, q)
    BY <1>9 DEF NewPasswordRead
  <2> HIDE DEF q
  <2>3. QED
    BY <1>6, <1>9, <2>1, <2>2
<1>10. ASSUME NEW r \in Requests, NEW t \in Tokens, OpenSession(r, t) PROVE Knows'
  BY <1>6a, <1>10 DEF OpenSession
<1>11. ASSUME NEW r \in Requests, NEW t \in Tokens, RefreshRead(r, t) PROVE Knows'
  <2> DEFINE q == [Idle EXCEPT !.task = IF Unspent(t) THEN "rotate" ELSE "repeat",
                               !.account = token[t].owner, !.token = t]
  <2>1. Moves(r, q)
    BY <1>11 DEF RefreshRead
  <2>2. /\ q.token = t /\ q.found = {}
        /\ q.task = IF Unspent(t) THEN "rotate" ELSE "repeat"
    BY DEF Idle
  <2>3. request'[r] = q
    BY <1>2, <2>1
  <2>4. Issued(t)' /\ (Unspent(t)' <=> Unspent(t))
    BY <1>11 DEF RefreshRead, Issued, Unspent
  <2>5. Informed(request[r])'
    BY <2>2, <2>3, <2>4 DEF Informed
  <2>6. QED
    BY <1>5, <2>1, <2>5
<1>12. ASSUME NEW r \in Requests, Rehash(r) PROVE Knows'
  BY <1>6b, <1>12 DEF Rehash
<1>13. ASSUME NEW r \in Requests, Rotate(r) PROVE Knows'
  <2>1. CASE Unspent(request[r].token)
    BY <1>6a, <1>13, <2>1 DEF Rotate
  <2>2. CASE ~Unspent(request[r].token)
    <3>1. /\ Moves(r, [request[r] EXCEPT !.task = "lost"])
          /\ UNCHANGED token
      BY <1>13, <2>2 DEF Rotate, Goes
    <3>2. request'[r] = [request[r] EXCEPT !.task = "lost"]
      BY <1>2, <3>1
    <3>3. /\ request'[r].token = request[r].token /\ request'[r].found = request[r].found
          /\ request'[r].account = request[r].account
      BY <1>2, <3>2 DEF RequestRecord
    <3>4. Issued(request[r].token)
      BY <1>3, <1>13 DEF Rotate, Is, Informed
    <3>5. Informed(request[r])'
      BY <1>3, <2>2, <3>1, <3>3, <3>4 DEF Informed, Issued, Unspent
    <3>6. QED
      BY <1>5, <3>1, <3>5
  <2>3. QED
    BY <2>1, <2>2
<1>14. ASSUME NEW r \in Requests, LostRead(r) PROVE Knows'
  <2>1. /\ Moves(r, [request[r] EXCEPT !.task = "repeat"])
        /\ UNCHANGED token
    BY <1>14 DEF LostRead, Goes
  <2>2. request'[r] = [request[r] EXCEPT !.task = "repeat"]
    BY <1>2, <2>1
  <2>3. /\ request'[r].token = request[r].token /\ request'[r].found = request[r].found
        /\ request'[r].account = request[r].account
    BY <1>2, <2>2 DEF RequestRecord
  <2>4. request[r].task = "lost"
    BY <1>14 DEF LostRead, Is
  <2>5. Informed(request[r])'
    BY <1>3, <2>1, <2>3, <2>4 DEF Informed, Issued, Unspent
  <2>6. QED
    BY <1>5, <2>1, <2>5
<1>15. ASSUME NEW r \in Requests, AnswerRepeat(r) PROVE Knows'
  <2>1. CASE Ends(r)
    BY <1>6a, <2>1
  <2>2. CASE Goes(r, "replay")
    <3>1. Moves(r, [request[r] EXCEPT !.task = "replay"]) /\ UNCHANGED token
      BY <1>15, <2>2 DEF AnswerRepeat, Goes
    <3>2. request'[r] = [request[r] EXCEPT !.task = "replay"]
      BY <1>2, <3>1
    <3>3. /\ request'[r].task = "replay" /\ request'[r].found = request[r].found
          /\ request'[r].account = request[r].account
      BY <1>2, <3>2 DEF RequestRecord
    <3>4. Informed(request[r])'
      BY <1>3, <3>1, <3>3 DEF Informed, Issued, Unspent
    <3>5. QED
      BY <1>5, <3>1, <3>4
  <2>3. QED
    BY <1>15, <2>1, <2>2 DEF AnswerRepeat
<1>16. ASSUME NEW r \in Requests, NEW from, NEW to, FindUnspent(r, from, to),
              to \notin {"rotate", "lost", "repeat"}
       PROVE  Knows'
  <2> DEFINE q == [request[r] EXCEPT !.task = to, !.found = UnspentOf(request[r].account)]
  <2>1. Moves(r, q) /\ UNCHANGED token
    BY <1>16 DEF FindUnspent
  <2>2. /\ q.task = to /\ q.found = UnspentOf(request[r].account)
        /\ q.account = request[r].account
    BY <1>2 DEF RequestRecord
  <2>3. request'[r] = q
    BY <1>2, <2>1
  <2>4. \A t \in UnspentOf(request[r].account) :
          Issued(t) /\ token[t].owner = request[r].account
    BY DEF UnspentOf, Unspent
  <2>5. Informed(request[r])'
    BY <1>16, <2>1, <2>2, <2>3, <2>4 DEF Informed, Issued
  <2>6. QED
    BY <1>5, <2>1, <2>5
<1>17. ASSUME NEW r \in Requests, ReplaySweep(r) \/ NewPasswordSweep(r) PROVE Knows'
  BY <1>16, <1>17 DEF ReplaySweep, NewPasswordSweep
<1>18. ASSUME NEW r \in Requests, RejectReplay(r) PROVE Knows'
  BY <1>6a, <1>18 DEF RejectReplay
<1>19. ASSUME NEW r \in Requests, NewPassword(r) PROVE Knows'
  BY <1>6a, <1>6b, <1>19 DEF NewPassword, Ends
<1>20. ASSUME NEW r \in Requests, RequestDies(r) PROVE Knows'
  BY <1>6a, <1>20 DEF RequestDies
<1>21. ASSUME NEW t \in Tokens, Logout(t) PROVE Knows'
  BY <1>4, <1>21 DEF Logout, Knows
<1>22. CASE Tick
  BY <1>4, <1>22 DEF Tick, Knows
<1>23. QED
  BY <1>7, <1>8, <1>9, <1>10, <1>11, <1>12, <1>13, <1>14, <1>15, <1>17, <1>18, <1>19, <1>20,
     <1>21, <1>22 DEF Next

\* The invariant behind the theorems below: sessions are lines, requests know what they read,
\* a session has one token at most that can be refreshed, and what was handed out is a successor.
THEOREM LinesAlways == Spec => []LineInv
<1>1. Init => LineInv
  BY LineInit
<1>2. TypeOK /\ LineInv /\ [Next]_vars => LineInv'
  BY KnowsKept, StepOnRows, RowStepKeepsLines DEF LineInv
<1>3. QED
  BY <1>1, <1>2, TypeCorrect, PTL DEF Spec

\* However many requests present the token of a session at once, the session never forks.
THEOREM NeverForks == Spec => []OneLivePerSession
<1>1. LineInv => OneLivePerSession
  BY DEF LineInv
<1>2. QED
  BY <1>1, LinesAlways, PTL

\* Whoever presents a token, within a refresh or as a repeat, is given the same successor.
THEOREM SameAnswerAlways == Spec => []SameAnswer
<1>1. LineInv => SameAnswer
  <2>1. ASSUME LineInv, NEW p \in answers, NEW q \in answers, p[1] = q[1]
        PROVE  p[2] = q[2]
    BY <2>1 DEF LineInv, Handed
  <2>2. QED
    BY <2>1 DEF SameAnswer
<1>2. QED
  BY <1>1, LinesAlways, PTL

-----------------------------------------------------------------------------
(* Refinement of SessionBook.                                              *)

OwnerOf == [t \in Tokens |-> IF session[t] = t THEN token[t].owner ELSE NoAccount]
OpenNow == {s \in Tokens : ~Ended(s)}

\* An open session is one of the account that owns each of its tokens.
LEMMA OpenOwned ==
  ASSUME TypeOK, LineInv, NEW t \in Tokens, Unspent(t)
  PROVE  session[t] \in OpenNow /\ OwnerOf[session[t]] = token[t].owner
<1>1. /\ session[t] \in Tokens /\ session[session[t]] = session[t]
      /\ token[session[t]].owner = token[t].owner
  BY DEF LineInv, Lines, Unspent
<1>2. QED
  BY <1>1 DEF OpenNow, OwnerOf, Ended

\* Each way in which the rows change is a step of SessionBook, or none.
LEMMA RowStepRefines ==
  ASSUME TypeOK, TypeOK', LineInv, LineInv', RowStep
  PROVE  [Book!Next]_<<OwnerOf, OpenNow>>
<1>1. ASSUME NEW t \in Tokens, NEW a \in Accounts, Begins(t, a)
      PROVE  Book!SignIn(t, a)
  <2>1. ~Issued(t) /\ session[t] = NoToken
    BY <1>1 DEF Begins, LineInv, Lines
  <2>2. OwnerOf[t] = NoAccount
    BY <2>1 DEF OwnerOf
  <2>3. OwnerOf' = [OwnerOf EXCEPT ![t] = a]
    <3>1. OwnerOf'[t] = a
      BY <1>1, BeginsRows DEF OwnerOf
    <3>2. \A x \in Tokens \ {t} : OwnerOf'[x] = OwnerOf[x]
      BY <1>1, BeginsRows DEF OwnerOf
    <3>3. OwnerOf' = [x \in Tokens |-> OwnerOf'[x]] /\ OwnerOf = [x \in Tokens |-> OwnerOf[x]]
      BY DEF OwnerOf
    <3>4. QED
      BY <3>1, <3>2, <3>3
  <2>4. OpenNow' = OpenNow \cup {t}
    <3>1. \A s \in Tokens \ {t} : Ended(s)' <=> Ended(s)
      <4>1. ~Unspent(t)
        BY <2>1 DEF Unspent
      <4>2. QED
        BY <1>1, <4>1, BeginsRows DEF Ended
    <3>2. ~Ended(t)'
      BY <1>1, BeginsRows DEF Ended
    <3>3. QED
      BY <3>1, <3>2 DEF OpenNow
  <2>5. QED
    BY <2>2, <2>3, <2>4 DEF Book!SignIn, OwnerOf, OpenNow
<1>2. ASSUME NEW t \in Tokens, NEW s \in Tokens, Exchanges(t, s)
      PROVE  UNCHANGED <<OwnerOf, OpenNow>>
  <2>1. ~Issued(s) /\ session[s] = NoToken /\ Unspent(t) /\ Issued(t)
    BY <1>2 DEF Exchanges, Unspent, LineInv, Lines
  <2>2. session[t] \in Tokens /\ Issued(session[t]) /\ session[t] # s
    BY <2>1 DEF LineInv, Lines
  <2>3. OwnerOf' = OwnerOf
    BY <1>2, <2>1, <2>2, ExchangesRows DEF OwnerOf
  <2>4. \A z \in Tokens : Ended(z)' <=> Ended(z)
    <3>1. ASSUME NEW z \in Tokens, ~Ended(z) PROVE ~Ended(z)'
      <4>1. PICK x \in Tokens : session[x] = z /\ Unspent(x)
        BY <3>1 DEF Ended
      <4>2. x # s
        BY <2>1, <4>1 DEF Unspent
      <4>3. CASE x = t
        BY <1>2, <4>1, <4>3, ExchangesRows DEF Ended
      <4>4. CASE x # t
        BY <1>2, <4>1, <4>2, <4>4, ExchangesRows DEF Ended
      <4>5. QED
        BY <4>3, <4>4
    <3>2. ASSUME NEW z \in Tokens, ~Ended(z)' PROVE ~Ended(z)
      <4>1. PICK x \in Tokens : session'[x] = z /\ Unspent(x)'
        BY <3>2 DEF Ended
      <4>2. CASE x = s
        BY <1>2, <2>1, <4>1, <4>2, ExchangesRows DEF Ended
      <4>3. CASE x # s
        BY <1>2, <4>1, <4>3, ExchangesRows DEF Ended
      <4>4. QED
        BY <4>2, <4>3
    <3>3. QED
      BY <3>1, <3>2
  <2>5. QED
    BY <2>3, <2>4 DEF OpenNow
<1>3. ASSUME NEW T \in SUBSET Tokens, NEW a \in Accounts, Revokes(T, a)
      PROVE  Book!EndSome(a)
  <2>1. OwnerOf' = OwnerOf
    BY <1>3, RevokesRows DEF OwnerOf
  <2>2. OpenNow' \subseteq OpenNow
    BY <1>3, RevokesRows DEF OpenNow, Ended
  <2>3. ASSUME NEW s \in OpenNow, s \notin OpenNow' PROVE OwnerOf[s] = a
    <3>1. PICK x \in Tokens : session[x] = s /\ Unspent(x)
      BY DEF OpenNow, Ended
    <3>2. x \in T
      BY <1>3, <2>3, <3>1, RevokesRows DEF OpenNow, Ended
    <3>3. token[x].owner = a
      BY <1>3, <3>2 DEF Revokes
    <3>4. QED
      BY <3>1, <3>3, OpenOwned
  <2>4. OpenNow \ OpenNow' \in SUBSET {s \in OpenNow : OwnerOf[s] = a}
    BY <2>3
  <2>5. OpenNow' = OpenNow \ (OpenNow \ OpenNow')
    BY <2>2
  <2>6. QED
    BY <2>1, <2>4, <2>5 DEF Book!EndSome, OwnerOf, OpenNow
<1>4. CASE UNCHANGED <<token, session>>
  BY <1>4 DEF OwnerOf, OpenNow, Ended, Unspent, Issued
<1>5. QED
  BY <1>1, <1>2, <1>3, <1>4 DEF RowStep, Book!Next

\* Sessions implements SessionBook: whatever requests are in flight, a session begins with its
\* sign-in, ends with others of its account only, and is never resumed.
THEOREM Refinement == Spec => ImplementsSessionBook
<1>1. Init => Book!Init
  <2> SUFFICES ASSUME Init PROVE Book!Init
    OBVIOUS
  <2>1. \A t \in Tokens : session[t] # t /\ ~Unspent(t)
    BY DEF Init, NoRow, Unspent, Issued
  <2>2. QED
    BY <2>1 DEF Book!Init, Ended
<1>2. TypeOK /\ TypeOK' /\ LineInv /\ LineInv' /\ [Next]_vars
        => [Book!Next]_<<OwnerOf, OpenNow>>
  BY StepOnRows, RowStepRefines DEF LineInv
<1>3. QED
  BY <1>1, <1>2, TypeCorrect, LinesAlways, PTL
     DEF Spec, ImplementsSessionBook, Book!Spec, OwnerOf, OpenNow

-----------------------------------------------------------------------------
(* Alerts and the sessions that have ended.                                *)

EndedOf(a) == {s \in SessionsOf(a) : Ended(s)}

\* Only finitely many tokens have been issued, so that the sessions can be counted.
FewIssued == IsFiniteSet({t \in Tokens : Issued(t)})

AlertInv == FewIssued /\ AlertsAreWarranted

LEMMA EndedInBook ==
  ASSUME LineInv, NEW a \in Accounts
  PROVE  EndedOf(a) = {s \in Tokens : OwnerOf[s] = a /\ s \notin OpenNow}
<1>1. ASSUME NEW s \in Tokens
      PROVE  s \in EndedOf(a) <=> OwnerOf[s] = a /\ s \notin OpenNow
  <2>1. session[s] = s => Issued(s)
    BY DEF LineInv, Lines
  <2>2. a # NoAccount
    OBVIOUS
  <2>3. OwnerOf[s] = a <=> session[s] = s /\ token[s].owner = a
    BY <2>2 DEF OwnerOf
  <2>4. s \in OpenNow <=> ~Ended(s)
    BY DEF OpenNow
  <2>5. s \in EndedOf(a) <=> Issued(s) /\ session[s] = s /\ token[s].owner = a /\ Ended(s)
    BY DEF EndedOf, SessionsOf
  <2>6. QED
    BY <2>1, <2>3, <2>4, <2>5
<1>2. EndedOf(a) \subseteq Tokens
  BY DEF EndedOf, SessionsOf
<1>3. QED
  BY <1>1, <1>2

\* The same, as a fact about every state.
BookTells ==
  LineInv => \A a \in Accounts :
    EndedOf(a) = {s \in Tokens : OwnerOf[s] = a /\ s \notin OpenNow}
LEMMA TellsAlways == BookTells /\ BookTells'
<1>1. BookTells
  BY EndedInBook DEF BookTells
<1>2. QED
  BY <1>1, PTL

\* What SessionBook promises: a session that has ended is one that has ended for good.
LEMMA EndedGrows ==
  ASSUME TypeOK, TypeOK', LineInv, LineInv', RowStep, NEW a \in Accounts
  PROVE  EndedOf(a) \subseteq EndedOf(a)'
<1>1. /\ EndedOf(a) = {s \in Tokens : OwnerOf[s] = a /\ s \notin OpenNow}
      /\ EndedOf(a)' = {s \in Tokens : OwnerOf'[s] = a /\ s \notin OpenNow'}
  <2>1. BookTells /\ BookTells'
    BY TellsAlways
  <2>2. QED
    BY <2>1 DEF BookTells
<1>2. [Book!Next]_<<OwnerOf, OpenNow>>
  BY RowStepRefines
<1>3. CASE UNCHANGED <<OwnerOf, OpenNow>>
  BY <1>1, <1>3
<1>4. ASSUME NEW b \in Accounts, Book!EndSome(b) PROVE EndedOf(a) \subseteq EndedOf(a)'
  <2>1. OwnerOf' = OwnerOf /\ OpenNow' \subseteq OpenNow
    BY <1>4 DEF Book!EndSome, OwnerOf, OpenNow
  <2>2. QED
    BY <1>1, <2>1
<1>5. ASSUME NEW b \in Accounts, NEW s \in Tokens, Book!SignIn(s, b)
      PROVE  EndedOf(a) \subseteq EndedOf(a)'
  <2>1. /\ OwnerOf[s] = NoAccount /\ OwnerOf' = [OwnerOf EXCEPT ![s] = b]
        /\ OpenNow' = OpenNow \cup {s}
    BY <1>5 DEF Book!SignIn, OwnerOf, OpenNow
  <2>2. \A x \in Tokens \ {s} : OwnerOf'[x] = OwnerOf[x]
    BY <2>1 DEF OwnerOf
  <2>3. QED
    BY <1>1, <2>1, <2>2
<1>6. QED
  BY <1>2, <1>3, <1>4, <1>5 DEF Book!Next

LEMMA FewIssuedKept ==
  ASSUME TypeOK, RowStep, FewIssued
  PROVE  FewIssued'
<1> DEFINE I == {t \in Tokens : Issued(t)}
<1>1. IsFiniteSet(I)
  BY DEF FewIssued
<1>2. \E s : I' \subseteq I \cup {s}
  <2>1. ASSUME NEW t \in Tokens, NEW a \in Accounts, Begins(t, a) PROVE I' \subseteq I \cup {t}
    BY <2>1, BeginsRows
  <2>2. ASSUME NEW t \in Tokens, NEW s \in Tokens, Exchanges(t, s) PROVE I' \subseteq I \cup {s}
    <3>1. Issued(t)
      BY <2>2 DEF Exchanges, Unspent
    <3>2. QED
      BY <2>2, <3>1, ExchangesRows
  <2>3. ASSUME NEW T \in SUBSET Tokens, NEW a \in Accounts, Revokes(T, a)
        PROVE  I' \subseteq I
    BY <2>3, RevokesRows
  <2>4. CASE UNCHANGED <<token, session>>
    BY <2>4 DEF Issued
  <2>5. QED
    BY <2>1, <2>2, <2>3, <2>4 DEF RowStep
<1>3. PICK s : I' \subseteq I \cup {s}
  BY <1>2
<1> HIDE DEF I
<1>4. IsFiniteSet(I \cup {s})
  BY <1>1, FS_AddElement
<1>5. IsFiniteSet(I')
  BY <1>3, <1>4, FS_Subset
<1>6. QED
  BY <1>5 DEF FewIssued, I

\* The sessions of an account that have ended are as many as ever, or more.
LEMMA EndedCounted ==
  ASSUME LineInv, FewIssued, NEW a \in Accounts
  PROVE  IsFiniteSet(EndedOf(a)) /\ Cardinality(EndedOf(a)) \in Nat
<1>1. EndedOf(a) \subseteq {t \in Tokens : Issued(t)}
  BY DEF EndedOf, SessionsOf
<1>2. IsFiniteSet(EndedOf(a))
  BY <1>1, FS_Subset DEF FewIssued
<1>3. QED
  BY <1>2, FS_CardinalityType

CountsTell ==
  LineInv /\ FewIssued => \A a \in Accounts :
    IsFiniteSet(EndedOf(a)) /\ Cardinality(EndedOf(a)) \in Nat
LEMMA CountsAlways == CountsTell /\ CountsTell'
<1>1. CountsTell
  BY EndedCounted DEF CountsTell
<1>2. QED
  BY <1>1, PTL

\* An alert is raised by a sweep that signed something out.
LEMMA AlertStep ==
  ASSUME TypeOK, [Next]_vars
  PROVE  \/ alerts' = alerts
         \/ \E r \in Requests :
              /\ RejectReplay(r) /\ request[r].account \in Accounts
              /\ StillUnspent(request[r].found) # {}
              /\ alerts' = [alerts EXCEPT ![request[r].account] = @ + 1]
<1>1. ASSUME NEW r \in Requests, RejectReplay(r)
      PROVE  \/ alerts' = alerts
             \/ /\ request[r].account \in Accounts
                /\ StillUnspent(request[r].found) # {}
                /\ alerts' = [alerts EXCEPT ![request[r].account] = @ + 1]
  BY <1>1 DEF RejectReplay, Is, TypeOK
<1>2. CASE UNCHANGED vars
  BY <1>2 DEF vars
<1>3. ASSUME NEW r \in Requests, NEW a \in Accounts,
             \/ SignInRead(r, a)
             \/ NewPasswordRead(r, a, "change")
             \/ NewPasswordRead(r, a, "reset")
      PROVE  alerts' = alerts
  BY <1>3 DEF SignInRead, NewPasswordRead
<1>4. ASSUME NEW r \in Requests, NEW t \in Tokens, OpenSession(r, t) \/ RefreshRead(r, t)
      PROVE  alerts' = alerts
  BY <1>4 DEF OpenSession, RefreshRead
<1>5. ASSUME NEW r \in Requests,
             \/ Rehash(r) \/ Rotate(r) \/ LostRead(r) \/ AnswerRepeat(r)
             \/ ReplaySweep(r) \/ NewPasswordSweep(r) \/ NewPassword(r) \/ RequestDies(r)
      PROVE  alerts' = alerts
  BY <1>5 DEF Rehash, Rotate, LostRead, AnswerRepeat, ReplaySweep, NewPasswordSweep,
     FindUnspent, NewPassword, RequestDies
<1>6. ASSUME NEW t \in Tokens, Logout(t) PROVE alerts' = alerts
  BY <1>6 DEF Logout
<1>7. CASE Tick
  BY <1>7 DEF Tick
<1>8. QED
  BY <1>1, <1>2, <1>3, <1>4, <1>5, <1>6, <1>7 DEF Next

\* What such a sweep signed out was the one token its session had left.
LEMMA SweepEnds ==
  ASSUME TypeOK, LineInv, NEW r \in Requests, RejectReplay(r),
         NEW a \in Accounts, a = request[r].account,
         StillUnspent(request[r].found) # {}
  PROVE  \E s : s \in EndedOf(a)' /\ s \notin EndedOf(a)
<1> DEFINE T == StillUnspent(request[r].found)
<1>1. Revokes(T, a) /\ T \subseteq Tokens
  <2>1. token' = Revoke(T) /\ UNCHANGED <<session, answers>>
    BY DEF RejectReplay
  <2>2. Knows
    BY DEF LineInv
  <2>3. request[r].found \subseteq Tokens
    BY DEF TypeOK
  <2>4. QED
    BY <2>1, <2>2, <2>3, SweepRevokes DEF StillUnspent
<1> HIDE DEF T
<1>2. PICK t \in Tokens : t \in T
  BY <1>1 DEF T
<1>3. Issued(t) /\ Unspent(t) /\ token[t].owner = a
  BY <1>1, <1>2 DEF Revokes
<1> DEFINE s == session[t]
<1>4. s \in Tokens /\ Issued(s) /\ session[s] = s /\ token[s].owner = a
  BY <1>3 DEF LineInv, Lines
<1>5. s \notin EndedOf(a)
  BY <1>2, <1>3 DEF EndedOf, Ended
<1>6. /\ session' = session /\ Issued(s)' /\ token'[s].owner = a
      /\ \A x \in Tokens : Unspent(x)' <=> Unspent(x) /\ x \notin T
  BY <1>1, <1>4, RevokesRows
<1>7. Ended(s)'
  <2>1. ASSUME NEW x \in Tokens, session[x] = s PROVE ~Unspent(x)'
    <3>1. Unspent(x) => x = t
      BY <1>3, <2>1 DEF LineInv, OneLivePerSession
    <3>2. QED
      BY <1>2, <1>6, <3>1
  <2>2. \A x \in Tokens : session'[x] = s => ~Unspent(x)'
    BY <1>6, <2>1
  <2>3. s' = s
    BY <1>6
  <2> HIDE DEF s
  <2>4. QED
    BY <2>2, <2>3 DEF Ended
<1>8. s \in EndedOf(a)'
  <2>1. s' = s
    BY <1>6
  <2> HIDE DEF s
  <2>2. QED
    BY <1>4, <1>6, <1>7, <2>1 DEF EndedOf, SessionsOf
<1>9. QED
  BY <1>5, <1>8

LEMMA AlertsKept ==
  ASSUME TypeOK, TypeOK', LineInv, LineInv', AlertInv, [Next]_vars
  PROVE  AlertInv'
<1>1. RowStep /\ Knows
  BY StepOnRows DEF LineInv
<1>2. FewIssued /\ FewIssued'
  BY <1>1, FewIssuedKept DEF AlertInv
<1>3. ASSUME NEW a \in Accounts
      PROVE  /\ EndedOf(a) \subseteq EndedOf(a)' /\ IsFiniteSet(EndedOf(a)')
             /\ Cardinality(EndedOf(a)) \in Nat /\ Cardinality(EndedOf(a)') \in Nat
             /\ Cardinality(EndedOf(a)) <= Cardinality(EndedOf(a)')
             /\ Cardinality(EndedOf(a)) = Cardinality(EndedOf(a)') => EndedOf(a) = EndedOf(a)'
             /\ alerts[a] \in Nat /\ alerts[a] <= Cardinality(EndedOf(a))
  <2>1. EndedOf(a) \subseteq EndedOf(a)'
    BY <1>1, EndedGrows
  <2>2. Cardinality(EndedOf(a)) \in Nat
    BY <1>2, EndedCounted
  <2>3. IsFiniteSet(EndedOf(a)') /\ Cardinality(EndedOf(a)') \in Nat
    BY <1>2, CountsAlways DEF CountsTell
  <2>4. /\ Cardinality(EndedOf(a)) <= Cardinality(EndedOf(a)')
        /\ Cardinality(EndedOf(a)) = Cardinality(EndedOf(a)') => EndedOf(a) = EndedOf(a)'
    BY <2>1, <2>3, FS_Subset
  <2>5. alerts[a] \in Nat /\ alerts[a] <= Cardinality(EndedOf(a))
    BY DEF TypeOK, AlertInv, AlertsAreWarranted, EndedOf
  <2>6. QED
    BY <2>1, <2>2, <2>3, <2>4, <2>5
<1>4. ASSUME NEW a \in Accounts PROVE alerts'[a] <= Cardinality(EndedOf(a)')
  <2>1. CASE alerts'[a] = alerts[a]
    BY <1>3, <2>1
  <2>2. CASE alerts'[a] # alerts[a]
    <3>1. PICK r \in Requests :
            /\ RejectReplay(r) /\ request[r].account \in Accounts
            /\ StillUnspent(request[r].found) # {}
            /\ alerts' = [alerts EXCEPT ![request[r].account] = @ + 1]
      BY <2>2, AlertStep
    <3>2. a = request[r].account /\ alerts'[a] = alerts[a] + 1
      BY <2>2, <3>1 DEF TypeOK
    <3>3. EndedOf(a) # EndedOf(a)'
      BY <3>1, <3>2, SweepEnds
    <3>4. QED
      BY <1>3, <3>2, <3>3
  <2>3. QED
    BY <2>1, <2>2
<1>5. AlertsAreWarranted'
  BY <1>4 DEF AlertsAreWarranted, EndedOf
<1>6. QED
  BY <1>2, <1>5 DEF AlertInv

\* However many replays arrive together, an account is mailed no more alerts than it had sessions
\* ended: each alert is of a session that its sweep, and no other, signed out (rejectReplay).
THEOREM AlertsAreWarrantedAlways == Spec => []AlertsAreWarranted
<1>1. Init => AlertInv
  <2> SUFFICES ASSUME Init PROVE AlertInv
    OBVIOUS
  <2>1. {t \in Tokens : Issued(t)} = {}
    BY DEF Init, NoRow, Issued
  <2>2. FewIssued
    BY <2>1, FS_EmptySet DEF FewIssued
  <2>3. ASSUME NEW a \in Accounts PROVE alerts[a] <= Cardinality(EndedOf(a))
    <3>1. EndedOf(a) = {}
      BY <2>1 DEF EndedOf, SessionsOf
    <3>2. alerts[a] = 0 /\ Cardinality({}) = 0
      BY FS_EmptySet DEF Init
    <3>3. QED
      BY <3>1, <3>2
  <2>4. QED
    BY <2>2, <2>3 DEF AlertInv, AlertsAreWarranted, EndedOf
<1>2. TypeOK /\ TypeOK' /\ LineInv /\ LineInv' /\ AlertInv /\ [Next]_vars => AlertInv'
  BY AlertsKept
<1>3. AlertInv => AlertsAreWarranted
  BY DEF AlertInv
<1>4. QED
  BY <1>1, <1>2, <1>3, TypeCorrect, LinesAlways, PTL DEF Spec

-----------------------------------------------------------------------------
(* The password of an account, and the sign-in that puts an older one back. *)

\* A sign-in stores again a password that is still the one its owner last set.
RehashesCurrent(r) ==
  Rehash(r) => request[r].password = chosen[request[r].account]

\* Only a re-hash and a new password write a credential, and a new password writes what
\* the owner chose.
LEMMA PasswordKept ==
  ASSUME TypeOK, PasswordAsLastSet, [Next]_vars,
         [\A r \in Requests : RehashesCurrent(r)]_vars
  PROVE  PasswordAsLastSet'
<1>1. CASE UNCHANGED <<credential, chosen>>
  BY <1>1 DEF PasswordAsLastSet
<1>2. ASSUME NEW r \in Requests, Rehash(r), ~UNCHANGED vars PROVE PasswordAsLastSet'
  <2> DEFINE a == request[r].account
  <2>1. a \in Accounts
    BY <1>2 DEF Rehash, Is, TypeOK
  <2>2. request[r].password = chosen[a]
    BY <1>2 DEF RehashesCurrent
  <2>3. credential'[a].password = chosen[a]
    BY <1>2, <2>1, <2>2 DEF Rehash, TypeOK
  <2>4. \A x \in Accounts \ {a} : credential'[x] = credential[x]
    BY <1>2 DEF Rehash, TypeOK
  <2>5. chosen' = chosen
    BY <1>2 DEF Rehash
  <2>6. QED
    BY <2>3, <2>4, <2>5 DEF PasswordAsLastSet
<1>3. ASSUME NEW r \in Requests, NewPassword(r) PROVE PasswordAsLastSet'
  <2> DEFINE a == request[r].account
  <2>1. a \in Accounts
    BY <1>3 DEF NewPassword, TypeOK
  <2>2. chosen'[a] = chosen[a] + 1 /\ credential'[a].password = chosen[a] + 1
    BY <1>3, <2>1 DEF NewPassword, TypeOK
  <2>3. \A x \in Accounts \ {a} : credential'[x] = credential[x] /\ chosen'[x] = chosen[x]
    BY <1>3 DEF NewPassword, TypeOK
  <2>4. QED
    BY <2>2, <2>3 DEF PasswordAsLastSet
<1>4. CASE UNCHANGED vars
  BY <1>1, <1>4 DEF vars
<1>5. ASSUME NEW r \in Requests, NEW a \in Accounts,
             \/ SignInRead(r, a)
             \/ NewPasswordRead(r, a, "change")
             \/ NewPasswordRead(r, a, "reset")
      PROVE  UNCHANGED <<credential, chosen>>
  BY <1>5 DEF SignInRead, NewPasswordRead
<1>6. ASSUME NEW r \in Requests, NEW t \in Tokens, OpenSession(r, t) \/ RefreshRead(r, t)
      PROVE  UNCHANGED <<credential, chosen>>
  BY <1>6 DEF OpenSession, RefreshRead
<1>7. ASSUME NEW r \in Requests,
             \/ Rotate(r) \/ LostRead(r) \/ AnswerRepeat(r)
             \/ ReplaySweep(r) \/ RejectReplay(r) \/ NewPasswordSweep(r) \/ RequestDies(r)
      PROVE  UNCHANGED <<credential, chosen>>
  BY <1>7 DEF Rotate, LostRead, AnswerRepeat, ReplaySweep, RejectReplay, NewPasswordSweep,
              FindUnspent, RequestDies
<1>8. ASSUME NEW t \in Tokens, Logout(t) PROVE UNCHANGED <<credential, chosen>>
  BY <1>8 DEF Logout
<1>9. CASE Tick
  BY <1>1, <1>9 DEF Tick
<1>10. QED
  BY <1>1, <1>2, <1>3, <1>4, <1>5, <1>6, <1>7, <1>8, <1>9 DEF Next

\* The only step that can undo a new password is the re-hash of a sign-in that read the old one
\* before: were it to store a password only while it is still the last one set (an update
\* conditional on the hash it read), every account would keep the password its owner chose
\* (/login, /change-password, /reset-password).
THEOREM PasswordKeptUnlessRehashedLate ==
  Spec /\ [][\A r \in Requests : RehashesCurrent(r)]_vars => []PasswordAsLastSet
<1>1. Init => PasswordAsLastSet
  BY DEF Init, PasswordAsLastSet
<1>2. /\ TypeOK /\ PasswordAsLastSet /\ [Next]_vars
      /\ [\A r \in Requests : RehashesCurrent(r)]_vars
      => PasswordAsLastSet'
  BY PasswordKept
<1>3. QED
  BY <1>1, <1>2, TypeCorrect, PTL DEF Spec
=============================================================================
