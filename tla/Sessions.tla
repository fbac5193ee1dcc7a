------------------------------- MODULE Sessions -------------------------------
(***************************************************************************)
(* Refresh tokens and passwords (auth.routes.ts).  A session is a line of  *)
(* refresh tokens: signing in issues the first, every refresh spends the   *)
(* current one and issues its successor.  A spent token that comes back    *)
(* within the reuse interval is taken for a second tab and answered with   *)
(* the successor; later, it is a replay and ends all of the account's      *)
(* sessions, as a new password does.                                       *)
(*                                                                         *)
(* A request reads in one step and writes in a later one, and may die in   *)
(* between.  A statement that revokes many rows finds them when it begins  *)
(* and writes those still unspent when it ends (READ COMMITTED): its       *)
(* beginning and its commit are two actions.  A spent row is never written *)
(* again, so a request that read one may as well look at it later.         *)
(***************************************************************************)
EXTENDS Integers, FiniteSets

CONSTANTS
  Accounts, Tokens, Requests,
  REFRESH_REUSE_INTERVAL,  \* how long after it was spent a token may be repeated
  REFRESH_EXPIRES_IN,      \* how long a token may be refreshed
  MaxTime,                 \* bound on the clock
  MaxChanges,              \* bound on the new passwords of an account
  NoAccount, NoToken

ASSUME SessionsAssumption ==
  /\ REFRESH_REUSE_INTERVAL \in Nat
  /\ REFRESH_EXPIRES_IN \in Nat \ {0}
  /\ MaxTime \in Nat /\ MaxChanges \in Nat
  /\ NoAccount \notin Accounts /\ NoToken \notin Tokens

VARIABLES
  clock,
  token,       \* RefreshToken rows
  credential,  \* the passwordHash of each User row: which password, at the old cost or not
  chosen,      \* history: the password the user last set
  request,     \* what each request in flight is about to do
  session,     \* history: the first token of the line each token belongs to
  answers,     \* history: which token was handed out for which
  alerts       \* security alerts mailed to the account

vars == <<clock, token, credential, chosen, request, session, answers, alerts>>

Never == -1
Time == 0 .. MaxTime
NoRow == [owner |-> NoAccount, revokedAt |-> Never, replacedBy |-> NoToken, expiresAt |-> 0]
TokenRow == [owner : Accounts \cup {NoAccount}, revokedAt : Time \cup {Never},
             replacedBy : Tokens \cup {NoToken}, expiresAt : Nat]
Passwords == 0 .. MaxChanges

Tasks == {"idle", "rehash", "open", "rotate", "lost", "repeat",
          "replay", "replaySweep", "change", "changeSweep", "reset", "resetSweep"}
Idle == [task |-> "idle", account |-> NoAccount, token |-> NoToken, found |-> {},
         password |-> 0]

TypeOK ==
  /\ clock \in Time
  /\ token \in [Tokens -> TokenRow]
  /\ credential \in [Accounts -> [password : Passwords, oldCost : BOOLEAN]]
  /\ chosen \in [Accounts -> Passwords]
  /\ request \in [Requests -> [task : Tasks, account : Accounts \cup {NoAccount},
                               token : Tokens \cup {NoToken}, found : SUBSET Tokens,
                               password : Passwords]]
  /\ \A r \in Requests : request[r].task # "idle" => request[r].account \in Accounts
  /\ \A r \in Requests : request[r].task \in {"rotate", "lost", "repeat"}
                           => request[r].token \in Tokens
  /\ session \in [Tokens -> Tokens \cup {NoToken}]
  /\ answers \subseteq Tokens \X Tokens
  /\ alerts \in [Accounts -> Nat]

Init ==
  /\ clock = 0
  /\ token = [t \in Tokens |-> NoRow]
  /\ credential \in [Accounts -> [password : {0}, oldCost : BOOLEAN]]
  /\ chosen = [a \in Accounts |-> 0]
  /\ request = [r \in Requests |-> Idle]
  /\ session = [t \in Tokens |-> NoToken]
  /\ answers = {}
  /\ alerts = [a \in Accounts |-> 0]

Issued(t) == token[t].owner # NoAccount
Unspent(t) == Issued(t) /\ token[t].revokedAt = Never
UnspentOf(a) == {t \in Tokens : Unspent(t) /\ token[t].owner = a}
Expired(t) == token[t].expiresAt <= clock
FreshRow(a) == [owner |-> a, revokedAt |-> Never, replacedBy |-> NoToken,
                expiresAt |-> clock + REFRESH_EXPIRES_IN]
Revoke(T) == [t \in Tokens |-> IF t \in T THEN [token[t] EXCEPT !.revokedAt = clock]
                                          ELSE token[t]]
\* What a sweep that found these tokens still writes when it commits.
StillUnspent(T) == {t \in T : token[t].revokedAt = Never}
\* The first statement of a password transaction locks the User row until it commits.
UserLocked(a) == \E r \in Requests :
  request[r].task \in {"changeSweep", "resetSweep"} /\ request[r].account = a

\* About to create the first token of a session of a.
Opening(a) == [Idle EXCEPT !.task = "open", !.account = a]

Is(r, task) == request[r].task = task
Goes(r, task) == request' = [request EXCEPT ![r].task = task]
Ends(r) == request' = [request EXCEPT ![r] = Idle]

-----------------------------------------------------------------------------
(* Signing in.                                                             *)

\* POST /login up to the password check, against the row as it was read.
SignInRead(r, a) ==
  /\ Is(r, "idle")
  /\ \/ /\ credential[a].oldCost
        /\ request' = [request EXCEPT ![r] =
             [Idle EXCEPT !.task = "rehash", !.account = a,
                          !.password = credential[a].password]]
     \/ /\ ~credential[a].oldCost
        /\ request' = [request EXCEPT ![r] = Opening(a)]
  /\ UNCHANGED <<clock, token, credential, chosen, session, answers, alerts>>

\* The password that was checked is stored again, at the new cost.
Rehash(r) ==
  LET a == request[r].account
  IN /\ Is(r, "rehash") /\ ~UserLocked(a)
     /\ credential' = [credential EXCEPT ![a] = [password |-> request[r].password,
                                                 oldCost |-> FALSE]]
     /\ request' = [request EXCEPT ![r] = Opening(a)]
     /\ UNCHANGED <<clock, token, chosen, session, answers, alerts>>

\* createSessionTokens: the first token of a session, for a sign-in or after a change.
OpenSession(r, t) ==
  /\ Is(r, "open") /\ ~Issued(t)
  /\ token' = [token EXCEPT ![t] = FreshRow(request[r].account)]
  /\ session' = [session EXCEPT ![t] = t]
  /\ Ends(r)
  /\ UNCHANGED <<clock, credential, chosen, answers, alerts>>

-----------------------------------------------------------------------------
(* POST /refresh, for any token ever issued.                               *)

RefreshRead(r, t) ==
  /\ Is(r, "idle")
  /\ Issued(t) /\ ~Expired(t)
  /\ request' = [request EXCEPT ![r] =
       [Idle EXCEPT !.task = IF Unspent(t) THEN "rotate" ELSE "repeat",
                    !.account = token[t].owner, !.token = t]]
  /\ UNCHANGED <<clock, token, credential, chosen, session, answers, alerts>>

\* Spends t and issues its successor.
Exchange(t, s) ==
  /\ token' = [token EXCEPT ![t] = [@ EXCEPT !.revokedAt = clock, !.replacedBy = s],
                            ![s] = FreshRow(token[t].owner)]
  /\ session' = [session EXCEPT ![s] = session[t]]
  /\ answers' = answers \cup {<<t, s>>}

\* Mutant of Rotate: the update is not conditional on revokedAt.
RotateUnconditionally(r) ==
  LET t == request[r].token
  IN /\ Is(r, "rotate")
     /\ \E s \in Tokens : ~Issued(s) /\ Exchange(t, s)
     /\ Ends(r)
     /\ UNCHANGED <<clock, credential, chosen, alerts>>

\* Mutant of Rotate: the update is conditional, but its count is not looked at.
RotateUncounted(r) ==
  LET t == request[r].token
  IN /\ Is(r, "rotate")
     /\ \E s \in Tokens :
          /\ ~Issued(s)
          /\ IF Unspent(t) THEN Exchange(t, s)
             ELSE /\ token' = [token EXCEPT ![s] = FreshRow(token[t].owner)]
                  /\ session' = [session EXCEPT ![s] = session[t]]
                  /\ answers' = answers
     /\ Ends(r)
     /\ UNCHANGED <<clock, credential, chosen, alerts>>

\* The transaction: spending the token is the check.
Rotate(r) ==
  LET t == request[r].token
  IN /\ Is(r, "rotate")
     /\ \/ /\ Unspent(t)
           /\ \E s \in Tokens : ~Issued(s) /\ Exchange(t, s)
           /\ Ends(r)
        \/ /\ ~Unspent(t)
           /\ Goes(r, "lost")
           /\ UNCHANGED <<token, session, answers>>
     /\ UNCHANGED <<clock, credential, chosen, alerts>>

\* The row is read again: it is spent, and shows by whom.
LostRead(r) ==
  /\ Is(r, "lost")
  /\ Goes(r, "repeat")
  /\ UNCHANGED <<clock, token, credential, chosen, session, answers, alerts>>

\* successorWithinReuseInterval: the token that a repeat of t may be given.
Successor(t) ==
  {s \in Tokens : /\ clock - token[t].revokedAt <= REFRESH_REUSE_INTERVAL
                  /\ REFRESH_REUSE_INTERVAL # 0
                  /\ s = token[t].replacedBy
                  /\ Unspent(s) /\ ~Expired(s)}

\* Mutant of AnswerRepeat: a repeat gets whatever token its session is at by now.
AnswerRepeatWithHead(r) ==
  LET t == request[r].token
      heads == {s \in Tokens : session[s] = session[t] /\ Unspent(s) /\ ~Expired(s)}
  IN /\ Is(r, "repeat")
     /\ \/ /\ heads # {}
           /\ answers' = answers \cup {<<t, s>> : s \in heads}
           /\ Ends(r)
        \/ /\ heads = {} /\ Goes(r, "replay") /\ UNCHANGED answers
     /\ UNCHANGED <<clock, token, credential, chosen, session, alerts>>

\* answerRepeat: the successor signed again, or a replay.
AnswerRepeat(r) ==
  LET t == request[r].token
  IN /\ Is(r, "repeat")
     /\ \/ /\ Successor(t) # {}
           /\ answers' = answers \cup {<<t, s>> : s \in Successor(t)}
           /\ Ends(r)
        \/ /\ Successor(t) = {}
           /\ Goes(r, "replay")
           /\ UNCHANGED answers
     /\ UNCHANGED <<clock, token, credential, chosen, session, alerts>>

-----------------------------------------------------------------------------
(* Ending sessions.                                                        *)

\* An updateMany over the account's unspent tokens begins.
FindUnspent(r, from, to) ==
  LET a == request[r].account
  IN /\ Is(r, from)
     /\ request' = [request EXCEPT ![r] = [@ EXCEPT !.task = to, !.found = UnspentOf(a)]]
     /\ UNCHANGED <<clock, token, credential, chosen, session, answers, alerts>>

ReplaySweep(r) == FindUnspent(r, "replay", "replaySweep")

\* Mutant of RejectReplay: every replay is mailed, whatever it signed out.
RejectReplayLoudly(r) ==
  LET a == request[r].account
  IN /\ Is(r, "replaySweep")
     /\ token' = Revoke(StillUnspent(request[r].found))
     /\ alerts' = [alerts EXCEPT ![a] = @ + 1]
     /\ Ends(r)
     /\ UNCHANGED <<clock, credential, chosen, session, answers>>

\* rejectReplay: ... and commits; the owner is told if it signed anything out.
RejectReplay(r) ==
  LET a == request[r].account
      revoked == StillUnspent(request[r].found)
  IN /\ Is(r, "replaySweep")
     /\ token' = Revoke(revoked)
     /\ alerts' = IF revoked # {} THEN [alerts EXCEPT ![a] = @ + 1] ELSE alerts
     /\ Ends(r)
     /\ UNCHANGED <<clock, credential, chosen, session, answers>>

\* POST /logout, with whatever token the browser holds.
Logout(t) ==
  /\ Unspent(t)
  /\ token' = Revoke({t})
  /\ UNCHANGED <<clock, credential, chosen, request, session, answers, alerts>>

\* POST /change-password up to the check of the current one; POST /reset-password up to the
\* check of its code, which may be right at any time.  To the tokens and the password, deleting
\* the account is a reset too: its password becomes one that nobody knows.
NewPasswordRead(r, a, task) ==
  /\ Is(r, "idle") /\ task \in {"change", "reset"}
  /\ request' = [request EXCEPT ![r] = [Idle EXCEPT !.task = task, !.account = a]]
  /\ UNCHANGED <<clock, token, credential, chosen, session, answers, alerts>>

\* Their transactions: the User row is written, and the sweep of the sessions begins ...
NewPasswordSweep(r) ==
  /\ ~UserLocked(request[r].account)
  /\ \/ FindUnspent(r, "change", "changeSweep")
     \/ FindUnspent(r, "reset", "resetSweep")

\* ... and commits.  A change goes on to open a session for the one who asked.
NewPassword(r) ==
  LET a == request[r].account
  IN /\ request[r].task \in {"changeSweep", "resetSweep"}
     /\ chosen[a] < MaxChanges
     /\ chosen' = [chosen EXCEPT ![a] = @ + 1]
     /\ credential' = [credential EXCEPT ![a] = [password |-> chosen[a] + 1,
                                                 oldCost |-> FALSE]]
     /\ token' = Revoke(StillUnspent(request[r].found))
     /\ request' = [request EXCEPT ![r] =
          IF Is(r, "changeSweep") THEN Opening(a) ELSE Idle]
     /\ UNCHANGED <<clock, session, answers, alerts>>

\* The process dies, or the connection: what was not committed never happens.
RequestDies(r) ==
  /\ ~Is(r, "idle")
  /\ Ends(r)
  /\ UNCHANGED <<clock, token, credential, chosen, session, answers, alerts>>

Tick ==
  /\ clock < MaxTime
  /\ clock' = clock + 1
  /\ UNCHANGED <<token, credential, chosen, request, session, answers, alerts>>

Next ==
  \/ \E r \in Requests :
       \/ \E a \in Accounts : \/ SignInRead(r, a)
                              \/ NewPasswordRead(r, a, "change")
                              \/ NewPasswordRead(r, a, "reset")
       \/ \E t \in Tokens : OpenSession(r, t) \/ RefreshRead(r, t)
       \/ Rehash(r) \/ Rotate(r) \/ LostRead(r) \/ AnswerRepeat(r)
       \/ ReplaySweep(r) \/ RejectReplay(r)
       \/ NewPasswordSweep(r) \/ NewPassword(r)
       \/ RequestDies(r)
  \/ \E t \in Tokens : Logout(t)
  \/ Tick

Spec == Init /\ [][Next]_vars

-----------------------------------------------------------------------------
(* Properties.                                                             *)

\* A session never forks: however many requests present its token at the same moment, at most
\* one of its tokens can be refreshed (the conditional update of /refresh).
OneLivePerSession ==
  \A t, s \in Tokens : Unspent(t) /\ Unspent(s) /\ session[t] = session[s] => t = s

\* Whoever presents a token, and whenever, is given the same successor: two tabs that ask
\* at once end up holding the same token whichever response lands last (/refresh).
SameAnswer == \A p, q \in answers : p[1] = q[1] => p[2] = q[2]

\* A security alert is only mailed when it signed something out: an account gets no more
\* alerts than it had sessions ended, however many replays arrive together (rejectReplay).
SessionsOf(a) == {t \in Tokens : Issued(t) /\ session[t] = t /\ token[t].owner = a}
Ended(s) == \A t \in Tokens : session[t] = s => ~Unspent(t)
AlertsAreWarranted ==
  \A a \in Accounts : alerts[a] <= Cardinality({s \in SessionsOf(a) : Ended(s)})

\* Seen from outside, a session begins once and, once ended, is never resumed: no rotation,
\* repeat or sweep in flight brings one back (SessionBook).
Book == INSTANCE SessionBook WITH
  Sessions <- Tokens,
  owner <- [t \in Tokens |-> IF session[t] = t THEN token[t].owner ELSE NoAccount],
  open <- {s \in Tokens : ~Ended(s)}
ImplementsSessionBook == Book!Spec

\* The password of an account is the one its owner last set; storing it again at sign-in
\* changes its cost and nothing else (the re-hash of /login).
PasswordAsLastSet == \A a \in Accounts : credential[a].password = chosen[a]
=============================================================================
