------------------------------ MODULE OneTimeCodes ------------------------------
(***************************************************************************)
(* The codes that verify an address or reset a password (auth.routes.ts),  *)
(* for one account.  The two kinds live in tables of their own and are     *)
(* handled alike; `purpose' says which one a behaviour is about.           *)
(*                                                                         *)
(* Issuing deletes the unused codes in one statement and inserts the new   *)
(* one in another.  Trying a code reads the newest usable row, and writes  *)
(* by its id later: a miss counts if the row is still unconsumed, a hit    *)
(* consumes it whatever became of it meanwhile, unless it was deleted.     *)
(***************************************************************************)
EXTENDS Integers, FiniteSets

CONSTANTS
  Requests,
  MAX_OTP_ATTEMPTS,
  MaxCodes            \* bound on the codes issued

OneTimeCodesAssumption ==
  /\ MAX_OTP_ATTEMPTS \in Nat \ {0}
  /\ MaxCodes \in Nat
  /\ IsFiniteSet(Requests)

VARIABLES
  purpose,
  registered,  \* the User row exists
  verified,    \* its isEmailVerified
  issued,      \* how many codes were created; a code is its number, in order of createdAt
  code,        \* the rows
  request,     \* what each request does next, and the code it found
  told,        \* history: the wrong tries at each code that were answered
  accepted     \* history: how often each code was taken

vars == <<purpose, registered, verified, issued, code, request, told, accepted>>

Codes == 1 .. MaxCodes
NoRow == [there |-> FALSE, consumed |-> FALSE, expired |-> FALSE, attempts |-> 0]
Idle == [task |-> "idle", code |-> 0]

TypeOK ==
  /\ purpose \in {"verification", "reset"}
  /\ registered \in BOOLEAN /\ verified \in BOOLEAN
  /\ issued \in 0 .. MaxCodes
  /\ code \in [Codes -> [there : BOOLEAN, consumed : BOOLEAN, expired : BOOLEAN,
                         attempts : 0 .. MAX_OTP_ATTEMPTS]]
  /\ request \in [Requests -> [task : {"idle", "revoke", "create", "miss", "accept"},
                               code : 0 .. MaxCodes]]
  /\ \A r \in Requests : request[r].task \in {"miss", "accept"} => request[r].code \in Codes
  /\ told \in [Codes -> Nat]
  /\ accepted \in [Codes -> Nat]

Init ==
  /\ purpose \in {"verification", "reset"}
  /\ registered = (purpose = "reset")
  /\ verified = FALSE
  /\ issued = 0
  /\ code = [c \in Codes |-> NoRow]
  /\ request = [r \in Requests |-> Idle]
  /\ told = [c \in Codes |-> 0]
  /\ accepted = [c \in Codes |-> 0]

Unused(c) == code[c].there /\ ~code[c].consumed
Usable(c) == Unused(c) /\ ~code[c].expired /\ code[c].attempts < MAX_OTP_ATTEMPTS

Is(r, task) == request[r].task = task
Goes(r, task, c) == request' = [request EXCEPT ![r] = [task |-> task, code |-> c]]
Ends(r) == request' = [request EXCEPT ![r] = Idle]

-----------------------------------------------------------------------------
(* Issuing a code.                                                         *)

\* POST /register: the unique address lets one of two equal requests create the account,
\* whose first code is a statement of its own.
Register(r) ==
  /\ Is(r, "idle") /\ ~registered
  /\ registered' = TRUE
  /\ Goes(r, "create", 0)
  /\ UNCHANGED <<purpose, verified, issued, code, told, accepted>>

\* POST /resend-verification and /forgot-password, as far as reading the account.
AskForCode(r) ==
  /\ Is(r, "idle") /\ registered
  /\ purpose = "verification" => ~verified
  /\ Goes(r, "revoke", 0)
  /\ UNCHANGED <<purpose, registered, verified, issued, code, told, accepted>>

\* "revoke all unconsumed tokens before issuing a new one"
RevokeUnused(r) ==
  /\ Is(r, "revoke")
  /\ code' = [c \in Codes |-> IF Unused(c) THEN [code[c] EXCEPT !.there = FALSE] ELSE code[c]]
  /\ Goes(r, "create", 0)
  /\ UNCHANGED <<purpose, registered, verified, issued, told, accepted>>

CreateCode(r) ==
  /\ Is(r, "create") /\ issued < MaxCodes
  /\ issued' = issued + 1
  /\ code' = [code EXCEPT ![issued + 1] = [NoRow EXCEPT !.there = TRUE]]
  /\ Ends(r)
  /\ UNCHANGED <<purpose, registered, verified, told, accepted>>

\* A code's time is up; all live equally long, so the older one's first.
Expire(c) ==
  /\ c <= issued /\ ~code[c].expired
  /\ \A d \in 1 .. c - 1 : code[d].expired
  /\ code' = [code EXCEPT ![c].expired = TRUE]
  /\ UNCHANGED <<purpose, registered, verified, issued, request, told, accepted>>

-----------------------------------------------------------------------------
(* Trying a code.                                                          *)

\* The newest usable row is read and compared; /verify-reset-otp does no more with a hit.
TryCode(r, right) ==
  /\ Is(r, "idle") /\ registered
  /\ \E c \in Codes :
       /\ Usable(c) /\ \A d \in Codes : Usable(d) => d <= c
       /\ Goes(r, IF right THEN "accept" ELSE "miss", c)
  /\ UNCHANGED <<purpose, registered, verified, issued, code, told, accepted>>

\* Mutant of RecordMiss: the counter is computed from the row as it was read, and a parallel
\* miss is lost.  A row that was read is one with attempts left.
RecordMissStale(r) ==
  LET c == request[r].code
  IN /\ Is(r, "miss")
     /\ \E read \in 0 .. code[c].attempts :
          code' = [code EXCEPT ![c].attempts = read + 1,
                               ![c].consumed = @ \/ read + 1 >= MAX_OTP_ATTEMPTS]
     /\ told' = [told EXCEPT ![c] = @ + 1]
     /\ Ends(r)
     /\ UNCHANGED <<purpose, registered, verified, issued, accepted>>
\* recordVerificationMiss, recordResetMiss; the client hears "Invalid or expired code."
RecordMiss(r) ==
  LET c == request[r].code
      attempts == code[c].attempts + 1
  IN /\ Is(r, "miss")
     /\ IF Unused(c)
        THEN code' = [code EXCEPT ![c].attempts = attempts,
                                  ![c].consumed = attempts >= MAX_OTP_ATTEMPTS]
        ELSE UNCHANGED code
     /\ told' = [told EXCEPT ![c] = @ + 1]
     /\ Ends(r)
     /\ UNCHANGED <<purpose, registered, verified, issued, accepted>>

\* Mutant of AcceptCode: an updateMany that finds no row does not fail the transaction.
AcceptGoneCode(r) ==
  LET c == request[r].code
  IN /\ Is(r, "accept")
     /\ code' = [code EXCEPT ![c].consumed = TRUE]
     /\ verified' = (verified \/ purpose = "verification")
     /\ accepted' = [accepted EXCEPT ![c] = @ + 1]
     /\ Ends(r)
     /\ UNCHANGED <<purpose, registered, issued, told>>
\* The transaction of a hit: updates by id, rolled back when the row is gone.
AcceptCode(r) ==
  LET c == request[r].code
  IN /\ Is(r, "accept") /\ code[c].there
     /\ code' = [code EXCEPT ![c].consumed = TRUE]
     /\ verified' = (verified \/ purpose = "verification")
     /\ accepted' = [accepted EXCEPT ![c] = @ + 1]
     /\ Ends(r)
     /\ UNCHANGED <<purpose, registered, issued, told>>

\* A request dies, or its statement fails (a hit on a deleted row: P2025).
RequestDies(r) ==
  /\ ~Is(r, "idle")
  /\ Ends(r)
  /\ UNCHANGED <<purpose, registered, verified, issued, code, told, accepted>>

Next ==
  \/ \E r \in Requests :
       \/ Register(r) \/ AskForCode(r) \/ RevokeUnused(r) \/ CreateCode(r)
       \/ RecordMiss(r) \/ AcceptCode(r) \/ RequestDies(r)
       \/ \E right \in BOOLEAN : TryCode(r, right)
  \/ \E c \in Codes : Expire(c)

Spec == Init /\ [][Next]_vars

-----------------------------------------------------------------------------
(* Properties.                                                             *)

\* The attempts of a code are bounded although reading the counter and raising it are two
\* statements: parallel tries exceed the limit by at most the requests that ran beside the
\* last one allowed, and a code that has used up its attempts is consumed.
GuessesBounded ==
  \A c \in Codes :
    /\ told[c] < MAX_OTP_ATTEMPTS + Cardinality(Requests)
    /\ code[c].attempts >= MAX_OTP_ATTEMPTS => code[c].consumed

\* A code that was unused when a new one was asked for is dead from then on, even for a
\* request that has already found it right and is still hashing the new password.
ReplacedIsDead ==
  [][\A c \in Codes : c <= issued /\ ~code[c].there => accepted'[c] = accepted[c]]_vars
=============================================================================
