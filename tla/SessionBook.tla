---------------------------- MODULE SessionBook ----------------------------
(***************************************************************************)
(* What signing in promises: a session begins with one sign-in, belongs to *)
(* one account, and once it has ended it is over.  Nothing else that       *)
(* happens to its tokens is visible here.                                  *)
(***************************************************************************)
CONSTANTS Sessions, Accounts, NoAccount

VARIABLES
  owner,   \* whose session it is, NoAccount before the sign-in
  open     \* the sessions that can still be refreshed

Init ==
  /\ owner = [s \in Sessions |-> NoAccount]
  /\ open = {}

SignIn(s, a) ==
  /\ owner[s] = NoAccount
  /\ owner' = [owner EXCEPT ![s] = a]
  /\ open' = open \cup {s}

\* A sign-out ends one session; a new password or a replay may end all of an account.
EndSome(a) ==
  \E S \in SUBSET {s \in open : owner[s] = a} :
    /\ open' = open \ S
    /\ UNCHANGED owner

Next == \E a \in Accounts : EndSome(a) \/ \E s \in Sessions : SignIn(s, a)

Spec == Init /\ [][Next]_<<owner, open>>
=============================================================================
