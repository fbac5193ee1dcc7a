----------------------------- MODULE MCSessions -----------------------------
(* Instances of Sessions for TLC. *)
EXTENDS Sessions, TLC

\* Tokens and requests are each interchangeable.
Symmetry == Permutations(Tokens) \cup Permutations(Requests)
=============================================================================
