------------------------------- MODULE MCServices -------------------------------
(***************************************************************************)
(* Services, for TLC: the processes, the requests and the details are each *)
(* interchangeable.                                                        *)
(***************************************************************************)
EXTENDS Services, TLC

Symmetry == Permutations(Processes) \cup Permutations(Requests) \cup Permutations(Details)
=================================================================================
