-------------------------- MODULE MCSaleLifecycle --------------------------
(* Instances of SaleLifecycle for TLC. *)
EXTENDS SellerItems, TLC

MCTimes == {0, 1}
MCAtOnce == {0}

\* The buyers differ only in what they bid, the listings only in what becomes of them.
Symmetry == Permutations(Buyers) \cup Permutations(Listings)
=============================================================================
