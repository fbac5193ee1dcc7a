------------------------- MODULE MCAuctionLifecycle -------------------------
(* Instances of AuctionLifecycle for TLC. *)
EXTENDS AuctionLifecycle, TLC

MCDurations == {1}
MCReserves == {0, 2}
MCNoReserve == {0}

\* The worker slots are interchangeable; the buyers are not (their preferences differ).
Symmetry == Permutations(Workers)
=============================================================================
