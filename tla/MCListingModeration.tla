------------------------ MODULE MCListingModeration ------------------------
(* Instances of ListingModeration for TLC. *)
EXTENDS ListingModeration, TLC

\* Listings, admin requests and seller requests are each interchangeable.
Symmetry == Permutations(Listings) \cup Permutations(Admins) \cup Permutations(SellerTabs)
=============================================================================
