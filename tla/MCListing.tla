------------------------------ MODULE MCListing ------------------------------
(* Listing for TLC: alerts in a fixed order, pages of one.                 *)
EXTENDS Listing, TLC

CONSTANTS a1, a2, a3

MCAlertIds == {a1, a2, a3}
MCRank == a1 :> 1 @@ a2 :> 2 @@ a3 :> 3
MCFilters == {AlertStatus, {"new"}}

Symmetry == Permutations(IncidentIds) \union Permutations(Requests)

=============================================================================
