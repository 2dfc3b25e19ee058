----------------------------- MODULE MCAuditFeed -----------------------------
(* AuditFeed for TLC: requests and alerts are interchangeable.             *)
EXTENDS AuditFeed, TLC

Symmetry == Permutations(Requests) \union Permutations(AlertIds)

=============================================================================
