--------------------------- MODULE MCCaseWorkflow ---------------------------
(* CaseWorkflow for TLC: identifiers are interchangeable.                  *)
EXTENDS CaseWorkflow, TLC

Symmetry ==
  Permutations(AlertIds) \union Permutations(IncidentIds)
    \union Permutations(Requests)

=============================================================================
