--------------------------- MODULE MCAnalysisJobs ---------------------------
(* AnalysisJobs for TLC.  The provider knows three analyses: two share     *)
(* their summary and recommend different actions.                          *)
EXTENDS AnalysisJobs

CONSTANTS s1, s2, x1, x2, x3

MCResults == {[summary |-> s1, action |-> x1],
              [summary |-> s2, action |-> x2],
              [summary |-> s1, action |-> x3]}

=============================================================================
