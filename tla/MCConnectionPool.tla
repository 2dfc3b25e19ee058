-------------------------- MODULE MCConnectionPool --------------------------
(* ConnectionPool for TLC: one analysis result for the two jobs.           *)
EXTENDS ConnectionPool

MCResults == {[summary |-> "s1", action |-> "a1"]}

=============================================================================
