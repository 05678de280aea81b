-------------------------- MODULE MCKrxTechnicals --------------------------
(* KrxTechnicals with a window of two rows over three trading days. *)
EXTENDS KrxTechnicals, TLC

CONSTANTS j1, j2, j3

MCJobs == {j1, j2, j3}
MCDates == 1..3
NoRows == [d \in MCDates |-> NoRow]
TwoRows == [d \in MCDates |-> IF d = 3 THEN NoRow ELSE 1]

\* An empty table, and one a bootstrap of two days has left.
MCTables == {NoRows, TwoRows}

JobSymmetry == Permutations(MCJobs)
=============================================================================
