--------------------------- MODULE MCAccountTestJob ---------------------------
(* Instances of AccountTestJob for TLC. *)
EXTENDS AccountTestJob

CONSTANTS j1, j2, x1, x2

MCOneRun == {j1}
MCOneAbort == {x1}
MCTwoRuns == {j1, j2}
MCTwoAborts == {x1, x2}

\* A test of two accounts, and a test of one.
MCSize == [j \in Runs |-> IF j = j1 THEN 2 ELSE 1]
=============================================================================
