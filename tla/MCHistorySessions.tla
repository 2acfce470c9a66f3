-------------------------- MODULE MCHistorySessions --------------------------
(* Instances of HistorySessions for TLC. *)
EXTENDS HistorySessions, TLC

CONSTANTS e1, e2, e3, s1, s2

MCIds == {e1, e2, e3}
MCSessions == {s1, s2}
MCTimes == {1}
MCOfResponses == {s2}
MCSymmetry == Permutations(Ids)
=============================================================================
