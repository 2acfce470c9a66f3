---------------------------- MODULE MCChatHistory ----------------------------
(* Instances of ChatHistory for TLC. *)
EXTENDS ChatHistory, TLC

CONSTANTS e1, e2, e3

MCThreeIds == {e1, e2, e3}
MCTimes == {1, 2}

\* Entries are created in any order: their identifiers are alike.
MCSymmetry == Permutations(Ids)
=============================================================================
