---------------------------- MODULE MCAccountPool ----------------------------
(* Instances of AccountPool for TLC. *)
EXTENDS AccountPool, TLC

CONSTANTS a1, a2, a3, r1, r2, r3

MCAccounts == {a1, a2}
MCThreeAccounts == {a1, a2, a3}
MCThree == {r1, r2, r3}
MCFour == {r1, r2, r3}

MCOneTarget == {NoAccount, a1}
MCNoTarget == {NoAccount}
MCAnyExclude == {{}, {a1}}
MCAnyCatalog == {{a1}, {a1, a2}}
MCGrowing == {{a1}, {a1, a2, a3}}
MCNone == {}
MCUnset == Unset

\* Requests differ in nothing when any of them may be cancelled, or none.
MCSymmetry == Permutations(Requests) \cup Permutations({a2, a3})
=============================================================================
