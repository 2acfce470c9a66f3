---------------------------- MODULE MCManagedAuth ----------------------------
(* Instances of ManagedAuth for TLC. *)
EXTENDS ManagedAuth, TLC

CONSTANTS a1, a2, r1, r2

MCAccounts == {a1, a2}
MCRequests == {r1, r2}
MCUntargeted == {NoAccount}
MCTargets == {NoAccount, a1}

MCStart == [a \in MCAccounts |-> IF a = a1 THEN 1 ELSE 0]
MCMaxToken == [a \in MCAccounts |-> IF a = a1 THEN 2 ELSE 1]

MCSymmetry == Permutations(Requests)
=============================================================================
