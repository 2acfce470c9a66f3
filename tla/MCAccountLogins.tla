---------------------------- MODULE MCAccountLogins ----------------------------
(* Two keys that share an account, a key to rotate to, and a CSV of two rows. *)
EXTENDS AccountLogins

CONSTANTS k1, k2, k3, a1, a2

MCKeys == {k1, k2, k3}
MCAccounts == {a1, a2}
MCEnvironments == {{}, {"gateway", "poolui"}}
MCDevices == {0}
MCPools == {k1 :> <<a1>> @@ k2 :> <<a1>>}
MCCSVs == {<<[account |-> a1, device |-> MaxToken], [account |-> a2, device |-> 0]>>}
=============================================================================
