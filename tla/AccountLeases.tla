---------------------------- MODULE AccountLeases ----------------------------
(***************************************************************************)
(* What the account pool promises its callers: a request holds at most one *)
(* account, an account is held by at most MaxInflight requests, and a      *)
(* lease ends only when its request returns it.  How requests queue, which *)
(* account they get and how the catalogue changes is left open.            *)
(***************************************************************************)
EXTENDS Integers, FiniteSets

CONSTANTS Accounts, Requests, NoAccount, MaxInflight

VARIABLE lease      \* the account each request holds, or NoAccount

HeldBy(a) == {r \in Requests : lease[r] = a}

Init == lease = [r \in Requests |-> NoAccount]

Acquire(r, a) ==
    /\ lease[r] = NoAccount
    /\ Cardinality(HeldBy(a)) < MaxInflight
    /\ lease' = [lease EXCEPT ![r] = a]

Return(r) ==
    /\ lease[r] # NoAccount
    /\ lease' = [lease EXCEPT ![r] = NoAccount]

Next ==
    \E r \in Requests :
        \/ \E a \in Accounts : Acquire(r, a)
        \/ Return(r)

Spec == Init /\ [][Next]_lease
=============================================================================
