-------------------------- MODULE AccountPoolProofs --------------------------
(***************************************************************************)
(* Proofs about AccountPool, for every set of accounts and of requests and *)
(* every limit.                                                            *)
(***************************************************************************)
EXTENDS AccountPool, FiniteSetTheorems, SequenceTheorems, TLAPS

\* A request is between AcquireWait and Release exactly while it has a lease.
LeaseState == \A r \in Requests : lease[r] # NoAccount <=> pc[r] = "leased"

\* The inductive invariant: the counts are the leases, within the limit.
Counted ==
    /\ TypeOK
    /\ LeaseState
    /\ LeaseAccounting
    /\ \A a \in Accounts : inUse[a] <= MaxInflight

-----------------------------------------------------------------------------
(* Sequences and sets *)

\* Position returns where an element of a sequence is.
LEMMA PositionIn ==
    ASSUME NEW S, NEW q \in Seq(S), NEW a \in Range(q)
    PROVE  Position(q, a) \in 1..Len(q) /\ q[Position(q, a)] = a
<1>1. \E i \in DOMAIN q : q[i] = a
  BY DEF Range
<1>2. DOMAIN q = 1..Len(q)
  OBVIOUS
<1> QED
  BY <1>1, <1>2 DEF Position

\* Removing an element of a sequence, and rotating it to the tail, stay within
\* the sequences over the same set.
LEMMA RotationType ==
    ASSUME NEW S, NEW q \in Seq(S), NEW a
    PROVE  Without(q, a) \in Seq(S) /\ (a \in S => Bump(q, a) \in Seq(S))
<1>1. Without(q, a) \in Seq(S)
  <2>1. CASE a \in Range(q)
    <3> DEFINE i == Position(q, a)
    <3>1. i \in 1..Len(q)
      BY <2>1, PositionIn
    <3> HIDE DEF i
    <3>2. SubSeq(q, 1, i - 1) \o SubSeq(q, i + 1, Len(q)) \in Seq(S)
      BY <3>1
    <3> QED
      BY <2>1, <3>2 DEF Without, RemoveAt, i
  <2>2. CASE a \notin Range(q)
    BY <2>2 DEF Without
  <2> QED
    BY <2>1, <2>2
<1>2. ASSUME a \in S PROVE Bump(q, a) \in Seq(S)
  BY <1>1, <1>2 DEF Bump
<1> QED
  BY <1>1, <1>2

\* An enumeration of a set of accounts is a sequence of accounts.
LEMMA EnumerationType ==
    ASSUME NEW S \in SUBSET Accounts, NEW q \in SetToSeqs(S)
    PROVE  q \in Seq(Accounts)
<1>1. Cardinality(S) \in Nat
  BY AccountsAssumption, FS_Subset, FS_CardinalityType
<1>2. q \in [1..Cardinality(S) -> S]
  BY DEF SetToSeqs
<1> QED
  BY <1>1, <1>2

-----------------------------------------------------------------------------
(* Counting leases *)

\* The holders of an account are finitely many.
LEMMA HoldersFinite ==
    ASSUME NEW a PROVE IsFiniteSet(Holders(a)) /\ Cardinality(Holders(a)) \in Nat
BY RequestsAssumption, FS_Subset, FS_CardinalityType DEF Holders

\* Taking an account adds one to its holders and none to the others'.
LEMMA TakeCounts ==
    ASSUME TypeOK, NEW r \in Requests, NEW a \in Accounts, lease[r] = NoAccount,
           lease' = [lease EXCEPT ![r] = a], NEW b \in Accounts
    PROVE  Cardinality(Holders(b)') =
               IF b = a THEN Cardinality(Holders(b)) + 1 ELSE Cardinality(Holders(b))
<1>1. CASE b = a
  <2>1. Holders(b)' = Holders(b) \cup {r} /\ r \notin Holders(b)
    BY <1>1, AccountsAssumption DEF Holders, TypeOK
  <2> QED
    BY <1>1, <2>1, HoldersFinite, FS_AddElement
<1>2. CASE b # a
  <2>1. Holders(b)' = Holders(b)
    BY <1>2, AccountsAssumption DEF Holders, TypeOK
  <2> QED
    BY <1>2, <2>1
<1> QED
  BY <1>1, <1>2

\* Giving an account back takes one from its holders and none from the others'.
LEMMA GiveBackCounts ==
    ASSUME TypeOK, NEW r \in Requests, lease[r] \in Accounts,
           lease' = [lease EXCEPT ![r] = NoAccount], NEW b \in Accounts
    PROVE  /\ Cardinality(Holders(b)') =
                  IF b = lease[r] THEN Cardinality(Holders(b)) - 1
                                  ELSE Cardinality(Holders(b))
           /\ b = lease[r] => Cardinality(Holders(b)) > 0
<1>1. CASE b = lease[r]
  <2>1. Holders(b)' = Holders(b) \ {r} /\ r \in Holders(b)
    BY <1>1, AccountsAssumption DEF Holders, TypeOK
  <2>2. Holders(b) # {}
    BY <2>1
  <2>3. Cardinality(Holders(b)) # 0
    BY <2>2, HoldersFinite, FS_EmptySet
  <2> QED
    BY <1>1, <2>1, <2>3, HoldersFinite, FS_RemoveElement
<1>2. CASE b # lease[r]
  <2>1. Holders(b)' = Holders(b)
    BY <1>2, AccountsAssumption DEF Holders, TypeOK
  <2> QED
    BY <1>2, <2>1
<1> QED
  BY <1>1, <1>2
-----------------------------------------------------------------------------
(* The counts are inductive *)

LEMMA InitCounted ==
    ASSUME Init PROVE Counted
<1>1. TypeOK
  <2>1. queue \in Seq(Accounts)
    BY EnumerationType DEF Init
  <2> QED
    BY <2>1 DEF Init, TypeOK, PCs
<1>2. \A a \in Accounts : Holders(a) = {}
  BY AccountsAssumption DEF Init, Holders
<1>3. LeaseAccounting
  BY <1>2, FS_EmptySet DEF Init, LeaseAccounting
<1>4. \A a \in Accounts : inUse[a] <= MaxInflight
  BY LimitsAssumption DEF Init
<1> QED
  BY <1>1, <1>3, <1>4 DEF Counted, LeaseState, Init

\* A step that changes neither the leases nor the counts keeps them equal.
LEMMA CountsUntouched ==
    ASSUME Counted, TypeOK', UNCHANGED <<inUse, lease>>,
           \A r \in Requests : pc'[r] = "leased" <=> pc[r] = "leased"
    PROVE  Counted'
BY DEF Counted, LeaseState, LeaseAccounting, Holders

LEMMA CallCounted ==
    ASSUME Counted, NEW r \in Requests, NEW t \in Targets, NEW x \in Excludes, Call(r, t, x)
    PROVE  Counted'
<1>1. TypeOK'
  BY InputsAssumption DEF Counted, TypeOK, PCs, Call
<1> QED
  BY <1>1, CountsUntouched DEF Counted, TypeOK, Call

LEMMA CtxDoneCounted ==
    ASSUME Counted, NEW r \in Requests, CtxDone(r)
    PROVE  Counted'
<1>1. TypeOK'
  BY DEF Counted, TypeOK, PCs, CtxDone
<1> QED
  BY <1>1, CountsUntouched DEF CtxDone

LEMMA GrantCounted ==
    ASSUME Counted, NEW r \in Requests, NEW a \in Accounts, Grant(r, a)
    PROVE  Counted'
<1> USE DEF Counted
<1>1. TypeOK'
  <2>1. Bump(queue, a) \in Seq(Accounts)
    BY RotationType DEF TypeOK
  <2>2. inUse' \in [Accounts -> Nat]
    BY DEF TypeOK, Grant
  <2>3. pc' \in [Requests -> PCs] /\ lease' \in [Requests -> Accounts \cup {NoAccount}]
    BY DEF TypeOK, PCs, Grant
  <2> QED
    BY <2>1, <2>2, <2>3 DEF TypeOK, Grant
<1>2. LeaseState'
  BY AccountsAssumption DEF LeaseState, TypeOK, Grant
<1>3. lease[r] = NoAccount
  BY DEF LeaseState, Grant
<1>4. LeaseAccounting'
  <2> SUFFICES ASSUME NEW b \in Accounts PROVE inUse'[b] = Cardinality(Holders(b)')
    BY DEF LeaseAccounting, Holders
  <2>1. Cardinality(Holders(b)') =
            IF b = a THEN Cardinality(Holders(b)) + 1 ELSE Cardinality(Holders(b))
    BY <1>3, TakeCounts DEF Grant
  <2> QED
    BY <2>1 DEF LeaseAccounting, TypeOK, Grant
<1>5. \A b \in Accounts : inUse'[b] <= MaxInflight
  BY LimitsAssumption DEF TypeOK, Grant, Leasable, Admits, CanAcquireID
<1> QED
  BY <1>1, <1>2, <1>4, <1>5

\* The steps of AcquireWait that only move the caller.
LEMMA WaitStepCounted ==
    ASSUME Counted, NEW r \in Requests,
           CheckCtx(r) \/ Enqueue(r) \/ Refuse(r) \/ Wake(r) \/ CancelWait(r)
    PROVE  Counted'
<1>1. Without(waiters, r) \in Seq(Requests)
  BY RotationType DEF Counted, TypeOK
<1>2. TypeOK'
  <2>1. waiters' \in Seq(Requests)
    <3>1. Append(waiters, r) \in Seq(Requests) /\ waiters \in Seq(Requests)
      BY DEF Counted, TypeOK
    <3> QED
      BY <1>1, <3>1 DEF CheckCtx, Enqueue, Refuse, Wake, CancelWait
  <2>2. pc' \in [Requests -> PCs]
    BY DEF Counted, TypeOK, PCs, CheckCtx, Enqueue, Refuse, Wake, CancelWait
  <2> QED
    BY <2>1, <2>2 DEF Counted, TypeOK, CheckCtx, Enqueue, Refuse, Wake, CancelWait
<1>3. \A p \in Requests : pc'[p] = "leased" <=> pc[p] = "leased"
  BY DEF Counted, TypeOK, CheckCtx, Enqueue, Refuse, Wake, CancelWait
<1> QED
  BY <1>2, <1>3, CountsUntouched DEF CheckCtx, Enqueue, Refuse, Wake, CancelWait

LEMMA ReleaseCounted ==
    ASSUME Counted, NEW r \in Requests, Release(r)
    PROVE  Counted'
<1> USE DEF Counted
<1>1. lease[r] \in Accounts
  BY DEF LeaseState, TypeOK, Release
<1>2. \A b \in Accounts :
          /\ Cardinality(Holders(b)') =
                 IF b = lease[r] THEN Cardinality(Holders(b)) - 1
                                 ELSE Cardinality(Holders(b))
          /\ b = lease[r] => Cardinality(Holders(b)) > 0
  BY <1>1, GiveBackCounts DEF Release
<1>3. inUse[lease[r]] > 0
  BY <1>1, <1>2 DEF LeaseAccounting
<1>4. inUse' = [inUse EXCEPT ![lease[r]] = @ - 1] /\ NotifyOne
  BY <1>3 DEF Release, ReleaseSlot
<1>5. waiters' \in Seq(Requests)
  BY <1>4 DEF NotifyOne, TypeOK
<1>6. TypeOK'
  <2>1. inUse' \in [Accounts -> Nat]
    BY <1>1, <1>3, <1>4 DEF TypeOK
  <2> QED
    BY <1>5, <2>1 DEF TypeOK, PCs, Release
<1>7. LeaseState'
  BY AccountsAssumption DEF LeaseState, TypeOK, Release
<1>8. LeaseAccounting'
  <2> SUFFICES ASSUME NEW b \in Accounts PROVE inUse'[b] = Cardinality(Holders(b)')
    BY DEF LeaseAccounting, Holders
  <2> QED
    BY <1>1, <1>2, <1>4 DEF LeaseAccounting, TypeOK
<1>9. \A b \in Accounts : inUse'[b] <= MaxInflight
  BY <1>1, <1>4, LimitsAssumption DEF TypeOK
<1> QED
  BY <1>6, <1>7, <1>8, <1>9

\* The steps that change the rotation and the catalogue.
LEMMA CatalogStepCounted ==
    ASSUME Counted,
           \/ \E r \in Requests : RemoveAccount(r)
           \/ \E S \in Catalogs : Refresh(S)
           \/ \E a \in Accounts : GuardExpires(a)
    PROVE  Counted'
<1>1. CASE \E r \in Requests : RemoveAccount(r)
  <2> PICK r \in Requests : RemoveAccount(r)
    BY <1>1
  <2>1. lease[r] \in Accounts
    BY DEF Counted, LeaseState, TypeOK, RemoveAccount
  <2>2. Without(queue, lease[r]) \in Seq(Accounts)
    BY RotationType DEF Counted, TypeOK
  <2>3. TypeOK'
    BY <2>1, <2>2 DEF Counted, TypeOK, RemoveAccount
  <2> QED
    BY <2>3, CountsUntouched DEF RemoveAccount
<1>2. CASE \E S \in Catalogs : Refresh(S)
  <2> PICK S \in Catalogs : Refresh(S)
    BY <1>2
  <2>1. S \ blocked \in SUBSET Accounts
    BY InputsAssumption
  <2>2. queue' \in Seq(Accounts)
    BY <2>1, EnumerationType DEF Refresh
  <2>3. waiters' \in Seq(Requests)
    BY DEF Counted, TypeOK, Refresh
  <2>4. TypeOK'
    BY <2>1, <2>2, <2>3 DEF Counted, TypeOK, Refresh
  <2> QED
    BY <2>4, CountsUntouched DEF Refresh
<1>3. CASE \E a \in Accounts : GuardExpires(a)
  <2>1. TypeOK'
    BY <1>3 DEF Counted, TypeOK, GuardExpires
  <2> QED
    BY <1>3, <2>1, CountsUntouched DEF GuardExpires
<1> QED
  BY <1>1, <1>2, <1>3

LEMMA NextCounted ==
    ASSUME Counted, [Next]_vars PROVE Counted'
<1>1. CASE UNCHANGED vars
  <2>1. TypeOK'
    BY <1>1 DEF Counted, TypeOK, vars
  <2> QED
    BY <1>1, <2>1, CountsUntouched DEF vars
<1>2. CASE Next
  <2>1. ASSUME NEW r \in Requests, NEW t \in Targets, NEW x \in Excludes, Call(r, t, x)
        PROVE  Counted'
    BY <2>1, CallCounted
  <2>2. ASSUME NEW r \in Requests, CtxDone(r) PROVE Counted'
    BY <2>2, CtxDoneCounted
  <2>3. ASSUME NEW r \in Requests, Step(r) PROVE Counted'
    BY <2>3, GrantCounted, WaitStepCounted DEF Step
  <2>4. ASSUME NEW r \in Requests, Release(r) PROVE Counted'
    BY <2>4, ReleaseCounted
  <2> QED
    BY <1>2, <2>1, <2>2, <2>3, <2>4, CatalogStepCounted DEF Next
<1> QED
  BY <1>1, <1>2

\* Counted holds in every state the pool can reach.
THEOREM CountedAlways == Spec => []Counted
<1>1. Init => Counted
  BY InitCounted
<1>2. Counted /\ [Next]_vars => Counted'
  BY NextCounted
<1> QED
  BY <1>1, <1>2, PTL DEF Spec

\* Every variable keeps its type; in particular no count goes below zero.
THEOREM TypeCorrect == Spec => []TypeOK
<1>1. Counted => TypeOK
  BY DEF Counted
<1> QED
  BY <1>1, CountedAlways, PTL

\* Acquire, Release, Remove and UpdateAccounts together keep inUse equal to the
\* leases that are out.
THEOREM LeasesCounted == Spec => []LeaseAccounting
<1>1. Counted => LeaseAccounting
  BY DEF Counted
<1> QED
  BY <1>1, CountedAlways, PTL

\* No account is ever leased to more than MaxInflight requests at once.
THEOREM InflightLimited == Spec => []InflightLimit
<1>1. Counted => InflightLimit
  BY DEF Counted, LeaseAccounting, InflightLimit
<1> QED
  BY <1>1, CountedAlways, PTL
-----------------------------------------------------------------------------
(* The pool implements AccountLeases *)

\* Only Grant and Release touch a lease; Grant finds the account below its limit.
LEMMA LeaseStep ==
    ASSUME Counted, [Next]_vars PROVE [Leases!Next]_lease
<1>1. ASSUME NEW r \in Requests, NEW a \in Accounts, Grant(r, a)
      PROVE  Leases!Acquire(r, a)
  <2>1. lease[r] = NoAccount
    BY <1>1 DEF Counted, LeaseState, Grant
  <2>2. Cardinality(Holders(a)) < MaxInflight
    BY <1>1 DEF Counted, LeaseAccounting, Grant, Leasable, Admits, CanAcquireID
  <2>3. Leases!HeldBy(a) = Holders(a)
    BY DEF Leases!HeldBy, Holders
  <2>4. Leases!Cardinality(Holders(a)) = Cardinality(Holders(a))
    BY DEF Leases!Cardinality, Cardinality
  <2> QED
    BY <1>1, <2>1, <2>2, <2>3, <2>4 DEF Grant, Leases!Acquire
<1>2. ASSUME NEW r \in Requests, Release(r)
      PROVE  Leases!Return(r)
  BY <1>2 DEF Counted, LeaseState, Release, Leases!Return
<1>3. ASSUME NEW r \in Requests, Step(r), \A a \in Accounts : ~Grant(r, a)
      PROVE  UNCHANGED lease
  BY <1>3 DEF Step, CheckCtx, Enqueue, Refuse, Wake, CancelWait
<1>4. ASSUME NEW r \in Requests,
             \/ \E t \in Targets, x \in Excludes : Call(r, t, x)
             \/ CtxDone(r)
             \/ RemoveAccount(r)
      PROVE  UNCHANGED lease
  BY <1>4 DEF Call, CtxDone, RemoveAccount
<1>5. ASSUME \/ \E S \in Catalogs : Refresh(S)
             \/ \E a \in Accounts : GuardExpires(a)
      PROVE  UNCHANGED lease
  BY <1>5 DEF Refresh, GuardExpires
<1> QED
  BY <1>1, <1>2, <1>3, <1>4, <1>5 DEF Next, vars, Leases!Next

\* Whatever the pool does with its queue, its sleepers and its catalogue, its
\* callers see the leases AccountLeases promises.
THEOREM ImplementsLeases == Spec => LeasesSpec
<1>1. Init => Leases!Init
  BY DEF Init, Leases!Init
<1>2. Counted /\ [Next]_vars => [Leases!Next]_lease
  BY LeaseStep
<1> QED
  BY <1>1, <1>2, CountedAlways, PTL DEF Spec, LeasesSpec, Leases!Spec

-----------------------------------------------------------------------------
(* The rotation *)

\* Removing an element of a sequence without duplicates leaves the others, each
\* once; rotating it to the tail leaves the same elements and the length.
LEMMA RotationElements ==
    ASSUME NEW S, NEW q \in Seq(S), IsInjective(q), NEW a \in S
    PROVE  /\ IsInjective(Without(q, a))
           /\ Range(Without(q, a)) = Range(q) \ {a}
           /\ IsInjective(Bump(q, a))
           /\ Range(Bump(q, a)) = Range(q)
           /\ Len(Bump(q, a)) = Len(q)
<1>1. CASE a \notin Range(q)
  <2>1. Without(q, a) = q /\ Bump(q, a) = q
    BY <1>1 DEF Without, Bump
  <2> QED
    BY <1>1, <2>1
<1>2. CASE a \in Range(q)
  <2> DEFINE i == Position(q, a)
             w == SubSeq(q, 1, i - 1) \o SubSeq(q, i + 1, Len(q))
  <2>1. i \in 1..Len(q) /\ q[i] = a
    BY <1>2, PositionIn
  <2>2. Without(q, a) = w /\ Bump(q, a) = Append(w, a)
    BY <1>2 DEF Without, Bump, RemoveAt
  <2> HIDE DEF i
  <2>3. w \in Seq(S) /\ Len(w) = Len(q) - 1
        /\ \A j \in 1..(Len(q) - 1) : w[j] = IF j < i THEN q[j] ELSE q[j + 1]
    <3> DEFINE u == SubSeq(q, 1, i - 1)
               v == SubSeq(q, i + 1, Len(q))
    <3>1. u \in Seq(S) /\ Len(u) = i - 1 /\ \A j \in 1..(i - 1) : u[j] = q[j]
      BY <2>1
    <3>2. v \in Seq(S) /\ Len(v) = Len(q) - i /\ \A j \in 1..(Len(q) - i) : v[j] = q[i + j]
      BY <2>1
    <3>3. w = u \o v
      OBVIOUS
    <3> HIDE DEF u, v, w
    <3>4. w \in Seq(S) /\ Len(w) = Len(u) + Len(v)
          /\ \A j \in 1..(Len(u) + Len(v)) :
                 w[j] = IF j <= Len(u) THEN u[j] ELSE v[j - Len(u)]
      BY <3>1, <3>2, <3>3, ConcatProperties
    <3>5. Len(u) + Len(v) = Len(q) - 1
      BY <2>1, <3>1, <3>2
    <3>6. ASSUME NEW j \in 1..(Len(q) - 1)
          PROVE  w[j] = IF j < i THEN q[j] ELSE q[j + 1]
      <4>1. CASE j < i
        BY <2>1, <3>1, <3>4, <3>5, <4>1
      <4>2. CASE j >= i
        <5>1. j - (i - 1) \in 1..(Len(q) - i) /\ i + (j - (i - 1)) = j + 1
          BY <2>1, <4>2
        <5>2. w[j] = v[j - Len(u)]
          BY <2>1, <3>1, <3>4, <3>5, <4>2
        <5> QED
          BY <2>1, <3>1, <3>2, <4>2, <5>1, <5>2
      <4> QED
        BY <2>1, <4>1, <4>2
    <3> QED
      BY <3>4, <3>5, <3>6
  <2>4. DOMAIN w = 1..Len(w) /\ DOMAIN q = 1..Len(q)
    BY <2>3
  <2> HIDE DEF w
  <2>5. \A j, k \in 1..Len(q) : q[j] = q[k] => j = k
    BY DEF IsInjective
  <2>6. IsInjective(w)
    BY <2>1, <2>3, <2>4, <2>5 DEF IsInjective
  <2>7. Range(w) = Range(q) \ {a}
    <3>1. ASSUME NEW x \in Range(w) PROVE x \in Range(q) \ {a}
      <4>1. PICK j \in 1..Len(w) : w[j] = x
        BY <2>4, <3>1 DEF Range
      <4>2. PICK k \in 1..Len(q) : w[j] = q[k] /\ k # i
        <5>1. CASE j < i
          BY <2>1, <2>3, <5>1
        <5>2. CASE j >= i
          <6>1. j + 1 \in 1..Len(q) /\ w[j] = q[j + 1] /\ j + 1 # i
            BY <2>1, <2>3, <5>2
          <6> QED
            BY <6>1
        <5> QED
          BY <2>1, <5>1, <5>2
      <4> QED
        BY <2>1, <2>4, <2>5, <4>1, <4>2 DEF Range
    <3>2. ASSUME NEW x \in Range(q) \ {a} PROVE x \in Range(w)
      <4>1. PICK k \in 1..Len(q) : q[k] = x
        BY <3>2 DEF Range
      <4>2. k # i
        BY <2>1, <3>2, <4>1
      <4>3. CASE k < i
        BY <2>1, <2>3, <2>4, <4>1, <4>3 DEF Range
      <4>4. CASE k > i
        <5>1. k - 1 \in 1..Len(w) /\ w[k - 1] = x
          BY <2>1, <2>3, <2>4, <4>1, <4>4
        <5> QED
          BY <2>3, <5>1 DEF Range
      <4> QED
        BY <2>1, <4>2, <4>3, <4>4
    <3> QED
      BY <3>1, <3>2
  <2>8. IsInjective(Append(w, a)) /\ Range(Append(w, a)) = Range(w) \cup {a}
    <3>1. \A j \in 1..Len(w) : w[j] # a
      BY <2>4, <2>7 DEF Range
    <3>2. IsInjective(Append(w, a))
      BY <2>3, <2>6, <3>1 DEF IsInjective
    <3>3. Range(Append(w, a)) \subseteq Range(w) \cup {a}
      BY <2>3 DEF Range
    <3>4. a \in Range(Append(w, a))
      <4>1. Append(w, a)[Len(w) + 1] = a /\ Len(w) + 1 \in DOMAIN Append(w, a)
        BY <2>3
      <4> QED
        BY <4>1 DEF Range
    <3>5. Range(w) \subseteq Range(Append(w, a))
      <4>1. \A j \in 1..Len(w) : Append(w, a)[j] = w[j] /\ j \in DOMAIN Append(w, a)
        BY <2>3
      <4> QED
        BY <2>3, <4>1 DEF Range
    <3> QED
      BY <3>2, <3>3, <3>4, <3>5
  <2>9. Len(Append(w, a)) = Len(q)
    BY <2>1, <2>3
  <2> QED
    BY <1>2, <2>2, <2>6, <2>7, <2>8, <2>9
<1> QED
  BY <1>1, <1>2

\* An enumeration lists each element of its set once.
LEMMA EnumerationElements ==
    ASSUME NEW S \in SUBSET Accounts, NEW q \in SetToSeqs(S)
    PROVE  IsInjective(q) /\ Range(q) \subseteq S
<1>1. q \in [1..Cardinality(S) -> S]
      /\ \A i, j \in 1..Cardinality(S) : i # j => q[i] # q[j]
  BY DEF SetToSeqs
<1> QED
  BY <1>1 DEF IsInjective, Range

\* The rotation stays sound: the steps that move it are Grant, RemoveAccount and
\* Refresh, and GuardExpires frees an account that is not in it.
LEMMA NextQueueSound ==
    ASSUME TypeOK, LeaseState, QueueSound, [Next]_vars
    PROVE  QueueSound'
<1>1. ASSUME UNCHANGED <<queue, lookup, blocked>> PROVE QueueSound'
  BY <1>1 DEF QueueSound
<1>2. ASSUME NEW r \in Requests, NEW a \in Accounts, Grant(r, a) PROVE QueueSound'
  <2>1. IsInjective(queue') /\ Range(queue') = Range(queue)
    BY <1>2, RotationElements DEF TypeOK, QueueSound, Grant
  <2> QED
    BY <1>2, <2>1 DEF QueueSound, Grant
<1>3. ASSUME NEW r \in Requests, RemoveAccount(r) PROVE QueueSound'
  <2>1. lease[r] \in Accounts
    BY <1>3 DEF LeaseState, TypeOK, RemoveAccount
  <2>2. IsInjective(queue') /\ Range(queue') = Range(queue) \ {lease[r]}
    BY <1>3, <2>1, RotationElements DEF TypeOK, QueueSound, RemoveAccount
  <2> QED
    BY <1>3, <2>2 DEF QueueSound, RemoveAccount
<1>4. ASSUME NEW S \in Catalogs, Refresh(S) PROVE QueueSound'
  <2>1. S \ blocked \in SUBSET Accounts
    BY InputsAssumption
  <2>2. IsInjective(queue') /\ Range(queue') \subseteq S \ blocked
    BY <1>4, <2>1, EnumerationElements DEF Refresh
  <2> QED
    BY <1>4, <2>2 DEF QueueSound, Refresh
<1>5. ASSUME NEW a \in Accounts, GuardExpires(a) PROVE QueueSound'
  BY <1>5 DEF QueueSound, GuardExpires
<1>6. ASSUME NEW r \in Requests, Step(r), \A a \in Accounts : ~Grant(r, a)
      PROVE  QueueSound'
  BY <1>1, <1>6 DEF Step, CheckCtx, Enqueue, Refuse, Wake, CancelWait
<1>7. ASSUME NEW r \in Requests,
             \/ \E t \in Targets, x \in Excludes : Call(r, t, x)
             \/ CtxDone(r)
             \/ Release(r)
      PROVE  QueueSound'
  BY <1>1, <1>7 DEF Call, CtxDone, Release
<1> QED
  BY <1>1, <1>2, <1>3, <1>4, <1>5, <1>6, <1>7 DEF Next, vars

\* The rotation lists each account once, and none under the guard of a discard,
\* whatever snapshots are merged and in whatever order.
THEOREM RotationSound == Spec => []QueueSound
<1>1. Init => QueueSound
  BY EnumerationElements DEF Init, QueueSound
<1>2. Counted /\ QueueSound /\ [Next]_vars => QueueSound'
  BY NextQueueSound DEF Counted
<1> QED
  BY <1>1, <1>2, CountedAlways, PTL DEF Spec

\* A caller without a target is never leased an account under that guard.
THEOREM DiscardedSkipped == Spec => RotationSkipsDiscarded
<1> DEFINE Skips == \A r \in Requests :
               lease[r] = NoAccount /\ lease'[r] # NoAccount /\ target[r] = NoAccount =>
                   lease'[r] \notin blocked
<1>1. Counted /\ QueueSound /\ [Next]_vars => [Skips]_vars
  <2> SUFFICES ASSUME Counted, QueueSound, Next,
                      NEW r \in Requests, lease[r] = NoAccount,
                      lease'[r] # NoAccount, target[r] = NoAccount
               PROVE  lease'[r] \notin blocked
    OBVIOUS
  <2>1. PICK p \in Requests, a \in Accounts : Grant(p, a)
    BY DEF Next, Step, Call, CtxDone, CheckCtx, Enqueue, Refuse, Wake, CancelWait,
           Release, RemoveAccount, Refresh, GuardExpires, Counted, TypeOK
  <2>2. p = r /\ lease'[r] = a
    BY <2>1 DEF Grant, Counted, TypeOK
  <2>3. a \in Range(queue)
    BY <2>1, <2>2 DEF Grant, Leasable, Range
  <2> QED
    BY <2>2, <2>3 DEF QueueSound
<1> QED
  BY <1>1, CountedAlways, RotationSound, PTL DEF Spec, RotationSkipsDiscarded

-----------------------------------------------------------------------------
(* The sleepers *)

Sleeping == WaitersSound /\ SleeperHasCandidate

\* The limit on sleepers is a natural number, before a step and after it.
LEMMA QueueSizeType ==
    /\ TypeOK => MaxQueueSize \in Nat
    /\ TypeOK' => MaxQueueSize' \in Nat
<1>1. \A n \in Nat : n * MaxInflight \in Nat
  BY LimitsAssumption
<1>2. TypeOK => Len(queue) \in Nat
  BY DEF TypeOK
<1>3. TypeOK' => Len(queue') \in Nat
  BY DEF TypeOK
<1> QED
  BY <1>1, <1>2, <1>3, LimitsAssumption DEF MaxQueueSize, RecommendedConcurrency, Unset

\* An empty FIFO is sound.
LEMMA NobodySleeps ==
    ASSUME TypeOK', waiters' = <<>> PROVE Sleeping'
<1>1. Len(<<>>) = 0 /\ Range(<<>>) = {} /\ IsInjective(<<>>)
  BY DEF Range, IsInjective
<1>2. MaxQueueSize' \in Nat
  BY QueueSizeType
<1> QED
  BY <1>1, <1>2 DEF Sleeping, WaitersSound, SleeperHasCandidate

\* Fewer sleepers, each of them in the FIFO before and still asleep, in front of
\* the same rotation: the FIFO stays sound.
LEMMA FewerSleep ==
    ASSUME TypeOK, Sleeping, Len(queue') = Len(queue), Range(queue') = Range(queue),
           waiters' \in Seq(Requests), IsInjective(waiters'), Len(waiters') <= Len(waiters),
           \A r \in Range(waiters') :
              /\ r \in Range(waiters)
              /\ pc'[r] = pc[r] /\ target'[r] = target[r] /\ exclude'[r] = exclude[r]
    PROVE  Sleeping'
<1>1. MaxQueueSize' = MaxQueueSize
  BY DEF MaxQueueSize, RecommendedConcurrency
<1>2. Len(waiters') <= MaxQueueSize
  <2>1. MaxQueueSize \in Nat /\ Len(waiters) \in Nat /\ Len(waiters') \in Nat
    BY QueueSizeType DEF TypeOK
  <2> QED
    BY <2>1 DEF Sleeping, WaitersSound
<1> QED
  BY <1>1, <1>2 DEF Sleeping, WaitersSound, SleeperHasCandidate

\* A caller that falls asleep is the last of the FIFO and was not in it.
LEMMA EnqueueSleeps ==
    ASSUME TypeOK, Sleeping, NEW r \in Requests, Enqueue(r)
    PROVE  Sleeping'
<1>1. waiters \in Seq(Requests) /\ waiters' = Append(waiters, r)
  BY DEF TypeOK, Enqueue
<1>2. r \notin Range(waiters)
  BY DEF Sleeping, WaitersSound, Enqueue
<1>3. /\ Len(waiters') = Len(waiters) + 1
      /\ \A i \in 1..Len(waiters) : waiters'[i] = waiters[i]
      /\ waiters'[Len(waiters) + 1] = r
      /\ DOMAIN waiters = 1..Len(waiters)
      /\ DOMAIN waiters' = 1..(Len(waiters) + 1)
  BY <1>1
<1>4. \A i \in 1..Len(waiters) : waiters[i] # r
  BY <1>2, <1>3 DEF Range
<1>5. IsInjective(waiters')
  BY <1>1, <1>3, <1>4 DEF Sleeping, WaitersSound, IsInjective
<1>6. Range(waiters') \subseteq Range(waiters) \cup {r}
  BY <1>1, <1>3 DEF Range
<1>7. MaxQueueSize' = MaxQueueSize /\ MaxQueueSize \in Nat
  BY QueueSizeType DEF Enqueue, MaxQueueSize, RecommendedConcurrency
<1>8. Len(waiters') <= MaxQueueSize'
  <2>1. Len(waiters) \in Nat /\ Len(waiters) < MaxQueueSize
    BY DEF TypeOK, Enqueue, CanQueue
  <2> QED
    BY <1>3, <1>7, <2>1
<1>9. \A p \in Range(waiters') : pc'[p] = "wait"
  BY <1>6 DEF TypeOK, Enqueue, Sleeping, WaitersSound
<1>10. SleeperHasCandidate'
  BY <1>6 DEF Enqueue, CanQueue, Sleeping, SleeperHasCandidate
<1> QED
  BY <1>5, <1>8, <1>9, <1>10 DEF Sleeping, WaitersSound

LEMMA NextSleeping ==
    ASSUME Counted, Counted', QueueSound, Sleeping, [Next]_vars
    PROVE  Sleeping'
<1> USE DEF Counted
<1>1. ASSUME UNCHANGED <<queue, waiters>>,
             \A r \in Range(waiters) :
                pc'[r] = pc[r] /\ target'[r] = target[r] /\ exclude'[r] = exclude[r]
      PROVE  Sleeping'
  <2>1. waiters \in Seq(Requests) /\ IsInjective(waiters) /\ Len(waiters) <= Len(waiters)
    BY DEF TypeOK, Sleeping, WaitersSound
  <2> QED
    BY <1>1, <2>1, FewerSleep
<1>2. ASSUME NEW r \in Requests,
             \/ \E t \in Targets, x \in Excludes : Call(r, t, x)
             \/ CtxDone(r)
             \/ CheckCtx(r)
             \/ Refuse(r)
             \/ Wake(r)
      PROVE  Sleeping'
  <2>1. \A p \in Range(waiters) : pc[p] = "wait" /\ p \in Requests
    BY DEF TypeOK, Sleeping, WaitersSound, Range
  <2>2. r \notin Range(waiters) \/ CtxDone(r)
    BY <1>2, <2>1 DEF Call, CheckCtx, Refuse, Wake
  <2> QED
    BY <1>1, <1>2, <2>1, <2>2 DEF TypeOK, Call, CtxDone, CheckCtx, Refuse, Wake
<1>3. ASSUME NEW r \in Requests, Enqueue(r) PROVE Sleeping'
  BY <1>3, EnqueueSleeps
<1>4. ASSUME NEW r \in Requests, NEW a \in Accounts, Grant(r, a) PROVE Sleeping'
  <2>1. Len(queue') = Len(queue) /\ Range(queue') = Range(queue)
    BY <1>4, RotationElements DEF TypeOK, QueueSound, Grant
  <2>2. \A p \in Range(waiters) : pc[p] = "wait" /\ p \in Requests
    BY DEF TypeOK, Sleeping, WaitersSound, Range
  <2>3. \A p \in Range(waiters) : pc'[p] = pc[p]
    BY <1>4, <2>2 DEF TypeOK, Grant
  <2>4. waiters' = waiters /\ IsInjective(waiters) /\ Len(waiters) <= Len(waiters)
    BY <1>4 DEF TypeOK, Grant, Sleeping, WaitersSound
  <2>5. waiters' \in Seq(Requests) /\ UNCHANGED <<target, exclude>>
    BY <1>4 DEF TypeOK, Grant
  <2> QED
    BY <2>1, <2>3, <2>4, <2>5, FewerSleep
<1>5. ASSUME NEW r \in Requests, CancelWait(r) PROVE Sleeping'
  <2>1. waiters \in Seq(Requests) /\ IsInjective(waiters)
    BY DEF TypeOK, Sleeping, WaitersSound
  <2>2. IsInjective(waiters') /\ Range(waiters') = Range(waiters) \ {r}
    BY <1>5, <2>1, RotationElements DEF CancelWait
  <2>3. Len(waiters') <= Len(waiters) /\ waiters' \in Seq(Requests)
    <3>1. CASE r \notin Range(waiters)
      BY <1>5, <2>1, <3>1 DEF CancelWait, Without
    <3>2. CASE r \in Range(waiters)
      <4>1. Len(Bump(waiters, r)) = Len(waiters)
        BY <2>1, RotationElements
      <4>2. Bump(waiters, r) = Append(waiters', r) /\ waiters' \in Seq(Requests)
        BY <1>5, <2>1, <3>2, RotationType DEF CancelWait, Bump
      <4> QED
        BY <2>1, <4>1, <4>2
    <3> QED
      BY <3>1, <3>2
  <2>4. \A p \in Range(waiters') : pc'[p] = pc[p] /\ p \in Range(waiters)
    BY <1>5, <2>2 DEF TypeOK, CancelWait
  <2> QED
    BY <1>5, <2>2, <2>3, <2>4, FewerSleep DEF CancelWait
<1>6. ASSUME NEW r \in Requests, Release(r) PROVE Sleeping'
  <2>1. waiters \in Seq(Requests) /\ IsInjective(waiters)
    BY DEF TypeOK, Sleeping, WaitersSound
  <2>2. \A p \in Range(waiters) : pc[p] = "wait"
    BY DEF Sleeping, WaitersSound
  <2>3. waiters' = waiters \/ (waiters # <<>> /\ waiters' = Tail(waiters))
    BY <1>6 DEF Release, ReleaseSlot, NotifyOne
  <2>4. /\ waiters' \in Seq(Requests) /\ IsInjective(waiters')
        /\ Len(waiters') <= Len(waiters)
        /\ Range(waiters') \subseteq Range(waiters)
    <3>1. CASE waiters' = waiters
      BY <2>1, <3>1
    <3>2. CASE waiters # <<>> /\ waiters' = Tail(waiters)
      <4>1. /\ waiters' \in Seq(Requests) /\ Len(waiters') = Len(waiters) - 1
            /\ \A i \in 1..(Len(waiters) - 1) : waiters'[i] = waiters[i + 1]
            /\ DOMAIN waiters' = 1..(Len(waiters) - 1) /\ DOMAIN waiters = 1..Len(waiters)
        BY <2>1, <3>2
      <4>2. \A i \in 1..(Len(waiters) - 1) : i + 1 \in 1..Len(waiters)
        BY <2>1
      <4>3. IsInjective(waiters')
        <5>1. \A i, j \in 1..(Len(waiters) - 1) : waiters[i + 1] = waiters[j + 1] => i + 1 = j + 1
          BY <2>1, <4>1, <4>2 DEF IsInjective
        <5>2. \A i, j \in 1..(Len(waiters) - 1) : i + 1 = j + 1 => i = j
          OBVIOUS
        <5>3. \A i, j \in 1..(Len(waiters) - 1) : waiters'[i] = waiters'[j] => i = j
          BY <4>1, <5>1, <5>2
        <5> QED
          BY <4>1, <5>3 DEF IsInjective
      <4>4. Range(waiters') \subseteq Range(waiters)
        BY <4>1, <4>2 DEF Range
      <4> QED
        BY <2>1, <4>1, <4>3, <4>4
    <3> QED
      BY <2>3, <3>1, <3>2
  <2>5. \A p \in Range(waiters') : pc'[p] = pc[p] /\ p \in Range(waiters)
    BY <1>6, <2>2, <2>4 DEF TypeOK, Release
  <2> QED
    BY <1>6, <2>4, <2>5, FewerSleep DEF Release
<1>7. ASSUME NEW r \in Requests, RemoveAccount(r) PROVE Sleeping'
  BY <1>7, NobodySleeps DEF RemoveAccount
<1>8. ASSUME NEW S \in Catalogs, Refresh(S) PROVE Sleeping'
  BY <1>1, <1>8, NobodySleeps DEF Refresh
<1>9. ASSUME UNCHANGED vars \/ \E a \in Accounts : GuardExpires(a) PROVE Sleeping'
  BY <1>1, <1>9 DEF vars, GuardExpires
<1> QED
  BY <1>2, <1>3, <1>4, <1>5, <1>6, <1>7, <1>8, <1>9 DEF Next, Step

LEMMA SleepingAlways == Spec => []Sleeping
<1>1. Init => Sleeping
  <2> SUFFICES ASSUME Init PROVE Sleeping
    OBVIOUS
  <2>1. MaxQueueSize \in Nat
    BY InitCounted, QueueSizeType DEF Counted
  <2>2. waiters = <<>> /\ Len(<<>>) = 0 /\ Range(<<>>) = {} /\ IsInjective(<<>>)
    BY DEF Init, Range, IsInjective
  <2> QED
    BY <2>1, <2>2 DEF Sleeping, WaitersSound, SleeperHasCandidate
<1>2. Counted /\ Counted' /\ QueueSound /\ Sleeping /\ [Next]_vars => Sleeping'
  BY NextSleeping
<1> QED
  BY <1>1, <1>2, CountedAlways, RotationSound, PTL DEF Spec

\* One channel per sleeper, none without its sleeper, within the limit of the
\* moment, whichever accounts come and go.
THEOREM SleepersSound == Spec => []WaitersSound
<1>1. Sleeping => WaitersSound
  BY DEF Sleeping
<1> QED
  BY <1>1, SleepingAlways, PTL

\* A caller without a target sleeps only while an account it may take is in the
\* rotation.
THEOREM SleepersHaveCandidates == Spec => []SleeperHasCandidate
<1>1. Sleeping => SleeperHasCandidate
  BY DEF Sleeping
<1> QED
  BY <1>1, SleepingAlways, PTL

\* The books of Pool.mu agree in every reachable state.
THEOREM BooksKept == Spec => []Books
BY TypeCorrect, LeasesCounted, InflightLimited, RotationSound, SleepersSound, PTL DEF Books

-----------------------------------------------------------------------------
(* The global limit *)

Units == UNION {{a} \X (1 .. inUse[a]) : a \in Accounts}
Leased == {r \in Requests : lease[r] # NoAccount}

\* What the pool sums up is what is leased.
Summed == Cardinality(Units) = Cardinality(Leased)

LEMMA UnitsFinite ==
    ASSUME Counted
    PROVE  IsFiniteSet(Units) /\ Cardinality(Units) \in Nat
<1>1. IsFiniteSet(1 .. MaxInflight)
  BY LimitsAssumption, FS_Interval
<1>2. IsFiniteSet(Accounts \X (1 .. MaxInflight))
  BY <1>1, AccountsAssumption, FS_Product
<1>3. Units \subseteq Accounts \X (1 .. MaxInflight)
  BY LimitsAssumption DEF Counted, TypeOK, Units
<1> QED
  BY <1>2, <1>3, FS_Subset, FS_CardinalityType

UnitsOf(f) == UNION {{a} \X (1 .. f[a]) : a \in Accounts}
LEMMA UnitsAre ==
    ASSUME NEW f \in [Accounts -> Nat]
    PROVE  /\ \A a \in Accounts, i \in Nat : <<a, i>> \in UnitsOf(f) <=> i \in 1 .. f[a]
           /\ UnitsOf(f) \subseteq Accounts \X Nat
BY DEF UnitsOf

\* The leases of an account are one more, or one less.
LEMMA UnitTaken ==
    ASSUME Counted, NEW a \in Accounts, inUse' = [inUse EXCEPT ![a] = inUse[a] + 1]
    PROVE  Cardinality(Units') = Cardinality(Units) + 1
<1> DEFINE u == <<a, inUse[a] + 1>>
<1>1. inUse \in [Accounts -> Nat]
  BY DEF Counted, TypeOK
<1>2. u \notin Units
  BY <1>1 DEF Units
<1>3. Units' = Units \cup {u}
  <2>1. inUse' \in [Accounts -> Nat]
    BY <1>1
  <2>2. Units = UnitsOf(inUse) /\ Units' = UnitsOf(inUse')
    BY DEF Units, UnitsOf
  <2>3. \A b \in Accounts, i \in Nat :
            /\ <<b, i>> \in UnitsOf(inUse) <=> i \in 1 .. inUse[b]
            /\ <<b, i>> \in UnitsOf(inUse') <=> i \in 1 .. inUse'[b]
    BY <1>1, <2>1, UnitsAre
  <2>4. ASSUME NEW b \in Accounts, NEW i \in Nat
        PROVE  <<b, i>> \in Units' <=> <<b, i>> \in Units \cup {u}
    <3>1. <<b, i>> = u <=> b = a /\ i = inUse[a] + 1
      OBVIOUS
    <3>2. /\ inUse'[a] = inUse[a] + 1 /\ inUse[a] \in Nat
          /\ b # a => inUse'[b] = inUse[b]
      BY <1>1
    <3>3. b = a => (i \in 1 .. inUse'[b] <=> i \in 1 .. inUse[b] \/ i = inUse[a] + 1)
      BY <3>2
    <3> HIDE DEF u
    <3> QED
      BY <2>2, <2>3, <3>1, <3>2, <3>3
  <2>5. Units \subseteq Accounts \X Nat /\ Units' \subseteq Accounts \X Nat /\ u \in Accounts \X Nat
    BY <1>1, <2>1, <2>2, UnitsAre
  <2> QED
    BY <2>4, <2>5
<1> QED
  BY <1>2, <1>3, UnitsFinite, FS_AddElement

LEMMA UnitGivenBack ==
    ASSUME Counted, NEW a \in Accounts, inUse[a] > 0, inUse' = [inUse EXCEPT ![a] = inUse[a] - 1]
    PROVE  Cardinality(Units') = Cardinality(Units) - 1
<1> DEFINE u == <<a, inUse[a]>>
<1>1. inUse \in [Accounts -> Nat]
  BY DEF Counted, TypeOK
<1>2. u \in Units
  BY <1>1 DEF Units
<1>3. Units' = Units \ {u}
  <2>1. inUse' \in [Accounts -> Nat]
    BY <1>1
  <2>2. Units = UnitsOf(inUse) /\ Units' = UnitsOf(inUse')
    BY DEF Units, UnitsOf
  <2>3. \A b \in Accounts, i \in Nat :
            /\ <<b, i>> \in UnitsOf(inUse) <=> i \in 1 .. inUse[b]
            /\ <<b, i>> \in UnitsOf(inUse') <=> i \in 1 .. inUse'[b]
    BY <1>1, <2>1, UnitsAre
  <2>4. ASSUME NEW b \in Accounts, NEW i \in Nat
        PROVE  <<b, i>> \in Units' <=> <<b, i>> \in Units \ {u}
    <3>1. <<b, i>> = u <=> b = a /\ i = inUse[a]
      OBVIOUS
    <3>2. /\ inUse'[a] = inUse[a] - 1 /\ inUse[a] \in Nat
          /\ b # a => inUse'[b] = inUse[b]
      BY <1>1
    <3>3. b = a => (i \in 1 .. inUse'[b] <=> i \in 1 .. inUse[b] /\ i # inUse[a])
      BY <3>2
    <3> HIDE DEF u
    <3> QED
      BY <2>2, <2>3, <3>1, <3>2, <3>3
  <2>5. Units \subseteq Accounts \X Nat /\ Units' \subseteq Accounts \X Nat /\ u \in Accounts \X Nat
    BY <1>1, <2>1, <2>2, UnitsAre
  <2> QED
    BY <2>4, <2>5
<1> QED
  BY <1>2, <1>3, UnitsFinite, FS_RemoveElement

\* The sum follows the leases: Grant and Release alone change either.
LEMMA NextSummed ==
    ASSUME Counted, Summed, [Next]_vars
    PROVE  Summed'
<1>0. IsFiniteSet(Leased) /\ Cardinality(Leased) \in Nat /\ Cardinality(Units) \in Nat
  BY RequestsAssumption, UnitsFinite, FS_Subset, FS_CardinalityType DEF Leased
<1>1. ASSUME NEW r \in Requests, NEW a \in Accounts, Grant(r, a) PROVE Summed'
  <2>1. Leased' = Leased \cup {r} /\ r \notin Leased
    BY <1>1, AccountsAssumption DEF Counted, LeaseState, TypeOK, Grant, Leased
  <2>2. inUse' = [inUse EXCEPT ![a] = inUse[a] + 1]
    BY <1>1 DEF Grant
  <2>3. Cardinality(Units') = Cardinality(Units) + 1
    BY <2>2, UnitTaken
  <2>4. Cardinality(Leased') = Cardinality(Leased) + 1
    BY <1>0, <2>1, FS_AddElement
  <2> QED
    BY <2>3, <2>4 DEF Summed
<1>2. ASSUME NEW r \in Requests, Release(r) PROVE Summed'
  <2>1. lease[r] \in Accounts /\ r \in Leased /\ Leased' = Leased \ {r}
    BY <1>2, AccountsAssumption DEF Counted, LeaseState, TypeOK, Release, Leased
  <2>2. inUse[lease[r]] > 0
    <3>1. Holders(lease[r]) # {}
      BY <2>1 DEF Holders
    <3>2. Cardinality(Holders(lease[r])) # 0
      BY <3>1, HoldersFinite, FS_EmptySet
    <3> QED
      BY <2>1, <3>2 DEF Counted, TypeOK, LeaseAccounting
  <2>3. inUse' = [inUse EXCEPT ![lease[r]] = inUse[lease[r]] - 1]
    BY <1>2, <2>2 DEF Release, ReleaseSlot
  <2> QED
    BY <1>0, <2>1, <2>2, <2>3, UnitGivenBack, FS_RemoveElement DEF Summed
<1>3. ASSUME UNCHANGED <<inUse, lease>> PROVE Summed'
  BY <1>3 DEF Summed, Units, Leased
<1>4. ASSUME NEW r \in Requests, Step(r), \A a \in Accounts : ~Grant(r, a)
      PROVE  UNCHANGED <<inUse, lease>>
  BY <1>4 DEF Step, CheckCtx, Enqueue, Refuse, Wake, CancelWait
<1>5. ASSUME NEW r \in Requests,
             (\E t \in Targets, x \in Excludes : Call(r, t, x)) \/ CtxDone(r) \/ RemoveAccount(r)
      PROVE  UNCHANGED <<inUse, lease>>
  BY <1>5 DEF Call, CtxDone, RemoveAccount
<1>6. ASSUME UNCHANGED vars \/ (\E S \in Catalogs : Refresh(S)) \/ \E a \in Accounts : GuardExpires(a)
      PROVE  UNCHANGED <<inUse, lease>>
  BY <1>6 DEF vars, Refresh, GuardExpires
<1> QED
  BY <1>1, <1>2, <1>3, <1>4, <1>5, <1>6 DEF Next

LEMMA SummedAlways == Spec => []Summed
<1>1. Init => Summed
  <2> SUFFICES ASSUME Init PROVE Summed
    OBVIOUS
  <2>1. Units = {} /\ Leased = {}
    BY DEF Init, Units, Leased
  <2> QED
    BY <2>1 DEF Summed
<1>2. Counted /\ Summed /\ [Next]_vars => Summed'
  BY NextSummed
<1> QED
  BY <1>1, <1>2, CountedAlways, PTL DEF Spec

\* A lease more is granted below the limit alone.
LEMMA NextLimited ==
    ASSUME Counted, Summed, GlobalLimitHeld, [Next]_vars
    PROVE  GlobalLimitHeld'
<1> SUFFICES ASSUME GlobalMaxInflight # Unset PROVE Cardinality(Leased') <= GlobalMaxInflight
  BY DEF GlobalLimitHeld, Leased
<1>0. /\ IsFiniteSet(Leased) /\ Cardinality(Leased) \in Nat /\ GlobalMaxInflight \in Nat \ {0}
      /\ Cardinality(Leased) <= GlobalMaxInflight
  BY RequestsAssumption, LimitsAssumption, FS_Subset, FS_CardinalityType DEF Leased, GlobalLimitHeld
<1>1. ASSUME NEW r \in Requests, NEW a \in Accounts, Grant(r, a)
      PROVE  Cardinality(Leased') <= GlobalMaxInflight
  <2>1. Leased' = Leased \cup {r} /\ r \notin Leased
    BY <1>1, AccountsAssumption DEF Counted, LeaseState, TypeOK, Grant, Leased
  <2>2. Cardinality(Units) < GlobalMaxInflight
    BY <1>0, <1>1 DEF Grant, Leasable, Admits, CanAcquireID, GlobalLimit, CurrentInUse, Units
  <2>3. Cardinality(Leased') = Cardinality(Leased) + 1
    BY <1>0, <2>1, FS_AddElement
  <2> QED
    BY <1>0, <2>2, <2>3 DEF Summed
<1>2. ASSUME \A r \in Requests, a \in Accounts : ~Grant(r, a)
      PROVE  Cardinality(Leased') <= GlobalMaxInflight
  <2>1. Leased' \subseteq Leased
    BY <1>2 DEF Counted, TypeOK, Leased, Next, Step, Call, CtxDone, CheckCtx, Enqueue, Refuse, Wake,
       CancelWait, Release, RemoveAccount, Refresh, GuardExpires, vars
  <2>2. Cardinality(Leased') <= Cardinality(Leased) /\ Cardinality(Leased') \in Nat
    BY <1>0, <2>1, FS_Subset, FS_CardinalityType
  <2> QED
    BY <1>0, <2>2
<1> QED
  BY <1>1, <1>2

\* A configured global limit is never exceeded, whatever accounts leave the pool
\* while they are leased (canAcquireIDLocked, pool_limits.go:69).
THEOREM GloballyLimited == Spec => []GlobalLimitHeld
<1>1. Init => GlobalLimitHeld
  <2> SUFFICES ASSUME Init, GlobalMaxInflight # Unset PROVE Cardinality(Leased) <= GlobalMaxInflight
    BY DEF GlobalLimitHeld, Leased
  <2>1. Leased = {}
    BY DEF Init, Leased
  <2> QED
    BY <2>1, FS_EmptySet, LimitsAssumption
<1>2. Counted /\ Summed /\ GlobalLimitHeld /\ [Next]_vars => GlobalLimitHeld'
  BY NextLimited
<1> QED
  BY <1>1, <1>2, CountedAlways, SummedAlways, PTL DEF Spec

-----------------------------------------------------------------------------
(* Nobody is stranded *)

\* A set of natural numbers has a least one.
LEMMA Least ==
    ASSUME NEW T \in SUBSET Nat, T # {}
    PROVE  \E i \in T : \A j \in T : i <= j
<1>1. PICK i \in T : \A j \in T : <<j, i>> \notin OpToRel(<, Nat)
  BY NatLessThanWellFounded, WFMin
<1>2. \A j \in T : ~(j < i)
  BY <1>1 DEF OpToRel
<1> QED
  BY <1>2

\* While nothing is leased, whoever has a candidate is served.
LEMMA FreePoolServes ==
    ASSUME Counted, QueueSound, Leased = {}, NEW r \in Requests, target[r] = NoAccount,
           Range(queue) \ exclude[r] # {}
    PROVE  Servable(r)
<1>1. \A a \in Accounts : inUse[a] = 0
  <2>1. \A a \in Accounts : Holders(a) = {}
    BY AccountsAssumption DEF Leased, Holders
  <2> QED
    BY <2>1, FS_EmptySet DEF Counted, LeaseAccounting
<1>2. \A a \in Accounts : CanAcquireID(a)
  <2>1. Units = {}
    BY <1>1 DEF Units
  <2>2. CurrentInUse = 0
    BY <2>1, FS_EmptySet DEF CurrentInUse, Units
  <2> QED
    BY <1>1, <2>2, LimitsAssumption DEF CanAcquireID
<1> DEFINE T == {i \in 1 .. Len(queue) : Admits(r, queue[i])}
<1>3. DOMAIN queue = 1 .. Len(queue) /\ \A i \in 1 .. Len(queue) : queue[i] \in Accounts
  BY DEF Counted, TypeOK
<1>4. T # {}
  <2>1. PICK i \in 1 .. Len(queue) : queue[i] \notin exclude[r]
    BY <1>3 DEF Range
  <2>2. queue[i] \in Accounts /\ queue[i] \in lookup
    BY <1>3, <2>1 DEF QueueSound, Range
  <2> QED
    BY <1>2, <2>1, <2>2 DEF Admits
<1>5. \E i \in T : \A j \in T : i <= j
  <2>1. T \in SUBSET Nat
    OBVIOUS
  <2> HIDE DEF T
  <2> QED
    BY <1>4, <2>1, Least
<1>6. PICK i \in T : \A j \in T : i <= j
  BY <1>5
<1>7. \A j \in 1 .. (i - 1) : ~Admits(r, queue[j])
  BY <1>6
<1> QED
  BY <1>3, <1>6, <1>7 DEF Servable, Leasable

\* A caller that is on its way and will find an account in a free pool.
Hopeful(r) == Awake(r) /\ Range(queue) \ exclude[r] # {}
Hope ==
    /\ cancelled = {} /\ \A r \in Requests : target[r] = NoAccount
    /\ waiters # <<>> => Leased # {} \/ \E r \in Requests : Hopeful(r)

LEMMA NextHope ==
    ASSUME Cancellable = {}, Targets \subseteq {NoAccount},
           Counted, QueueSound, Sleeping, Hope, [Next]_vars
    PROVE  Hope'
<1>0. /\ cancelled = {} /\ \A r \in Requests : target[r] = NoAccount
      /\ pc \in [Requests -> PCs] /\ target \in [Requests -> Accounts \cup {NoAccount}]
      /\ exclude \in [Requests -> SUBSET Accounts] /\ lease \in [Requests -> Accounts \cup {NoAccount}]
      /\ waiters \in Seq(Requests)
  BY DEF Hope, Counted, TypeOK
<1>1. cancelled' = {} /\ \A r \in Requests : target'[r] = NoAccount
  BY <1>0 DEF Next, Step, Call, CtxDone, CheckCtx, Grant, Enqueue, Refuse, Wake, CancelWait,
     Release, RemoveAccount, Refresh, GuardExpires, vars
<1> SUFFICES ASSUME waiters' # <<>> PROVE Leased' # {} \/ \E r \in Requests : Hopeful(r)'
  BY <1>1 DEF Hope
<1>2. ASSUME waiters # <<>>, Leased' = Leased,
             \A r \in Requests : Hopeful(r) => Hopeful(r)'
      PROVE  Leased' # {} \/ \E r \in Requests : Hopeful(r)'
  BY <1>2 DEF Hope
<1>3. ASSUME NEW r \in Requests, NEW t \in Targets, NEW x \in Excludes, Call(r, t, x)
      PROVE  Leased' # {} \/ \E s \in Requests : Hopeful(s)'
  <2>1. UNCHANGED <<queue, waiters, lease>> /\ pc[r] = "idle"
        /\ \A s \in Requests : s # r => pc'[s] = pc[s] /\ exclude'[s] = exclude[s]
    BY <1>0, <1>3 DEF Call
  <2>2. ~Hopeful(r)
    BY <2>1 DEF Hopeful, Awake
  <2>3. \A s \in Requests : Hopeful(s) => Hopeful(s)'
    BY <2>1, <2>2 DEF Hopeful, Awake
  <2>4. Leased' = Leased
    BY <2>1 DEF Leased
  <2> QED
    BY <1>2, <2>1, <2>3, <2>4
<1>4. ASSUME NEW r \in Requests, CheckCtx(r) \/ Wake(r)
      PROVE  Leased' # {} \/ \E s \in Requests : Hopeful(s)'
  <2>1. UNCHANGED <<queue, waiters, lease, exclude>> /\ \A s \in Requests : s # r => pc'[s] = pc[s]
    BY <1>0, <1>4 DEF CheckCtx, Wake
  <2>2. pc'[r] \in {"check", "lock"}
    BY <1>0, <1>4 DEF CheckCtx, Wake
  <2>3. \A s \in Requests : Hopeful(s) => Hopeful(s)'
    BY <2>1, <2>2 DEF Hopeful, Awake
  <2>4. Leased' = Leased
    BY <2>1 DEF Leased
  <2> QED
    BY <1>2, <2>1, <2>3, <2>4
<1>5. ASSUME NEW r \in Requests, NEW a \in Accounts, Grant(r, a) PROVE Leased' # {}
  BY <1>0, <1>5, AccountsAssumption DEF Grant, Leased
<1>6. ASSUME NEW r \in Requests, Enqueue(r) PROVE Leased' # {}
  <2>1. Leased # {}
    BY <1>0, <1>6, FreePoolServes DEF Enqueue, CanQueue
  <2> QED
    BY <1>6, <2>1 DEF Enqueue, Leased
<1>7. ASSUME NEW r \in Requests, Refuse(r)
      PROVE  Leased' # {} \/ \E s \in Requests : Hopeful(s)'
  <2>1. UNCHANGED <<queue, waiters, lease, exclude>> /\ \A s \in Requests : s # r => pc'[s] = pc[s]
    BY <1>0, <1>7 DEF Refuse
  <2>2. Leased' = Leased
    BY <2>1 DEF Leased
  <2>3. CASE Leased = {}
    <3>1. ~Hopeful(r)
      BY <1>0, <1>7, <2>3, FreePoolServes DEF Refuse, Hopeful
    <3>2. \A s \in Requests : Hopeful(s) => Hopeful(s)'
      BY <2>1, <3>1 DEF Hopeful, Awake
    <3> QED
      BY <1>2, <2>1, <2>2, <3>2
  <2> QED
    BY <2>2, <2>3
<1>8. ASSUME NEW r \in Requests, CtxDone(r) \/ CancelWait(r) PROVE FALSE
  BY <1>0, <1>8 DEF CtxDone, CancelWait
<1>9. ASSUME NEW r \in Requests, Release(r)
      PROVE  Leased' # {} \/ \E s \in Requests : Hopeful(s)'
  <2>1. inUse[lease[r]] > 0
    <3>1. lease[r] \in Accounts /\ r \in Holders(lease[r])
      BY <1>9 DEF Counted, LeaseState, TypeOK, Release, Holders
    <3>2. Cardinality(Holders(lease[r])) # 0 /\ inUse[lease[r]] \in Nat
      BY <3>1, HoldersFinite, FS_EmptySet DEF Counted, TypeOK
    <3> QED
      BY <3>1, <3>2 DEF Counted, LeaseAccounting
  <2>2. waiters # <<>> /\ waiters' = Tail(waiters)
    BY <1>9, <2>1 DEF Release, ReleaseSlot, NotifyOne
  <2>3. /\ waiters[1] \in Range(waiters) /\ waiters[1] \in Requests
        /\ \A i \in DOMAIN waiters' : i + 1 \in DOMAIN waiters /\ waiters'[i] = waiters[i + 1] /\ i + 1 # 1
    <3>1. /\ Len(waiters) \in Nat \ {0} /\ DOMAIN waiters = 1 .. Len(waiters)
          /\ DOMAIN waiters' = 1 .. Len(waiters) - 1
          /\ \A i \in 1 .. Len(waiters) - 1 : waiters'[i] = waiters[i + 1]
      BY <1>0, <2>2, HeadTailProperties, EmptySeq
    <3>2. waiters[1] \in Requests
      BY <1>0, <3>1, ElementOfSeq
    <3>3. PICK l \in Nat \ {0} : l = Len(waiters)
      BY <3>1
    <3>4. 1 \in 1 .. l /\ \A i \in 1 .. l - 1 : i + 1 \in 1 .. l /\ i + 1 # 1
      OBVIOUS
    <3>5. DOMAIN waiters = 1 .. l /\ DOMAIN waiters' = 1 .. l - 1
      BY <3>1, <3>3
    <3>6. 1 \in DOMAIN waiters /\ \A i \in DOMAIN waiters' : i + 1 \in DOMAIN waiters /\ i + 1 # 1
      BY <3>4, <3>5, Zenon
    <3> QED
      BY <3>1, <3>2, <3>3, <3>6 DEF Range
  <2> PICK h \in Requests : h = waiters[1]
    BY <2>3
  <2>4. h \notin Range(waiters')
    <3>1. 1 \in DOMAIN waiters
      BY <1>0, <2>2, EmptySeq
    <3>2. \A i \in DOMAIN waiters : waiters[i] = waiters[1] => i = 1
      BY <3>1 DEF Sleeping, WaitersSound, IsInjective
    <3>3. \A i \in DOMAIN waiters' : waiters'[i] # waiters[1]
      BY <2>3, <3>2
    <3> QED
      BY <3>3 DEF Range
  <2>5. pc[h] = "wait" /\ Range(queue) \ exclude[h] # {}
    BY <1>0, <2>3 DEF Sleeping, WaitersSound, SleeperHasCandidate
  <2>6. pc'[h] = "wait" /\ UNCHANGED <<queue, exclude>>
    BY <1>0, <1>9, <2>5 DEF Release
  <2>7. Hopeful(h)'
    BY <2>4, <2>5, <2>6 DEF Hopeful, Awake
  <2> QED
    BY <2>7
<1>10. ASSUME NEW r \in Requests, RemoveAccount(r) PROVE FALSE
  BY <1>10 DEF RemoveAccount
<1>11. ASSUME UNCHANGED vars \/ (\E S \in Catalogs : Refresh(S)) \/ \E a \in Accounts : GuardExpires(a)
       PROVE  Leased' # {} \/ \E s \in Requests : Hopeful(s)'
  <2>1. UNCHANGED <<queue, waiters, lease, exclude, pc>>
    BY <1>11 DEF vars, Refresh, GuardExpires
  <2>2. Leased' = Leased /\ \A s \in Requests : Hopeful(s) => Hopeful(s)'
    BY <2>1 DEF Leased, Hopeful, Awake
  <2> QED
    BY <1>2, <2>1, <2>2
<1> QED
  BY <1>3, <1>4, <1>5, <1>6, <1>7, <1>8, <1>9, <1>10, <1>11 DEF Next, Step

\* While nobody gives up and nobody asks for one account alone, no caller sleeps in
\* a pool where nothing can wake it: Release wakes one sleeper, who is served or
\* finds another lease out (pool_core.go:211, pool_waiters.go:40).
THEOREM NobodyStranded ==
    Cancellable = {} /\ Targets \subseteq {NoAccount} => (Spec => []NoStranding)
<1> SUFFICES ASSUME Cancellable = {}, Targets \subseteq {NoAccount} PROVE Spec => []NoStranding
  OBVIOUS
<1>1. Init => Hope
  BY DEF Init, Hope
<1>2. Counted /\ QueueSound /\ Sleeping /\ Hope /\ [Next]_vars => Hope'
  BY NextHope
<1>3. Hope => NoStranding
  BY DEF Hope, Hopeful, Leased, NoStranding
<1> QED
  BY <1>1, <1>2, <1>3, CountedAlways, RotationSound, SleepingAlways, PTL DEF Spec
=============================================================================
