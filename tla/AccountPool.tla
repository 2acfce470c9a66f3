----------------------------- MODULE AccountPool -----------------------------
(***************************************************************************)
(* The pool of upstream accounts of one gateway key                        *)
(* (internal/account): the round-robin queue of account identifiers, the   *)
(* count of leases of each account, and the FIFO of callers that sleep     *)
(* until a lease is released.                                              *)
(*                                                                         *)
(* Every critical section of Pool.mu is one action.  A caller of           *)
(* AcquireWait takes several: it checks its context, takes the lock and    *)
(* leases, enqueues a waiter or is refused, and when its waiter channel is *)
(* closed it starts over.  Between two of them every other caller moves.   *)
(***************************************************************************)
EXTENDS Integers, FiniteSets, SequencesExt

CONSTANTS
    Accounts,           \* account identifiers the catalogue may ever list
    Requests,           \* HTTP requests, each a caller of the pool
    NoAccount,          \* "" : no target, no lease
    MaxInflight,        \* RuntimeAccountMaxInflight
    AccountMaxQueue,    \* RuntimeAccountMaxQueue, or Unset for the default
    GlobalMaxInflight,  \* RuntimeGlobalMaxInflight, or Unset for the default
    Targets,            \* targets callers ask for, NoAccount included if any
    Excludes,           \* sets of tried accounts callers exclude
    Cancellable,        \* requests whose context may be cancelled
    Catalogs            \* account snapshots a refresh may bring

Unset == -1

ASSUME AccountsAssumption == IsFiniteSet(Accounts) /\ NoAccount \notin Accounts
ASSUME RequestsAssumption == IsFiniteSet(Requests)
ASSUME LimitsAssumption ==
    /\ MaxInflight \in Nat \ {0}
    /\ AccountMaxQueue \in Nat \cup {Unset}
    /\ GlobalMaxInflight \in (Nat \ {0}) \cup {Unset}
ASSUME InputsAssumption ==
    /\ Targets \subseteq Accounts \cup {NoAccount}
    /\ Excludes \subseteq SUBSET Accounts
    /\ Cancellable \subseteq Requests
    /\ Catalogs \subseteq SUBSET Accounts

VARIABLES
    queue,      \* Pool.queue: identifiers in rotation, next to lease first
    lookup,     \* identifiers Pool.lookup finds
    inUse,      \* Pool.inUse: leases of each account
    waiters,    \* Pool.waiters: the sleeping callers, longest waiting first
    blocked,    \* keys of Pool.blockedUntil whose guard has not expired
    pc,         \* where each request stands in AcquireWait
    target,     \* its arguments
    exclude,
    cancelled,  \* requests whose context is done
    lease       \* account each request was given and has not released

poolVars == <<queue, lookup, inUse, waiters, blocked>>
vars == <<queue, lookup, inUse, waiters, blocked,
          pc, target, exclude, cancelled, lease>>

PCs == {"idle", "check", "lock", "wait", "leased"}

TypeOK ==
    /\ queue \in Seq(Accounts)
    /\ lookup \in SUBSET Accounts
    /\ inUse \in [Accounts -> Nat]
    /\ waiters \in Seq(Requests)
    /\ blocked \in SUBSET Accounts
    /\ pc \in [Requests -> PCs]
    /\ target \in [Requests -> Accounts \cup {NoAccount}]
    /\ exclude \in [Requests -> SUBSET Accounts]
    /\ cancelled \in SUBSET Requests
    /\ lease \in [Requests -> Accounts \cup {NoAccount}]

-----------------------------------------------------------------------------
(* Limits and the choice of an account *)

\* The identifiers in a queue hold no duplicates, so "the" position is unique.
Position(q, a) == CHOOSE i \in DOMAIN q : q[i] = a
Without(q, a)  == IF a \in Range(q) THEN RemoveAt(q, Position(q, a)) ELSE q
Bump(q, a)     == IF a \in Range(q) THEN Append(Without(q, a), a) ELSE q

RecommendedConcurrency == Len(queue) * MaxInflight

MaxQueueSize ==
    IF AccountMaxQueue = Unset THEN RecommendedConcurrency ELSE AccountMaxQueue

GlobalLimit ==
    IF GlobalMaxInflight = Unset THEN RecommendedConcurrency ELSE GlobalMaxInflight

\* The sum of the counts: of each account its first lease, its second, ...
CurrentInUse == Cardinality(UNION {{a} \X (1 .. inUse[a]) : a \in Accounts})

\* Slip: no look at the global limit.
CanAcquireLocally(a) == inUse[a] < MaxInflight

\* A global limit of zero, as for an empty queue, is no limit.
CanAcquireID(a) ==
    /\ inUse[a] < MaxInflight
    /\ GlobalLimit > 0 => CurrentInUse < GlobalLimit

Admits(r, a) == a \notin exclude[r] /\ CanAcquireID(a) /\ a \in lookup

\* The account acquireLocked leases to r: the target, or the first of the
\* queue that is not excluded, has room and is in the catalogue.
Leasable(r, a) ==
    /\ Admits(r, a)
    /\ IF target[r] # NoAccount
       THEN a = target[r]
       ELSE \E i \in DOMAIN queue :
               queue[i] = a /\ \A j \in 1..(i - 1) : ~Admits(r, queue[j])

Servable(r) == \E a \in Accounts : Leasable(r, a)

CanQueue(r) ==
    /\ IF target[r] # NoAccount
       THEN target[r] \in lookup \ exclude[r]
       ELSE Range(queue) \ exclude[r] # {}
    /\ Len(waiters) < MaxQueueSize

-----------------------------------------------------------------------------
(* AcquireWait *)

Init ==
    /\ lookup \in (SUBSET Accounts) \ {{}}
    /\ queue \in SetToSeqs(lookup)
    /\ inUse = [a \in Accounts |-> 0]
    /\ waiters = <<>>
    /\ blocked = {}
    /\ pc = [r \in Requests |-> "idle"]
    /\ target = [r \in Requests |-> NoAccount]
    /\ exclude = [r \in Requests |-> {}]
    /\ cancelled = {}
    /\ lease = [r \in Requests |-> NoAccount]

\* A request calls AcquireWait.  Only calls without a target exclude accounts.
Call(r, t, x) ==
    /\ pc[r] = "idle"
    /\ t # NoAccount => x = {}
    /\ pc' = [pc EXCEPT ![r] = "check"]
    /\ target' = [target EXCEPT ![r] = t]
    /\ exclude' = [exclude EXCEPT ![r] = x]
    /\ cancelled' = cancelled \ {r}
    /\ UNCHANGED <<queue, lookup, inUse, waiters, blocked, lease>>

\* The client of r hangs up, or its deadline passes.
CtxDone(r) ==
    /\ r \in Cancellable \ cancelled
    /\ pc[r] \in {"check", "lock", "wait"}
    /\ cancelled' = cancelled \cup {r}
    /\ UNCHANGED <<queue, lookup, inUse, waiters, blocked, pc, target, exclude, lease>>

\* ctx.Err() at the head of the loop, without the lock.
CheckCtx(r) ==
    /\ pc[r] = "check"
    /\ pc' = [pc EXCEPT ![r] = IF r \in cancelled THEN "idle" ELSE "lock"]
    /\ UNCHANGED <<queue, lookup, inUse, waiters, blocked, target, exclude, cancelled, lease>>

Grant(r, a) ==
    /\ pc[r] = "lock"
    /\ Leasable(r, a)
    /\ inUse' = [inUse EXCEPT ![a] = @ + 1]
    /\ queue' = Bump(queue, a)
    /\ lease' = [lease EXCEPT ![r] = a]
    /\ pc' = [pc EXCEPT ![r] = "leased"]
    /\ UNCHANGED <<lookup, waiters, blocked, target, exclude, cancelled>>

Enqueue(r) ==
    /\ pc[r] = "lock"
    /\ ~Servable(r)
    /\ CanQueue(r)
    /\ waiters' = Append(waiters, r)
    /\ pc' = [pc EXCEPT ![r] = "wait"]
    /\ UNCHANGED <<queue, lookup, inUse, blocked, target, exclude, cancelled, lease>>

Refuse(r) ==
    /\ pc[r] = "lock"
    /\ ~Servable(r)
    /\ ~CanQueue(r)
    /\ pc' = [pc EXCEPT ![r] = "idle"]
    /\ UNCHANGED <<queue, lookup, inUse, waiters, blocked, target, exclude, cancelled, lease>>

\* The waiter channel of r is closed, and the select picks it.
Wake(r) ==
    /\ pc[r] = "wait"
    /\ r \notin Range(waiters)
    /\ pc' = [pc EXCEPT ![r] = "check"]
    /\ UNCHANGED <<queue, lookup, inUse, waiters, blocked, target, exclude, cancelled, lease>>

\* The select picks the context, even when the channel is closed as well.
CancelWait(r) ==
    /\ pc[r] = "wait"
    /\ r \in cancelled
    /\ waiters' = Without(waiters, r)
    /\ pc' = [pc EXCEPT ![r] = "idle"]
    /\ UNCHANGED <<queue, lookup, inUse, blocked, target, exclude, cancelled, lease>>

-----------------------------------------------------------------------------
(* Release, and the changes of the catalogue *)

NotifyOne == waiters' = IF waiters = <<>> THEN waiters ELSE Tail(waiters)

\* Slip: the branch of the last lease forgets the notification.
ReleaseSlotSilentLast(a) ==
    IF inUse[a] = 0
    THEN UNCHANGED <<inUse, waiters>>
    ELSE /\ inUse' = [inUse EXCEPT ![a] = @ - 1]
         /\ IF inUse[a] = 1 THEN UNCHANGED waiters ELSE NotifyOne

\* Pool.Release: an account without a lease is left alone.
ReleaseSlot(a) ==
    IF inUse[a] = 0
    THEN UNCHANGED <<inUse, waiters>>
    ELSE inUse' = [inUse EXCEPT ![a] = @ - 1] /\ NotifyOne

Release(r) ==
    /\ pc[r] = "leased"
    /\ ReleaseSlot(lease[r])
    /\ lease' = [lease EXCEPT ![r] = NoAccount]
    /\ pc' = [pc EXCEPT ![r] = "idle"]
    /\ UNCHANGED <<queue, lookup, blocked, target, exclude, cancelled>>

\* Slips: the sleepers are not told, and the rotation keeps the account.
RemoveAccountSilently(r) ==
    /\ pc[r] = "leased"
    /\ blocked' = blocked \cup {lease[r]}
    /\ queue' = Without(queue, lease[r])
    /\ UNCHANGED <<lookup, inUse, waiters, pc, target, exclude, cancelled, lease>>
RemoveAccountFromNoQueue(r) ==
    /\ pc[r] = "leased"
    /\ blocked' = blocked \cup {lease[r]}
    /\ waiters' = <<>>
    /\ UNCHANGED <<queue, lookup, inUse, pc, target, exclude, cancelled, lease>>

\* The request that leases an account finds it muted or banned: no rotation
\* leases it again for staleSnapshotGuard, and every sleeper looks again.
RemoveAccount(r) ==
    /\ pc[r] = "leased"
    /\ blocked' = blocked \cup {lease[r]}
    /\ queue' = Without(queue, lease[r])
    /\ waiters' = <<>>
    /\ UNCHANGED <<lookup, inUse, pc, target, exclude, cancelled, lease>>

\* The surviving identifiers keep their order, and the new ones follow them.
Merges(q, old, active) ==
    /\ q \in SetToSeqs(active)
    /\ \A i, j \in DOMAIN q :
          i < j /\ q[j] \in Range(old) =>
             q[i] \in Range(old) /\ Position(old, q[i]) < Position(old, q[j])

\* Slips: a stale snapshot brings a discarded account back; the refresh resets
\* the counts as Reset does.
RefreshUnguarded(S) ==
    /\ lookup' = S
    /\ \E q \in SetToSeqs(S) : Merges(q, queue, S) /\ queue' = q
    /\ waiters' = IF queue' = queue THEN waiters ELSE <<>>
    /\ UNCHANGED <<inUse, blocked, pc, target, exclude, cancelled, lease>>
RefreshResets(S) ==
    /\ lookup' = S \ blocked
    /\ \E q \in SetToSeqs(S \ blocked) : Merges(q, queue, S \ blocked) /\ queue' = q
    /\ inUse' = [a \in Accounts |-> 0]
    /\ waiters' = <<>>
    /\ UNCHANGED <<blocked, pc, target, exclude, cancelled, lease>>

\* UpdateAccounts with the snapshot that a request has just loaded.
Refresh(S) ==
    /\ lookup' = S \ blocked
    /\ \E q \in SetToSeqs(S \ blocked) : Merges(q, queue, S \ blocked) /\ queue' = q
    /\ waiters' = IF queue' = queue THEN waiters ELSE <<>>
    /\ UNCHANGED <<inUse, blocked, pc, target, exclude, cancelled, lease>>

\* staleSnapshotGuard has passed since the last RemoveAccount of a.
GuardExpires(a) ==
    /\ a \in blocked
    /\ blocked' = blocked \ {a}
    /\ UNCHANGED <<queue, lookup, inUse, waiters, pc, target, exclude, cancelled, lease>>

-----------------------------------------------------------------------------
(* The specification *)

Step(r) ==
    \/ CheckCtx(r)
    \/ \E a \in Accounts : Grant(r, a)
    \/ Enqueue(r)
    \/ Refuse(r)
    \/ Wake(r)
    \/ CancelWait(r)

Next ==
    \/ \E r \in Requests :
          \/ \E t \in Targets, x \in Excludes : Call(r, t, x)
          \/ CtxDone(r)
          \/ Step(r)
          \/ Release(r)
          \/ RemoveAccount(r)
    \/ \E S \in Catalogs : Refresh(S)
    \/ \E a \in Accounts : GuardExpires(a)

Spec == Init /\ [][Next]_vars

\* The scheduler runs every goroutine, and every handler ends by releasing its
\* lease.  Nothing is asked of clients, of the catalogue or of the clock.
Fairness == \A r \in Requests : WF_vars(Step(r)) /\ WF_vars(Release(r))

FairSpec == Spec /\ Fairness

-----------------------------------------------------------------------------
(* What the pool must guarantee *)

Holders(a) == {r \in Requests : lease[r] = a}

\* The pool counts exactly the leases that requests hold: across every
\* interleaving, and across removals and refreshes that happen while a lease is
\* out, Release gives back what Acquire took (pool_acquire.go:58, 76;
\* pool_core.go:211-228, which a refresh or a removal must not disturb).
LeaseAccounting == \A a \in Accounts : inUse[a] = Cardinality(Holders(a))

\* No account ever serves more requests at once than RuntimeAccountMaxInflight.
InflightLimit == \A a \in Accounts : Cardinality(Holders(a)) <= MaxInflight

\* A configured global limit bounds the requests that hold a lease, those of
\* accounts that have left the pool included (canAcquireIDLocked).
GlobalLimitHeld ==
    GlobalMaxInflight # Unset =>
        Cardinality({r \in Requests : lease[r] # NoAccount}) <= GlobalMaxInflight

\* The rotation lists each account once, only accounts the catalogue knows, and
\* none that was discarded less than staleSnapshotGuard ago, although a
\* snapshot read before the discard may be merged after it.
QueueSound ==
    /\ IsInjective(queue)
    /\ Range(queue) \subseteq lookup \ blocked

\* Each sleeper has one channel in the FIFO, no channel outlives its caller,
\* and the FIFO keeps within a limit that shrinks when accounts leave.
WaitersSound ==
    /\ IsInjective(waiters)
    /\ \A r \in Range(waiters) : pc[r] = "wait"
    /\ Len(waiters) <= MaxQueueSize

\* A caller without a target never sleeps for accounts that are all gone or all
\* excluded: whatever leaves the rotation wakes it to look again.
SleeperHasCandidate ==
    \A r \in Range(waiters) :
        target[r] = NoAccount => Range(queue) \ exclude[r] # {}

\* The pool's books: counts, limits, rotation and FIFO agree with one another and
\* with the leases that are out, whatever snapshots, discards and hang-ups fall
\* between two critical sections (pool_core.go:105-228).
Books == TypeOK /\ LeaseAccounting /\ InflightLimit /\ QueueSound /\ WaitersSound

\* A call that has not returned and needs no other to move it.
Awake(r) == pc[r] \in {"check", "lock"} \/ (pc[r] = "wait" /\ r \notin Range(waiters))

\* Nobody sleeps in a pool with nothing left to wake it: while a caller sleeps,
\* a lease is out (its release wakes the head of the FIFO) or a caller is awake.
\* So it is while no caller hangs up or names a target: both lose wakeups.
NoStranding ==
    waiters # <<>> =>
        \/ \E r \in Requests : lease[r] # NoAccount
        \/ \E r \in Requests : Awake(r)

\* Only a caller that names its target is leased an account under the guard of
\* a discard: the rotation skips it until the guard expires.
RotationSkipsDiscarded ==
    [][\A r \in Requests :
         lease[r] = NoAccount /\ lease'[r] # NoAccount /\ target[r] = NoAccount =>
             lease'[r] \notin blocked]_vars

\* Once no new call arrives, every queued call returns: with an account, or
\* refused.  (While calls keep arriving, one of them may take the slot a sleeper
\* was woken for, each time.)
QuietPoolServes ==
    <>[][\A r \in Requests : pc[r] = "idle" => pc'[r] = "idle"]_vars =>
        \A r \in Requests :
            pc[r] \in {"check", "lock", "wait"} ~> pc[r] \in {"idle", "leased"}

Leases == INSTANCE AccountLeases WITH
              Accounts <- Accounts, Requests <- Requests, NoAccount <- NoAccount,
              MaxInflight <- MaxInflight, lease <- lease
LeasesSpec == Leases!Spec
=============================================================================
