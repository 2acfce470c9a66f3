----------------------------- MODULE ManagedAuth -----------------------------
(***************************************************************************)
(* The account and the token of a request (internal/auth/request.go): a    *)
(* request loads the accounts of its gateway key, merges them into the     *)
(* pool, leases one and ensures its token; it renews a token that upstream *)
(* refuses, discards an account that upstream mutes or bans, and moves to  *)
(* another.  Requests for the same account share one login.                *)
(*                                                                         *)
(* The pool is what AccountPool promises: which account a caller is        *)
(* granted and how long it sleeps are left open.  A token is the number of *)
(* the login that issued it, 0 for none.                                   *)
(***************************************************************************)
EXTENDS Integers, FiniteSets

CONSTANTS
    Accounts, Requests, NoAccount, NoRequest,
    MaxInflight,    \* RuntimeAccountMaxInflight
    Targets,        \* X-Whale2-Target-Account of a request, or NoAccount
    Start,          \* tokens the accounts are imported with, 0 for none
    MaxToken        \* bound: logins of each account

ASSUME AuthAccounts == IsFiniteSet(Accounts) /\ NoAccount \notin Accounts
ASSUME AuthRequests == IsFiniteSet(Requests) /\ NoRequest \notin Requests
ASSUME AuthLimits == MaxInflight \in Nat \ {0} /\ MaxToken \in [Accounts -> Nat]
ASSUME AuthTargets == Targets \subseteq Accounts \cup {NoAccount}
ASSUME AuthStart ==
    Start \in [Accounts -> {0, 1}] /\ \A a \in Accounts : Start[a] <= MaxToken[a]

Absent == -1            \* the pool does not know the account
Tokens == Nat
Tables == [Accounts -> Tokens \cup {Absent}]
OwnTokens == (Accounts \cup {NoAccount}) \X Tokens    \* a token and whose it is
NoToken == <<NoAccount, 0>>

VARIABLES
    listed,     \* the accounts in the rotation of the pool
    catalog,    \* the token of each account as the pool knows it
    inUse,      \* leases the pool counts
    db,         \* pool_accounts.token
    discarded,  \* accounts with pool_accounts.discarded set
    latest,     \* Resolver.latestTokens
    mark,       \* Resolver.tokenRefreshedAt: none, fresh, or due for a refresh
    leader,     \* Resolver.tokenRefreshes: whose login is under way
    issued,     \* logins upstream has answered with a token
    pc, mode,   \* where each request stands, and in which function
    target,
    acct,       \* RequestAuth.AccountID
    acctToken,  \* RequestAuth.Account.Token
    token,      \* RequestAuth.DeepSeekToken, with the account that it is of
    tried,      \* RequestAuth.TriedAccounts
    got,        \* the token a login has just returned
    res         \* how the login ended for this request

poolVars  == <<listed, catalog, inUse>>
tokenVars == <<db, latest, mark, leader, issued>>
vars == <<listed, catalog, inUse, db, discarded, latest, mark, leader, issued,
          pc, mode, target, acct, acctToken, token, tried, got, res>>

LoginPhases == {"login", "publish"}
PCs == {"idle", "acquire", "ensure", "enter", "follow", "told", "broken", "using",
        "failed"} \cup LoginPhases
Results == {"none", "ok", "error", "banned", "nodevice"}

TypeOK ==
    /\ listed \in SUBSET Accounts /\ catalog \in Tables
    /\ inUse \in [Accounts -> Nat]
    /\ db \in [Accounts -> Tokens] /\ discarded \in SUBSET Accounts
    /\ latest \in [Accounts -> Tokens] /\ issued \in [Accounts -> Tokens]
    /\ mark \in [Accounts -> {"none", "fresh", "due"}]
    /\ leader \in [Accounts -> Requests \cup {NoRequest}]
    /\ pc \in [Requests -> PCs]
    /\ mode \in [Requests -> {"determine", "refresh", "switch"}]
    /\ target \in [Requests -> Accounts \cup {NoAccount}]
    /\ acct \in [Requests -> Accounts \cup {NoAccount}]
    /\ acctToken \in [Requests -> Tokens]
    /\ token \in [Requests -> OwnTokens]
    /\ tried \in [Requests -> SUBSET Accounts]
    /\ got \in [Requests -> Tokens] /\ res \in [Requests -> Results]

Init ==
    /\ db = Start /\ issued = Start
    /\ catalog = Start /\ listed = Accounts
    /\ inUse = [a \in Accounts |-> 0] /\ discarded = {}
    /\ latest = [a \in Accounts |-> 0] /\ mark = [a \in Accounts |-> "none"]
    /\ leader = [a \in Accounts |-> NoRequest]
    /\ pc = [r \in Requests |-> "idle"] /\ mode = [r \in Requests |-> "determine"]
    /\ target = [r \in Requests |-> NoAccount]
    /\ acct = [r \in Requests |-> NoAccount]
    /\ acctToken = [r \in Requests |-> 0] /\ token = [r \in Requests |-> NoToken]
    /\ tried = [r \in Requests |-> {}]
    /\ got = [r \in Requests |-> 0] /\ res = [r \in Requests |-> "none"]

-----------------------------------------------------------------------------
(* What several handlers do *)

Goes(r, p) == pc' = [pc EXCEPT ![r] = p]

\* Pool.Release leaves a count of zero alone.
GiveBack(a) == inUse' = [inUse EXCEPT ![a] = IF @ = 0 THEN 0 ELSE @ - 1]

\* a.DeepSeekToken and a.Account.Token take a token of the current account.
Holds(r, t) ==
    /\ token' = [token EXCEPT ![r] = <<acct[r], t>>]
    /\ acctToken' = [acctToken EXCEPT ![r] = t]
    /\ Goes(r, "using")

\* applyAutoDiscard, which needs the gateway key of the request: Determine sets
\* it only once the request is authenticated.
KnowsKey(r) == mode[r] # "determine"
Discards(r) ==
    /\ discarded' = discarded \cup {acct[r]}
    /\ tried' = [tried EXCEPT ![r] = @ \cup {acct[r]}]
    /\ listed' = listed \ {acct[r]}
DiscardsNot == UNCHANGED <<discarded, tried, listed>>

\* Nothing is discarded either when SetAccountPoolState fails.
AutoDiscards(r) == (KnowsKey(r) /\ Discards(r)) \/ DiscardsNot

\* The request ends, and with it its RequestAuth.
Forgets(r) ==
    /\ Goes(r, "idle")
    /\ mode' = [mode EXCEPT ![r] = "determine"]
    /\ target' = [target EXCEPT ![r] = NoAccount]
    /\ acct' = [acct EXCEPT ![r] = NoAccount]
    /\ acctToken' = [acctToken EXCEPT ![r] = 0]
    /\ token' = [token EXCEPT ![r] = NoToken]
    /\ tried' = [tried EXCEPT ![r] = {}]
    /\ res' = [res EXCEPT ![r] = "none"]

-----------------------------------------------------------------------------
(* Determine *)

\* LoadAccountsForAPIKey, and UpdateAccounts with what it returned.  (AccountPool
\* merges snapshots of any age.)
LoadAccounts(r, t) ==
    /\ pc[r] = "idle" /\ discarded # Accounts
    /\ catalog' = [a \in Accounts |-> IF a \in discarded THEN Absent ELSE db[a]]
    /\ listed' = Accounts \ discarded
    /\ target' = [target EXCEPT ![r] = t]
    /\ Goes(r, "acquire")
    /\ UNCHANGED <<inUse, tokenVars, discarded, mode, acct, acctToken, token, tried, got, res>>

\* The loop of Determine stops when it has tried as many accounts as are listed.
Exhausted(r) ==
    mode[r] = "determine" /\ target[r] = NoAccount
        /\ Cardinality(tried[r]) >= Cardinality(listed)

Grantable(r, a) ==
    /\ inUse[a] < MaxInflight /\ catalog[a] # Absent /\ a \notin tried[r]
    /\ IF mode[r] = "determine" /\ target[r] # NoAccount
       THEN a = target[r] ELSE a \in listed

Acquire(r, a) ==
    /\ pc[r] = "acquire" /\ ~Exhausted(r)
    /\ Grantable(r, a)
    /\ inUse' = [inUse EXCEPT ![a] = @ + 1]
    /\ acct' = [acct EXCEPT ![r] = a]
    /\ acctToken' = [acctToken EXCEPT ![r] = catalog[a]]
    /\ Goes(r, "ensure")
    /\ UNCHANGED <<listed, catalog, tokenVars, discarded, mode, target,
                   token, tried, got, res>>

\* AcquireWait finds nothing, is refused, or the client hangs up: Determine
\* fails, and a switch leaves its request with the account it last had.
Refused(r) ==
    /\ pc[r] = "acquire"
    /\ IF mode[r] = "determine"
       THEN Forgets(r)
       ELSE Goes(r, "failed")
            /\ UNCHANGED <<mode, target, acct, acctToken, token, tried, res>>
    /\ UNCHANGED <<poolVars, tokenVars, discarded, got>>

-----------------------------------------------------------------------------
(* ensureManagedToken *)

\* shouldForceRefresh starts the clock of an account it sees for the first time.
Due(r) == acctToken[r] = 0 \/ mark[acct[r]] = "due"

EnsureDue(r) ==
    /\ pc[r] = "ensure" /\ Due(r)
    /\ Goes(r, "enter")
    /\ UNCHANGED <<poolVars, tokenVars, discarded, mode, target, acct, acctToken, token,
                   tried, got, res>>

EnsureKnown(r) ==
    LET a == acct[r]
        t == IF latest[a] = 0 THEN acctToken[r] ELSE latest[a]
    IN  /\ pc[r] = "ensure" /\ ~Due(r)
        /\ mark' = [mark EXCEPT ![a] = "fresh"]
        /\ latest' = [latest EXCEPT ![a] = t]
        /\ Holds(r, t)
        /\ UNCHANGED <<poolVars, db, leader, issued, discarded, mode, target, acct, tried,
                       got, res>>

-----------------------------------------------------------------------------
(* loginAndPersist: one login per account, and those who wait for it *)

Current(r) == IF token[r] # NoToken THEN token[r]
              ELSE IF acctToken[r] # 0 THEN <<acct[r], acctToken[r]>> ELSE NoToken

\* Somebody has renewed the token since this request got its own.
Renewed(r) ==
    latest[acct[r]] # 0 /\ Current(r) # NoToken /\ <<acct[r], latest[acct[r]]>> # Current(r)

\* Slip: the request is told to go on, and keeps the token that it had.
UseLatestKeeps(r) ==
    /\ pc[r] = "enter" /\ Renewed(r)
    /\ Goes(r, "using")
    /\ UNCHANGED <<poolVars, tokenVars, discarded, mode, target, acct, acctToken, token,
                   tried, got, res>>

UseLatest(r) ==
    /\ pc[r] = "enter" /\ Renewed(r)
    /\ Holds(r, latest[acct[r]])
    /\ UNCHANGED <<poolVars, tokenVars, discarded, mode, target, acct, tried,
                   got, res>>

Follow(r) ==
    /\ pc[r] = "enter" /\ ~Renewed(r) /\ leader[acct[r]] # NoRequest
    /\ Goes(r, "follow")
    /\ UNCHANGED <<poolVars, tokenVars, discarded, mode, target, acct,
                   acctToken, token, tried, got, res>>

\* Slip: the request logs in although another has done so.
LeadRenewed(r) ==
    /\ pc[r] = "enter" /\ leader[acct[r]] = NoRequest
    /\ leader' = [leader EXCEPT ![acct[r]] = r]
    /\ Goes(r, "login")
    /\ UNCHANGED <<poolVars, db, latest, mark, issued, discarded, mode, target,
                   acct, acctToken, token, tried, got, res>>

Lead(r) ==
    /\ pc[r] = "enter" /\ ~Renewed(r) /\ leader[acct[r]] = NoRequest
    /\ leader' = [leader EXCEPT ![acct[r]] = r]
    /\ Goes(r, "login")
    /\ UNCHANGED <<poolVars, db, latest, mark, issued, discarded, mode, target,
                   acct, acctToken, token, tried, got, res>>

\* loginWithDevice and UpdateAccountToken: the token is stored, or lost when the
\* update fails; or upstream refuses, says that the account is muted or banned,
\* or no device token can be harvested.
LoginAnswers(r) ==
    /\ issued[acct[r]] < MaxToken[acct[r]]
    /\ issued' = [issued EXCEPT ![acct[r]] = @ + 1]
    /\ \/ /\ db' = [db EXCEPT ![acct[r]] = issued'[acct[r]]]
          /\ mark' = [mark EXCEPT ![acct[r]] = "fresh"]
          /\ got' = [got EXCEPT ![r] = issued'[acct[r]]]
          /\ res' = [res EXCEPT ![r] = "ok"]
       \/ /\ res' = [res EXCEPT ![r] = "error"]
          /\ UNCHANGED <<db, mark, got>>
    /\ DiscardsNot

LoginFails(r, e) ==
    /\ res' = [res EXCEPT ![r] = e]
    /\ IF e = "banned" THEN AutoDiscards(r) ELSE DiscardsNot
    /\ UNCHANGED <<issued, db, mark, got>>

Login(r) ==
    /\ pc[r] = "login"
    /\ LoginAnswers(r) \/ \E e \in {"error", "banned", "nodevice"} : LoginFails(r, e)
    /\ Goes(r, "publish")
    /\ UNCHANGED <<catalog, inUse, latest, leader, mode, target, acct, acctToken, token>>

Followers(r) == {f \in Requests : pc[f] = "follow" /\ acct[f] = acct[r]}

\* The login ends for its leader and for those who wait for it.
EndLogin(r) ==
    LET all == Followers(r) \cup {r}
    IN  IF res[r] = "ok"
        THEN /\ latest' = [latest EXCEPT ![acct[r]] = got[r]]
             /\ pc' = [q \in Requests |-> IF q \in all THEN "using" ELSE pc[q]]
             /\ token' = [q \in Requests |-> IF q \in all THEN <<acct[r], got[r]>> ELSE token[q]]
             /\ acctToken' = [q \in Requests |-> IF q \in all THEN got[r] ELSE acctToken[q]]
             /\ res' = [res EXCEPT ![r] = "none"]
        ELSE /\ pc' = [q \in Requests |-> IF q = r THEN "broken"
                                          ELSE IF q \in all THEN "told" ELSE pc[q]]
             /\ res' = [q \in Requests |-> IF q \in all THEN res[r] ELSE res[q]]
             /\ UNCHANGED <<latest, token, acctToken>>

Publish(r) ==
    /\ pc[r] = "publish"
    /\ EndLogin(r)
    /\ leader' = [leader EXCEPT ![acct[r]] = NoRequest]
    /\ got' = [got EXCEPT ![r] = 0]
    /\ UNCHANGED <<poolVars, db, mark, issued, discarded, mode, target, acct, tried>>

\* A follower whose client hangs up leaves with the error of its context.
StopFollowing(r) ==
    /\ pc[r] = "follow"
    /\ res' = [res EXCEPT ![r] = "error"]
    /\ Goes(r, "broken")
    /\ UNCHANGED <<poolVars, tokenVars, discarded, mode, target, acct,
                   acctToken, token, tried, got>>

\* A follower judges the error of its leader for itself.
Hear(r) ==
    /\ pc[r] = "told"
    /\ IF res[r] = "banned" THEN AutoDiscards(r) ELSE DiscardsNot
    /\ Goes(r, "broken")
    /\ UNCHANGED <<catalog, inUse, tokenVars, mode, target, acct, acctToken,
                   token, got, res>>

-----------------------------------------------------------------------------
(* What a failed login means to each caller *)

\* Slip: the account that failed is kept, and the next one is asked for.
BrokenDetermineKeeps(r) ==
    /\ pc[r] = "broken" /\ mode[r] = "determine"
    /\ UNCHANGED inUse
    /\ IF res[r] = "nodevice" \/ target[r] # NoAccount
       THEN Forgets(r)
       ELSE /\ Goes(r, "acquire")
            /\ tried' = [tried EXCEPT ![r] = @ \cup {acct[r]}]
            /\ acct' = [acct EXCEPT ![r] = NoAccount]
            /\ acctToken' = [acctToken EXCEPT ![r] = 0]
            /\ res' = [res EXCEPT ![r] = "none"]
            /\ UNCHANGED <<mode, target, token>>
    /\ UNCHANGED <<listed, catalog, tokenVars, discarded, got>>

BrokenDetermine(r) ==
    /\ pc[r] = "broken" /\ mode[r] = "determine"
    /\ GiveBack(acct[r])
    /\ IF res[r] = "nodevice" \/ target[r] # NoAccount
       THEN Forgets(r)
       ELSE /\ Goes(r, "acquire")
            /\ tried' = [tried EXCEPT ![r] = @ \cup {acct[r]}]
            /\ acct' = [acct EXCEPT ![r] = NoAccount]
            /\ acctToken' = [acctToken EXCEPT ![r] = 0]
            /\ res' = [res EXCEPT ![r] = "none"]
            /\ UNCHANGED <<mode, target, token>>
    /\ UNCHANGED <<listed, catalog, tokenVars, discarded, got>>

\* The request keeps naming the account that it has just given back.
BrokenSwitch(r) ==
    /\ pc[r] = "broken" /\ mode[r] = "switch"
    /\ GiveBack(acct[r])
    /\ tried' = [tried EXCEPT ![r] = @ \cup {acct[r]}]
    /\ Goes(r, IF res[r] = "nodevice" THEN "failed" ELSE "acquire")
    /\ res' = [res EXCEPT ![r] = "none"]
    /\ UNCHANGED <<listed, catalog, tokenVars, discarded, mode, target,
                   acct, acctToken, token, got>>

BrokenRefresh(r) ==
    /\ pc[r] = "broken" /\ mode[r] = "refresh"
    /\ Goes(r, "using")
    /\ res' = [res EXCEPT ![r] = "none"]
    /\ UNCHANGED <<poolVars, tokenVars, discarded, mode, target, acct,
                   acctToken, token, tried, got>>

-----------------------------------------------------------------------------
(* The request uses its account *)

\* Upstream refuses the token: RefreshToken.
TokenRefused(r) ==
    /\ pc[r] = "using"
    /\ mode' = [mode EXCEPT ![r] = "refresh"]
    /\ Goes(r, "enter")
    /\ UNCHANGED <<poolVars, tokenVars, discarded, target, acct, acctToken,
                   token, tried, got, res>>

\* Upstream says that the account is muted or banned, and the discard is stored.
AccountRefused(r) ==
    /\ pc[r] = "using" /\ acct[r] \notin tried[r]
    /\ Discards(r)
    /\ UNCHANGED <<catalog, inUse, tokenVars, pc, mode, target, acct, acctToken,
                   token, got, res>>

\* SwitchAccount, once the current account is discarded.
SwitchAccount(r) ==
    /\ pc[r] = "using" /\ acct[r] \in tried[r]
    /\ GiveBack(acct[r])
    /\ mode' = [mode EXCEPT ![r] = "switch"]
    /\ Goes(r, "acquire")
    /\ UNCHANGED <<listed, catalog, tokenVars, discarded, target, acct,
                   acctToken, token, tried, got, res>>

\* The handler returns, and its deferred call releases the account it names.
Finish(r) ==
    /\ pc[r] \in {"using", "failed"}
    /\ GiveBack(acct[r])
    /\ Forgets(r)
    /\ UNCHANGED <<listed, catalog, tokenVars, discarded, got>>

-----------------------------------------------------------------------------
(* The world around *)

IntervalPasses(a) ==
    /\ mark[a] = "fresh"
    /\ mark' = [mark EXCEPT ![a] = "due"]
    /\ UNCHANGED <<poolVars, db, latest, leader, issued, discarded, pc, mode, target,
                   acct, acctToken, token, tried, got, res>>

\* A test from the pool UI logs in and stores its token, past the gateway.
Probe(a) ==
    /\ issued[a] < MaxToken[a]
    /\ issued' = [issued EXCEPT ![a] = @ + 1]
    /\ db' = [db EXCEPT ![a] = issued[a] + 1]
    /\ UNCHANGED <<poolVars, latest, mark, leader, discarded, pc, mode, target,
                   acct, acctToken, token, tried, got, res>>

TokenStep(r) ==
    \/ UseLatest(r) \/ Follow(r) \/ Lead(r) \/ Login(r) \/ Publish(r) \/ Hear(r)
    \/ BrokenDetermine(r) \/ BrokenSwitch(r) \/ BrokenRefresh(r)

Next ==
    \/ \E r \in Requests :
          \/ (\E t \in Targets : LoadAccounts(r, t))
          \/ (\E a \in Accounts : Acquire(r, a)) \/ Refused(r)
          \/ EnsureDue(r) \/ EnsureKnown(r) \/ TokenStep(r) \/ StopFollowing(r)
          \/ TokenRefused(r) \/ AccountRefused(r) \/ SwitchAccount(r) \/ Finish(r)
    \/ \E a \in Accounts : IntervalPasses(a) \/ Probe(a)

Spec == Init /\ [][Next]_vars

-----------------------------------------------------------------------------
(* What managed authentication must guarantee *)

Holding(r) == pc[r] \in LoginPhases \cup
    {"ensure", "enter", "follow", "told", "broken", "using"}
Holders(a) == {r \in Requests : Holding(r) /\ acct[r] = a}

\* Whatever fails on the way to a token, the account is given back: the pool
\* never counts a lease that no request has (request.go:172-185, 345-354).
NothingLeaked == \A a \in Accounts : inUse[a] <= Cardinality(Holders(a))

\* A request that works upstream sends a token of the account it has leased, also
\* after a switch, whose login starts with the token of the former account
\* (request.go:232-241).
TokenOwn == \A r \in Requests : pc[r] = "using" => token[r][1] = acct[r]

\* One login per account at a time, and nobody waits for a login that nobody
\* makes (request.go:244-260, 280-288).
FlightSound ==
    /\ \A r \in Requests : pc[r] \in LoginPhases => leader[acct[r]] = r
    /\ \A r \in Requests : pc[r] = "follow" => leader[acct[r]] # NoRequest
    /\ \A a \in Accounts : leader[a] # NoRequest =>
          pc[leader[a]] \in LoginPhases /\ acct[leader[a]] = a

\* Leases and logins stay accounted for: what was leased is held or back, and
\* each login under way has its leader (request.go:172-186, 244-295).
Accounted == TypeOK /\ NothingLeaked /\ FlightSound

\* A token that upstream refuses to many requests is renewed once: a login for a
\* refused token replaces the newest one, never one that was already replaced.
RenewsNewest ==
    \A r \in Requests : pc[r] \in LoginPhases /\ mode[r] = "refresh" =>
        token[r] = <<acct[r], latest[acct[r]]>>

\* "account %s exceeded inflight limit: %d" (pool_test.go:148): no account serves
\* more requests at once than RuntimeAccountMaxInflight.
InflightLimit == \A a \in Accounts : Cardinality(Holders(a)) <= MaxInflight
=============================================================================
