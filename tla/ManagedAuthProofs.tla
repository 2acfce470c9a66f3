-------------------------- MODULE ManagedAuthProofs --------------------------
(***************************************************************************)
(* Theorems about ManagedAuth: a request works with a token of the account *)
(* it has leased, an account is logged in by one request at a time, and a  *)
(* refused token is renewed once.  They hold for any accounts, requests,   *)
(* limits and starting tokens.                                             *)
(***************************************************************************)
EXTENDS ManagedAuth, FiniteSetTheorems, TLAPS

\* Where a request may stand that renews a refused token.
Renewing == LoginPhases \cup {"enter", "follow", "told", "broken", "using"}

\* A request that holds an account names one, and only requests at work renew.
Paths ==
    /\ \A r \in Requests : Holding(r) => acct[r] \in Accounts
    /\ \A r \in Requests : mode[r] = "refresh" => pc[r] \in Renewing
    /\ \A r \in Requests : pc[r] = "publish" /\ res[r] = "ok" => got[r] # 0

\* A request at work has a token of its account, and the gateway remembers one.
Owned ==
    \A r \in Requests : pc[r] = "using" \/ mode[r] = "refresh" =>
        /\ token[r][1] = acct[r] /\ token[r][2] # 0
        /\ latest[acct[r]] # 0

Sound == TypeOK /\ Paths /\ FlightSound /\ Owned /\ RenewsNewest

LEMMA InitSound == Init => Sound
BY AuthAccounts, AuthRequests, AuthStart
DEF Init, Sound, TypeOK, Paths, FlightSound, Owned, RenewsNewest, Holding, LoginPhases,
    Renewing, Tables, Tokens, OwnTokens, NoToken, PCs, Results

LEMMA NextTypeOK == TypeOK /\ Paths /\ [Next]_vars => TypeOK'
<1> SUFFICES ASSUME TypeOK, Paths, [Next]_vars PROVE TypeOK'
  OBVIOUS
<1>t. /\ \A a \in Accounts \cup {NoAccount}, t \in Tokens : <<a, t>> \in OwnTokens
      /\ NoToken \in OwnTokens /\ 0 \in Tokens /\ 1 \in Tokens
      /\ \A t \in Tokens : t + 1 \in Tokens
  BY DEF OwnTokens, NoToken, Tokens
<1>c. \A a \in Accounts : catalog[a] # Absent => catalog[a] \in Tokens
  BY DEF TypeOK, Tables
<1>g. \A a : GiveBack(a) => inUse' \in [Accounts -> Nat]
  <2> SUFFICES ASSUME NEW a, GiveBack(a) PROVE inUse' \in [Accounts -> Nat]
    OBVIOUS
  <2>1. inUse \in [Accounts -> Nat]
    BY DEF TypeOK
  <2>2. a \in Accounts => (IF inUse[a] = 0 THEN 0 ELSE inUse[a] - 1) \in Nat
    BY <2>1
  <2> QED
    BY <2>1, <2>2 DEF GiveBack
<1>h. \A r \in Requests : Holding(r) => acct[r] \in Accounts
  BY DEF Paths
<1> USE DEF TypeOK, Goes, poolVars, tokenVars, PCs, Results, LoginPhases
<1>1. ASSUME NEW r \in Requests, NEW t \in Targets, LoadAccounts(r, t) PROVE TypeOK'
  <2>1. catalog' \in Tables
    BY <1>1 DEF LoadAccounts, Tables
  <2> QED
    BY <1>1, <2>1, AuthTargets DEF LoadAccounts
<1>2. ASSUME NEW r \in Requests, NEW a \in Accounts, Acquire(r, a) PROVE TypeOK'
  <2>1. inUse' \in [Accounts -> Nat] /\ catalog[a] \in Tokens
    BY <1>2, <1>c DEF Acquire, Grantable
  <2> QED
    BY <1>2, <2>1 DEF Acquire
<1>3. ASSUME NEW r \in Requests, Refused(r) PROVE TypeOK'
  BY <1>3, <1>t DEF Refused, Forgets
<1>4. ASSUME NEW r \in Requests, EnsureDue(r) PROVE TypeOK'
  BY <1>4 DEF EnsureDue
<1>5. ASSUME NEW r \in Requests, EnsureKnown(r) PROVE TypeOK'
  <2>1. acct[r] \in Accounts
    BY <1>5, <1>h DEF EnsureKnown, Holding
  <2>2. ASSUME NEW t \in Tokens, Holds(r, t)
        PROVE  /\ token' \in [Requests -> OwnTokens] /\ acctToken' \in [Requests -> Tokens]
               /\ pc' \in [Requests -> PCs]
    BY <2>1, <2>2, <1>t DEF Holds
  <2> DEFINE t == IF latest[acct[r]] = 0 THEN acctToken[r] ELSE latest[acct[r]]
  <2>3. t \in Tokens
    BY <2>1
  <2>4. Holds(r, t) /\ latest' = [latest EXCEPT ![acct[r]] = t]
    BY <1>5 DEF EnsureKnown
  <2> HIDE DEF t
  <2> QED
    BY <1>5, <2>1, <2>2, <2>3, <2>4 DEF EnsureKnown
<1>6. ASSUME NEW r \in Requests, UseLatest(r) PROVE TypeOK'
  BY <1>6, <1>t, <1>h DEF UseLatest, Holds, Holding
<1>7. ASSUME NEW r \in Requests, Follow(r) \/ Lead(r) PROVE TypeOK'
  BY <1>7 DEF Follow, Lead
<1>8. ASSUME NEW r \in Requests, Login(r) PROVE TypeOK'
  <2>1. acct[r] \in Accounts
    BY <1>8, <1>h DEF Login, Holding
  <2>2. CASE LoginAnswers(r)
    <3>1. issued[acct[r]] + 1 \in Tokens
      BY <2>1, <1>t
    <3>2. /\ issued' \in [Accounts -> Tokens] /\ issued'[acct[r]] \in Tokens
      BY <2>1, <2>2, <3>1 DEF LoginAnswers
    <3>3. /\ db' \in [Accounts -> Tokens] /\ got' \in [Requests -> Tokens]
          /\ mark' \in [Accounts -> {"none", "fresh", "due"}]
          /\ res' \in [Requests -> Results]
      BY <2>1, <2>2, <3>2 DEF LoginAnswers
    <3> QED
      BY <1>8, <2>2, <3>2, <3>3 DEF Login, LoginAnswers, DiscardsNot
  <2>3. ASSUME NEW e \in {"error", "banned", "nodevice"}, LoginFails(r, e) PROVE TypeOK'
    BY <1>8, <2>1, <2>3 DEF Login, LoginFails, AutoDiscards, Discards, DiscardsNot
  <2> QED
    BY <1>8, <2>2, <2>3 DEF Login
<1>9. ASSUME NEW r \in Requests, Publish(r) PROVE TypeOK'
  <2>1. acct[r] \in Accounts
    BY <1>9, <1>h DEF Publish, Holding
  <2>2. <<acct[r], got[r]>> \in OwnTokens
    BY <2>1, <1>t
  <2>3. CASE res[r] = "ok"
    <3>1. token' \in [Requests -> OwnTokens] /\ acctToken' \in [Requests -> Tokens]
      <4> DEFINE all == Followers(r) \cup {r}
                 own == <<acct[r], got[r]>>
      <4>1. token' = [q \in Requests |-> IF q \in all THEN own ELSE token[q]]
        BY <1>9, <2>3 DEF Publish, EndLogin
      <4>2. acctToken' = [q \in Requests |-> IF q \in all THEN got[r] ELSE acctToken[q]]
        BY <1>9, <2>3 DEF Publish, EndLogin
      <4> HIDE DEF all, own
      <4> QED
        BY <2>2, <4>1, <4>2 DEF own
    <3>2. /\ latest' \in [Accounts -> Tokens] /\ pc' \in [Requests -> PCs]
          /\ res' \in [Requests -> Results]
      BY <1>9, <2>1, <2>3 DEF Publish, EndLogin
    <3> QED
      BY <1>9, <1>t, <3>1, <3>2 DEF Publish
  <2>4. CASE res[r] # "ok"
    <3>1. /\ pc' \in [Requests -> PCs] /\ res' \in [Requests -> Results]
      BY <1>9, <2>4 DEF Publish, EndLogin
    <3> QED
      BY <1>9, <1>t, <2>4, <3>1 DEF Publish, EndLogin
  <2> QED
    BY <2>3, <2>4
<1>10. ASSUME NEW r \in Requests, StopFollowing(r) PROVE TypeOK'
  BY <1>10 DEF StopFollowing
<1>11. ASSUME NEW r \in Requests, Hear(r) PROVE TypeOK'
  <2>1. Discards(r) \/ DiscardsNot =>
            /\ discarded' \in SUBSET Accounts /\ listed' \in SUBSET Accounts
            /\ tried' \in [Requests -> SUBSET Accounts]
    BY <1>11, <1>h DEF Hear, AutoDiscards, Discards, DiscardsNot, Holding
  <2> QED
    BY <1>11, <2>1 DEF Hear, AutoDiscards
<1>12. ASSUME NEW r \in Requests, BrokenDetermine(r) PROVE TypeOK'
  <2>1. acct[r] \in Accounts /\ inUse' \in [Accounts -> Nat]
    BY <1>12, <1>g, <1>h DEF BrokenDetermine, Holding
  <2>2. CASE Forgets(r)
    BY <1>12, <1>t, <2>1, <2>2 DEF BrokenDetermine, Forgets
  <2>3. CASE /\ pc' = [pc EXCEPT ![r] = "acquire"]
             /\ tried' = [tried EXCEPT ![r] = @ \cup {acct[r]}]
             /\ acct' = [acct EXCEPT ![r] = NoAccount]
             /\ acctToken' = [acctToken EXCEPT ![r] = 0]
             /\ res' = [res EXCEPT ![r] = "none"]
             /\ UNCHANGED <<mode, target, token>>
    <3>1. acctToken' \in [Requests -> Tokens]
      BY <1>t, <2>3
    <3>2. tried' \in [Requests -> SUBSET Accounts]
      BY <2>1, <2>3
    <3> QED
      BY <1>12, <2>1, <2>3, <3>1, <3>2 DEF BrokenDetermine
  <2> QED
    BY <1>12, <2>2, <2>3 DEF BrokenDetermine
<1>13. ASSUME NEW r \in Requests, BrokenSwitch(r) PROVE TypeOK'
  <2>1. acct[r] \in Accounts /\ inUse' \in [Accounts -> Nat]
    BY <1>13, <1>g, <1>h DEF BrokenSwitch, Holding
  <2> QED
    BY <1>13, <2>1 DEF BrokenSwitch
<1>14. ASSUME NEW r \in Requests, TokenRefused(r) \/ BrokenRefresh(r) PROVE TypeOK'
  BY <1>14 DEF TokenRefused, BrokenRefresh
<1>15. ASSUME NEW r \in Requests, AccountRefused(r) PROVE TypeOK'
  <2>1. acct[r] \in Accounts
    BY <1>15, <1>h DEF AccountRefused, Holding
  <2> QED
    BY <1>15, <2>1 DEF AccountRefused, Discards
<1>16. ASSUME NEW r \in Requests, SwitchAccount(r) PROVE TypeOK'
  BY <1>16, <1>g DEF SwitchAccount
<1>17. ASSUME NEW r \in Requests, Finish(r) PROVE TypeOK'
  BY <1>17, <1>t, <1>g DEF Finish, Forgets
<1>18. ASSUME NEW a \in Accounts, IntervalPasses(a) PROVE TypeOK'
  BY <1>18 DEF IntervalPasses
<1>19. ASSUME NEW a \in Accounts, Probe(a) PROVE TypeOK'
  <2>1. issued[a] + 1 \in Tokens
    BY <1>t
  <2> QED
    BY <1>19, <2>1 DEF Probe
<1>20. CASE UNCHANGED vars
  BY <1>20 DEF vars
<1> QED
  BY <1>1, <1>2, <1>3, <1>4, <1>5, <1>6, <1>7, <1>8, <1>9, <1>10, <1>11, <1>12, <1>13,
     <1>14, <1>15, <1>16, <1>17, <1>18, <1>19, <1>20 DEF Next, TokenStep

LEMMA NextPaths == TypeOK /\ Paths /\ [Next]_vars => Paths'
<1> SUFFICES ASSUME TypeOK, Paths, [Next]_vars PROVE Paths'
  OBVIOUS
<1> USE AuthAccounts, AuthRequests DEF TypeOK, Paths, Holding, Renewing, LoginPhases, Goes, poolVars, tokenVars
<1>1. ASSUME NEW r \in Requests, NEW t \in Targets, LoadAccounts(r, t) PROVE Paths'
  BY <1>1 DEF LoadAccounts
<1>2. ASSUME NEW r \in Requests, NEW a \in Accounts, Acquire(r, a) PROVE Paths'
  BY <1>2 DEF Acquire, Grantable
<1>3. ASSUME NEW r \in Requests, Refused(r) PROVE Paths'
  BY <1>3 DEF Refused, Forgets
<1>4. ASSUME NEW r \in Requests, EnsureDue(r) PROVE Paths'
  BY <1>4 DEF EnsureDue
<1>5. ASSUME NEW r \in Requests, EnsureKnown(r) PROVE Paths'
  BY <1>5 DEF EnsureKnown, Holds, Due
<1>6. ASSUME NEW r \in Requests, UseLatest(r) PROVE Paths'
  BY <1>6 DEF UseLatest, Holds, Renewed
<1>7. ASSUME NEW r \in Requests, Follow(r) PROVE Paths'
  BY <1>7 DEF Follow
<1>8. ASSUME NEW r \in Requests, Lead(r) PROVE Paths'
  BY <1>8 DEF Lead
<1>9. ASSUME NEW r \in Requests, Login(r) PROVE Paths'
  <2>1. CASE LoginAnswers(r)
    <3>1. acct[r] \in Accounts
      BY <1>9 DEF Login
    <3>2. issued'[acct[r]] # 0
      BY <2>1, <3>1 DEF LoginAnswers, Tokens
    <3> QED
      BY <1>9, <2>1, <3>2 DEF Login, LoginAnswers
  <2>2. ASSUME NEW e \in {"error", "banned", "nodevice"}, LoginFails(r, e) PROVE Paths'
    BY <1>9, <2>2 DEF Login, LoginFails
  <2> QED
    BY <1>9, <2>1, <2>2 DEF Login
<1>10. ASSUME NEW r \in Requests, Publish(r) PROVE Paths'
  BY <1>10 DEF Publish, EndLogin, Followers
<1>11. ASSUME NEW r \in Requests, StopFollowing(r) PROVE Paths'
  BY <1>11 DEF StopFollowing
<1>12. ASSUME NEW r \in Requests, Hear(r) PROVE Paths'
  BY <1>12 DEF Hear
<1>13. ASSUME NEW r \in Requests, BrokenDetermine(r) PROVE Paths'
  BY <1>13 DEF BrokenDetermine, Forgets
<1>14. ASSUME NEW r \in Requests, BrokenSwitch(r) PROVE Paths'
  BY <1>14 DEF BrokenSwitch
<1>15. ASSUME NEW r \in Requests, BrokenRefresh(r) PROVE Paths'
  BY <1>15 DEF BrokenRefresh
<1>16. ASSUME NEW r \in Requests, TokenRefused(r) PROVE Paths'
  BY <1>16 DEF TokenRefused
<1>17. ASSUME NEW r \in Requests, AccountRefused(r) PROVE Paths'
  BY <1>17 DEF AccountRefused
<1>18. ASSUME NEW r \in Requests, SwitchAccount(r) PROVE Paths'
  BY <1>18 DEF SwitchAccount
<1>19. ASSUME NEW r \in Requests, Finish(r) PROVE Paths'
  BY <1>19 DEF Finish, Forgets
<1>20. ASSUME NEW a \in Accounts, IntervalPasses(a) PROVE Paths'
  BY <1>20 DEF IntervalPasses
<1>21. ASSUME NEW a \in Accounts, Probe(a) PROVE Paths'
  BY <1>21 DEF Probe
<1>22. CASE UNCHANGED vars
  BY <1>22 DEF vars
<1> QED
  BY <1>1, <1>2, <1>3, <1>4, <1>5, <1>6, <1>7, <1>8, <1>9, <1>10, <1>11, <1>12, <1>13, <1>14, <1>15, <1>16, <1>17, <1>18, <1>19, <1>20, <1>21, <1>22 DEF Next, TokenStep

LEMMA NextFlightSound == TypeOK /\ Paths /\ FlightSound /\ [Next]_vars => FlightSound'
<1> SUFFICES ASSUME TypeOK, Paths, FlightSound, [Next]_vars PROVE FlightSound'
  OBVIOUS
<1> USE AuthAccounts, AuthRequests DEF TypeOK, FlightSound, LoginPhases, Goes, poolVars, tokenVars
<1>1. ASSUME NEW r \in Requests, NEW t \in Targets, LoadAccounts(r, t) PROVE FlightSound'
  BY <1>1 DEF LoadAccounts
<1>2. ASSUME NEW r \in Requests, NEW a \in Accounts, Acquire(r, a) PROVE FlightSound'
  BY <1>2 DEF Acquire, Grantable
<1>3. ASSUME NEW r \in Requests, Refused(r) PROVE FlightSound'
  BY <1>3 DEF Refused, Forgets
<1>4. ASSUME NEW r \in Requests, EnsureDue(r) PROVE FlightSound'
  BY <1>4 DEF EnsureDue
<1>5. ASSUME NEW r \in Requests, EnsureKnown(r) PROVE FlightSound'
  BY <1>5 DEF EnsureKnown, Holds, Due
<1>6. ASSUME NEW r \in Requests, UseLatest(r) PROVE FlightSound'
  BY <1>6 DEF UseLatest, Holds, Renewed
<1>7. ASSUME NEW r \in Requests, Follow(r) PROVE FlightSound'
  BY <1>7 DEF Follow
<1>8. ASSUME NEW r \in Requests, Lead(r) PROVE FlightSound'
  <2>1. acct[r] \in Accounts
    BY <1>8 DEF Lead, Paths, Holding
  <2>2. leader' = [leader EXCEPT ![acct[r]] = r] /\ pc' = [pc EXCEPT ![r] = "login"]
    BY <1>8 DEF Lead
  <2> QED
    BY <1>8, <2>1, <2>2 DEF Lead
<1>9. ASSUME NEW r \in Requests, Login(r) PROVE FlightSound'
  BY <1>9 DEF Login, LoginAnswers, LoginFails
<1>10. ASSUME NEW r \in Requests, Publish(r) PROVE FlightSound'
  BY <1>10 DEF Publish, EndLogin, Followers
<1>11. ASSUME NEW r \in Requests, StopFollowing(r) PROVE FlightSound'
  BY <1>11 DEF StopFollowing
<1>12. ASSUME NEW r \in Requests, Hear(r) PROVE FlightSound'
  BY <1>12 DEF Hear
<1>13. ASSUME NEW r \in Requests, BrokenDetermine(r) PROVE FlightSound'
  BY <1>13 DEF BrokenDetermine, Forgets
<1>14. ASSUME NEW r \in Requests, BrokenSwitch(r) PROVE FlightSound'
  BY <1>14 DEF BrokenSwitch
<1>15. ASSUME NEW r \in Requests, BrokenRefresh(r) PROVE FlightSound'
  BY <1>15 DEF BrokenRefresh
<1>16. ASSUME NEW r \in Requests, TokenRefused(r) PROVE FlightSound'
  BY <1>16 DEF TokenRefused
<1>17. ASSUME NEW r \in Requests, AccountRefused(r) PROVE FlightSound'
  BY <1>17 DEF AccountRefused
<1>18. ASSUME NEW r \in Requests, SwitchAccount(r) PROVE FlightSound'
  BY <1>18 DEF SwitchAccount
<1>19. ASSUME NEW r \in Requests, Finish(r) PROVE FlightSound'
  BY <1>19 DEF Finish, Forgets
<1>20. ASSUME NEW a \in Accounts, IntervalPasses(a) PROVE FlightSound'
  BY <1>20 DEF IntervalPasses
<1>21. ASSUME NEW a \in Accounts, Probe(a) PROVE FlightSound'
  BY <1>21 DEF Probe
<1>22. CASE UNCHANGED vars
  BY <1>22 DEF vars
<1> QED
  BY <1>1, <1>2, <1>3, <1>4, <1>5, <1>6, <1>7, <1>8, <1>9, <1>10, <1>11, <1>12, <1>13, <1>14, <1>15, <1>16, <1>17, <1>18, <1>19, <1>20, <1>21, <1>22 DEF Next, TokenStep

LEMMA NextOwned == TypeOK /\ Paths /\ Owned /\ [Next]_vars => Owned'
<1> SUFFICES ASSUME TypeOK, Paths, Owned, [Next]_vars PROVE Owned'
  OBVIOUS
<1> USE AuthAccounts, AuthRequests DEF TypeOK, Paths, Holding, LoginPhases, Renewing, Owned, Goes, poolVars, tokenVars
<1>1. ASSUME NEW r \in Requests, NEW t \in Targets, LoadAccounts(r, t) PROVE Owned'
  BY <1>1 DEF LoadAccounts
<1>2. ASSUME NEW r \in Requests, NEW a \in Accounts, Acquire(r, a) PROVE Owned'
  BY <1>2 DEF Acquire, Grantable
<1>3. ASSUME NEW r \in Requests, Refused(r) PROVE Owned'
  BY <1>3 DEF Refused, Forgets
<1>4. ASSUME NEW r \in Requests, EnsureDue(r) PROVE Owned'
  BY <1>4 DEF EnsureDue
<1>5. ASSUME NEW r \in Requests, EnsureKnown(r) PROVE Owned'
  BY <1>5 DEF EnsureKnown, Holds, Due
<1>6. ASSUME NEW r \in Requests, UseLatest(r) PROVE Owned'
  BY <1>6 DEF UseLatest, Holds, Renewed
<1>7. ASSUME NEW r \in Requests, Follow(r) PROVE Owned'
  BY <1>7 DEF Follow
<1>8. ASSUME NEW r \in Requests, Lead(r) PROVE Owned'
  BY <1>8 DEF Lead
<1>9. ASSUME NEW r \in Requests, Login(r) PROVE Owned'
  BY <1>9 DEF Login, LoginAnswers, LoginFails
<1>10. ASSUME NEW r \in Requests, Publish(r) PROVE Owned'
  BY <1>10 DEF Publish, EndLogin, Followers
<1>11. ASSUME NEW r \in Requests, StopFollowing(r) PROVE Owned'
  BY <1>11 DEF StopFollowing
<1>12. ASSUME NEW r \in Requests, Hear(r) PROVE Owned'
  BY <1>12 DEF Hear
<1>13. ASSUME NEW r \in Requests, BrokenDetermine(r) PROVE Owned'
  BY <1>13 DEF BrokenDetermine, Forgets
<1>14. ASSUME NEW r \in Requests, BrokenSwitch(r) PROVE Owned'
  BY <1>14 DEF BrokenSwitch
<1>15. ASSUME NEW r \in Requests, BrokenRefresh(r) PROVE Owned'
  BY <1>15 DEF BrokenRefresh
<1>16. ASSUME NEW r \in Requests, TokenRefused(r) PROVE Owned'
  BY <1>16 DEF TokenRefused
<1>17. ASSUME NEW r \in Requests, AccountRefused(r) PROVE Owned'
  BY <1>17 DEF AccountRefused
<1>18. ASSUME NEW r \in Requests, SwitchAccount(r) PROVE Owned'
  BY <1>18 DEF SwitchAccount
<1>19. ASSUME NEW r \in Requests, Finish(r) PROVE Owned'
  BY <1>19 DEF Finish, Forgets
<1>20. ASSUME NEW a \in Accounts, IntervalPasses(a) PROVE Owned'
  BY <1>20 DEF IntervalPasses
<1>21. ASSUME NEW a \in Accounts, Probe(a) PROVE Owned'
  BY <1>21 DEF Probe
<1>22. CASE UNCHANGED vars
  BY <1>22 DEF vars
<1> QED
  BY <1>1, <1>2, <1>3, <1>4, <1>5, <1>6, <1>7, <1>8, <1>9, <1>10, <1>11, <1>12, <1>13, <1>14, <1>15, <1>16, <1>17, <1>18, <1>19, <1>20, <1>21, <1>22 DEF Next, TokenStep

LEMMA NextRenewsNewest == TypeOK /\ Paths /\ FlightSound /\ Owned /\ RenewsNewest /\ [Next]_vars => RenewsNewest'
<1> SUFFICES ASSUME TypeOK, Paths, FlightSound, Owned, RenewsNewest, [Next]_vars PROVE RenewsNewest'
  OBVIOUS
<1> USE AuthAccounts, AuthRequests DEF TypeOK, FlightSound, LoginPhases, RenewsNewest, Goes, poolVars, tokenVars
<1>1. ASSUME NEW r \in Requests, NEW t \in Targets, LoadAccounts(r, t) PROVE RenewsNewest'
  BY <1>1 DEF LoadAccounts
<1>2. ASSUME NEW r \in Requests, NEW a \in Accounts, Acquire(r, a) PROVE RenewsNewest'
  BY <1>2 DEF Acquire, Grantable
<1>3. ASSUME NEW r \in Requests, Refused(r) PROVE RenewsNewest'
  BY <1>3 DEF Refused, Forgets
<1>4. ASSUME NEW r \in Requests, EnsureDue(r) PROVE RenewsNewest'
  BY <1>4 DEF EnsureDue
<1>5. ASSUME NEW r \in Requests, EnsureKnown(r) PROVE RenewsNewest'
  <2>1. acct[r] \in Accounts /\ pc'[r] = "using"
    BY <1>5 DEF EnsureKnown, Holds, Paths, Holding
  <2>2. ASSUME NEW q \in Requests, q # r, pc[q] \in LoginPhases, mode[q] = "refresh"
        PROVE  latest'[acct[q]] = latest[acct[q]]
    BY <1>5, <2>1, <2>2 DEF EnsureKnown, Owned
  <2> QED
    BY <1>5, <2>1, <2>2 DEF EnsureKnown, Holds
<1>6. ASSUME NEW r \in Requests, UseLatest(r) PROVE RenewsNewest'
  BY <1>6 DEF UseLatest, Holds, Renewed
<1>7. ASSUME NEW r \in Requests, Follow(r) PROVE RenewsNewest'
  BY <1>7 DEF Follow
<1>8. ASSUME NEW r \in Requests, Lead(r) PROVE RenewsNewest'
  <2>1. CASE mode[r] = "refresh"
    <3>1. token[r][1] = acct[r] /\ acct[r] \in Accounts /\ latest[acct[r]] # 0
      BY <1>8, <2>1 DEF Lead, Owned, Paths, Holding
    <3>2. Current(r) = token[r] /\ token[r] # NoToken
      BY <3>1 DEF Current, NoToken
    <3>3. token[r] = <<acct[r], latest[acct[r]]>>
      BY <1>8, <3>1, <3>2 DEF Lead, Renewed
    <3> QED
      BY <1>8, <3>3 DEF Lead
  <2>2. CASE mode[r] # "refresh"
    BY <1>8, <2>2 DEF Lead
  <2> QED
    BY <2>1, <2>2
<1>9. ASSUME NEW r \in Requests, Login(r) PROVE RenewsNewest'
  BY <1>9 DEF Login, LoginAnswers, LoginFails
<1>10. ASSUME NEW r \in Requests, Publish(r) PROVE RenewsNewest'
  <2> SUFFICES ASSUME NEW q \in Requests, pc'[q] \in LoginPhases, mode'[q] = "refresh"
               PROVE  token'[q] = <<acct'[q], latest'[acct'[q]]>>
    BY DEF RenewsNewest
  <2>1. q \notin Followers(r) \cup {r} /\ pc[q] = pc'[q] /\ token'[q] = token[q]
    BY <1>10 DEF Publish, EndLogin, Followers
  <2>2. leader[acct[q]] = q /\ leader[acct[r]] = r
    BY <1>10, <2>1 DEF Publish
  <2>3. latest'[acct[q]] = latest[acct[q]]
    <3>1. acct[q] \in Accounts /\ acct[q] # acct[r]
      BY <2>1, <2>2 DEF Paths, Holding
    <3>2. latest' = latest \/ latest' = [latest EXCEPT ![acct[r]] = got[r]]
      BY <1>10 DEF Publish, EndLogin
    <3> QED
      BY <3>1, <3>2
  <2> QED
    BY <1>10, <2>1, <2>3 DEF Publish
<1>11. ASSUME NEW r \in Requests, StopFollowing(r) PROVE RenewsNewest'
  BY <1>11 DEF StopFollowing
<1>12. ASSUME NEW r \in Requests, Hear(r) PROVE RenewsNewest'
  BY <1>12 DEF Hear
<1>13. ASSUME NEW r \in Requests, BrokenDetermine(r) PROVE RenewsNewest'
  BY <1>13 DEF BrokenDetermine, Forgets
<1>14. ASSUME NEW r \in Requests, BrokenSwitch(r) PROVE RenewsNewest'
  BY <1>14 DEF BrokenSwitch
<1>15. ASSUME NEW r \in Requests, BrokenRefresh(r) PROVE RenewsNewest'
  BY <1>15 DEF BrokenRefresh
<1>16. ASSUME NEW r \in Requests, TokenRefused(r) PROVE RenewsNewest'
  BY <1>16 DEF TokenRefused
<1>17. ASSUME NEW r \in Requests, AccountRefused(r) PROVE RenewsNewest'
  BY <1>17 DEF AccountRefused
<1>18. ASSUME NEW r \in Requests, SwitchAccount(r) PROVE RenewsNewest'
  BY <1>18 DEF SwitchAccount
<1>19. ASSUME NEW r \in Requests, Finish(r) PROVE RenewsNewest'
  BY <1>19 DEF Finish, Forgets
<1>20. ASSUME NEW a \in Accounts, IntervalPasses(a) PROVE RenewsNewest'
  BY <1>20 DEF IntervalPasses
<1>21. ASSUME NEW a \in Accounts, Probe(a) PROVE RenewsNewest'
  BY <1>21 DEF Probe
<1>22. CASE UNCHANGED vars
  BY <1>22 DEF vars
<1> QED
  BY <1>1, <1>2, <1>3, <1>4, <1>5, <1>6, <1>7, <1>8, <1>9, <1>10, <1>11, <1>12, <1>13, <1>14, <1>15, <1>16, <1>17, <1>18, <1>19, <1>20, <1>21, <1>22 DEF Next, TokenStep

LEMMA SoundAlways == Spec => []Sound
<1>1. Sound /\ [Next]_vars => Sound'
  BY NextTypeOK, NextPaths, NextFlightSound, NextOwned, NextRenewsNewest DEF Sound
<1> QED
  BY InitSound, <1>1, PTL DEF Spec

\* Types, over any run: in particular the count of leases never goes below zero,
\* however a login, a switch and the end of a request give an account back
\* (Pool.Release).
THEOREM AuthTypeCorrect == Spec => []TypeOK
BY SoundAlways, PTL DEF Sound

\* An account is logged in by one request at a time, and whoever waits for a login
\* waits for one that is under way (loginAndPersist).
THEOREM LoginsSingle == Spec => []FlightSound
BY SoundAlways, PTL DEF Sound

\* A request at work sends a token of the account it holds, after any number of
\* logins, refusals and switches (Determine, RefreshToken, SwitchAccount).
THEOREM TokensOwn == Spec => []TokenOwn
<1>1. Sound => TokenOwn
  BY DEF Sound, Owned, TokenOwn
<1> QED
  BY SoundAlways, <1>1, PTL

\* A login for a refused token replaces the newest token of its account: many
\* refusals of one token end in one login (latestTokens in loginAndPersist).
THEOREM RefusedRenewedOnce == Spec => []RenewsNewest
BY SoundAlways, PTL DEF Sound

LEMMA HoldersFinite ==
    \A a : IsFiniteSet(Holders(a)) /\ Cardinality(Holders(a)) \in Nat
BY AuthRequests, FS_Subset, FS_CardinalityType DEF Holders

\* An account given back by a request that stops holding it, or held none.
LEMMA GivenBack ==
    ASSUME TypeOK, NothingLeaked, NEW r \in Requests, GiveBack(acct[r]),
           \A a \in Accounts : Holders(a)' = Holders(a) \ {r}
    PROVE  NothingLeaked'
<1> SUFFICES ASSUME NEW a \in Accounts PROVE inUse'[a] <= Cardinality(Holders(a)')
  BY DEF NothingLeaked
<1>1. /\ inUse[a] \in Nat /\ Cardinality(Holders(a)) \in Nat
      /\ inUse[a] <= Cardinality(Holders(a))
  BY HoldersFinite DEF TypeOK, NothingLeaked
<1>2. Cardinality(Holders(a)') =
          IF r \in Holders(a) THEN Cardinality(Holders(a)) - 1 ELSE Cardinality(Holders(a))
  BY HoldersFinite, FS_RemoveElement
<1>3. Cardinality(Holders(a)') \in Nat
  BY HoldersFinite, FS_RemoveElement, FS_CardinalityType
<1>4. r \in Holders(a) => a = acct[r]
  BY DEF Holders
<1>5. inUse'[a] = IF a = acct[r] /\ inUse[a] # 0 THEN inUse[a] - 1 ELSE inUse[a]
  BY DEF GiveBack, TypeOK
<1> QED
  BY <1>1, <1>2, <1>3, <1>4, <1>5

LEMMA NextNothingLeaked == TypeOK /\ Paths /\ NothingLeaked /\ [Next]_vars => NothingLeaked'
<1> SUFFICES ASSUME TypeOK, Paths, NothingLeaked, [Next]_vars PROVE NothingLeaked'
  OBVIOUS
<1>k. ASSUME inUse' = inUse, \A a \in Accounts : Holders(a)' = Holders(a)
      PROVE  NothingLeaked'
  BY <1>k DEF NothingLeaked
<1> USE DEF TypeOK, Holders, Holding, Goes, poolVars, tokenVars, LoginPhases
<1>1. ASSUME NEW r \in Requests, NEW t \in Targets, LoadAccounts(r, t) PROVE NothingLeaked'
  BY <1>1, <1>k DEF LoadAccounts
<1>2. ASSUME NEW r \in Requests, NEW a \in Accounts, Acquire(r, a) PROVE NothingLeaked'
  <2> SUFFICES ASSUME NEW b \in Accounts PROVE inUse'[b] <= Cardinality(Holders(b)')
    BY DEF NothingLeaked
  <2>1. /\ inUse[b] \in Nat /\ inUse[b] <= Cardinality(Holders(b))
        /\ IsFiniteSet(Holders(b)) /\ Cardinality(Holders(b)) \in Nat
    BY HoldersFinite DEF NothingLeaked
  <2>2. CASE b = a
    <3>1. Holders(b)' = Holders(b) \cup {r} /\ r \notin Holders(b) /\ inUse'[b] = inUse[b] + 1
      BY <1>2, <2>2 DEF Acquire
    <3>2. Cardinality(Holders(b) \cup {r}) = Cardinality(Holders(b)) + 1
      BY <2>1, <3>1, FS_AddElement
    <3>3. Cardinality(Holders(b)') = Cardinality(Holders(b)) + 1
      BY ONLY <3>1, <3>2
    <3> QED
      BY ONLY <2>1, <3>1, <3>3
  <2>3. CASE b # a
    BY <1>2, <2>1, <2>3 DEF Acquire
  <2> QED
    BY <2>2, <2>3
<1>3. ASSUME NEW r \in Requests, BrokenDetermine(r) PROVE NothingLeaked'
  <2>1. \A a \in Accounts : Holders(a)' = Holders(a) \ {r}
    BY <1>3 DEF BrokenDetermine, Forgets
  <2> QED
    BY <1>3, <2>1, GivenBack DEF BrokenDetermine
<1>4. ASSUME NEW r \in Requests, BrokenSwitch(r) PROVE NothingLeaked'
  <2>1. \A a \in Accounts : Holders(a)' = Holders(a) \ {r}
    BY <1>4 DEF BrokenSwitch
  <2> QED
    BY <1>4, <2>1, GivenBack DEF BrokenSwitch
<1>5. ASSUME NEW r \in Requests, SwitchAccount(r) PROVE NothingLeaked'
  <2>1. \A a \in Accounts : Holders(a)' = Holders(a) \ {r}
    BY <1>5 DEF SwitchAccount
  <2> QED
    BY <1>5, <2>1, GivenBack DEF SwitchAccount
<1>6. ASSUME NEW r \in Requests, Finish(r) PROVE NothingLeaked'
  <2>1. \A a \in Accounts : Holders(a)' = Holders(a) \ {r}
    BY <1>6 DEF Finish, Forgets
  <2> QED
    BY <1>6, <2>1, GivenBack DEF Finish
<1>7. ASSUME NEW r \in Requests, Refused(r) PROVE NothingLeaked'
  BY <1>7, <1>k DEF Refused, Forgets
<1>8. ASSUME NEW r \in Requests, EnsureDue(r) PROVE NothingLeaked'
  BY <1>8, <1>k DEF EnsureDue
<1>9. ASSUME NEW r \in Requests, EnsureKnown(r) PROVE NothingLeaked'
  BY <1>9, <1>k DEF EnsureKnown, Holds
<1>10. ASSUME NEW r \in Requests, UseLatest(r) PROVE NothingLeaked'
  BY <1>10, <1>k DEF UseLatest, Holds
<1>11. ASSUME NEW r \in Requests, Follow(r) PROVE NothingLeaked'
  BY <1>11, <1>k DEF Follow
<1>12. ASSUME NEW r \in Requests, Lead(r) PROVE NothingLeaked'
  BY <1>12, <1>k DEF Lead
<1>13. ASSUME NEW r \in Requests, Login(r) PROVE NothingLeaked'
  BY <1>13, <1>k DEF Login
<1>14. ASSUME NEW r \in Requests, Publish(r) PROVE NothingLeaked'
  BY <1>14, <1>k DEF Publish, EndLogin, Followers
<1>15. ASSUME NEW r \in Requests, StopFollowing(r) PROVE NothingLeaked'
  BY <1>15, <1>k DEF StopFollowing
<1>16. ASSUME NEW r \in Requests, Hear(r) PROVE NothingLeaked'
  BY <1>16, <1>k DEF Hear
<1>17. ASSUME NEW r \in Requests, BrokenRefresh(r) PROVE NothingLeaked'
  BY <1>17, <1>k DEF BrokenRefresh
<1>18. ASSUME NEW r \in Requests, TokenRefused(r) PROVE NothingLeaked'
  BY <1>18, <1>k DEF TokenRefused
<1>19. ASSUME NEW r \in Requests, AccountRefused(r) PROVE NothingLeaked'
  BY <1>19, <1>k DEF AccountRefused
<1>20. ASSUME NEW a \in Accounts, IntervalPasses(a) PROVE NothingLeaked'
  BY <1>20, <1>k DEF IntervalPasses
<1>21. ASSUME NEW a \in Accounts, Probe(a) PROVE NothingLeaked'
  BY <1>21, <1>k DEF Probe
<1>22. CASE UNCHANGED vars
  BY <1>22, <1>k DEF vars
<1> QED
  BY <1>1, <1>2, <1>3, <1>4, <1>5, <1>6, <1>7, <1>8, <1>9, <1>10, <1>11, <1>12, <1>13, <1>14, <1>15, <1>16, <1>17, <1>18, <1>19, <1>20, <1>21, <1>22 DEF Next, TokenStep

\* Whatever fails between a lease and the end of its request, the pool counts no
\* lease that no request has: every path of Determine, SwitchAccount and the
\* deferred Release gives the account back.
THEOREM NoLeaseLeaks == Spec => []NothingLeaked
<1>1. Init => NothingLeaked
  BY HoldersFinite DEF Init, NothingLeaked
<1>2. Sound /\ NothingLeaked /\ [Next]_vars => NothingLeaked'
  BY NextNothingLeaked DEF Sound
<1> QED
  BY SoundAlways, <1>1, <1>2, PTL DEF Spec

\* Leases and logins stay accounted for, whatever fails.
THEOREM LeasesAccounted == Spec => []Accounted
BY AuthTypeCorrect, LoginsSingle, NoLeaseLeaks, PTL DEF Accounted
=============================================================================
