----------------------------- MODULE AccountLogins -----------------------------
(***************************************************************************)
(* Logins with a device token, in the gateway (auth/device.go, the leader  *)
(* of a login in auth/request.go) and in the probes of the pool UI         *)
(* (poolui/probe.go, accountprobe/probe.go), over the tables both share;   *)
(* the harvester that both ask for tokens (deviceharvest/client.go,        *)
(* tools/device-harvest/harvest.mjs) with its workers and its queue; and   *)
(* the discard that an answer of DeepSeek leads to (auth/discard.go,       *)
(* poolaccounthealth/classify.go).                                         *)
(***************************************************************************)
EXTENDS PoolTables

CONSTANTS
    N,              \* the requests that log in, and the probes
    None,
    Workers,        \* concurrency of the harvester (2)
    MaxQueue,       \* jobs that may wait for a worker (64)
    Pools,          \* the pools of the keys at the start
    Devices,        \* the token every account has at the start: 0 for none, or 1
    Environments,   \* the processes that know the harvester
    CSVs,           \* the files an administrator may import
    MaxEdits        \* bound: what the administrator and the operator do

Tasks == 1 .. N \* in the order they begin

Processes == {"gateway", "poolui"}
MaxToken == Cardinality(Accounts) + 2 * N + 1 \* the one that a CSV may bring

ASSUME NoneAssumption == None \notin Tasks \cup Keys
ASSUME HarvesterAssumption == N \in Nat /\ {Workers, MaxQueue} \subseteq Nat \ {0} /\ MaxEdits \in Nat
ASSUME StartAssumption ==
    /\ \A pools \in Pools : /\ DOMAIN pools \subseteq Keys
                            /\ \A k \in DOMAIN pools : pools[k] \in Seq(Accounts)
    /\ Devices \subseteq {0, 1} /\ Environments \subseteq SUBSET Processes
    /\ \A rows \in CSVs : rows \in Seq([account : Accounts, device : {0, MaxToken}])

VARIABLES
    task,           \* the requests and probes
    call,           \* harvestCalls of each process: the task that leads
    running,        \* jobs of the harvester that have a worker
    waiting,        \* those in line
    configured,     \* the processes with a DEVICE_HARVEST_URL
    edits

service == <<running, waiting>>
vars == <<tables, task, call, service, configured, edits>>

TypeOK ==
    /\ PoolTypeOK
    /\ task \in [Tasks -> [at : {"idle", "ensure", "lead", "harvested", "follow", "login", "ask", "report", "done"},
                           process : Processes, key : Keys \cup {None}, account : Accounts \cup {None},
                           device : 0 .. MaxToken, refused : SUBSET (0 .. MaxToken),
                           verdict : {"", "ok", "muted", "until", "banned"}]]
    /\ call \in [Processes -> [Accounts -> Tasks \cup {None}]]
    /\ running \subseteq Tasks /\ waiting \in Seq(Tasks) /\ Len(waiting) <= MaxQueue
    /\ configured \subseteq Processes /\ edits \in 0 .. MaxEdits

Idle == [at |-> "idle", process |-> "gateway", key |-> None, account |-> None,
         device |-> 0, refused |-> {}, verdict |-> ""]

\* What a task knows is forgotten as soon as nothing reads it.
Over == [Idle EXCEPT !.at = "done"]
Done(t) == [task EXCEPT ![t] = Over]
Asking(t) == [task[t] EXCEPT !.at = "ask", !.device = 0, !.refused = {}]
Reporting(t, v) == [Asking(t) EXCEPT !.at = "report", !.verdict = v]

\* A token is new when no row and no login has it: tokens are numbered anew
\* when all have forgotten them.
New == Min((1 .. MaxToken - 1) \ ({row[a].device : a \in DOMAIN row} \cup {task[t].device : t \in Tasks}
                               \cup UNION {task[t].refused : t \in Tasks}))

-----------------------------------------------------------------------------
(* What an answer says of the account.  An answer or an error is the set of *)
(* the signals in it: that of the device, "muted", perhaps with its end,    *)
(* "banned", and "transient" for the errors of a network.                   *)

Classify(answer) ==
    CASE "device" \in answer -> ""
      [] "muted" \in answer -> "muted"
      [] "banned" \in answer -> "banned"
      [] OTHER -> ""

Until(answer) == IF {"muted", "until"} \subseteq answer THEN "until" ELSE Classify(answer)

\* The verdict of a probe that failed to log in, and of one that got an
\* answer; no verdict means that the row stays as it is.
LoginVerdict(answer) == IF Classify(answer) # "" THEN Classify(answer)
                        ELSE IF "transient" \in answer THEN "ok" ELSE ""
ProbeVerdict(answer) ==
    IF "device" \notin answer /\ Classify(answer) # "" THEN Until(answer)
    ELSE IF "failed" \in answer THEN ""
    ELSE "ok"

-----------------------------------------------------------------------------
(* The harvester *)

\* The jobs get the workers that are free, first come first served.
Pump(jobs, line) ==
    LET n == Min({Workers - Cardinality(jobs), Len(line)}) IN
    /\ running' = jobs \cup Range(SubSeq(line, 1, n))
    /\ waiting' = SubSeq(line, n + 1, Len(line))

\* Slip: the worker of a job is free again without a look at the line.
JobEndsQuietly(t) == running' = running \ {t} /\ UNCHANGED waiting

JobEnds(t) == Pump(running \ {t}, waiting)

\* The job of a task that has given up ends at once when its turn comes.
JobCancelled(t) ==
    /\ t \in running /\ task[t].at # "lead"
    /\ JobEnds(t)
    /\ UNCHANGED <<tables, task, call, configured, edits>>

-----------------------------------------------------------------------------
(* The shared harvest of a process *)

Followers(t) == {u \in Tasks : /\ task[u].at = "follow"
                               /\ task[u].process = task[t].process
                               /\ task[u].account = task[t].account}

\* A task over without a token: the error may read like a verdict, and the
\* gateway classifies it with every other.
Failed(t, error) ==
    IF task[t].process = "gateway" /\ Classify(error) # ""
    THEN Reporting(t, Classify(error))
    ELSE Over

\* Slip: the followers are not told of an error.
EndCallAlone(t, token, error) ==
    /\ task' = [u \in Tasks |-> IF u \notin Followers(t) \cup {t} THEN task[u]
                                ELSE IF token # 0 THEN [task[u] EXCEPT !.at = "login", !.device = token]
                                ELSE IF u = t THEN Failed(u, error) ELSE task[u]]
    /\ call' = [call EXCEPT ![task[t].process][task[t].account] = None]

\* The leader's result is that of every task that waits with it.
EndCall(t, token, error) ==
    /\ task' = [u \in Tasks |-> IF u \notin Followers(t) \cup {t} THEN task[u]
                                ELSE IF token = 0 THEN Failed(u, error)
                                ELSE [task[u] EXCEPT !.at = "login", !.device = token]]
    /\ call' = [call EXCEPT ![task[t].process][task[t].account] = None]

\* EnsureAccountDeviceID: the token at hand, none at all, or that of a harvest,
\* which this task asks for unless another of its process does already.
Ensure(t) ==
    /\ task[t].at = "ensure"
    /\ LET p == task[t].process  a == task[t].account  leader == call[p][a] IN
       \/ /\ task[t].device # 0 \/ p \notin configured
          /\ task' = [task EXCEPT ![t].at = "login"]
          /\ UNCHANGED <<call, service>>
       \/ /\ task[t].device = 0 /\ p \in configured /\ leader # None
          /\ task' = [task EXCEPT ![t].at = "follow"]
          /\ UNCHANGED <<call, service>>
       \/ /\ task[t].device = 0 /\ p \in configured /\ leader = None
          /\ IF Len(waiting) >= MaxQueue
             THEN /\ task' = [task EXCEPT ![t] = Failed(t, {})]
                  /\ UNCHANGED <<call, service>>
             ELSE /\ task' = [task EXCEPT ![t].at = "lead"]
                  /\ call' = [call EXCEPT ![p][a] = t]
                  /\ Pump(running, Append(waiting, t))
    /\ UNCHANGED <<tables, configured, edits>>

\* The harvester has a token, or none: the page it met instead of the sign-in
\* page is in the error, whatever its title says.
Answer(t) ==
    /\ t \in running /\ task[t].at = "lead"
    /\ JobEnds(t)
    /\ \/ /\ task' = [task EXCEPT ![t].at = "harvested", ![t].device = New]
          /\ UNCHANGED call
       \/ \E error \in {{}, {"banned"}} : EndCall(t, 0, error)
    /\ UNCHANGED <<tables, configured, edits>>

\* The token is stored; when that fails it is good for this login only.
Store(t) ==
    /\ task[t].at = "harvested"
    /\ SetDevice(task[t].account, task[t].device) \/ UNCHANGED row
    /\ EndCall(t, task[t].device, {})
    /\ UNCHANGED <<enabled, bound, importing, service, configured, edits>>

\* The timeout of the client, or the end of the request.
GiveUp(t) ==
    /\ \/ task[t].at = "lead" /\ EndCall(t, 0, {})
       \/ task[t].at = "follow" /\ task' = Done(t) /\ UNCHANGED call
    /\ UNCHANGED <<tables, service, configured, edits>>

-----------------------------------------------------------------------------
(* Tasks *)

\* A probe tests an account of its key, discarded or not, one at a time; a
\* request logs one in that its key may be served with, one login per account.
\* (That a login of Determine has no key to report under is in ManagedAuth.)
Begin(t) ==
    /\ task[t].at = "idle" /\ \A u \in 1 .. t - 1 : task[u].at # "idle"
    /\ \E k \in DOMAIN bound, p \in Processes :
       \E a \in IF p = "poolui" THEN DOMAIN bound[k] ELSE LoadAccountsForAPIKey(k) :
          /\ p = "poolui" => \A u \in Tasks : ~(/\ task[u].process = p /\ task[u].key = k
                                                /\ task[u].at \notin {"idle", "done"})
          /\ p = "gateway" => /\ enabled[k]
                              /\ \A u \in Tasks : ~(/\ task[u].process = p /\ task[u].account = a
                                                    /\ task[u].at \notin {"idle", "ask", "report", "done"})
          /\ task' = [task EXCEPT ![t] = [Idle EXCEPT !.at = "ensure", !.process = p, !.account = a,
                                          !.key = k, !.device = row[a].device]]
    /\ UNCHANGED <<tables, call, service, configured, edits>>

\* Slip: the device that was refused is tried again.
LoginAgain(t) ==
    /\ task[t].at = "login"
    /\ \/ task' = [task EXCEPT ![t] = Asking(t)] /\ UNCHANGED row
       \/ /\ task[t].refused = {}
          /\ SetDevice(task[t].account, 0)
          /\ task' = [task EXCEPT ![t].at = "ensure", ![t].refused = {task[t].device}]
    /\ UNCHANGED <<enabled, bound, importing, call, service, configured, edits>>

\* The login is answered: it succeeds, or DeepSeek refuses the device, or it
\* fails otherwise.  A device refused for the first time is cleared, whatever
\* device the row has by now, and another is harvested; that is done once.
Login(t) ==
    /\ task[t].at = "login"
    /\ LET a == task[t].account IN
       \/ task' = [task EXCEPT ![t] = Asking(t)] /\ UNCHANGED row
       \/ /\ task[t].refused = {}
          /\ SetDevice(a, 0)
          /\ task' = [task EXCEPT ![t].at = "ensure", ![t].device = 0, ![t].refused = {task[t].device}]
       \/ /\ task[t].refused # {} /\ task' = Done(t) /\ UNCHANGED row
       \/ \E error \in {{}, {"transient"}, {"muted"}, {"banned"}} :
             /\ task' = IF task[t].process = "gateway" THEN [task EXCEPT ![t] = Failed(t, error)]
                        ELSE IF LoginVerdict(error) = "" THEN Done(t)
                        ELSE [task EXCEPT ![t] = Reporting(t, LoginVerdict(error))]
             /\ UNCHANGED row
    /\ UNCHANGED <<enabled, bound, importing, call, service, configured, edits>>

\* The completion that follows.  A request that is served has nothing to report.
Ask(t) ==
    /\ task[t].at = "ask"
    /\ \E answer \in {{}, {"failed"}, {"muted"}, {"muted", "until"}, {"banned"}, {"device", "banned"}} :
          LET verdict == IF task[t].process = "poolui" THEN ProbeVerdict(answer)
                         ELSE Classify(answer)
          IN task' = IF verdict = "" THEN Done(t)
                     ELSE [task EXCEPT ![t] = Reporting(t, verdict)]
    /\ UNCHANGED <<tables, call, service, configured, edits>>

\* The verdict is written under the key the task began with, if that is still
\* one of the account's; a probe that found nothing wrong restores the account.
Report(t) ==
    /\ task[t].at = "report"
    /\ LET k == task[t].key  a == task[t].account  v == task[t].verdict IN
       IF task[t].process = "poolui" /\ v \in {"muted", "until"} THEN SetAccountMuted(k, a, v = "until")
       ELSE SetAccountPoolState(k, a, v # "ok", v)
    /\ task' = Done(t)
    /\ UNCHANGED <<enabled, bound, importing, call, service, configured, edits>>

-----------------------------------------------------------------------------
(* The administrator, and the operator of the harvester *)

Administer ==
    /\ edits < MaxEdits /\ edits' = edits + 1
    /\ \E rows \in CSVs : Edit(rows)
    /\ UNCHANGED <<task, call, service, configured>>

Import == ImportRow /\ UNCHANGED <<task, call, service, configured, edits>>

\* The harvester leaves when its browser does, and is started again: every
\* job is gone, and so are the connections of those who wait for one.
RestartHarvester ==
    /\ edits < MaxEdits /\ edits' = edits + 1
    /\ running' = {} /\ waiting' = <<>>
    /\ LET lost == {t \in Tasks : task[t].at = "lead"} IN
       task' = [t \in Tasks |-> IF t \in lost \/ \E u \in lost : t \in Followers(u)
                                THEN Failed(t, {}) ELSE task[t]]
    /\ call' = [p \in Processes |-> [a \in Accounts |->
                   IF call[p][a] # None /\ task[call[p][a]].at = "lead" THEN None ELSE call[p][a]]]
    /\ UNCHANGED <<tables, configured>>

-----------------------------------------------------------------------------
(* The specification *)

\* The pools of Keys there may be at the start, as the lists of their accounts,
\* with no device stored or one each.
Starts(pools, device) ==
    LET accounts == SetToSeq(UNION {Range(pools[k]) : k \in DOMAIN pools}) IN
    /\ enabled = [k \in DOMAIN pools |-> TRUE]
    /\ bound = [k \in DOMAIN pools |-> [a \in Range(pools[k]) |-> CHOOSE n \in 0 .. Len(pools[k]) - 1 :
                                          pools[k][n + 1] = a]]
    /\ row = [a \in Range(accounts) |-> [id |-> CHOOSE n \in DOMAIN accounts : accounts[n] = a,
                  discarded |-> FALSE, reason |-> "", until |-> FALSE, device |-> device]]

Init ==
    /\ \E pools \in Pools, device \in Devices : Starts(pools, device)
    /\ importing = [key |-> None, rows |-> <<>>]
    /\ task = [t \in Tasks |-> Idle]
    /\ call = [p \in Processes |-> [a \in Accounts |-> None]]
    /\ running = {} /\ waiting = <<>>
    /\ configured \in Environments /\ edits = 0

Served(t) == Answer(t) \/ JobCancelled(t)

Steps(t) == Ensure(t) \/ Store(t) \/ Login(t) \/ Ask(t) \/ Report(t)

Next ==
    \/ \E t \in Tasks : Begin(t) \/ Steps(t) \/ Served(t) \/ GiveUp(t)
    \/ Administer \/ Import \/ RestartHarvester

\* Goroutines run, DeepSeek answers or its client times out, and a harvest has
\* a deadline.  Nobody has to give up: a job that is in line gets its worker.
Fairness == WF_vars(\E t \in Tasks : Steps(t) \/ Served(t))

Spec == Init /\ [][Next]_vars /\ Fairness

-----------------------------------------------------------------------------
(* Properties *)

\* No login presents a device token that DeepSeek has refused it, whoever
\* harvests, stores and clears tokens of the account meanwhile.
FreshTokens == \A t \in Tasks :
    task[t].at = "login" /\ task[t].device # 0 => task[t].device \notin task[t].refused

\* A process has one harvest under way per account, and no job waits in the
\* harvester while a worker is free; tables, tasks and jobs keep their types.
HarvestsSound ==
    /\ TypeOK
    /\ \A t, u \in Tasks :
          /\ {task[t].at, task[u].at} \subseteq {"lead", "harvested"}
          /\ task[t].process = task[u].process /\ task[t].account = task[u].account
          => t = u
    /\ Cardinality(running) <= Workers
    /\ waiting # <<>> => Cardinality(running) = Workers

\* Every login and every probe comes to its end, without the timeout of the
\* client: the line moves, and followers hear of what they wait for.
LoginsEnd == \A t \in Tasks : task[t].at # "idle" ~> task[t].at = "done"

\* Rotations, imports, deletions and verdicts leave a pool the accounts it had
\* in the order it had them; a new account comes last.
PoolKept == [][bound' # bound => \A k \in DOMAIN bound' :
    IF k \in DOMAIN bound THEN IsPrefix(List(k), List(k)')
    ELSE IF DOMAIN bound \subseteq DOMAIN bound' THEN List(k)' = <<>>
    ELSE \E o \in DOMAIN bound \ DOMAIN bound' : List(k)' = List(o)]_vars

\* The administrator enters an account again, alone or with a CSV.
Reenters(a) ==
    /\ UNCHANGED task
    /\ \E k \in DOMAIN enabled, device \in {0, MaxToken} : AddAccountToPool(k, a, device)

\* A time at which a mute ends is stored with the reason of a mute, for an account
\* that is discarded: probes, bans and an administrator who restores the account
\* take it back (admin_ops.go:92).  An administrator who enters the account again
\* does not (admin.go:257-264), and nobody else leaves an active account its end.
MuteTimed == [][\A a \in DOMAIN row' : row'[a].until =>
    /\ row'[a].reason = "muted"
    /\ \/ row'[a].discarded
       \/ Reenters(a)
       \/ a \in DOMAIN row /\ row[a].until /\ ~row[a].discarded]_vars

=============================================================================
