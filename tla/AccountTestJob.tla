---------------------------- MODULE AccountTestJob ----------------------------
(***************************************************************************)
(* The batch tests of the pool UI (internal/poolui, pooldb/test_jobs.go)   *)
(* for one gateway key.  Starting a test writes the job's row and spawns a *)
(* goroutine, the run, which waits for the mutex of the key, probes each   *)
(* account and writes its progress to the row.  Aborting sets a flag,      *)
(* cancels the context of the run that has one, and resets the row.        *)
(*                                                                         *)
(* The row and the flag name no run: there is one of each per key.         *)
(***************************************************************************)
EXTENDS Naturals

CONSTANTS
    Runs,       \* the tests administrators start
    NoRun,
    Size,       \* Size[j]: how many accounts run j probes
    Aborts,     \* the requests to abort
    CanRestart  \* whether the pool UI may restart

ASSUME RunsAssumption == NoRun \notin Runs
ASSUME SizeAssumption == Size \in [Runs -> Nat \ {0}]
ASSUME SwitchAssumption == CanRestart \in BOOLEAN

VARIABLES
    row,        \* the row of pool_account_test_jobs
    pc,         \* where each run stands
    count,      \* how many accounts it has probed
    lock,       \* the run that holds testJobMutex
    cancel,     \* the run whose context testJobRunner.cancel cancels
    ctxDone,    \* runs whose context is cancelled
    flag,       \* testJobRunner.cancelled
    apc,        \* where each abort stands
    aborted,    \* ghost: runs an abort met: before the runner started, at work,
                \* or when they had decided on their outcome
    orderly     \* ghost: so far, administrators started a test only when no test
                \* and no abort was under way

vars == <<row, pc, count, lock, cancel, ctxDone, flag, apc, aborted, orderly>>

PCs == {"new", "queued", "locked", "loop", "probing", "probed", "reporting", "ended",
        "resetting", "finishing", "clearing", "done"}

\* Two ghosts: "job" is the test whose start the row shows, "by" the runs whose
\* results or outcome it tells.
Idle == [status |-> "idle", job |-> NoRun, total |-> 0, done |-> 0, results |-> 0, by |-> {}]

TypeOK ==
    /\ row \in [status : {"idle", "running", "completed"}, job : Runs \cup {NoRun},
                total : Nat, done : Nat, results : Nat, by : SUBSET Runs]
    /\ pc \in [Runs -> PCs]
    /\ count \in [Runs -> Nat]
    /\ lock \in Runs \cup {NoRun}
    /\ cancel \in Runs \cup {NoRun}
    /\ ctxDone \in SUBSET Runs
    /\ flag \in BOOLEAN
    /\ apc \in [Aborts -> {"new", "flagged", "cancelled", "done"}]
    /\ aborted \in [Runs -> {"no", "early", "running", "late"}]
    /\ orderly \in BOOLEAN

Init ==
    /\ row = Idle
    /\ pc = [j \in Runs |-> "new"]
    /\ count = [j \in Runs |-> 0]
    /\ lock = NoRun /\ cancel = NoRun /\ ctxDone = {} /\ flag = FALSE
    /\ apc = [x \in Aborts |-> "new"]
    /\ aborted = [j \in Runs |-> "no"]
    /\ orderly = TRUE

InFlight(j) == pc[j] \notin {"new", "done"}
AtWork(j) == pc[j] \in {"loop", "probing", "probed", "reporting", "ended"}
Quiet == /\ \A j \in Runs : ~InFlight(j)
         /\ \A x \in Aborts : apc[x] \in {"new", "done"}

Moves(j, at) == pc' = [pc EXCEPT ![j] = at]

-----------------------------------------------------------------------------
(* A run *)

\* StartAccountTestJob, and the goroutine.
Start(j) ==
    /\ pc[j] = "new"
    /\ orderly' = (orderly /\ Quiet)
    /\ row' = [status |-> "running", job |-> j, total |-> Size[j],
               done |-> 0, results |-> 0, by |-> {}]
    /\ Moves(j, "queued")
    /\ UNCHANGED <<count, lock, cancel, ctxDone, flag, apc, aborted>>

Lock(j) ==
    /\ pc[j] = "queued" /\ lock = NoRun
    /\ lock' = j
    /\ Moves(j, "locked")
    /\ UNCHANGED <<row, count, cancel, ctxDone, flag, apc, aborted, orderly>>

\* testJobRunner.start
StartRunner(j) ==
    /\ pc[j] = "locked"
    /\ ctxDone' = IF cancel = NoRun THEN ctxDone ELSE ctxDone \cup {cancel}
    /\ flag' = FALSE
    /\ cancel' = j
    /\ Moves(j, "loop")
    /\ UNCHANGED <<row, count, lock, apc, aborted, orderly>>

Stopped(j) == j \in ctxDone \/ flag

\* Slip: the loop looks for an abort only when it is over.
CheckAtEnd(j) ==
    /\ pc[j] = "loop"
    /\ Moves(j, IF count[j] = Size[j] THEN "ended" ELSE "probing")
    /\ UNCHANGED <<row, count, lock, cancel, ctxDone, flag, apc, aborted, orderly>>

\* The head of the loop.
Check(j) ==
    /\ pc[j] = "loop"
    /\ Moves(j, IF count[j] = Size[j] \/ Stopped(j) THEN "ended" ELSE "probing")
    /\ UNCHANGED <<row, count, lock, cancel, ctxDone, flag, apc, aborted, orderly>>

Probe(j) ==
    /\ pc[j] = "probing"
    /\ count' = [count EXCEPT ![j] = @ + 1]
    /\ Moves(j, "probed")
    /\ UNCHANGED <<row, lock, cancel, ctxDone, flag, apc, aborted, orderly>>

\* The callback looks at the flag, and only then begins its transaction.
Report(j) ==
    /\ pc[j] = "probed"
    /\ Moves(j, IF flag THEN "loop" ELSE "reporting")
    /\ UNCHANGED <<row, count, lock, cancel, ctxDone, flag, apc, aborted, orderly>>

\* Slip: the result is appended and the counter left to the end.
ProgressUncounted(j) ==
    /\ pc[j] = "reporting"
    /\ row' = IF row.status # "running" THEN row
              ELSE [row EXCEPT !.results = @ + 1, !.by = @ \cup {j}]
    /\ Moves(j, "loop")
    /\ UNCHANGED <<count, lock, cancel, ctxDone, flag, apc, aborted, orderly>>

\* A row that is not running takes no progress.
Progress(j) ==
    /\ pc[j] = "reporting"
    /\ row' = IF row.status # "running" THEN row
              ELSE [row EXCEPT !.done = count[j], !.results = @ + 1, !.by = @ \cup {j}]
    /\ Moves(j, "loop")
    /\ UNCHANGED <<count, lock, cancel, ctxDone, flag, apc, aborted, orderly>>

\* The outcome is decided, and written in a later step.
End(j) ==
    /\ pc[j] = "ended"
    /\ Moves(j, IF Stopped(j) THEN "resetting" ELSE "finishing")
    /\ UNCHANGED <<row, count, lock, cancel, ctxDone, flag, apc, aborted, orderly>>

Reset(j) ==
    /\ pc[j] = "resetting"
    /\ row' = Idle
    /\ Moves(j, "clearing")
    /\ UNCHANGED <<count, lock, cancel, ctxDone, flag, apc, aborted, orderly>>

\* FinishAccountTestJob, whatever the row shows.
Finish(j) ==
    /\ pc[j] = "finishing"
    /\ row' = [row EXCEPT !.status = "completed", !.done = count[j], !.by = @ \cup {j}]
    /\ Moves(j, "clearing")
    /\ UNCHANGED <<count, lock, cancel, ctxDone, flag, apc, aborted, orderly>>

\* Slip: the mutex stays locked.
ClearOnly(j) ==
    /\ pc[j] = "clearing"
    /\ cancel' = NoRun /\ flag' = FALSE
    /\ Moves(j, "done")
    /\ UNCHANGED <<row, count, lock, ctxDone, apc, aborted, orderly>>

\* The deferred clear() and Unlock.
Clear(j) ==
    /\ pc[j] = "clearing"
    /\ cancel' = NoRun /\ flag' = FALSE /\ lock' = NoRun
    /\ Moves(j, "done")
    /\ UNCHANGED <<row, count, ctxDone, apc, aborted, orderly>>

Run(j) ==
    \/ Lock(j) \/ StartRunner(j) \/ Check(j) \/ Probe(j) \/ Report(j) \/ Progress(j)
    \/ End(j) \/ Reset(j) \/ Finish(j) \/ Clear(j)

-----------------------------------------------------------------------------
(* An abort, and a restart *)

\* How an interruption meets a run.
Meets(j) ==
    CASE pc[j] \in {"queued", "locked"} -> "early"
      [] AtWork(j) -> "running"
      [] pc[j] = "finishing" -> "late"
      [] OTHER -> aborted[j]

Interrupted == [j \in Runs |-> Meets(j)]

\* The handler looks for no test: the flag may go up with nobody to read it.
Flag(x) ==
    /\ apc[x] = "new"
    /\ flag' = TRUE
    /\ apc' = [apc EXCEPT ![x] = "flagged"]
    /\ aborted' = Interrupted
    /\ UNCHANGED <<row, pc, count, lock, cancel, ctxDone, orderly>>

Cancel(x) ==
    /\ apc[x] = "flagged"
    /\ ctxDone' = IF cancel = NoRun THEN ctxDone ELSE ctxDone \cup {cancel}
    /\ apc' = [apc EXCEPT ![x] = "cancelled"]
    /\ UNCHANGED <<row, pc, count, lock, cancel, flag, aborted, orderly>>

ResetRow(x) ==
    /\ apc[x] = "cancelled"
    /\ row' = Idle
    /\ apc' = [apc EXCEPT ![x] = "done"]
    /\ UNCHANGED <<pc, count, lock, cancel, ctxDone, flag, aborted, orderly>>

Abort(x) == Flag(x) \/ Cancel(x) \/ ResetRow(x)

\* Slip: the restart leaves the rows alone.
RestartKeepsRow ==
    /\ CanRestart
    /\ \E j \in Runs : InFlight(j)
    /\ pc' = [j \in Runs |-> IF InFlight(j) THEN "done" ELSE pc[j]]
    /\ apc' = [x \in Aborts |-> IF apc[x] = "new" THEN "new" ELSE "done"]
    /\ lock' = NoRun /\ cancel' = NoRun /\ flag' = FALSE
    /\ aborted' = Interrupted
    /\ UNCHANGED <<row, count, ctxDone, orderly>>

\* The process stops, and NewServer resets the rows left running.
Restart ==
    /\ CanRestart
    /\ \E j \in Runs : InFlight(j)
    /\ pc' = [j \in Runs |-> IF InFlight(j) THEN "done" ELSE pc[j]]
    /\ apc' = [x \in Aborts |-> IF apc[x] = "new" THEN "new" ELSE "done"]
    /\ lock' = NoRun /\ cancel' = NoRun /\ flag' = FALSE
    /\ row' = IF row.status = "running" THEN Idle ELSE row
    /\ aborted' = Interrupted
    /\ UNCHANGED <<count, ctxDone, orderly>>

Next ==
    \/ \E j \in Runs : Start(j) \/ Run(j)
    \/ \E x \in Aborts : Abort(x)
    \/ Restart

Spec == Init /\ [][Next]_vars

\* Goroutines are scheduled, probes time out, and the mutex of the key is fair.
FairSpec ==
    /\ Spec
    /\ \A j \in Runs : WF_vars(Run(j)) /\ SF_vars(Lock(j))
    /\ \A x \in Aborts : WF_vars(Cancel(x) \/ ResetRow(x))

-----------------------------------------------------------------------------
(* What the jobs must guarantee *)

\* A row that shows a running test has a run to end it: however starts, aborts
\* and restarts interleave, no page waits for a test that nobody runs.
RunningHasRun == row.status = "running" => \E j \in Runs : InFlight(j)

\* The row of a key keeps its shape, and a run to end it (test_jobs.go:61-86).
RowSound == TypeOK /\ RunningHasRun

\* An abort that met a run before its runner started, which start() forgets, or
\* after it had decided to finish: the run may miss it.
Missed(j) == aborted[j] \in {"early", "late"}

\* The row tells of one test: as many results as accounts done, all of them its
\* own, and all of its accounts once it is complete.
TellsOneTest ==
    /\ row.done = row.results /\ row.done <= row.total
    /\ row.by \subseteq {row.job}
    /\ row.status = "completed" => row.done = row.total

\* A row that an abort cleared, completed by the run that missed the abort.
TellsMissedAbort ==
    /\ row.status = "completed" /\ row.job = NoRun
    /\ row.total = 0 /\ row.results = 0
    /\ \E j \in Runs : row.by = {j} /\ Missed(j) /\ row.done = count[j]

\* What an administrator reads who starts a test when no other and no abort is
\* under way is that test, while it runs and when it is complete, whenever aborts
\* fall.  One exception is the code's: a run that misses an abort writes its
\* outcome over the cleared row (test_jobs.go:77-86).
RowTruthful == orderly => TellsOneTest \/ TellsMissedAbort

\* An abort that meets a run at work ends it before its next probe
\* (probe.go:99-105), whatever other runs and aborts do meanwhile.
AbortStopsProbes ==
    [][\A j \in Runs : aborted[j] = "running" => ~(pc[j] = "loop" /\ pc'[j] = "probing")]_vars

WipesUnaborted ==
    row.status = "running" /\ row'.status = "idle" /\ aborted'[row.job] = "no"

Overwrites(j) == row.status = "idle" /\ pc[j] = "finishing" /\ pc'[j] = "clearing"

\* For administrators who start one test at a time, the row of a test nobody
\* aborted is not wiped, and a run that an abort met at work writes no outcome over
\* what the abort cleared; one that missed the abort does (test_jobs.go:77-86).
AbortFinal ==
    [][orderly' => ~WipesUnaborted /\ \A j \in Runs : Overwrites(j) => Missed(j)]_vars

\* Every run ends, and no row shows a running test for ever: the mutex goes from
\* run to run, aborted or not (test_jobs.go:61-64).
RunsEnd == \A j \in Runs : pc[j] = "queued" ~> pc[j] = "done"
RowSettles == row.status = "running" ~> row.status # "running"
TestsEnd == RunsEnd /\ RowSettles

\* An abort holds: the run it meets at work probes no further account and writes no
\* outcome over what it cleared, and nothing else is wiped (probe.go:99-105,
\* test_jobs.go:70-86).
AbortsHold == AbortStopsProbes /\ AbortFinal
=============================================================================
