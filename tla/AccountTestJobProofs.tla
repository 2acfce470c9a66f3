------------------------- MODULE AccountTestJobProofs -------------------------
(***************************************************************************)
(* Theorems about AccountTestJob, for any number of tests of any size, any *)
(* number of aborts, and restarts.                                         *)
(***************************************************************************)
EXTENDS AccountTestJob, TLAPS

\* The run of the test that a running row shows is still to write its outcome.
RowHasOwner ==
    row.status = "running" =>
        row.job \in Runs /\ pc[row.job] \notin {"new", "clearing", "done"}

\* A run that is past the mutex holds it.
HoldsMutex ==
    \A j \in Runs : pc[j] \notin {"new", "queued", "done"} => lock = j

\* The flag of an abort that met a run at work stays up until the run clears it,
\* and no other flag is up while a run is at work.
AbortFlagged ==
    \A j \in Runs :
        /\ aborted[j] = "running" /\ pc[j] # "done" =>
               flag /\ pc[j] \notin {"new", "queued", "locked", "finishing"}
        /\ AtWork(j) /\ flag => aborted[j] = "running"

Sound == TypeOK /\ RowHasOwner /\ HoldsMutex /\ AbortFlagged

LEMMA InitSound == Init => Sound
<1> SUFFICES ASSUME Init PROVE Sound
  OBVIOUS
<1>1. row.status = "idle" /\ row \in [status : {"idle", "running", "completed"},
          job : Runs \cup {NoRun}, total : Nat, done : Nat, results : Nat, by : SUBSET Runs]
  <2>1. {} \in SUBSET Runs
    OBVIOUS
  <2> QED
    BY <2>1 DEF Init, Idle
<1>2. TypeOK
  BY <1>1 DEF Init, TypeOK, PCs
<1> QED
  BY <1>1, <1>2 DEF Init, Sound, RowHasOwner, HoldsMutex, AbortFlagged

LEMMA NextTypeOK == TypeOK /\ [Next]_vars => TypeOK'
<1> SUFFICES ASSUME TypeOK, [Next]_vars PROVE TypeOK'
  OBVIOUS
<1> USE SizeAssumption DEF TypeOK, PCs, Idle, Moves
<1>1. ASSUME NEW j \in Runs, Start(j) PROVE TypeOK'
  BY <1>1 DEF Start
<1>2. ASSUME NEW j \in Runs, Lock(j) PROVE TypeOK'
  BY <1>2 DEF Lock
<1>3. ASSUME NEW j \in Runs, StartRunner(j) PROVE TypeOK'
  BY <1>3 DEF StartRunner
<1>4. ASSUME NEW j \in Runs, Check(j) PROVE TypeOK'
  BY <1>4 DEF Check
<1>5. ASSUME NEW j \in Runs, Probe(j) PROVE TypeOK'
  BY <1>5 DEF Probe
<1>6. ASSUME NEW j \in Runs, Progress(j) PROVE TypeOK'
  <2>1. row' = row \/ row' = [row EXCEPT !.done = count[j], !.results = @ + 1, !.by = @ \cup {j}]
    BY <1>6 DEF Progress
  <2>2. /\ count[j] \in Nat /\ row.results + 1 \in Nat /\ row.by \cup {j} \in SUBSET Runs
    OBVIOUS
  <2>3. row' \in [status : {"idle", "running", "completed"}, job : Runs \cup {NoRun},
                  total : Nat, done : Nat, results : Nat, by : SUBSET Runs]
    BY <2>1, <2>2
  <2> QED
    BY <1>6, <2>3 DEF Progress
<1>7. ASSUME NEW j \in Runs, End(j) PROVE TypeOK'
  BY <1>7 DEF End
<1>8. ASSUME NEW j \in Runs, Reset(j) PROVE TypeOK'
  BY <1>8 DEF Reset
<1>9. ASSUME NEW j \in Runs, Finish(j) PROVE TypeOK'
  BY <1>9 DEF Finish
<1>10. ASSUME NEW j \in Runs, Clear(j) PROVE TypeOK'
  BY <1>10 DEF Clear
<1>11. ASSUME NEW x \in Aborts, Flag(x) PROVE TypeOK'
  BY <1>11 DEF Flag, Interrupted, Meets, AtWork
<1>12. ASSUME NEW x \in Aborts, Cancel(x) PROVE TypeOK'
  BY <1>12 DEF Cancel
<1>13. ASSUME NEW x \in Aborts, ResetRow(x) PROVE TypeOK'
  BY <1>13 DEF ResetRow
<1>14. CASE Restart
  BY <1>14 DEF Restart, Interrupted, Meets, AtWork
<1>15. CASE UNCHANGED vars
  BY <1>15 DEF vars
<1>16. ASSUME NEW j \in Runs, Report(j) PROVE TypeOK'
  BY <1>16 DEF Report
<1> QED
  BY <1>1, <1>2, <1>3, <1>4, <1>5, <1>6, <1>7, <1>8, <1>9, <1>10, <1>11, <1>12, <1>13, <1>14, <1>15, <1>16 DEF Next, Run, Abort

LEMMA NextRowHasOwner == TypeOK /\ RowHasOwner /\ [Next]_vars => RowHasOwner'
<1> SUFFICES ASSUME TypeOK, RowHasOwner, [Next]_vars PROVE RowHasOwner'
  OBVIOUS
<1> USE DEF TypeOK, RowHasOwner, Moves, Idle, InFlight
<1>1. ASSUME NEW j \in Runs, Start(j) PROVE RowHasOwner'
  BY <1>1 DEF Start
<1>2. ASSUME NEW j \in Runs, Lock(j) PROVE RowHasOwner'
  BY <1>2 DEF Lock
<1>3. ASSUME NEW j \in Runs, StartRunner(j) PROVE RowHasOwner'
  BY <1>3 DEF StartRunner
<1>4. ASSUME NEW j \in Runs, Check(j) PROVE RowHasOwner'
  BY <1>4 DEF Check
<1>5. ASSUME NEW j \in Runs, Probe(j) PROVE RowHasOwner'
  BY <1>5 DEF Probe
<1>6. ASSUME NEW j \in Runs, Progress(j) PROVE RowHasOwner'
  BY <1>6 DEF Progress
<1>7. ASSUME NEW j \in Runs, End(j) PROVE RowHasOwner'
  BY <1>7 DEF End
<1>8. ASSUME NEW j \in Runs, Reset(j) PROVE RowHasOwner'
  BY <1>8 DEF Reset
<1>9. ASSUME NEW j \in Runs, Finish(j) PROVE RowHasOwner'
  BY <1>9 DEF Finish
<1>10. ASSUME NEW j \in Runs, Clear(j) PROVE RowHasOwner'
  BY <1>10 DEF Clear
<1>11. ASSUME NEW x \in Aborts, Flag(x) PROVE RowHasOwner'
  BY <1>11 DEF Flag, Interrupted, Meets, AtWork
<1>12. ASSUME NEW x \in Aborts, Cancel(x) PROVE RowHasOwner'
  BY <1>12 DEF Cancel
<1>13. ASSUME NEW x \in Aborts, ResetRow(x) PROVE RowHasOwner'
  BY <1>13 DEF ResetRow
<1>14. CASE Restart
  BY <1>14 DEF Restart, Interrupted, Meets, AtWork
<1>15. CASE UNCHANGED vars
  BY <1>15 DEF vars
<1>16. ASSUME NEW j \in Runs, Report(j) PROVE RowHasOwner'
  BY <1>16 DEF Report
<1> QED
  BY <1>1, <1>2, <1>3, <1>4, <1>5, <1>6, <1>7, <1>8, <1>9, <1>10, <1>11, <1>12, <1>13, <1>14, <1>15, <1>16 DEF Next, Run, Abort

LEMMA NextHoldsMutex == TypeOK /\ HoldsMutex /\ [Next]_vars => HoldsMutex'
<1> SUFFICES ASSUME TypeOK, HoldsMutex, [Next]_vars PROVE HoldsMutex'
  OBVIOUS
<1> USE RunsAssumption DEF TypeOK, HoldsMutex, Moves, InFlight
<1>1. ASSUME NEW j \in Runs, Start(j) PROVE HoldsMutex'
  BY <1>1 DEF Start
<1>2. ASSUME NEW j \in Runs, Lock(j) PROVE HoldsMutex'
  BY <1>2 DEF Lock
<1>3. ASSUME NEW j \in Runs, StartRunner(j) PROVE HoldsMutex'
  BY <1>3 DEF StartRunner
<1>4. ASSUME NEW j \in Runs, Check(j) PROVE HoldsMutex'
  BY <1>4 DEF Check
<1>5. ASSUME NEW j \in Runs, Probe(j) PROVE HoldsMutex'
  BY <1>5 DEF Probe
<1>6. ASSUME NEW j \in Runs, Progress(j) PROVE HoldsMutex'
  BY <1>6 DEF Progress
<1>7. ASSUME NEW j \in Runs, End(j) PROVE HoldsMutex'
  BY <1>7 DEF End
<1>8. ASSUME NEW j \in Runs, Reset(j) PROVE HoldsMutex'
  BY <1>8 DEF Reset
<1>9. ASSUME NEW j \in Runs, Finish(j) PROVE HoldsMutex'
  BY <1>9 DEF Finish
<1>10. ASSUME NEW j \in Runs, Clear(j) PROVE HoldsMutex'
  BY <1>10 DEF Clear
<1>11. ASSUME NEW x \in Aborts, Flag(x) PROVE HoldsMutex'
  BY <1>11 DEF Flag, Interrupted, Meets, AtWork
<1>12. ASSUME NEW x \in Aborts, Cancel(x) PROVE HoldsMutex'
  BY <1>12 DEF Cancel
<1>13. ASSUME NEW x \in Aborts, ResetRow(x) PROVE HoldsMutex'
  BY <1>13 DEF ResetRow
<1>14. CASE Restart
  BY <1>14 DEF Restart, Interrupted, Meets, AtWork
<1>15. CASE UNCHANGED vars
  BY <1>15 DEF vars
<1>16. ASSUME NEW j \in Runs, Report(j) PROVE HoldsMutex'
  BY <1>16 DEF Report
<1> QED
  BY <1>1, <1>2, <1>3, <1>4, <1>5, <1>6, <1>7, <1>8, <1>9, <1>10, <1>11, <1>12, <1>13, <1>14, <1>15, <1>16 DEF Next, Run, Abort

LEMMA NextAbortFlagged == TypeOK /\ HoldsMutex /\ AbortFlagged /\ [Next]_vars => AbortFlagged'
<1> SUFFICES ASSUME TypeOK, HoldsMutex, AbortFlagged, [Next]_vars PROVE AbortFlagged'
  OBVIOUS
<1> USE RunsAssumption DEF TypeOK, HoldsMutex, AbortFlagged, Moves, InFlight, AtWork
<1>1. ASSUME NEW j \in Runs, Start(j) PROVE AbortFlagged'
  BY <1>1 DEF Start
<1>2. ASSUME NEW j \in Runs, Lock(j) PROVE AbortFlagged'
  BY <1>2 DEF Lock
<1>3. ASSUME NEW j \in Runs, StartRunner(j) PROVE AbortFlagged'
  BY <1>3 DEF StartRunner
<1>4. ASSUME NEW j \in Runs, Check(j) PROVE AbortFlagged'
  BY <1>4 DEF Check
<1>5. ASSUME NEW j \in Runs, Probe(j) PROVE AbortFlagged'
  BY <1>5 DEF Probe
<1>6. ASSUME NEW j \in Runs, Progress(j) PROVE AbortFlagged'
  BY <1>6 DEF Progress
<1>7. ASSUME NEW j \in Runs, End(j) PROVE AbortFlagged'
  BY <1>7 DEF End, Stopped
<1>8. ASSUME NEW j \in Runs, Reset(j) PROVE AbortFlagged'
  BY <1>8 DEF Reset
<1>9. ASSUME NEW j \in Runs, Finish(j) PROVE AbortFlagged'
  BY <1>9 DEF Finish
<1>10. ASSUME NEW j \in Runs, Clear(j) PROVE AbortFlagged'
  BY <1>10 DEF Clear
<1>11. ASSUME NEW x \in Aborts, Flag(x) PROVE AbortFlagged'
  BY <1>11 DEF Flag, Interrupted, Meets, AtWork
<1>12. ASSUME NEW x \in Aborts, Cancel(x) PROVE AbortFlagged'
  BY <1>12 DEF Cancel
<1>13. ASSUME NEW x \in Aborts, ResetRow(x) PROVE AbortFlagged'
  BY <1>13 DEF ResetRow
<1>14. CASE Restart
  BY <1>14 DEF Restart, Interrupted, Meets, AtWork
<1>15. CASE UNCHANGED vars
  BY <1>15 DEF vars
<1>16. ASSUME NEW j \in Runs, Report(j) PROVE AbortFlagged'
  BY <1>16 DEF Report
<1> QED
  BY <1>1, <1>2, <1>3, <1>4, <1>5, <1>6, <1>7, <1>8, <1>9, <1>10, <1>11, <1>12, <1>13, <1>14, <1>15, <1>16 DEF Next, Run, Abort

LEMMA SoundAlways == Spec => []Sound
<1>1. Sound /\ [Next]_vars => Sound'
  BY NextTypeOK, NextRowHasOwner, NextHoldsMutex, NextAbortFlagged DEF Sound
<1> QED
  BY InitSound, <1>1, PTL DEF Spec

\* Types: the row of a key takes no other shape, whatever runs and aborts write.
THEOREM JobTypeCorrect == Spec => []TypeOK
BY SoundAlways, PTL DEF Sound

\* A row that shows a running test has a run to end it, however many tests are
\* started, aborted or cut by a restart (NewServer resets the rows left running).
THEOREM RowsHaveRuns == Spec => []RunningHasRun
<1>1. Sound => RunningHasRun
  BY DEF Sound, RowHasOwner, RunningHasRun, InFlight
<1> QED
  BY SoundAlways, <1>1, PTL

\* The row keeps its shape and has a run to end it.
THEOREM RowsSound == Spec => []RowSound
BY JobTypeCorrect, RowsHaveRuns, PTL DEF RowSound

\* An abort that meets a run at work ends it before its next probe: only the run
\* that holds the mutex of the key lowers the flag (runPersistedAccountTests).
THEOREM AbortsStopProbes == Spec => AbortStopsProbes
<1>1. Sound /\ [Next]_vars =>
        [\A j \in Runs : aborted[j] = "running" => ~(pc[j] = "loop" /\ pc'[j] = "probing")]_vars
  <2> SUFFICES ASSUME Sound, Next, NEW j \in Runs,
                      aborted[j] = "running", pc[j] = "loop"
               PROVE  pc'[j] # "probing"
    OBVIOUS
  <2> USE DEF Sound, TypeOK, Moves
  <2>1. flag
    BY DEF AbortFlagged
  <2>2. ASSUME NEW i \in Runs, Start(i) \/ Run(i) PROVE pc'[j] # "probing"
    BY <2>1, <2>2 DEF Start, Run, Lock, StartRunner, Check, Stopped, Probe, Report, Progress, End,
       Reset, Finish, Clear
  <2>3. ASSUME NEW x \in Aborts, Abort(x) PROVE pc'[j] # "probing"
    BY <2>3 DEF Abort, Flag, Cancel, ResetRow
  <2>4. CASE Restart
    BY <2>4 DEF Restart
  <2> QED
    BY <2>2, <2>3, <2>4 DEF Next
<1> QED
  BY SoundAlways, <1>1, PTL DEF Spec, AbortStopsProbes

-----------------------------------------------------------------------------
(* Tests that are started one at a time *)

\* The cancel function is the one of the run at work, and no run is cancelled
\* before it has published its own.
CancelOfRunner ==
    /\ cancel # NoRun => lock = cancel /\ pc[cancel] \notin {"new", "queued", "locked", "done"}
    /\ \A j \in ctxDone : pc[j] \notin {"new", "queued", "locked"}

\* A run probes no account beyond its last, and stops short only when told to.
CountBounded ==
    \A j \in Runs :
        /\ count[j] <= Size[j]
        /\ pc[j] \in {"new", "queued", "locked"} => count[j] = 0
        /\ pc[j] = "probing" => count[j] < Size[j]
        /\ pc[j] = "finishing" => count[j] = Size[j]
        /\ pc[j] = "ended" /\ count[j] # Size[j] => Stopped(j)

\* No abort meets a run before it starts.
NewUnmet == \A j \in Runs : pc[j] = "new" => aborted[j] = "no"

\* One test at a time, and an abort under way has met it.
OneAtATime ==
    /\ \A i, j \in Runs : InFlight(i) /\ InFlight(j) => i = j
    /\ \A j \in Runs :
          /\ InFlight(j) /\ pc[j] # "clearing"
          /\ j \in ctxDone \/ (\E x \in Aborts : apc[x] \in {"flagged", "cancelled"})
          => aborted[j] # "no"

\* A run has written what it counted, but for what an abort at work kept it from.
Written(j) ==
    /\ pc[j] \in {"probed", "reporting"} => row.results + 1 = count[j]
    /\ pc[j] = "probing" => row.results = count[j]
    /\ pc[j] \notin {"probed", "reporting"} /\ aborted[j] # "running" => row.results = count[j]

Mine(j) == row.status = "running" /\ row.job = j /\ row.total = Size[j] /\ Written(j)

\* The row is that of the run in flight, unless an abort that met the run cleared it.
RowOfRun ==
    \A j \in Runs : InFlight(j) /\ pc[j] # "clearing" =>
        /\ Mine(j) \/ (row = Idle /\ aborted[j] # "no")
        /\ pc[j] = "resetting" => aborted[j] # "no"

RowSays == TellsOneTest \/ TellsMissedAbort

Orderly == orderly => OneAtATime /\ RowOfRun /\ RowSays

LEMMA NextCancelOfRunner == TypeOK /\ HoldsMutex /\ CancelOfRunner /\ [Next]_vars => CancelOfRunner'
<1> SUFFICES ASSUME TypeOK, HoldsMutex, CancelOfRunner, [Next]_vars PROVE CancelOfRunner'
  OBVIOUS
<1> USE RunsAssumption DEF TypeOK, HoldsMutex, CancelOfRunner, Moves, InFlight
<1>1. ASSUME NEW j \in Runs, Start(j) PROVE CancelOfRunner'
  BY <1>1 DEF Start, Quiet
<1>2. ASSUME NEW j \in Runs, Lock(j) PROVE CancelOfRunner'
  BY <1>2 DEF Lock
<1>3. ASSUME NEW j \in Runs, StartRunner(j) PROVE CancelOfRunner'
  BY <1>3 DEF StartRunner
<1>4. ASSUME NEW j \in Runs, Check(j) PROVE CancelOfRunner'
  BY <1>4 DEF Check, Stopped
<1>5. ASSUME NEW j \in Runs, Probe(j) PROVE CancelOfRunner'
  BY <1>5 DEF Probe
<1>6. ASSUME NEW j \in Runs, Progress(j) PROVE CancelOfRunner'
  BY <1>6 DEF Progress
<1>7. ASSUME NEW j \in Runs, End(j) PROVE CancelOfRunner'
  BY <1>7 DEF End, Stopped
<1>8. ASSUME NEW j \in Runs, Reset(j) PROVE CancelOfRunner'
  BY <1>8 DEF Reset
<1>9. ASSUME NEW j \in Runs, Finish(j) PROVE CancelOfRunner'
  BY <1>9 DEF Finish
<1>10. ASSUME NEW j \in Runs, Clear(j) PROVE CancelOfRunner'
  BY <1>10 DEF Clear
<1>11. ASSUME NEW x \in Aborts, Flag(x) PROVE CancelOfRunner'
  BY <1>11 DEF Flag, Interrupted, Meets, AtWork
<1>12. ASSUME NEW x \in Aborts, Cancel(x) PROVE CancelOfRunner'
  BY <1>12 DEF Cancel
<1>13. ASSUME NEW x \in Aborts, ResetRow(x) PROVE CancelOfRunner'
  BY <1>13 DEF ResetRow
<1>14. CASE Restart
  BY <1>14 DEF Restart, Interrupted, Meets, AtWork
<1>15. CASE UNCHANGED vars
  BY <1>15 DEF vars
<1>16. ASSUME NEW j \in Runs, Report(j) PROVE CancelOfRunner'
  BY <1>16 DEF Report
<1> QED
  BY <1>1, <1>2, <1>3, <1>4, <1>5, <1>6, <1>7, <1>8, <1>9, <1>10, <1>11, <1>12, <1>13, <1>14, <1>15, <1>16 DEF Next, Run, Abort

LEMMA NextCountBounded == TypeOK /\ HoldsMutex /\ CountBounded /\ [Next]_vars => CountBounded'
<1> SUFFICES ASSUME TypeOK, HoldsMutex, CountBounded, [Next]_vars PROVE CountBounded'
  OBVIOUS
<1> USE RunsAssumption, SizeAssumption DEF TypeOK, HoldsMutex, CountBounded, Moves, InFlight, Stopped
<1>1. ASSUME NEW j \in Runs, Start(j) PROVE CountBounded'
  BY <1>1 DEF Start, Quiet
<1>2. ASSUME NEW j \in Runs, Lock(j) PROVE CountBounded'
  BY <1>2 DEF Lock
<1>3. ASSUME NEW j \in Runs, StartRunner(j) PROVE CountBounded'
  BY <1>3 DEF StartRunner
<1>4. ASSUME NEW j \in Runs, Check(j) PROVE CountBounded'
  BY <1>4 DEF Check, Stopped
<1>5. ASSUME NEW j \in Runs, Probe(j) PROVE CountBounded'
  BY <1>5 DEF Probe
<1>6. ASSUME NEW j \in Runs, Progress(j) PROVE CountBounded'
  BY <1>6 DEF Progress
<1>7. ASSUME NEW j \in Runs, End(j) PROVE CountBounded'
  BY <1>7 DEF End, Stopped
<1>8. ASSUME NEW j \in Runs, Reset(j) PROVE CountBounded'
  BY <1>8 DEF Reset
<1>9. ASSUME NEW j \in Runs, Finish(j) PROVE CountBounded'
  BY <1>9 DEF Finish
<1>10. ASSUME NEW j \in Runs, Clear(j) PROVE CountBounded'
  BY <1>10 DEF Clear
<1>11. ASSUME NEW x \in Aborts, Flag(x) PROVE CountBounded'
  BY <1>11 DEF Flag, Interrupted, Meets, AtWork
<1>12. ASSUME NEW x \in Aborts, Cancel(x) PROVE CountBounded'
  BY <1>12 DEF Cancel
<1>13. ASSUME NEW x \in Aborts, ResetRow(x) PROVE CountBounded'
  BY <1>13 DEF ResetRow
<1>14. CASE Restart
  BY <1>14 DEF Restart, Interrupted, Meets, AtWork
<1>15. CASE UNCHANGED vars
  BY <1>15 DEF vars
<1>16. ASSUME NEW j \in Runs, Report(j) PROVE CountBounded'
  BY <1>16 DEF Report
<1> QED
  BY <1>1, <1>2, <1>3, <1>4, <1>5, <1>6, <1>7, <1>8, <1>9, <1>10, <1>11, <1>12, <1>13, <1>14, <1>15, <1>16 DEF Next, Run, Abort

LEMMA NextNewUnmet == TypeOK /\ NewUnmet /\ [Next]_vars => NewUnmet'
<1> SUFFICES ASSUME TypeOK, NewUnmet, [Next]_vars PROVE NewUnmet'
  OBVIOUS
<1> USE DEF TypeOK, NewUnmet, Moves, InFlight
<1>1. ASSUME NEW j \in Runs, Start(j) PROVE NewUnmet'
  BY <1>1 DEF Start, Quiet
<1>2. ASSUME NEW j \in Runs, Lock(j) PROVE NewUnmet'
  BY <1>2 DEF Lock
<1>3. ASSUME NEW j \in Runs, StartRunner(j) PROVE NewUnmet'
  BY <1>3 DEF StartRunner
<1>4. ASSUME NEW j \in Runs, Check(j) PROVE NewUnmet'
  BY <1>4 DEF Check, Stopped
<1>5. ASSUME NEW j \in Runs, Probe(j) PROVE NewUnmet'
  BY <1>5 DEF Probe
<1>6. ASSUME NEW j \in Runs, Progress(j) PROVE NewUnmet'
  BY <1>6 DEF Progress
<1>7. ASSUME NEW j \in Runs, End(j) PROVE NewUnmet'
  BY <1>7 DEF End, Stopped
<1>8. ASSUME NEW j \in Runs, Reset(j) PROVE NewUnmet'
  BY <1>8 DEF Reset
<1>9. ASSUME NEW j \in Runs, Finish(j) PROVE NewUnmet'
  BY <1>9 DEF Finish
<1>10. ASSUME NEW j \in Runs, Clear(j) PROVE NewUnmet'
  BY <1>10 DEF Clear
<1>11. ASSUME NEW x \in Aborts, Flag(x) PROVE NewUnmet'
  BY <1>11 DEF Flag, Interrupted, Meets, AtWork
<1>12. ASSUME NEW x \in Aborts, Cancel(x) PROVE NewUnmet'
  BY <1>12 DEF Cancel
<1>13. ASSUME NEW x \in Aborts, ResetRow(x) PROVE NewUnmet'
  BY <1>13 DEF ResetRow
<1>14. CASE Restart
  BY <1>14 DEF Restart, Interrupted, Meets, AtWork
<1>15. CASE UNCHANGED vars
  BY <1>15 DEF vars
<1>16. ASSUME NEW j \in Runs, Report(j) PROVE NewUnmet'
  BY <1>16 DEF Report
<1> QED
  BY <1>1, <1>2, <1>3, <1>4, <1>5, <1>6, <1>7, <1>8, <1>9, <1>10, <1>11, <1>12, <1>13, <1>14, <1>15, <1>16 DEF Next, Run, Abort

LEMMA NextOneAtATime == Sound /\ NewUnmet /\ CancelOfRunner /\ CountBounded /\ Orderly /\ [Next]_vars => (orderly => OneAtATime)'
<1> SUFFICES ASSUME Sound, NewUnmet, CancelOfRunner, CountBounded, Orderly, [Next]_vars PROVE (orderly => OneAtATime)'
  OBVIOUS
<1> USE RunsAssumption DEF Sound, TypeOK, HoldsMutex, AbortFlagged, CancelOfRunner, NewUnmet, Orderly, OneAtATime, Moves, InFlight, AtWork
<1>1. ASSUME NEW j \in Runs, Start(j) PROVE (orderly => OneAtATime)'
  <2> SUFFICES ASSUME orderly' PROVE OneAtATime'
    OBVIOUS
  <2>1. /\ \A i \in Runs : ~InFlight(i)
        /\ \A x \in Aborts : apc[x] \notin {"flagged", "cancelled"}
        /\ j \notin ctxDone
    BY <1>1 DEF Start, Quiet
  <2>2. aborted[j] = "no"
    BY <1>1 DEF Start
  <2> QED
    BY <1>1, <2>1, <2>2 DEF Start
<1>2. ASSUME NEW j \in Runs, Lock(j) PROVE (orderly => OneAtATime)'
  BY <1>2 DEF Lock
<1>3. ASSUME NEW j \in Runs, StartRunner(j) PROVE (orderly => OneAtATime)'
  BY <1>3 DEF StartRunner
<1>4. ASSUME NEW j \in Runs, Check(j) PROVE (orderly => OneAtATime)'
  BY <1>4 DEF Check, Stopped
<1>5. ASSUME NEW j \in Runs, Probe(j) PROVE (orderly => OneAtATime)'
  BY <1>5 DEF Probe
<1>6. ASSUME NEW j \in Runs, Progress(j) PROVE (orderly => OneAtATime)'
  BY <1>6 DEF Progress
<1>7. ASSUME NEW j \in Runs, End(j) PROVE (orderly => OneAtATime)'
  BY <1>7 DEF End, Stopped
<1>8. ASSUME NEW j \in Runs, Reset(j) PROVE (orderly => OneAtATime)'
  BY <1>8 DEF Reset
<1>9. ASSUME NEW j \in Runs, Finish(j) PROVE (orderly => OneAtATime)'
  BY <1>9 DEF Finish
<1>10. ASSUME NEW j \in Runs, Clear(j) PROVE (orderly => OneAtATime)'
  BY <1>10 DEF Clear
<1>11. ASSUME NEW x \in Aborts, Flag(x) PROVE (orderly => OneAtATime)'
  BY <1>11 DEF Flag, Interrupted, Meets, AtWork, PCs, RowOfRun
<1>12. ASSUME NEW x \in Aborts, Cancel(x) PROVE (orderly => OneAtATime)'
  BY <1>12 DEF Cancel
<1>13. ASSUME NEW x \in Aborts, ResetRow(x) PROVE (orderly => OneAtATime)'
  BY <1>13 DEF ResetRow
<1>14. CASE Restart
  BY <1>14 DEF Restart, Interrupted, Meets, AtWork
<1>15. CASE UNCHANGED vars
  BY <1>15 DEF vars
<1>16. ASSUME NEW j \in Runs, Report(j) PROVE (orderly => OneAtATime)'
  BY <1>16 DEF Report
<1> QED
  BY <1>1, <1>2, <1>3, <1>4, <1>5, <1>6, <1>7, <1>8, <1>9, <1>10, <1>11, <1>12, <1>13, <1>14, <1>15, <1>16 DEF Next, Run, Abort

LEMMA NextRowOfRun == Sound /\ NewUnmet /\ CancelOfRunner /\ CountBounded /\ Orderly /\ [Next]_vars => (orderly => RowOfRun)'
<1> SUFFICES ASSUME Sound, NewUnmet, CancelOfRunner, CountBounded, Orderly, [Next]_vars PROVE (orderly => RowOfRun)'
  OBVIOUS
<1> USE RunsAssumption, SizeAssumption DEF Sound, TypeOK, HoldsMutex, AbortFlagged, CancelOfRunner, CountBounded, Orderly, OneAtATime, RowOfRun, Written, Mine, RowSays, TellsOneTest, TellsMissedAbort, Missed, Moves, Idle, InFlight, AtWork
<1>1. ASSUME NEW j \in Runs, Start(j) PROVE (orderly => RowOfRun)'
  BY <1>1 DEF Start, Quiet
<1>2. ASSUME NEW j \in Runs, Lock(j) PROVE (orderly => RowOfRun)'
  BY <1>2 DEF Lock
<1>3. ASSUME NEW j \in Runs, StartRunner(j) PROVE (orderly => RowOfRun)'
  BY <1>3 DEF StartRunner
<1>4. ASSUME NEW j \in Runs, Check(j) PROVE (orderly => RowOfRun)'
  BY <1>4 DEF Check, Stopped
<1>5. ASSUME NEW j \in Runs, Probe(j) PROVE (orderly => RowOfRun)'
  BY <1>5 DEF Probe
<1>6. ASSUME NEW j \in Runs, Progress(j) PROVE (orderly => RowOfRun)'
  BY <1>6 DEF Progress
<1>7. ASSUME NEW j \in Runs, End(j) PROVE (orderly => RowOfRun)'
  BY <1>7 DEF End, Stopped
<1>8. ASSUME NEW j \in Runs, Reset(j) PROVE (orderly => RowOfRun)'
  BY <1>8 DEF Reset
<1>9. ASSUME NEW j \in Runs, Finish(j) PROVE (orderly => RowOfRun)'
  BY <1>9 DEF Finish
<1>10. ASSUME NEW j \in Runs, Clear(j) PROVE (orderly => RowOfRun)'
  BY <1>10 DEF Clear
<1>11. ASSUME NEW x \in Aborts, Flag(x) PROVE (orderly => RowOfRun)'
  BY <1>11 DEF Flag, Interrupted, Meets, AtWork
<1>12. ASSUME NEW x \in Aborts, Cancel(x) PROVE (orderly => RowOfRun)'
  BY <1>12 DEF Cancel
<1>13. ASSUME NEW x \in Aborts, ResetRow(x) PROVE (orderly => RowOfRun)'
  BY <1>13 DEF ResetRow
<1>14. CASE Restart
  BY <1>14 DEF Restart, Interrupted, Meets, AtWork
<1>15. CASE UNCHANGED vars
  BY <1>15 DEF vars
<1>16. ASSUME NEW j \in Runs, Report(j) PROVE (orderly => RowOfRun)'
  BY <1>16 DEF Report
<1> QED
  BY <1>1, <1>2, <1>3, <1>4, <1>5, <1>6, <1>7, <1>8, <1>9, <1>10, <1>11, <1>12, <1>13, <1>14, <1>15, <1>16 DEF Next, Run, Abort

LEMMA NextRowSays == Sound /\ NewUnmet /\ CancelOfRunner /\ CountBounded /\ Orderly /\ [Next]_vars => (orderly => RowSays)'
<1> SUFFICES ASSUME Sound, NewUnmet, CancelOfRunner, CountBounded, Orderly, [Next]_vars PROVE (orderly => RowSays)'
  OBVIOUS
<1> USE RunsAssumption, SizeAssumption DEF Sound, TypeOK, RowHasOwner, HoldsMutex, AbortFlagged, CancelOfRunner, CountBounded, Orderly, OneAtATime, RowOfRun, Written, Mine, RowSays, TellsOneTest, TellsMissedAbort, Missed, Moves, Idle, InFlight, AtWork
<1>1. ASSUME NEW j \in Runs, Start(j) PROVE (orderly => RowSays)'
  BY <1>1 DEF Start, Quiet
<1>2. ASSUME NEW j \in Runs, Lock(j) PROVE (orderly => RowSays)'
  BY <1>2 DEF Lock
<1>3. ASSUME NEW j \in Runs, StartRunner(j) PROVE (orderly => RowSays)'
  BY <1>3 DEF StartRunner
<1>4. ASSUME NEW j \in Runs, Check(j) PROVE (orderly => RowSays)'
  BY <1>4 DEF Check, Stopped
<1>5. ASSUME NEW j \in Runs, Probe(j) PROVE (orderly => RowSays)'
  BY <1>5 DEF Probe
<1>6. ASSUME NEW j \in Runs, Progress(j) PROVE (orderly => RowSays)'
  BY <1>6 DEF Progress
<1>7. ASSUME NEW j \in Runs, End(j) PROVE (orderly => RowSays)'
  BY <1>7 DEF End, Stopped
<1>8. ASSUME NEW j \in Runs, Reset(j) PROVE (orderly => RowSays)'
  BY <1>8 DEF Reset
<1>9. ASSUME NEW j \in Runs, Finish(j) PROVE (orderly => RowSays)'
  BY <1>9 DEF Finish
<1>10. ASSUME NEW j \in Runs, Clear(j) PROVE (orderly => RowSays)'
  BY <1>10 DEF Clear
<1>11. ASSUME NEW x \in Aborts, Flag(x) PROVE (orderly => RowSays)'
  BY <1>11 DEF Flag, Interrupted, Meets, AtWork
<1>12. ASSUME NEW x \in Aborts, Cancel(x) PROVE (orderly => RowSays)'
  BY <1>12 DEF Cancel
<1>13. ASSUME NEW x \in Aborts, ResetRow(x) PROVE (orderly => RowSays)'
  BY <1>13 DEF ResetRow
<1>14. CASE Restart
  BY <1>14 DEF Restart, Interrupted, Meets, AtWork
<1>15. CASE UNCHANGED vars
  BY <1>15 DEF vars
<1>16. ASSUME NEW j \in Runs, Report(j) PROVE (orderly => RowSays)'
  BY <1>16 DEF Report
<1> QED
  BY <1>1, <1>2, <1>3, <1>4, <1>5, <1>6, <1>7, <1>8, <1>9, <1>10, <1>11, <1>12, <1>13, <1>14, <1>15, <1>16 DEF Next, Run, Abort

Waiting == Sound /\ CancelOfRunner /\ CountBounded /\ NewUnmet /\ Orderly

LEMMA WaitingAlways == Spec => []Waiting
<1>1. Init => Waiting
  <2> SUFFICES ASSUME Init PROVE Waiting
    OBVIOUS
  <2>1. Sound
    BY InitSound
  <2>2. CancelOfRunner /\ CountBounded /\ NewUnmet
    BY SizeAssumption DEF Init, CancelOfRunner, CountBounded, NewUnmet
  <2>3. OneAtATime /\ RowOfRun
    BY DEF Init, OneAtATime, RowOfRun, InFlight
  <2>4. RowSays
    BY DEF Init, Idle, RowSays, TellsOneTest
  <2> QED
    BY <2>1, <2>2, <2>3, <2>4 DEF Waiting, Orderly
<1>2. Waiting /\ [Next]_vars => Waiting'
  <2> SUFFICES ASSUME Waiting, [Next]_vars PROVE Waiting'
    OBVIOUS
  <2>1. Sound'
    BY NextTypeOK, NextRowHasOwner, NextHoldsMutex, NextAbortFlagged DEF Waiting, Sound
  <2>2. CancelOfRunner' /\ CountBounded' /\ NewUnmet'
    BY NextCancelOfRunner, NextCountBounded, NextNewUnmet DEF Waiting, Sound
  <2>3. (orderly => OneAtATime)' /\ (orderly => RowOfRun)' /\ (orderly => RowSays)'
    BY NextOneAtATime, NextRowOfRun, NextRowSays DEF Waiting
  <2> QED
    BY <2>1, <2>2, <2>3 DEF Waiting, Orderly
<1> QED
  BY <1>1, <1>2, PTL DEF Spec

\* An administrator who starts a test when no other and no abort is under way reads
\* results of that test alone, each counted, and of all its accounts once it is
\* complete, whenever aborts and restarts fall; a run that missed an abort completes
\* the cleared row, and no other row tells anything else (test_jobs.go:61-86).
THEOREM RowsTruthful == Spec => []RowTruthful
<1>1. Waiting => RowTruthful
  BY DEF Waiting, Orderly, RowSays, RowTruthful
<1> QED
  BY WaitingAlways, <1>1, PTL

Final == ~WipesUnaborted /\ \A j \in Runs : Overwrites(j) => Missed(j)

\* A run that an abort met at work writes no outcome over the row it cleared, and no
\* row of a test that nobody aborted is wiped, when tests are started one at a time.
LEMMA AbortsAreFinal == Spec => AbortFinal
<1>1. Waiting /\ [Next]_vars => [orderly' => Final]_vars
  <2> SUFFICES ASSUME Waiting, Next, orderly' PROVE Final
    OBVIOUS
  <2>1. orderly
    BY DEF Next, Run, Abort, Start, Lock, StartRunner, Check, Probe, Report, Progress, End,
       Reset, Finish, Clear, Flag, Cancel, ResetRow, Restart
  <2>2. ~WipesUnaborted
    <3> USE <2>1, RunsAssumption DEF Waiting, Sound, TypeOK, RowHasOwner, Orderly, OneAtATime,
            RowOfRun, Mine, InFlight, Idle, Moves, WipesUnaborted
    <3>1. ASSUME NEW j \in Runs, Start(j) \/ Progress(j) \/ Finish(j) PROVE ~WipesUnaborted
      <4>1. row'.status \in {row.status, "running", "completed"}
        <5>1. CASE Start(j)
          BY <5>1 DEF Start
        <5>2. CASE Progress(j)
          BY <5>2 DEF Progress
        <5>3. CASE Finish(j)
          BY <5>3 DEF Finish
        <5> QED
          BY <3>1, <5>1, <5>2, <5>3
      <4> QED
        BY <4>1
    <3>2. ASSUME NEW j \in Runs, Reset(j) PROVE ~WipesUnaborted
      BY <3>2 DEF Reset
    <3>3. ASSUME NEW j \in Runs, Lock(j) \/ StartRunner(j) \/ Check(j) \/ Probe(j) \/ Report(j)
                                \/ End(j) \/ Clear(j)
          PROVE  ~WipesUnaborted
      BY <3>3 DEF Lock, StartRunner, Check, Probe, Report, End, Clear
    <3>4. ASSUME NEW x \in Aborts, Flag(x) \/ Cancel(x) PROVE ~WipesUnaborted
      BY <3>4 DEF Flag, Cancel
    <3>6. ASSUME NEW x \in Aborts, ResetRow(x) PROVE ~WipesUnaborted
      <4>1. apc[x] = "cancelled" /\ aborted' = aborted
        BY <3>6 DEF ResetRow
      <4>2. ASSUME row.status = "running" PROVE aborted[row.job] # "no"
        BY <4>1, <4>2
      <4> QED
        BY <4>1, <4>2
    <3>5. CASE Restart
      BY <3>5 DEF Restart, Interrupted, Meets, AtWork, PCs
    <3> QED
      BY <3>1, <3>2, <3>3, <3>4, <3>5, <3>6 DEF Next, Run, Abort
  <2>3. ASSUME NEW j \in Runs, Overwrites(j) PROVE Missed(j)
    <3>1. aborted[j] # "no"
      BY <2>1, <2>3 DEF Overwrites, Waiting, Orderly, RowOfRun, Mine, InFlight
    <3>2. aborted[j] # "running"
      BY <2>3 DEF Overwrites, Waiting, Sound, AbortFlagged
    <3> QED
      BY <3>1, <3>2 DEF Missed, Waiting, Sound, TypeOK
  <2> QED
    BY <2>2, <2>3 DEF Final
<1> QED
  BY WaitingAlways, <1>1, PTL DEF Spec, AbortFinal, Final

\* An abort holds: the run it meets at work probes no further account and writes no
\* outcome over what the abort cleared (probe.go:99-105, test_jobs.go:70-86).
THEOREM AbortsAlwaysHold == Spec => AbortsHold
BY AbortsStopProbes, AbortsAreFinal DEF AbortsHold
=============================================================================
