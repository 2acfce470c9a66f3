# whale2api in TLA+

whale2api is a gateway: clients speak the OpenAI protocol to it, and it answers
from a pool of upstream accounts. The hard part of it is not the translation of
one protocol into the other but the bookkeeping around it: accounts are leased
to requests, found muted or banned in the middle of a completion, replaced, and
given back; tokens are refreshed by one request for many; answers pause, are
continued, break and are asked for again while a client reads them; histories
are written while newer ones push them out; tests of accounts are started and
aborted from a page. This directory models that bookkeeping, checks it with TLC
on small instances, and proves the invariants of its core with TLAPS for
instances of every size.

To run: `tlc -config pool_safety.cfg MCAccountPool` (each run of `PROJECT.json`
names its module and its cfg), `tlapm AccountPoolProofs.tla`.

## The system

| part | source | state | operations |
| --- | --- | --- | --- |
| account pool | `internal/account` | rotation, catalogue, leases per account, FIFO of sleepers, guards of discarded accounts | AcquireWait, Release, Remove, UpdateAccounts |
| managed authentication | `internal/auth` | account and token of a request, tried accounts, token memory, one login per account | Determine, RefreshToken, SwitchAccount, discard, Release |
| upstream client | `internal/deepseek/client` | upload semaphore; otherwise per call | CreateSession, CallCompletion, auto-continue, UploadFile, DeleteSession |
| completion runtime | `internal/completionruntime` | session, attempts | StartCompletion, ExecuteNonStreamWithRetry |
| private context cache | `internal/privatecontext` | uploads by key, uploads under way | Upload |
| line pump, stream engine | `internal/sse`, `internal/stream` | held back text, flush timers, idle timers | pump, ConsumeSSE |
| chat and responses handlers | `internal/httpapi/openai` | stream runtimes, store of responses with a time to live | ChatCompletions, Responses, GetResponseByID |
| chat histories | `internal/chathistory` | details, index, what is dirty, files | Start, Update, Delete, Clear, SetLimit, load, save |
| recorders | `chat/chat_history.go`, `internal/responsehistory` | entry of the request | start, progress, success, error, stopped |
| pool database | `internal/pooldb` | SQLite: keys, accounts, discards, mutes, tokens, test jobs | snapshot, discard, import, job rows |
| pool UI, test jobs | `internal/poolui` | mutex, context and flag per key | start, abort, probe, restart |
| device harvester | `tools/device-harvest` | queue of harvests | run |
| conversions | `prompt`, `promptcompat`, `toolcall`, `format`, `internal/js` | none | request to prompt, text to tool calls |

How they interact. A handler asks managed authentication for an account, which
loads the accounts of the gateway key from SQLite, merges them into the pool
(UpdateAccounts) and calls AcquireWait. The runtime then creates a session
upstream and streams a completion; an error classified as a mute or a ban
discards the account in SQLite and removes it from the pool, and the runtime
switches to another. Meanwhile the recorder of the request writes its history.
The handler's deferred Release ends the lease and wakes the head of the FIFO.
The pool UI is another process on the same SQLite file: it edits accounts and
tests them, and the gateway learns of it by its next snapshot.

What is hard there: critical sections of many requests interleave between the
lock and the channel; snapshots are older than what they are merged into; a
save is several file operations that may fail or be cut; the row, the flag and
the context of a test are shared by all tests of a key. `PROJECT.json` lists the
hazards, each at its line, and the properties that answer it.

## What makes each part correct

| part | it must be that |
| --- | --- |
| account pool | no account has more leases than its limit, the count is the truth, nobody sleeps beside a free account for ever, a discarded account is not leased again while its guard lasts |
| managed authentication | every lease ends once, a token is of the account that is leased, logins are single, a refused token is renewed once, a ban is recorded |
| upstream client | a completion that pauses is continued until it ends or the limit of rounds is reached, no part of it twice; an upload slot is given back on every path |
| completion runtime | one answer per request; an attempt that yielded text is not repeated; a session is deleted with the token that created it |
| private context cache | one upload for callers of the same text; a failed or expired one is not reused |
| line pump, stream engine | text reaches the client in order, once, and before the end; the stream ends once, whatever of data, timeout and cancellation comes first |
| chat and responses handlers | events in the order of the protocol, one terminal event; a stored response belongs to its caller and expires |
| chat histories | what is acknowledged stays in the files and is found after a restart; a trim takes the oldest; index and details agree |
| recorders | a request shows once, with its outcome |
| pool database | an account is in one state; a write of the gateway and one of the pool UI do not undo each other |
| test jobs | a running row has a run, an abort stops its test and no other, every test ends |
| device harvester | no more harvests at once than the limit, none waits for ever, a full queue refuses |
| conversions | text between markers is kept, calls are recognised whatever the chunks |

## The modules

### AccountPool, AccountLeases

`AccountPool` is `internal/account`, one action per critical section of
`Pool.mu`. `queue`, `lookup`, `inUse`, `waiters` and `blocked` are the fields
of `Pool` (`blocked` is the keys of `blockedUntil` whose guard has not expired,
so that expiry is an action). A caller of AcquireWait moves through `pc`:
`check` (ctx.Err, no lock), `lock` (acquireLocked; then granted, queued or
refused), `wait` (select on its channel and its context), `leased`. A caller is
in `wait` and out of `waiters` when its channel is closed and it has not run
yet. NoStranding and WaitersSound are about that window. `Refresh(S)` is
UpdateAccounts with whatever snapshot a request loaded, so a stale one may be
merged after a discard. A map is iterated in any order where the code does
(`SetToSeqs`, `Merges`).

`AccountLeases` is what the pool promises: a request holds at most one account,
an account at most MaxInflight requests. `Leases == INSTANCE AccountLeases`
maps `lease` to itself; that the pool counts leases in `inUse` and consults only
that count is what the refinement is about.

### ManagedAuth

The account and the token of a request (`internal/auth/request.go`,
`discard.go`), from Determine to the deferred Release. `pc` says where a request
stands and `mode` in which function: Determine, RefreshToken or SwitchAccount,
which share `loginAndPersist`. The leader of a login is in `login` (upstream and
SQLite answer) and then in `publish` (the map of logins under way is cleared and
the channel closed, in one critical section); followers are in `follow` until
then, `told` when the leader failed. Everything between two of them may happen
in between: another request discards the account, a test from the pool UI
stores a token (Probe), a client hangs up.

The pool stands there as AccountPool promises it: an account that is listed,
not tried and below its limit may be granted, and how long the caller sleeps is
left open. Two choices keep the module small. A token is the number of the login
that issued it, so that "newer" and "another account's" can be told apart and
nothing else. The load of the snapshot from SQLite and its merge are one step,
as stale merges are AccountPool's subject. `token` carries the account it
is of, which the code does not record: that is what TokenOwn needs.

### ChatHistory, HistorySessions

`ChatHistory` is `internal/chathistory/store.go`. An operation changes the copy
in memory (one action, as `Store.mu` is held throughout) and then saves it:
RemoveFile for each deleted detail, WriteFile for each dirty one, WriteIndex,
in that order, with SaveFails possible at each point. The real order of files
within a group is by name; the model takes any. Files are replaced by a rename,
so none is half written. An entry is its revision, its time of creation and
whether its status is final; texts are left out. `OneLife` is one run of the
process; `Spec` adds Crash, which may fall between any two file operations.
`files` and `index` survive it, and Load reads them: phase `failed` is
`Store.err`, which every later call returns. `OnDisk` is what the files hold of
an entry, `Missing` the entries the index lists without a file.

`HistorySessions` composes the store with the recorders, one per request. It
EXTENDS ChatHistory and conjoins its actions: Open and Recreate are Start,
Persist and Repeat are Update, and between two of them other recorders,
administrators and stops of the process move. `chat_history.go` and
`responsehistory/session.go` hold the same recorder twice; the map names the
first.

A request of `HistorySessions` is a chat or a response (`OfResponses`). The
stream of a response that its client leaves records nothing
(responses_stream_runtime_core.go:195), so its entry stays as it was: `Abandons`.

### AccountTestJob

The tests of accounts of one key. A run takes the mutex, starts the runner
(context, flag), probes account by account, looks at the flag (Report) and writes
progress to the row (Progress), decides its outcome (End) and writes it (Reset or
Finish); each is an action, as aborts (flag, cancel, reset of the row: three steps
of another goroutine) and starts of other tests fall between them. `row.job`,
`row.by`, `aborted` and `orderly` are ghosts, as the code keeps no name of a run
anywhere. `aborted[j]` tells how an abort met run j: `early`, before its runner
started; `running`, at work; `late`, when it had decided to finish. The first and
the last are aborts a run may miss (`Missed`). `orderly` is about starts only: no
test was started with another test or an abort under way. When an abort falls is
never restricted.

### Completion

One chat request from its uploads to the end of its answer: `handler_chat.go`,
`empty_retry_runtime.go`, `chat_stream_runtime.go`, `completionruntime`,
`assistantturn` and the calls of the upstream client they make. `pc` is the call
under way (files, session, pow, context, completion), `reading`, or one of the
calls of a retry. A call succeeds, fails once more (`Again`), refreshes its token
once (`Refresh`), gives up, or discovers that the account is banned; then the
request moves to an account that is not known banned and rebuilds itself there
(`Moves`), or stops. The retry of an answer without text or calls has only its
own session: a failed proof of work goes on with the old one, a failed
completion fails the answer (`RetryFails`), whatever the state of the account.

`text` and `calls` are the turn as its accumulator has it, `held` and `pending`
what the sieve of a stream keeps back, `shown` and `sent` what the client got,
`hist` what the history got. A piece of an answer is its attempt and its place,
so that order, loss and repetition show and nothing else does. Streamed and
collected answers differ where the code differs: `Finalize` and `Collected`.

### StreamPump, ContentParser

The way of an answer between three goroutines. `Source` is `pumpAutoContinue`:
it copies the lines of a round, keeps the [DONE] of a round to itself, and asks
for the next one while the upstream calls the answer incomplete. `Pump` is the
goroutine of `sse/stream.go`: it parses, gathers small pieces until a newline, a
number of characters, a timer or a stop, and sends results. It holds text (`tbuf`),
thinking to be shown (`hbuf`), and thinking in which calls of tools are looked for
(`dbuf`, of which only is kept whether there is some: it makes a stop flush). `Engine` is
`ConsumeSSE`, which picks any of what is ready: a result, a tick of the clock,
the end of the context. `lines` and `out` are the channels, with their
capacities; a full one blocks its sender.

`ContentParser` is `sse/parser.go` and `sse/line.go` as functions: which parts a
line adds to the thinking and to the text, in each form of a patch, and what the
type of the last part tells the next line. `Carrying(k, n)` is every line by
which the upstream may say piece n, so that the invariant `Delivered` checks the
parser as well as the pump. A line is parsed here when it is queued and not when
it is taken: the type it needs depends on the lines before it and on nothing
else. `collected` is what `CollectStream` makes of the same lines.

A round may begin with a replay of what was said, which
`TrimContinuationOverlap` removes (`Trim`). See the findings for when a replay is
enumerated.

### Uploads

The files of requests before their completions: blocks in the messages, each
decoded, skipped, refused or uploaded (`Walk`), then the context that is too long
for a prompt, which requests of one account share through
`privatecontext/upload_cache.go` (`Ask` takes the time before the lock and
`Lookup` acts under it, as the code does). An upload waits for its slot (`slot`),
fetches a proof of work, posts, and polls until the file is processed; each may
fail, back off, or find the account banned. Followers get what their leader gets
(`Followers`), unless they leave first. `files` is what DeepSeek accepted: whose
it is, what it says and when it was ready.

### PoolTables, AccountLogins

`PoolTables` is the SQLite file that the gateway and the pool UI share: keys,
accounts and the bindings of one to the other, one action per statement or
transaction, so that an import or a rotation is as atomic as it is. An import
goes row by row (`ImportRow`) with anything in between.

`AccountLogins` EXTENDS it with those who use it at once: requests of the
gateway and probes of the pool UI (`task`), the harvests that logins of one
process share (`call`), the harvester with its workers and its line, the
administrator and the restart of the harvester. A login that is refused its
device clears it, harvests another and tries once more; a verdict from a login
or an answer (`Classify`, `LoginVerdict`, `ProbeVerdict`) is written under the
key the task began with. Device tokens are numbers that are used again once
nothing remembers them (`New`).

### ToolSieve, Responses

`ToolSieve` is `toolstream` and the scan of `toolcall` over tokens: the two
halves of an opening tag, invokes, closing tags, fences of code blocks, text.
`Calls(q)` is what a whole text calls, `ProcessChunk` and `Flush` what the sieve
says of the same text chunk by chunk. Its loop is RECURSIVE, so the modules that
use it are for TLC only.

`Responses` is one streamed response over it: chunks become events on items with
output indexes, the end of the stream completes the response, fails it or asks
once more on the same connection, and the object of the last event is put into
the store before it is sent. `kept` says whether the store holds that object, `aged`
whether its time to live has passed; a sweep takes it only then. `Clean` removes
wrappers without a call as the code does for `::tc::` markup: one that is not
closed goes with what follows it, up to the next closing tag or the end.

### ClientStream

What every answer promises its client: pieces, each once and in order; then one
ending, and nothing after it; and the ending comes. `Completion` (shown),
`StreamPump` (seen, by the handler) and `Responses` (out.visible) each implement
it: `ClientSpec` and `AnswerSpec` are its whole specification, fairness included,
under their refinement mappings.

## The runs

| run | instance | shows |
| --- | --- | --- |
| pool_safety | 3 accounts, 3 requests, 1 lease each, global limit 2; targets, tried accounts, clients that hang up, snapshots of any age | counts, limits, rotation and FIFO stay sound (`Books`); the pool implements its leases (`LeasesSpec`) |
| pool_wakeup | 2 accounts, 3 requests and a FIFO for all of them, tried accounts; nobody hangs up or names a target; fairness | nobody sleeps with nothing to wake it; queued calls return once calls stop |
| auth_any | 2 accounts, 2 requests, 2 leases each; refusals, bans, lost logins, hang-ups, probes | leases and logins stay accounted for, tokens are the account's own, a refused token is renewed once |
| auth_double | one lease each, no targets | InflightLimit fails: finding |
| history_faults | 3 entries, limits 0 to 2, failing files, administrators, version 1 index; no stops | nothing pending is forgotten; the trim takes the right entries |
| history_sessions | a recorder of a chat and one of a response, 3 entries, limits 0 to 2, failing files, version 1 index, stops | no request shows twice, no outcome is lost, what was acknowledged stays in the files and a restart finds it, but for a stop that cuts a removal |
| jobs_any | tests of 2 and of 1 account, 2 aborts, restarts; fairness | every row that runs has a run; every run ends; administrators who start no test with another or an abort under way read the truth, but for runs that miss an abort |
| completion | 2 accounts, 2 attempts of a call, 1 retry, 3 chunks of an answer with up to 2 blocks of calls each | the request asks only with what its account owns, leaves no session on a live account, records what it told, sends each call once, and its client sees one answer |
| stream | 3 pieces in every wire form, 1 continuation with or without replay, thinking on and off, channels of 1 line and 2 results | the handler gets the pieces as what they are, in order, once, and all of them but in the case below; everything ends; the collector agrees |
| uploads | 2 requests, 2 accounts, 1 slot, inline blocks of every kind, a shared context, a time to live of 1 | a request has its own files in their places, a slot comes back on every path, a context is uploaded once, all return |
| accounts | 2 tasks (requests or probes), 2 keys that share an account, a third to rotate to, an import of 2 rows; 1 worker, 1 place in line, 1 edit or restart | no refused device comes back, harvests are shared and the line moves, pools keep their order, an end is that of a mute and leaves an active account only by an entry of the administrator, logins end |
| responses | 2 attempts, each of up to 2 segments (text, fence, block with a call, empty block), chunks of up to 3 tokens, cut off anywhere | sieve and parser agree, one answer at ordered indexes, it can be fetched until its time is up and is in the history, the stream ends once |

Each module has one type invariant; it is a conjunct of a property its run
checks, beside the conjuncts that say something (Books, Accounted, CopySound,
EntriesOwned, RowSound, SessionsOwned, Delivered, SlotsComeBack, HarvestsSound,
Findable). NoOrphans, IndexMatches, CleanOnDisk, LeaseAccounting and the other
named parts are there to be proved and read one by one.

Bounds. In the pool, three requests are the least that give a sleeper for an
account, a rival for the slot and a third to release it; with three accounts a
global limit of two is reached while an account is free, and one account can be
removed while two stay in rotation. In `ManagedAuth` two requests give a leader
and a follower, or one that renews while the other is refused; two accounts give
a switch; one account starts with a token and may log in once more, the other
starts with none and may log in once (MaxToken), so that a stale, a fresh and a
missing token all meet. A third request adds only more followers. Three entries
are one more than the largest limit, so that a trim and a tie happen;
MaxRevision bounds the number of changes, and the clock of history_faults has
two readings, enough for it to stand still and to move. Two recorders and a
limit of two let both keep an entry while a third is started again. Two tests
and two aborts meet in every order.

In `Completion` two attempts of a call (three in the code) give one that is
repeated and one that is the last; two accounts give a switch and a request that
finds no other; three chunks give a text held over a block, and a block after
two. In `StreamPump` one continuation of eight gives every pair of rounds and the
limit; MinChars is 2 of 16 characters, so that one piece waits and two are sent;
SnapshotLen is 2 of 32, so that a replay may be too short to be one; three pieces
are thinking, text and a newline in every order, or two pieces and the one a
replay adds; a line channel of one and a result channel of two (the least that
holds a flush and a stop) block at every send; ticks of one silent and one idle
reach both limits. In `Uploads` one slot makes every upload a rival, two polls
and attempts give a last one, and the clock moves past the time to live once. In `AccountLogins` two
tasks give a leader and a follower, or a gateway and a pool UI on one row; one
worker and one place give a full line; MaxAccounts 1 hides a bound account from
its key. In `Responses` two segments give two blocks in a chunk, a block inside
a fence, text before and after; three tokens per chunk cut each tag in its
middle; Chunk bounds the closing tags of a chunk to one, as CallsOnce and the
findings are about more.

Requests, entries and accounts that differ in nothing are symmetric; symmetry is
used for invariants and action properties only, never where liveness is checked.

Properties that need an assumption say so: StartKeepsEntry holds when the wall
clock does not step back (StepsBack), as the trim orders entries by the clock;
NoStranding is stated of callers that neither hang up nor name a target,
InflightLimit of ManagedAuth holds as long as no switch fails, and CallsOnce excepts
the first of two blocks in one chunk. RowTruthful and AbortFinal are of
administrators who start no test while another or an abort is under way (`orderly`),
as the row names no run; they make no assumption on aborts, and except by name the
runs that miss one (TellsMissedAbort, Missed). Durable excepts the restart that
meets a missing file, and says whose file that can be. MuteTimed excepts the administrator who enters an account again
(`Reenters`). Delivered promises everything at a stop but for one line of thinking
that has pushed out a waiting text (`LeftBehind`). OneAnswer excepts a first attempt
that ends inside a code block, and lets a request without tools show, before the
text of its answer, the halves of an empty wrapper (`OnlyWrapper`); the object of
the last event is compared without pieces of wrappers (`Prose`). The findings say
why in each case.

Fairness. In the pool, each caller's steps and the release of its lease are
weakly fair: goroutines are scheduled and every handler defers Release. Nothing
is asked of clients, clocks or snapshots. In the jobs, the steps of a run and
the rest of an abort are weakly fair, and taking the mutex strongly, as Go's
mutex hands itself to a starving waiter. Completion, Uploads and Responses need
that calls of the upstream return, which the time limits of their clients see
to, and that the request then goes on: weak fairness of the request's step as a
whole, so no outcome is favoured. In `Responses` that is written out
(`ServeFairness`), as the step is enabled until the request is done.
StreamPump needs no upstream that speaks: the clock ticks, the engine and the
pump do what they can, a source whose reader is gone ends, and the context of a
handler that has returned is done. AccountLogins asks that goroutines run and
that a harvest in a worker ends, which has a deadline; nobody has to give up.

CHECK_DEADLOCK is off throughout: a gateway without requests, a bounded clock,
tests and answers that are done are legitimate ends.

## What is proved

The theorems hold for any sets of accounts, requests, entries and tests (finite
where they are counted), any limits and any clock, under the named assumptions of
each module: limits are natural numbers, what stands for nothing is not one of
the things, of `Uploads` that requests are finitely many and that each wants
blocks in a sequence, and of `AccountLogins` that accounts are finitely many and
what the pools, devices and files of the start look like. Each rests on an inductive invariant that TLC found to hold first.

`AccountPoolProofs`:

* BooksKept, of which TypeCorrect, LeasesCounted and InflightLimited are parts:
  by the invariant `Counted`, which joins the type of the variables,
  LeaseAccounting, "a request holds an account exactly at `leased`" and the bound
  of each count. LeaseAccounting is not inductive alone: Release decrements the
  count of `lease[r]`, so the proof needs that this request is one of its
  holders, which is the third part. Counting holders is by the lemmas TakeCounts
  and GiveBackCounts on cardinalities.
* ImplementsLeases: initial states map to initial states, and each step is
  Acquire, Return or a stutter of AccountLeases, from `Counted`.
* RotationSound and DiscardedSkipped: RotationElements says what Bump, Without
  and Merges do to the elements of an injective sequence.
* SleepersSound and SleepersHaveCandidates: by `Sleeping`, which joins
  WaitersSound, SleeperHasCandidate and the invariants above; the step that
  matters is that whatever shrinks the rotation empties the FIFO.
* GloballyLimited: CurrentInUse is a sum over the accounts, written as the size of
  a set of units (account, n-th lease of it). By `Summed` that set is as large as
  the set of requests with a lease, so that the comparison in canAcquireIDLocked
  is one of the leases themselves; accounts that left the pool keep their counts.
* NobodyStranded, under two hypotheses, Cancellable = {} and no targets: the code
  loses a wakeup without either (see the findings). With nothing leased every
  candidate is free, so whoever looks is served (FreePoolServes); and a release
  that leaves sleepers behind wakes the head of them.

`ManagedAuthProofs`:

* TokensOwn, RefusedRenewedOnce, LoginsSingle, AuthTypeCorrect: by `Sound`.
  TokenOwn is not inductive: a refused token sends its request back to the login,
  where it keeps the token it has if the login fails, so `Owned` extends it to
  every request that renews, and adds that the gateway remembers a token of the
  account by then. RenewsNewest needs both, and FlightSound for the step that
  matters: a login that ends changes `latest` for its account, and no other
  request is at the login of the same account to be left with an older one.
* LeasesAccounted, with NoLeaseLeaks: the count of leases falls with the set of
  holders on every path (GivenBack). It is an inequality, as a failed switch
  gives back twice; equality is what auth_double refutes.

`HistorySessionsProofs`, of the store:

* UnmarkedIsOnDisk and HistoryTypeCorrect, with stops of the process anywhere: by
  `Saved`, which adds to CleanOnDisk that what is dirty is held and what is to be
  deleted is not (or a removal could undo a write), and what a version 1 index
  looks like.
* CopiesSound, with FilesOwned and IndexCurrent, ChangesRaiseRevisions and
  StartsAreKept, for one life of the process: by `Saved` and `FirstLife`. They are
  false across a stop: files of entries the index does not list yet stay behind,
  and revisions restart from the index. StartsAreKept assumes a clock that does
  not step back.
* AcknowledgedSurvives, with stops anywhere: by `Acknowledged`. The three parts of
  Durable need each other: what is acknowledged is in the files (AckedOnDisk), or a
  load would not find it; the process that is up holds it (AckedHeld), or its next
  save would overwrite it with less; and of the files the index lists only those of
  removed entries are missing (OnlyDroppedMissing), or a load would fail for another
  reason than a removal that was cut. They also need that no acknowledged revision is
  above the one a restart begins from (`Ground`), or a restart would hand out a
  smaller revision for a later change: a detail file may be ahead of the index, but
  its change is not acknowledged then.

`HistorySessionsProofs`, of the recorders:

* RecordersUseStore: every step of the recorders and their administrators is a
  step of the store or a stutter, so what is proved of the store holds of them;
  RecordsSurvive is the first use of it.
* RequestsShowOnce and OutcomesRecorded: by `Recorded`. A recorder starts its entry
  again when an update does not find it, so the invariant says that none of its
  request is shown then (SoleEntry), that the index lists none twice either, as a
  restart reads the index and not the copy (ListedOnce), and that no recorder
  outlives the process (NobodyRecords).

`AccountTestJobProofs`:

* RowsSound, with RowsHaveRuns and JobTypeCorrect: the row of a running test
  names (as a ghost) a run that has not written its outcome, `RowHasOwner`.
* AbortsStopProbes: the flag an abort raises stays up until the run that it met
  lowers it, because only the holder of the mutex touches it (`HoldsMutex`,
  `AbortFlagged`).
* RowsTruthful and AbortsAlwaysHold: by `Waiting`. When tests are started one at a
  time, one run is not over at a time, and an abort under way has met it
  (OneAtATime); the row is that run's, as far as it has come, or idle because an abort
  has met the run (RowOfRun); a run ends short of its accounts only when it was told to
  (CountBounded); and what the row says follows (RowSays). That a run which writes
  over a cleared row has missed the abort is by AbortFlagged: one that an abort met at
  work finds the flag up when it decides, and does not come to `finishing`.

`UploadsProofs`, all by one invariant, `Sound`:

* SlotsNeverLost: the slots taken are as many as the uploads that are busy, and
  never more than there are (SlotsHeld).
* FilesAreOwn: RefsOwn and RefsSay tell how far a request has walked and what it
  refers to by then; the file it polls is the last one it sent, of the account it
  has now (PollsOwn), and what the cache knows is processed, of the account and
  text of its key (Cached). Place counts the blocks that have a file.
* ContextsUploadedOnce: the call under way for a context is the one upload of it
  (`Led`), and two files of a context are a time to live apart (Expired, Apart),
  although each request reads the clock before it takes the lock.

`CompletionProofs`, by one invariant of the eight parts of `Sound`:

* RequestOwnsSessions: a session the request no longer knows of is on an account
  that it saw banned, and it asks with a session and files of its account only
  (`Accounted`).
* RecordsTellAnswers: the record is written when the answer ends and not touched
  later (`Ended`); for a stream, what is shown is a prefix of the text that is
  recorded (`Shown`).
* CallsSentOnce: the calls are sorted by their piece and place (`Called`), and what
  the sieve has handed on and still holds is a subsequence of them but for the ones
  it replaced (`Sifted`). `Chosen` states it by positions, not by a filter of the
  sequence, which the prover cannot unfold.
* AnswerDelivered: initial states map to initial states, and each step to Deliver
  of ClientStream or a stutter: what is shown only grows, has no piece twice, and
  does not change after its end.

`AccountLoginsProofs`, by one invariant, `Sound`, of the tables, the tasks and the
jobs:

* TokensFresh: a token is new to everybody until it is stored. `Fresh` says so of
  the task that harvested it, and NewIsNew that there always is such a token: rows,
  tasks and refusals (one a task, `Stands`) have fewer than there are. What else a
  step may do with a task is in `Passes`, and PassStands and TasksMove show once for
  all of them that tokens stay apart.
* HarvestsAlwaysSound: the call of a process names the task that harvests (`Led`),
  so that there is one; CutInTwo and PumpSound count what Pump moves out of the
  line, which has no job twice (`Lines`).
* MutesTimed: the reason is an invariant of the rows (MuteReason, in RowsSound). That
  an active account does not come by an end is shown of each statement (DeviceKeepsEnds,
  StateKeepsEnds, MutedKeepsEnds: EndsKept) and, with the exception of the account that
  is entered, of the one of entries and imports (UpsertKeepsEnds: EndsTimed); StepTimes
  puts them together for every step.
* PoolsAlwaysKept: the order of a pool is by position, then by row, so it needs that
  no two rows have one number and none is above their count (`Numbered`), or the next
  row might get a number that is taken. List chooses a sequence: that there is one is
  by the number of accounts ahead of each (AheadGrows, ListingSorted), and the n-th of
  any has n - 1 ahead (Placed). A new account gets a position above all others
  (NextPositionSound), so each of the others has as many ahead as before, and the old
  list is a prefix of the new one (ListKept). EditOrdered and StepOrdered show that no
  other step moves a position or a number of an account in the pool.

`StreamPumpProofs`, for any upstream and whatever the parser makes of its lines:

* WholeStreamsDrained: Drained, by `PumpOver`. The pump that closes its channel has
  sent what it held and, unless the context is done, read every line; the engine
  looks at the context after the channel, so that the other case does not count.
* StreamLimited: the continuations, the channel of lines and the ticks of the
  engine keep their limits (RoundsLeft, LinesFit, TicksLeft), which are the parts
  of TypeOK that do not depend on what a line says.

Only model-checked: the liveness properties (QuietPoolServes, TestsEnd, AllEnd,
AllReturn, LoginsEnd) and the refinements of ClientStream as a whole, whose ending
is a liveness property, which the prover cannot state under fairness (its safety
half is proved for `Completion`); Delivered but for the parts above; and the
properties of Responses. What ToolSieve computes is out of the prover's reach, as
RECURSIVE operators are, so SieveFaithful, OneAnswer and Findable stay with TLC.
Delivered speaks of what ContentParser and the pump compute by folds, which needs
induction over data, and of filtered sequences (SelectSeq), which the prover cannot
unfold; so do the capacity of the channel of results and AnswerSpec.

The encoding of sequences for the SMT solver takes every function for one from 1 to
its length. All proofs were repeated with that restricted to sequences; the leaves
that had leaned on it are written out in smaller steps.

## Findings

One run ends in a violation of what a test of the repository says, and
`PROJECT.json` quotes it. auth_double: a switch that finds no other account has
given its own back, and the deferred Release gives it back again; the slot it
frees is another request's (request.go:336).

The models keep these behaviours of the code too, which the properties are
stated around:

* A caller of the pool that is woken and cancelled at once takes the wakeup with
  it, and the next sleeps beside a free account (pool_acquire.go:39).
* Callers that name a target may be stranded without anybody hanging up. An
  account is leased and discarded: it leaves the rotation, not the catalogue, so two
  callers that name it queue up. Its release wakes the first. A refresh then drops
  it from the catalogue; the rotation is the same as before, so nobody is told
  (pool_core.go:160). The first is refused, and the second sleeps until the rotation
  or a limit changes. With a default queue limit the FIFO is as short as the
  rotation and has room for one of them only; `AccountMaxQueue` gives it more.
* A ban that the login of Determine learns is not recorded, as the request does
  not know its gateway key yet (discard.go:52).
* When SQLite holds a newer token than the gateway remembers, the refresh that is
  due is skipped again and again (request.go:238, 396).
* A follower of a login or of a harvest gets the error of its leader, the
  cancellation of its client included (request.go:252, device.go:77).
* A save removes the details that were trimmed or deleted before it writes the index
  without them (store.go:484-514). A stop in between leaves an index that lists a
  missing file; the next load takes that for an error, and the store refuses
  everything from then on (Durable's exception, OnlyDroppedMissing).
* An abort that comes after a run has looked at its flag for the last time
  (test_jobs.go:77) clears the row, and the run completes it, with accounts done and
  no results (test_jobs.go:86). So does a run whose abort came before its runner
  started, as start() takes the flag down (test_runner.go:31): it runs on to its end.
* The end of an aborted test wipes the row of the next one (test_jobs.go:78).
* An administrator who enters an account again, by hand or with a CSV, makes it
  active and leaves it the reason and the end of its mute (admin.go:257-264), which
  the page shows instead of its token (app.js:247). When the gateway mutes it again,
  the old end stays (admin_ops.go:85-92).
* A probe that began before a ban and ends after it restores the account
  (poolui/probe.go:81). A failed harvest says nothing of an account to a probe
  (accountprobe/probe.go:58), while the gateway classifies its error like any
  other (request.go:271), so that a page which speaks of a ban discards the
  account.
* An answer is retried in its session even when that account was banned
  meanwhile, and a failed proof of work of the retry goes on with the old one
  (empty_retry_runtime.go, nonstream.go:175).
* Two blocks of tool calls that end in one chunk: the stream sends the second
  only (tool_sieve_core.go:42 assigns). The test of two blocks
  (complex_edge_test.go:83) sends them in chunks of their own.
* In a chat stream the text of a retried answer is recorded and not shown
  (chat_stream_runtime.go:57).
* A stop flushes when text waits or thinking in which calls are looked for
  (stream.go:203), not for thinking to be shown. The two wait together but in one
  case: thinking that meets a waiting text pushes it out first, and the former with
  it (stream.go:260), and when the stop is the next line, the thinking is lost.
  Content in the same batch as the status FINISHED is lost too (parser.go:100-103).
* A continuation may replay the fragment so far and add to it, as the sample
  tests/raw_stream_samples/continue-thinking-snapshot-replay-20260405 does. The
  trim (dedupe.go:10) compares it with what the handler has heard: it fails, and
  text shows twice, when the pump still holds pieces or lines from before (a slow
  client; a round trip below the 10 ms of the timer), when the replay is exactly
  as long as what is known (a finished thinking replayed beside a text), or when
  it has less than 32 characters. And a chunk of 32 characters or more that
  repeats the beginning of the answer is taken for a replay and dropped
  (dedupe.go:25). `MayReplay` enumerates replays that meet an empty pump and
  extend the fragment that was cut, which is what the samples show.
* A block without calls is shown or dropped depending on what follows it in its
  chunk (tool_sieve_xml.go:85): SieveFaithful leaves its tokens open.
* Both attempts of a response are parsed as one text: when the first ends inside
  a code block, the calls of the second lie in it (OneAnswer's precondition). The
  object of the last event gives function items new ids and indexes.
* A response without tools cleans each chunk alone. A wrapper without calls that is
  cut by a chunk is shown in halves; if there is nothing else, the attempt counts as
  empty and is asked again without its text being suppressed
  (empty_retry_runtime.go:43), so its halves stand before the text of the second. The
  object of the last event may hold a closing tag of such a wrapper that was not
  shown.
* A client that leaves a streamed response leaves its history entry streaming
  (responses_stream_runtime_core.go:195).

## Not modelled

* Prompts (`prompt`, `promptcompat`), rendering (`format`), token counts, usage:
  functions of strings without state. Of the tool calls, parameters, CDATA,
  schemas and misspelt tags work on characters; a bare mention of a tag before a
  fenced example is not enumerated.
* In the stream: links of citations, text the content filter leaked, the text of
  the thinking kept to look for tool calls (whether there is some is modelled), and lines the upstream does not write (a
  thinking path outside a thinking fragment with thinking off, say). No line is
  read once the context is done, and none follows the [DONE] of a round.
* In a response: the reasoning channel, and a response that is not streamed,
  which is one call of the completion runtime and one put. Its progress in the
  history is HistorySessions' subject. Where the code returns early from tool
  deltas (emitEarlyToolDeltas), the sieve never produces them.
* The pool UI's pages, forms and lists; the export; the schema and its migration;
  configuration, which is read once; routing and start of the processes.
* HTTP, proofs of work, proxies, the browser of the harvester: external, a call
  that is answered or fails. Errors of SQLite writes the code drops.
* The JavaScript runtime (`internal/js`) repeats the Go stream for another host;
  development captures and raw samples are aids for debugging.
* Code without a caller outside tests: Pool.Acquire, Status and
  ApplyRuntimeLimits; handleStream, handleNonStream and handleNonStreamWithRetry
  of the chat handler; the counts of sessions and the deletion of all of them;
  RemoveAccountFromPool; CancelAccountTestJob and MarkAccountTestJobCancelled.
* Embeddings: a pure function of the request.

## Plan

The model covers the parts of the system with state of their own, and their safety
is proved but for what the streams say. To follow, in the order of what they add:

1. StreamPump: that the pump hands on the parts of a line in their order, with a
   parser that is a given function of lines; the folds over parts need a recursive
   function and an induction over the natural numbers (WFMin states it without an
   operator), the filters a definition by positions, as `Chosen` of Completion has.
2. Responses: Findable and OneAnswer, once the loop of the sieve is a recursive
   function and not an operator.
