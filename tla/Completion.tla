------------------------------ MODULE Completion ------------------------------
(***************************************************************************)
(* One chat request, from its first upload to the end of its answer:       *)
(* httpapi/openai/chat (handler_chat.go, empty_retry_runtime.go,           *)
(* chat_stream_runtime.go), completionruntime, assistantturn and the calls *)
(* of deepseek/client that it makes.                                       *)
(*                                                                         *)
(* The request uploads its files, opens a session, fetches a proof of work *)
(* and asks for the completion.  When the account turns out to be banned   *)
(* it moves to another and rebuilds itself there.  An answer without text  *)
(* or, when the request declares tools, without a tool call is asked for   *)
(* again, once, in the same session.  Text and calls are reduced to their  *)
(* identity: the n-th piece of the a-th answer is <<a, n>>.                *)
(***************************************************************************)
EXTENDS Naturals, SequencesExt

CONSTANTS
    Accounts,       \* those the request may be leased
    None,
    MaxAttempts,    \* of a call of the upstream (3)
    RetryMax,       \* EmptyOutputRetryMaxAttempts (1)
    MaxParts,       \* bound: the pieces of an answer
    MaxBlocks       \* bound: the blocks of tool calls in one chunk of it

ASSUME NoneAssumption == None \notin Accounts /\ Accounts # {}
ASSUME BoundsAssumption == {MaxAttempts, MaxParts, MaxBlocks} \subseteq Nat \ {0} /\ RetryMax \in Nat

VARIABLES
    req,        \* whether the request streams, declares tools, requires a call
    pc,         \* the call it makes, or where it stands
    tries,      \* failed attempts of the call
    refreshed,  \* whether the call refreshed the token
    acct,       \* the account it holds
    dead,       \* accounts it saw banned or muted
    files,      \* the account its files were uploaded to
    sess,       \* the account of its session (StartResult.SessionID)
    left,       \* accounts with a session nobody asked to delete
    retries,    \* synthetic retries
    parts,      \* pieces of the current answer
    text,       \* the visible text of the turn
    calls,      \* its tool calls
    filtered,   \* CollectResult.ContentFilter
    prior,      \* the text of the answer that is retried
    held,       \* text the sieve of the stream holds back
    pending,    \* calls the sieve has parsed and not handed on
    done,       \* toolCallsDoneEmitted
    shown,      \* the text sent to the client
    sent,       \* the tool calls sent to the client
    end,        \* how the answer ended for the client
    hist,       \* the history entry: its status and its text
    gone        \* whether the client left

call == <<tries, refreshed>>
turn == <<parts, text, calls, filtered>>
sieve == <<held, pending, done>>
wire == <<shown, sent, end>>
vars == <<req, pc, call, acct, dead, files, sess, left, retries, turn, prior, sieve, wire, hist, gone>>

Starting == {"session", "pow", "context", "completion"}
Retrying == {"repow", "recompletion"}
Uploading == {"files", "rebuild"}
Requests == Starting \cup Retrying \cup Uploading
Looping == Requests \ (Uploading \cup {"context"})
Ends == {"finish", "failed", "error", "left"}

Pieces == (0 .. RetryMax) \X (1 .. MaxParts)

TypeOK ==
    /\ req \in [stream : BOOLEAN, tools : BOOLEAN, required : BOOLEAN]
    /\ pc \in Requests \cup {"gate", "reading", "cleanup", "done"}
    /\ tries \in 0 .. MaxAttempts /\ refreshed \in BOOLEAN
    /\ acct \in Accounts /\ dead \in SUBSET Accounts
    /\ {files, sess} \subseteq Accounts \cup {None} /\ left \in SUBSET Accounts
    /\ retries \in 0 .. RetryMax /\ parts \in 0 .. MaxParts
    /\ {text, prior, held, shown} \subseteq Seq(Pieces)
    /\ {calls, pending, sent} \subseteq Seq(Pieces \X (1 .. MaxBlocks))
    /\ filtered \in BOOLEAN /\ done \in BOOLEAN /\ gone \in BOOLEAN
    /\ end \in Ends \cup {"open"}
    /\ hist \in [status : {"none", "streaming", "success", "error", "stopped"}, text : Seq(Pieces)]

Init ==
    /\ req \in {r \in [stream : BOOLEAN, tools : BOOLEAN, required : BOOLEAN] : r.required => r.tools}
    /\ pc = "files" /\ tries = 0 /\ refreshed = FALSE
    /\ acct \in Accounts /\ dead = {}
    /\ files = None /\ sess = None /\ left = {}
    /\ retries = 0 /\ parts = 0 /\ text = <<>> /\ calls = <<>> /\ filtered = FALSE
    /\ prior = <<>> /\ held = <<>> /\ pending = <<>> /\ done = FALSE
    /\ shown = <<>> /\ sent = <<>> /\ end = "open"
    /\ hist = [status |-> "none", text |-> <<>>]
    /\ gone = FALSE

\* The next call of the request, or the next thing it does.
Goto(at) == pc' = at /\ tries' = 0 /\ refreshed' = FALSE

Records(status, what) ==
    hist' = IF hist.status = "none" THEN hist ELSE [status |-> status, text |-> what]

\* The answer is over: the client hears of it, then the history.
Ending(how, status, what) ==
    /\ end' = how
    /\ Records(status, what)
    /\ Goto("cleanup")

-----------------------------------------------------------------------------
(* Calls of the upstream *)

\* A call that did what it was for.
Succeeds ==
    /\ pc \in Requests
    /\ CASE pc = "files" ->
              /\ files' = acct
              /\ hist' \in {hist, [hist EXCEPT !.status = "streaming"]}
              /\ Goto("gate")
              /\ UNCHANGED <<sess, left>>
         [] pc = "rebuild" -> files' = acct /\ Goto("session") /\ UNCHANGED <<sess, left, hist>>
         [] pc = "session" ->
              /\ sess' = acct /\ left' = left \cup {acct}
              /\ Goto("pow")
              /\ UNCHANGED <<files, hist>>
         [] pc = "pow" -> Goto("context") /\ UNCHANGED <<files, sess, left, hist>>
         [] pc = "context" -> Goto("completion") /\ UNCHANGED <<files, sess, left, hist>>
         [] pc = "repow" -> Goto("recompletion") /\ UNCHANGED <<files, sess, left, hist>>
         [] pc \in {"completion", "recompletion"} -> Goto("reading") /\ UNCHANGED <<files, sess, left, hist>>
    /\ UNCHANGED <<req, acct, dead, retries, turn, prior, sieve, wire, gone>>

\* An attempt that failed, with attempts left.
Again ==
    /\ pc \in Looping /\ tries + 1 < MaxAttempts
    /\ tries' = tries + 1
    /\ UNCHANGED <<req, pc, refreshed, acct, dead, files, sess, left, retries, turn, prior, sieve, wire, hist, gone>>

\* RefreshToken, once in a call: the attempt does not count.
Refresh ==
    /\ pc \in {"session", "pow", "repow"} /\ ~refreshed
    /\ refreshed' = TRUE
    /\ UNCHANGED <<req, pc, tries, acct, dead, files, sess, left, retries, turn, prior, sieve, wire, hist, gone>>

\* CurrentAccountDiscarded
MaySwitch(banned) == acct \in banned

\* Slip: the request keeps what it uploaded to the account it leaves.
MovesKeepingFiles(banned) ==
    /\ MaySwitch(banned)
    /\ \E b \in Accounts \ banned :
          /\ acct' = b
          /\ sess' = None
          /\ Goto(IF pc = "files" THEN "files" ELSE "session")
    /\ UNCHANGED <<files, shown, sent, end, hist>>

\* SwitchAccount: everything is uploaded again; a session stays behind.
Moves(banned) ==
    /\ MaySwitch(banned)
    /\ \E b \in Accounts \ banned :
          /\ acct' = b
          /\ sess' = None
          /\ Goto(IF pc = "files" THEN "files" ELSE "rebuild")
    /\ files' = None
    /\ UNCHANGED <<shown, sent, end, hist>>

\* No other account: the request ends with an error of its own.
Stops ==
    /\ Ending("error", "error", text)
    /\ sess' = IF pc = "rebuild" THEN None ELSE sess
    /\ UNCHANGED <<acct, files, shown, sent>>

\* Slip: the client hears of the failed retry and the history does not.
RetryFailsUnrecorded ==
    /\ IF pc = "repow" THEN Goto("recompletion") /\ UNCHANGED end
       ELSE end' = (IF req.stream THEN "failed" ELSE "error") /\ Goto("cleanup")
    /\ UNCHANGED <<acct, files, sess, shown, sent, hist>>

\* A retry goes on with the old proof of work, or fails the answer.
RetryFails ==
    /\ IF pc = "repow" THEN Goto("recompletion") /\ UNCHANGED <<end, hist>>
       ELSE Ending(IF req.stream THEN "failed" ELSE "error", "error", text)
    /\ UNCHANGED <<acct, files, sess, shown, sent>>

\* The end of a call that failed; "banned" are the accounts known banned by then.
Fails(banned) ==
    /\ dead' = banned
    /\ IF pc \in Retrying THEN RetryFails ELSE Moves(banned) \/ Stops
    /\ UNCHANGED <<req, left, retries, turn, prior, sieve, gone>>

\* The last attempt failed, or the client left while a completion waited.
GivesUp ==
    /\ pc \in Requests
    /\ \/ pc \notin Looping
       \/ tries + 1 = MaxAttempts
       \/ gone /\ pc \in {"completion", "recompletion"}
    /\ Fails(dead)

\* The response classifies the account as banned or muted.
Discovers ==
    /\ pc \in Requests
    /\ Fails(dead \cup {acct})


\* userContextOverGate, once the history entry is there.
Admit ==
    /\ pc = "gate" /\ Goto("session")
    /\ UNCHANGED <<req, acct, dead, files, sess, left, retries, turn, prior, sieve, wire, hist, gone>>

\* A request that is too long or malformed.
Refuses ==
    /\ pc \in {"files", "gate"}
    /\ Ending("error", "error", <<>>)
    /\ UNCHANGED <<req, acct, dead, files, sess, left, retries, turn, prior, sieve, shown, sent, gone>>

-----------------------------------------------------------------------------
(* The answer *)

Streaming == req.stream /\ pc = "reading"
suppressed == prior # <<>>      \* suppressVisibleContent
Visible(s) == IF suppressed THEN <<>> ELSE s

\* The calls a sieve has parsed are handed on with its next chunk.
HandsOn ==
    /\ sent' = sent \o pending
    /\ done' = (done \/ pending # <<>>)

\* StreamAccumulator.applyTextPart, and the sieve of a request with tools,
\* which may hold the text back.
Text ==
    /\ pc = "reading" /\ parts < MaxParts
    /\ parts' = parts + 1
    /\ LET piece == <<retries, parts + 1>>
       IN  /\ text' = Append(text, piece)
           /\ IF ~req.stream THEN UNCHANGED <<held, pending, done, shown, sent>>
              ELSE /\ HandsOn
                   /\ pending' = <<>>
                   /\ \/ /\ shown' = shown \o Visible(Append(held, piece))
                         /\ held' = <<>>
                      \/ /\ req.tools
                         /\ held' = Append(held, piece)
                         /\ UNCHANGED shown
    /\ UNCHANGED <<req, pc, call, acct, dead, files, sess, left, retries, calls, filtered, prior, end, hist, gone>>

\* A chunk with complete blocks of tool calls.  The sieve keeps those of the
\* last block only: pendingToolCalls is assigned.
Blocks ==
    /\ pc = "reading" /\ req.tools /\ parts < MaxParts
    /\ parts' = parts + 1
    /\ \E n \in 1 .. MaxBlocks :
          LET block(i) == <<<<retries, parts + 1>>, i>>
          IN  /\ calls' = calls \o [i \in 1 .. n |-> block(i)]
              /\ IF req.stream THEN HandsOn /\ pending' = <<block(n)>>
                 ELSE UNCHANGED <<pending, sent, done>>
    /\ UNCHANGED <<req, pc, call, acct, dead, files, sess, left, retries, text, filtered, prior, held, shown, end, hist, gone>>

\* ValidateTurn
Invalid(body) == calls = <<>> /\ (req.required \/ body = <<>>)

\* ShouldRetryIncompleteAssistantTurn, and finalize when it may defer.
Incomplete == calls = <<>> /\ (text = <<>> \/ req.tools)

\* Slip: the sieve is not reset, and the first answer not preserved.
BeginRetryOnly ==
    /\ retries' = retries + 1
    /\ parts' = 0
    /\ Goto("repow")
    /\ UNCHANGED <<text, calls, filtered, prior, held, pending, done>>

\* beginMissingToolCallRetry.  A stream goes on with its accumulator.
BeginRetry ==
    /\ retries' = retries + 1
    /\ parts' = 0
    /\ prior' = text
    /\ text' = IF req.stream THEN text ELSE <<>>
    /\ calls' = <<>> /\ filtered' = FALSE
    /\ held' = <<>> /\ pending' = <<>> /\ done' = FALSE
    /\ Goto("repow")

\* Slip: finalize does not ask whether the calls were sent.
LastCallsAgain == IF calls # <<>> THEN calls ELSE pending

\* What finalize still sends: all calls at once, or what the sieve holds.
LastCalls == IF calls # <<>> /\ ~done THEN calls ELSE pending
LastText == IF calls # <<>> /\ ~done THEN <<>> ELSE Visible(held)

\* chatStreamRuntime.finalize, with the reason the attempt ended for.
Finalize(reason) ==
    /\ shown' = shown \o LastText
    /\ sent' = sent \o LastCalls
    /\ LET may == retries < RetryMax /\ reason # "content_filter"
       IN  \/ /\ may /\ Incomplete
              /\ BeginRetry
              /\ UNCHANGED <<end, hist>>
           \/ /\ ~(may /\ Incomplete)
              /\ IF Invalid(text) THEN Ending("failed", "error", text)
                                  ELSE Ending("finish", "success", text)
              /\ held' = <<>> /\ pending' = <<>>
              /\ UNCHANGED <<retries, turn, prior, done>>
    /\ UNCHANGED <<req, acct, dead, files, sess, left, gone>>

\* onParsed: once there is text, a filter ends the attempt like any end.
FilterReason == IF text = <<>> THEN "content_filter" ELSE "stop"

\* The answer of a stream ends: at its end, at a timeout, at a line of the
\* content filter, at an error.
StreamEnds ==
    /\ Streaming
    /\ Finalize("stop") \/ Finalize(FilterReason) \/ Finalize("content_filter")

\* The engine sees the end of the context first: markContextCancelled.
StreamCancelled ==
    /\ Streaming /\ gone
    /\ Ending("left", "stopped", text)
    /\ UNCHANGED <<req, acct, dead, files, sess, left, retries, turn, prior, sieve, shown, sent, gone>>

\* ExecuteNonStreamWithRetry returns the first answer when there is one and
\* its retry brought no call.
TheAnswer == IF calls = <<>> /\ prior # <<>> THEN prior ELSE text

\* collectAttempt and what ExecuteNonStreamWithRetry makes of it.
Collected ==
    /\ ~req.stream /\ pc = "reading"
    /\ \E f \in BOOLEAN :
          IF retries < RetryMax /\ Incomplete /\ ~f
          THEN BeginRetry /\ UNCHANGED <<shown, sent, end, hist>>
          ELSE /\ IF Invalid(TheAnswer) THEN /\ Ending("error", "error", TheAnswer)
                                             /\ UNCHANGED <<shown, sent>>
                  ELSE /\ Ending("finish", "success", TheAnswer)
                       /\ shown' = TheAnswer /\ sent' = calls
               /\ filtered' = f
               /\ UNCHANGED <<retries, parts, text, calls, prior, sieve>>
    /\ UNCHANGED <<req, acct, dead, files, sess, left, gone>>

-----------------------------------------------------------------------------
(* The end of the request *)

\* The client leaves; the calls under way find out.
Leave ==
    /\ ~gone /\ pc \notin {"cleanup", "done"}
    /\ gone' = TRUE
    /\ UNCHANGED <<req, pc, call, acct, dead, files, sess, left, retries, turn, prior, sieve, wire, hist>>

\* autoDeleteRemoteSession with the token of the account, then Release.
CleanUp ==
    /\ pc = "cleanup"
    /\ left' = IF sess = acct THEN left \ {sess} ELSE left
    /\ pc' = "done"
    /\ UNCHANGED <<req, call, acct, dead, files, sess, retries, turn, prior, sieve, wire, hist, gone>>

Upstream == Succeeds \/ Again \/ Refresh \/ GivesUp \/ Discovers \/ Admit \/ Refuses
Answer == Text \/ Blocks \/ StreamEnds \/ StreamCancelled \/ Collected
Next == Upstream \/ Answer \/ CleanUp \/ Leave

\* Every call of the upstream returns (its client has time limits), and so
\* does a read of the answer.
Spec == Init /\ [][Next]_vars /\ WF_vars(Upstream \/ Answer \/ CleanUp)

-----------------------------------------------------------------------------
(* Properties *)

\* A completion is asked for with a session and with files of the account it
\* is asked of, whatever accounts the request went through before: a file id
\* or a session id means nothing to another account (nonstream.go:54).
OwnAccount ==
    pc \in {"pow", "context", "completion", "reading"} \cup Retrying => sess = acct /\ files = acct

\* When the request is over, the sessions nobody asked to delete are on
\* accounts that were banned meanwhile (handler_chat.go:35).
NoSessionLeft == pc = "done" => left \subseteq dead

\* The two together, as the same reset of the session serves both, over
\* variables of their types.
SessionsOwned == TypeOK /\ OwnAccount /\ NoSessionLeft

\* The history tells what the client got: an answer is a success and begins
\* with what was shown, an error an error, and a stream the client left is
\* stopped (empty_retry_runtime.go:366).
AnswerRecorded ==
    pc = "done" /\ hist.status # "none" =>
        /\ hist.status # "streaming"
        /\ hist.status = "success" <=> end = "finish"
        /\ hist.status = "stopped" <=> end = "left"
        /\ hist.status = "success" => shown # <<>> \/ sent # <<>>
        /\ hist.status = "success" /\ sent = <<>> => IsPrefix(shown, hist.text)

\* s has elements of t, in their order and none twice.
Chosen(s, t) ==
    /\ IsInjective(s) /\ Range(s) \subseteq Range(t)
    /\ \A i, j \in DOMAIN s : i < j =>
          \E k, l \in DOMAIN t : k < l /\ s[i] = t[k] /\ s[j] = t[l]

\* A client that is told the answer is complete has its tool calls in the order
\* of the answer, none twice, although the sieve hands them on late and the end
\* of the stream may send them all; what is missing is at most a block whose
\* chunk held another one after it (chat_stream_runtime.go:295, tool_sieve_core.go:42).
CallsOnce ==
    end = "finish" =>
        /\ Chosen(sent, calls)
        /\ \A c \in Range(calls) \ Range(sent) :
              req.stream /\ \E d \in Range(sent) : d[1] = c[1] /\ d[2] > c[2]

\* What the client sees is one answer that ends once, and it ends.
Client == INSTANCE ClientStream WITH shown <- shown, end <- end, Ends <- Ends
ClientSpec == Client!Spec
=============================================================================
