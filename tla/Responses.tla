------------------------------- MODULE Responses -------------------------------
(***************************************************************************)
(* One streamed answer of /v1/responses and the store it is kept in:       *)
(* httpapi/openai/responses over toolstream and assistantturn.             *)
(*                                                                         *)
(* Chunks of the upstream pass the sieve (ToolSieve) and become events on  *)
(* a message item and on function items, each at its output index.  At     *)
(* the end of the stream the turn is built anew from the whole text; it is *)
(* completed, failed, or asked for once more on the same connection.  The  *)
(* object of the last event is kept for its owner before it is sent.       *)
(***************************************************************************)
EXTENDS ToolSieve

CONSTANTS
    Segments,       \* what answers are made of: sequences of kinds of tokens
    MaxSegments,    \* bound: segments of the answer to one attempt
    MaxChunk,       \* bound: tokens of a chunk
    RetryMax        \* EmptyOutputRetryMaxAttempts (1)

ASSUME SegmentsAssumption == \A s \in Segments : s \in Seq(Kinds)
ASSUME BoundsAssumption == {MaxSegments, MaxChunk} \subseteq Nat \ {0} /\ RetryMax \in Nat

VARIABLES
    req,        \* whether the request declares tools, and requires a call
    pc,         \* reading, retrying, telling, done
    retries,
    todo,       \* kinds of the tokens the upstream has yet to send
    raw,        \* accumulator.RawText, of all attempts
    text,       \* accumulator.Text
    sieve,
    said,       \* what the sieve has said in this attempt
    out,        \* what was sent: items, functions of this turn, visible text
    prior,      \* preservedVisibleText
    told,       \* the object of the last event
    kept,       \* whether the response store holds that object
    aged,       \* whether its time to live has passed
    end,        \* how the stream ended for the client
    hist,       \* the history entry: its status and its text
    gone        \* whether the client left

answer == <<retries, todo, raw, text>>
sift == <<sieve, said>>
vars == <<req, pc, answer, sift, out, prior, told, kept, aged, end, hist, gone>>

None == [status |-> "none"]
Silent == [text |-> <<>>, calls |-> <<>>]
Ends == {"completed", "failed", "left"}

Answers == {FlattenSeq(s) : s \in BoundedSeq(Segments, MaxSegments)}

TypeOK ==
    /\ req \in [tools : BOOLEAN, required : BOOLEAN]
    /\ pc \in {"reading", "retrying", "telling", "done"}
    /\ retries \in 0 .. RetryMax
    /\ \A i \in 1 .. Len(raw) : raw[i].kind \in Kinds
    /\ Range(text \o prior \o out.visible \o said.text \o said.calls) \subseteq Range(raw)
    /\ out.next \in Nat /\ out.functions \in Seq(Nat)
    /\ told.status \in {"none", "completed", "failed"}
    /\ {kept, aged} \subseteq BOOLEAN
    /\ end \in Ends \cup {"open"}
    /\ hist.status \in {"streaming", "success", "error"} /\ hist.text \in {<<>>, raw, text}
    /\ gone \in BOOLEAN

Init ==
    /\ req \in {r \in [tools : BOOLEAN, required : BOOLEAN] : r.required => r.tools}
    /\ pc = "reading" /\ retries = 0 /\ todo \in Answers
    /\ raw = <<>> /\ text = <<>>
    /\ sieve = NewSieve /\ said = Silent
    /\ out = [items |-> <<>>, functions |-> <<>>, next |-> 0, visible |-> <<>>, emitted |-> FALSE]
    /\ prior = <<>> /\ told = None /\ kept = FALSE /\ aged = FALSE /\ end = "open"
    /\ hist = [status |-> "streaming", text |-> <<>>] /\ gone = FALSE

-----------------------------------------------------------------------------
(* Events *)

Message == [kind |-> "message"]
HasMessage(o) == \E i \in 1 .. Len(o.items) : o.items[i].what = Message

Item(o, what) == [what |-> what, index |-> o.next]

\* emitTextDelta, with ensureMessageItemAdded
EmitText(o, q) ==
    IF q = <<>> THEN o
    ELSE [o EXCEPT !.visible = @ \o q,
                   !.items = IF HasMessage(o) THEN @ ELSE Append(@, Item(o, Message)),
                   !.next = IF HasMessage(o) THEN @ ELSE @ + 1]

\* emitFunctionCallDoneEvents: the n-th call is sent unless an n-th one was.
EmitCalls(o, calls) ==
    LET add(p, n) == IF n <= Len(p.functions) THEN p
                     ELSE [p EXCEPT !.items = Append(@, Item(p, calls[n])),
                                    !.functions = Append(@, p.next), !.next = @ + 1, !.emitted = TRUE]
    IN  FoldLeft(add, o, [n \in 1 .. Len(calls) |-> n])

suppressed == prior # <<>>      \* suppressVisibleContent

\* processToolStreamEvents
Send(o, event) ==
    LET spoken == IF suppressed THEN o ELSE EmitText(o, Clean(event.text))
    IN  IF event.calls = <<>> THEN spoken
        ELSE [EmitCalls(spoken, event.calls) EXCEPT !.functions = <<>>]
SendAll(o, events) == FoldLeft(Send, o, events)

Hear(s, event) == [text |-> s.text \o event.text, calls |-> s.calls \o event.calls]

\* What the sieve, r, has made of a chunk.
Sifted(r) ==
    /\ sieve' = r.sieve
    /\ said' = FoldLeft(Hear, said, r.events)
    /\ out' = SendAll(out, r.events)

\* onParsed, with a chunk that ends at most one block.
Chunk ==
    /\ pc = "reading" /\ todo # <<>>
    /\ \E n \in 1 .. MaxChunk :
          /\ n <= Len(todo)
          /\ LET chunk == [k \in 1 .. n |-> [kind |-> todo[k], at |-> Len(raw) + k, of |-> retries]]
             IN  /\ Cardinality(Closes(chunk)) <= 1
                 /\ raw' = raw \o chunk
                 /\ text' = text \o Clean(chunk)
                 /\ IF req.tools THEN Sifted(ProcessChunk(sieve, chunk))
                    ELSE /\ out' = (IF suppressed THEN out ELSE EmitText(out, Clean(chunk)))
                         /\ UNCHANGED sift
          /\ todo' = From(todo, n + 1)
    /\ UNCHANGED <<req, pc, retries, prior, told, kept, aged, end, hist, gone>>

-----------------------------------------------------------------------------
(* The end of an attempt *)

\* BuildTurnFromStreamSnapshot, ValidateTurn and FinalizeTurn.
Turn(emitted) ==
    LET calls == Calls(raw)
        visible == Clean(text)
        hasCalls == calls # <<>> \/ emitted
    IN  [calls |-> calls, text |-> visible, hasCalls |-> hasCalls,
         fails |-> ~hasCalls /\ (req.required \/ visible = <<>>)]

\* Success and Error of a responsehistory session, with TextForArchive.
Recorded(object) ==
    hist' = [status |-> IF object.status = "completed" THEN "success" ELSE "error",
             text |-> IF raw # <<>> THEN raw ELSE text]

\* Slip: a failed response is not kept.
PersistCompleted(object) ==
    /\ told' = object
    /\ kept' = (kept \/ object.status = "completed")
    /\ Recorded(object)
    /\ pc' = "telling"

\* The object of the last event goes into the store, then to the history.
Persist(object) ==
    /\ told' = object
    /\ kept' = TRUE
    /\ Recorded(object)
    /\ pc' = "telling"

\* buildCompletedResponseObject: calls without an index of this turn get a new one.
Completed(o, body, calls) ==
    [status |-> "completed",
     text |-> IF HasMessage(o) THEN o.visible ELSE IF calls = <<>> THEN body ELSE <<>>,
     calls |-> calls]
Failed == [status |-> "failed", text |-> <<>>, calls |-> <<>>]

\* beginMissingToolCallRetry
Preserve(body) ==
    /\ prior' = body
    /\ sieve' = NewSieve

\* Slip: the calls of the turn are sent whether or not the sieve sent any.
AllCalls(o, calls) == calls

\* The calls a turn still has to send.
UnsentCalls(o, calls) == IF o.emitted THEN <<>> ELSE calls

\* The text a turn without calls keeps from the attempt before.
BodyOf(turn) == IF suppressed /\ turn.calls = <<>> THEN prior ELSE turn.text

\* The turn is asked for again, or is the answer.
Concluded(filtered, rest, sent, turn, body) ==
    /\ out' = [sent EXCEPT !.emitted = turn.hasCalls]
    /\ IF retries < RetryMax /\ ~filtered /\ (turn.fails \/ (req.tools /\ ~turn.hasCalls))
       THEN /\ pc' = "retrying"
            /\ IF req.tools /\ body # <<>> THEN Preserve(body)
               ELSE sieve' = rest /\ UNCHANGED prior
            /\ UNCHANGED <<told, kept, hist>>
       ELSE /\ Persist(IF turn.fails THEN Failed ELSE Completed(sent, body, turn.calls))
            /\ UNCHANGED <<sieve, prior>>

\* finalize, for an attempt that ended because of the content filter or not:
\* what the sieve still holds is sent, then what the turn has not sent yet.
Finalize(filtered) ==
    LET turned(flushed, rest, turn) ==
            Concluded(filtered, rest, EmitCalls(flushed, UnsentCalls(flushed, turn.calls)), turn, BodyOf(turn))
        sent(flushed, rest) == turned(flushed, rest, Turn(flushed.emitted))
        after(last) == /\ said' = FoldLeft(Hear, said, last.events)
                       /\ sent(SendAll(out, last.events), last.sieve)
    IN  /\ after(IF req.tools THEN Flush(sieve) ELSE [sieve |-> Flush(sieve).sieve, events |-> <<>>])
        /\ UNCHANGED <<req, answer, aged, end, gone>>

\* The upstream ends its answer, is cut off, times out or is filtered.
StreamEnds == pc = "reading" /\ \E filtered \in BOOLEAN : Finalize(filtered)

\* markContextCancelled: the engine saw first that the client has left.
StreamCancelled ==
    /\ pc = "reading" /\ gone
    /\ pc' = "done" /\ end' = "left"
    /\ UNCHANGED <<req, answer, sift, out, prior, told, kept, aged, hist, gone>>

\* The completion is asked for again and answers.
Retried ==
    /\ pc = "retrying"
    /\ pc' = "reading" /\ retries' = retries + 1
    /\ todo' \in Answers
    /\ said' = Silent
    /\ out' = [out EXCEPT !.functions = <<>>]
    /\ UNCHANGED <<req, raw, text, sieve, prior, told, kept, aged, end, hist, gone>>

\* Slip: nothing is told.
RetryFailsSilently ==
    /\ pc = "retrying"
    /\ Recorded(Failed) /\ pc' = "done"
    /\ UNCHANGED <<req, answer, sift, out, prior, told, kept, aged, end, gone>>

\* It cannot be asked for again.
RetryFails ==
    /\ pc = "retrying"
    /\ Persist(Failed)
    /\ UNCHANGED <<req, answer, sift, out, prior, aged, end, gone>>

\* The last event, and [DONE].
Tell ==
    /\ pc = "telling"
    /\ pc' = "done" /\ end' = told.status
    /\ UNCHANGED <<req, answer, sift, out, prior, told, kept, aged, hist, gone>>

-----------------------------------------------------------------------------
(* The store, and the client *)

\* The time to live passes.
Expire ==
    /\ kept /\ ~aged /\ aged' = TRUE
    /\ UNCHANGED <<req, pc, answer, sift, out, prior, told, kept, end, hist, gone>>

\* sweepLocked, with the put and the get of any other request
Sweep ==
    /\ kept /\ aged /\ kept' = FALSE
    /\ UNCHANGED <<req, pc, answer, sift, out, prior, told, aged, end, hist, gone>>

\* GetResponseByID for the owner: what is found, if anything.
Get == IF kept /\ ~aged THEN told ELSE None

Leave ==
    /\ ~gone /\ pc # "done" /\ gone' = TRUE
    /\ UNCHANGED <<req, pc, answer, sift, out, prior, told, kept, aged, end, hist>>

Serve == Chunk \/ StreamEnds \/ StreamCancelled \/ Retried \/ RetryFails \/ Tell
Next == Serve \/ Expire \/ Sweep \/ Leave

\* Reads of the upstream and calls to it have time limits: weak fairness of
\* Serve, which is enabled until the request is done.
ServeFairness == []<>(pc = "done") \/ []<><<Serve>>_vars
Spec == Init /\ [][Next]_vars /\ ServeFairness

-----------------------------------------------------------------------------
(* Properties *)

Own == SelectSeq(raw, LAMBDA t : t.of = retries)

\* However the answer of an attempt is cut into chunks, and wherever it is cut
\* off, the sieve says of it what the whole of it says: its calls in order, and
\* as text all that is outside its blocks; only whether a block without calls is
\* shown depends on what follows it (tool_sieve_core.go:9, tool_sieve_xml.go:85).
SieveFaithful ==
    req.tools /\ pc \in {"retrying", "telling"} =>
        /\ said.calls = Calls(Own)
        /\ SelectSeq(said.text, LAMBDA t : t \notin Emptied(Own)) = TextOf(Own)

Streamed == SelectSeq([i \in 1 .. Len(out.items) |-> out.items[i].what], LAMBDA w : w # Message)

\* What was shown of an attempt, when the whole of it is a wrapper: its halves came
\* in two chunks, and only the end of the attempt put them together.  A request
\* without tools then asks again and goes on showing (empty_retry_runtime.go:43).
ShownOf(n) == SelectSeq(out.visible, LAMBDA t : t.of = n)
OnlyWrapper(n) == ~req.tools /\ Clean(ShownOf(n)) = <<>>

\* A text without the pieces of wrappers in it.
Prose(q) == SelectSeq(q, LAMBDA t : t.kind \in {"text", "fence"})

\* The client of a completed response was sent one answer: the text of one attempt,
\* but for halves of a wrapper that were shown before (OnlyWrapper), at output
\* indexes in order, and each call of the final object once
\* (responses_stream_runtime_core.go:77, 257).  A first attempt that ends inside a
\* code block is left out: the text of both attempts is parsed as one, and the calls
\* of the second lie in that block.
OneAnswer ==
    end = "completed" /\ ~Inside(FALSE, SelectSeq(raw, LAMBDA t : t.of = 0 /\ t.of < retries)) =>
        /\ Streamed = told.calls
        /\ \A s, t \in Range(out.visible) : s.of < t.of => OnlyWrapper(s.of)
        /\ Prose(told.text) = Prose(out.visible)
        /\ \A i, j \in 1 .. Len(out.items) : i < j => out.items[i].index < out.items[j].index

\* A client that was told how its response ended finds that very response until
\* its time is up, and the history knows it as that, with all it was shown
\* (responses_stream_runtime_core.go:182).  All variables keep their types.
Findable ==
    /\ TypeOK
    /\ end \in {"completed", "failed"} =>
           /\ Get # None \/ aged
           /\ Get # None => Get.status = end
           /\ hist.status = IF end = "completed" THEN "success" ELSE "error"
           /\ out.visible = SelectSeq(hist.text, LAMBDA t : t \in Range(out.visible))

\* What the client sees is one stream that ends once, and it ends.
Client == INSTANCE ClientStream WITH shown <- out.visible, end <- end, Ends <- Ends
ClientSpec == Client!Spec
=============================================================================
