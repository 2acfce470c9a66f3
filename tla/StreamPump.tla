------------------------------ MODULE StreamPump ------------------------------
(***************************************************************************)
(* The way of an answer from the upstream to the handler, through three    *)
(* goroutines and their channels:                                          *)
(*   - pumpAutoContinue (deepseek/client/client_continue.go) copies the    *)
(*     lines of a response and, while the upstream calls it incomplete,    *)
(*     those of the rounds that continue it;                               *)
(*   - the line pump (sse/stream.go) parses lines and gathers small pieces *)
(*     until a newline, a number of characters, a timer or a stop;         *)
(*   - ConsumeSSE (stream/engine.go) hands the results to the handler and  *)
(*     watches the clock and the client.                                   *)
(* A request that does not stream has CollectStream (sse/consumer.go) read *)
(* the same lines.  A round may begin with what the rounds before it said. *)
(* The pipe and the channel of scanned lines are one queue here.  A piece  *)
(* is numbered in the order the upstream wrote it; what it is, its line    *)
(* says in one of the ways ContentParser knows.                            *)
(***************************************************************************)
EXTENDS ContentParser

CONSTANTS
    MaxRounds,      \* defaultAutoContinueLimit (8)
    MinChars,       \* pieces of text that are flushed at once (16 characters)
    MaxSilent,      \* ticks without any content (MaxKeepaliveCount, 40)
    MaxIdle,        \* ticks since the last content (StreamIdleTimeout, 300 s)
    LineCap,        \* lines between the upstream and the pump (128 and a pipe)
    OutCap,         \* results between the pump and the engine (128)
    SnapshotLen,    \* pieces of a replay at least (minContinuationSnapshotLen, 32 characters)
    MaxPieces       \* bound: the pieces the upstream writes

ASSUME BoundsAssumption ==
    /\ {MaxRounds, MaxPieces} \subseteq Nat
    /\ {MinChars, MaxSilent, MaxIdle, LineCap, SnapshotLen} \subseteq Nat \ {0}
    /\ OutCap \in Nat \ {0, 1}

VARIABLES
    body,       \* the response: "open", "continue" (a round is due) or "closed"
    round,      \* continuations so far
    status,     \* continueState.lastStatus and finished
    hadDone,    \* whether the round had its [DONE]
    replays,    \* whether the round may begin with a replay
    thinking,   \* thinkingEnabled
    written,    \* pieces the upstream wrote before it stopped the answer
    halted,     \* whether it wrote a line that stops it
    lines,      \* lines on their way to the pump
    collected,  \* what CollectStream has made of them
    type,       \* currentType
    tbuf,       \* textBuffer
    hbuf,       \* thinkingBuffer
    dbuf,       \* whether toolDetectionThinkingBuffer holds anything
    pump,       \* whether the pump "runs" or has "closed" its channel
    out,        \* results on their way to the engine
    seen,       \* pieces handed to OnParsed
    reason,     \* why the engine finalized, or "open"
    idle,       \* ticks since the last content
    ctx         \* whether the context of the request is done

source == <<body, round, status, hadDone, replays, thinking, written, halted>>
queue == <<lines, type, collected>>
buffers == <<tbuf, hbuf, dbuf>>
engine == <<seen, reason, idle>>
vars == <<source, queue, buffers, pump, out, engine, ctx>>

Contents == {"text", "newline", "think"}
Reasons == {"upstream_completed", "handler_requested", "no_content_timeout",
            "idle_timeout", "context_cancelled"}
Pieces == Contents \X (1 .. MaxPieces)

TypeOK ==
    /\ body \in {"open", "continue", "closed"} /\ round \in 0 .. MaxRounds
    /\ status \in {"", "incomplete", "finished"}
    /\ {hadDone, halted, ctx, thinking, replays, dbuf} \subseteq BOOLEAN
    /\ type \in {"text", "thinking"}
    /\ written \in Seq(Pieces) /\ Range(collected) \subseteq Range(written)
    /\ Range(tbuf \o hbuf) \subseteq Range(written)
    /\ Len(lines) <= LineCap
    /\ Len(out) <= OutCap /\ \A i \in DOMAIN out : out[i].stop => out[i].pieces = <<>>
    /\ pump \in {"runs", "closed"} /\ reason \in Reasons \cup {"open"}
    /\ idle \in 0 .. MaxIdle + MaxSilent

Init ==
    /\ body = "open" /\ round = 0 /\ status = "" /\ hadDone = FALSE /\ replays = FALSE
    /\ thinking \in BOOLEAN /\ type = IF thinking THEN "thinking" ELSE "text"
    /\ written = <<>> /\ halted = FALSE
    /\ lines = <<>> /\ collected = <<>> /\ tbuf = <<>> /\ hbuf = <<>> /\ dbuf = FALSE
    /\ pump = "runs" /\ out = <<>>
    /\ seen = <<>> /\ reason = "open" /\ idle = 0
    /\ ctx = FALSE

-----------------------------------------------------------------------------
(* What a reader makes of its parts *)

\* The pieces of a part, by the type it has.
PiecesOf(part) ==
    [i \in DOMAIN part.text |->
        <<IF part.type = "thinking" THEN "think" ELSE IF part.text[i][2] THEN "newline" ELSE "text",
          part.text[i][1]>>]

IsText(p) == p[1] # "think"
IsThought(p) == p[1] = "think"

\* TrimContinuationOverlap: a replay that says more loses what is known, one
\* that says less is dropped.
Trim(existing, incoming) ==
    CASE Len(incoming) < SnapshotLen -> incoming
      [] Len(incoming) >= SnapshotLen /\ IsStrictPrefix(existing, incoming) ->
             SubSeq(incoming, Len(existing) + 1, Len(incoming))
      [] Len(incoming) >= SnapshotLen /\ IsStrictPrefix(incoming, existing) -> <<>>
      [] OTHER -> incoming

\* StreamAccumulator.Apply: what is new in ps.
Unheard(heard, ps) ==
    Trim(SelectSeq(heard, IsThought), SelectSeq(ps, IsThought))
        \o Trim(SelectSeq(heard, IsText), SelectSeq(ps, IsText))

\* CollectStream, with one line.
Collect(heard, parts) ==
    FoldLeft(LAMBDA h, part : h \o Unheard(h, PiecesOf(part)), heard, parts)

-----------------------------------------------------------------------------
(* pumpAutoContinue *)

Token(k, n) == <<n, k = "newline">>
Fragment(k, n) == [type |-> IF k = "think" THEN "THINK" ELSE "RESPONSE", text |-> <<Token(k, n)>>]

\* The lines that carry piece n in a new fragment, to where the last piece
\* went, and to one of two texts.
Opening(k, n) ==
    LET fragments == <<Fragment(k, n)>>
    IN  {Patch("", [object |-> fragments]),
         Patch("response/fragments", [fragments |-> fragments]),
         Patch("response", [batch |-> <<Patch("fragments", [fragments |-> fragments])>>])}
More(k, n) == {Patch(path, [text |-> <<Token(k, n)>>]) : path \in {"", "response/fragments/-1/content"}}
Named(path, k, n) == {Patch(path, [text |-> <<Token(k, n)>>])}

\* Lines that carry n as thinking and n + 1 as text.
Ended(n) == <<Token("think", n), ThinkEnd, Token("text", n + 1)>>
Both(n) == {Patch("response/fragments", [fragments |-> <<Fragment("think", n), Fragment("text", n + 1)>>]),
            Patch("", [object |-> <<[type |-> "THINK", text |-> Ended(n)]>>])}
Ending(n) == {Patch("", [text |-> Ended(n)])}

\* The fragments of a replay: what was written, with piece n at the end of the
\* last fragment.
Replay(k, n) ==
    LET said(Is(_)) == LET ps == SelectSeq(Append(written, <<k, n>>), Is)
                       IN  [i \in DOMAIN ps |-> Token(ps[i][1], ps[i][2])]
        fragment(as, Is(_)) == IF said(Is) = <<>> THEN <<>> ELSE <<[type |-> as, text |-> said(Is)]>>
    IN  {Patch("", [object |-> fragment("THINK", IsThought) \o fragment("RESPONSE", IsText)])}

\* A round that replays goes on with the fragment the last round was cut off
\* in, the only one that its reader has; a replay that leaves another one as
\* long as it was is not trimmed.  Opening a round takes longer than the timer
\* of a pump that has room to send.
MayReplay(k) ==
    /\ replays /\ lines = <<>> /\ tbuf = <<>> /\ hbuf = <<>>
    /\ IF thinking THEN \A p \in ToSet(written) : IsText(p) = (k # "think")
       ELSE k # "think"

\* The lines with a status.
Status(s) == {Patch("response/status", [status |-> s]),
              Patch("response", [batch |-> <<Patch("status", [status |-> s])>>])}

\* Where the last piece went.
Open == IF written = <<>> THEN "" ELSE IF Last(written)[1] = "think" THEN "think" ELSE "text"

\* The lines that may carry piece n.  What is still sent as thinking once the
\* text has begun is text for a client that sees both.
Carrying(k, n) ==
    LET late == Open = "text" /\ thinking
        side == IF k = "think" THEN "think" ELSE "text"
    IN  Opening(k, n)
        \cup (IF Open = side THEN More(k, n) ELSE {})
        \cup (IF side = "text" THEN Named("response/content", k, n) ELSE {})
        \cup (IF late = (side = "text") THEN Named("response/thinking_content", k, n) ELSE {})
        \cup (IF MayReplay(k) THEN Replay(k, n) ELSE {})
CarryingBoth(n) == IF Open = "think" THEN Both(n) \cup Ending(n) ELSE Both(n)

\* A line goes into the queue as what ParseDeepSeekContentLine makes of it when
\* its turn comes, which is for the lines before it to say.
Queue(line) ==
    LET r == ParseLine(line, thinking, type)
    IN  /\ lines' = Append(lines, [stop |-> r.stop, parts |-> r.parts, thought |-> r.thought])
        /\ type' = r.type
        /\ collected' = Collect(collected, r.parts)

\* streamBodyWithContinueState copies a line and observes its status.  A
\* handler that has returned has closed the pipe, and no line is read for a
\* context that is done.  Nothing but a [DONE] follows a line that stops the
\* answer, and nothing follows that.
Copy ==
    /\ body = "open" /\ Len(lines) < LineCap /\ reason = "open" /\ ~ctx
    /\ ~halted /\ ~hadDone
    /\ LET n == Len(written) + 1
           Writes(ls, pieces) == /\ Len(written) + Len(pieces) <= MaxPieces
                                 /\ \E l \in ls : Queue(l)
                                 /\ written' = written \o pieces
                                 /\ replays' = (replays /\ pieces = <<>>)
       IN  \/ \E k \in Contents : Writes(Carrying(k, n), <<<<k, n>>>>) /\ UNCHANGED <<status, halted>>
           \/ /\ Writes(CarryingBoth(n), <<<<"think", n>>, <<"text", n + 1>>>>)
              /\ UNCHANGED <<status, halted>>
           \/ /\ Writes(Status("INCOMPLETE"), <<>>)
              /\ status' = "incomplete" /\ UNCHANGED halted
           \/ /\ Writes(Status("FINISHED") \cup Status("CONTENT_FILTER"), <<>>)
              /\ status' = "finished" /\ halted' = TRUE
           \/ /\ Writes({Mark("error")}, <<>>)
              /\ halted' = TRUE /\ UNCHANGED status
           \/ Writes({Mark("noise")}, <<>>) /\ UNCHANGED <<status, halted>>
    /\ UNCHANGED <<body, round, hadDone, thinking, buffers, pump, out, engine, ctx>>

\* The [DONE] of a round is not copied.
Swallow ==
    /\ body = "open" /\ ~hadDone
    /\ hadDone' = TRUE
    /\ UNCHANGED <<body, round, status, replays, thinking, written, halted, queue, buffers, pump, out, engine, ctx>>

shouldContinue == status = "incomplete" /\ round < MaxRounds

\* The round ends.  The last one passes its [DONE] on.
RoundEnds ==
    /\ body = "open"
    /\ IF shouldContinue THEN body' = "continue" /\ UNCHANGED lines
       ELSE /\ body' = "closed"
            /\ IF hadDone /\ reason = "open"
               THEN Len(lines) < LineCap /\ lines' = Append(lines, [stop |-> TRUE, parts |-> <<>>, thought |-> FALSE])
               ELSE UNCHANGED lines
    /\ halted' = (halted \/ (~shouldContinue /\ hadDone))
    /\ UNCHANGED <<round, status, hadDone, replays, type, collected, thinking, written, buffers, pump, out, engine, ctx>>

\* openContinue and prepareForNextRound.
NextRound ==
    /\ body = "continue" /\ body' = "open"
    /\ round' = round + 1 /\ status' = "" /\ hadDone' = FALSE /\ replays' = TRUE
    /\ UNCHANGED <<thinking, written, halted, queue, buffers, pump, out, engine, ctx>>

\* The read breaks, the continuation fails, nobody reads, the context ends.
SourceBreaks ==
    /\ body # "closed" /\ body' = "closed"
    /\ UNCHANGED <<round, status, hadDone, replays, thinking, written, halted, queue, buffers, pump, out, engine, ctx>>

-----------------------------------------------------------------------------
(* The line pump *)

\* What the pump holds; thinking is held twice, to be shown and to look for calls
\* of tools in it, with thinking off for the latter alone.
Held == [tbuf |-> tbuf, hbuf |-> hbuf, dbuf |-> dbuf, sent |-> <<>>]
Holds(b) == tbuf' = b.tbuf /\ hbuf' = b.hbuf /\ dbuf' = b.dbuf

\* A flush sends one result, with nothing to show if only the latter is held.
Chunk(b) == IF b.hbuf = <<>> /\ b.tbuf = <<>> /\ ~b.dbuf THEN <<>>
            ELSE <<[stop |-> FALSE, pieces |-> b.hbuf \o b.tbuf]>>
Flush(b) == [tbuf |-> <<>>, hbuf |-> <<>>, dbuf |-> FALSE, sent |-> b.sent \o Chunk(b)]
StopResult == <<[stop |-> TRUE, pieces |-> <<>>]>>

\* Slip: the pump waits for room for good.
SendsForGood(results) == Len(out) + Len(results) <= OutCap /\ out' = out \o results

\* What the pump sends, once there is room for it.  A context that is done
\* lets it give up.
Sends(results) ==
    \/ Len(out) + Len(results) <= OutCap /\ out' = out \o results
    \/ ctx /\ UNCHANGED out

\* Thinking after text sends the text first, with all that looks for calls.
Think(b, ps) == [(IF b.tbuf = <<>> THEN b ELSE Flush(b)) EXCEPT !.hbuf = @ \o ps]

\* Text is gathered until there is a newline or, after the line, enough of it.
GatherText(b, ps) ==
    LET more == [b EXCEPT !.tbuf = @ \o ps]
    IN  IF \E i \in DOMAIN ps : ps[i][1] = "newline" THEN Flush(more) ELSE more

Gather(line) ==
    LET take(b, part) == IF part.type = "thinking" THEN Think(b, PiecesOf(part))
                                                   ELSE GatherText(b, PiecesOf(part))
        held == [Held EXCEPT !.dbuf = @ \/ line.thought]
    IN  \E all \in {FoldLeft(take, held, line.parts)} :
        \E end \in {IF Len(all.tbuf) >= MinChars THEN Flush(all) ELSE all} :
            /\ Holds(end)
            /\ IF end.sent = <<>> THEN UNCHANGED out ELSE Sends(end.sent)

\* Slip: a stop overtakes what was gathered.
HaltAtOnce ==
    /\ Sends(StopResult)
    /\ UNCHANGED buffers

\* processLine for a line that stops: what waits goes first.  Thinking that has
\* pushed a text out waits alone, and stays where it is.
Halt ==
    IF tbuf # <<>> \/ dbuf THEN Holds(Flush(Held)) /\ Sends(Flush(Held).sent \o StopResult)
    ELSE Sends(StopResult) /\ UNCHANGED buffers

\* processLine
Process ==
    /\ pump = "runs" /\ lines # <<>>
    /\ lines' = Tail(lines)
    /\ IF Head(lines).stop THEN Halt ELSE Gather(Head(lines))
    /\ UNCHANGED <<source, type, collected, pump, engine, ctx>>

\* maxWaitTimer, which runs while something is held.
TimerFlush ==
    /\ pump = "runs" /\ Chunk(Held) # <<>>
    /\ Sends(Chunk(Held))
    /\ Holds(Flush(Held))
    /\ UNCHANGED <<source, queue, pump, engine, ctx>>

\* The lines are over, or the context is done: what is held is sent.
PumpEnds ==
    /\ pump = "runs"
    /\ ctx \/ (body = "closed" /\ lines = <<>>)
    /\ pump' = "closed"
    /\ Holds(Flush(Held))
    /\ Sends(Chunk(Held))
    /\ UNCHANGED <<source, queue, engine, ctx>>

-----------------------------------------------------------------------------
(* ConsumeSSE *)

Consuming == reason = "open" /\ ~ctx

\* A result: the handler stops, or it has seen content.
Parsed ==
    /\ Consuming /\ out # <<>>
    /\ out' = Tail(out)
    /\ LET new == Unheard(seen, Head(out).pieces)
       IN  /\ seen' = seen \o new
           /\ IF Head(out).stop THEN reason' = "handler_requested" /\ UNCHANGED idle
              ELSE idle' = (IF new = <<>> THEN idle ELSE 0) /\ UNCHANGED reason
    /\ UNCHANGED <<source, queue, buffers, pump, ctx>>

\* The channel is closed and empty.
UpstreamCompleted ==
    /\ Consuming /\ out = <<>> /\ pump = "closed"
    /\ reason' = "upstream_completed"
    /\ UNCHANGED <<source, queue, buffers, pump, out, seen, idle, ctx>>

\* Slip: a stream that had content is not timed.
TickSilentOnly ==
    /\ Consuming /\ seen = <<>>
    /\ idle' = idle + 1
    /\ reason' = IF idle + 1 >= MaxSilent THEN "no_content_timeout" ELSE "open"
    /\ UNCHANGED <<source, queue, buffers, pump, out, seen, ctx>>

\* A tick of the keep-alive clock.
Tick ==
    /\ Consuming
    /\ idle' = idle + 1
    /\ reason' = IF seen = <<>> THEN IF idle + 1 >= MaxSilent THEN "no_content_timeout" ELSE "open"
                 ELSE IF idle >= MaxIdle THEN "idle_timeout" ELSE "open"
    /\ UNCHANGED <<source, queue, buffers, pump, out, seen, ctx>>

\* The engine looks at the context before and after everything it waits for.
ContextDone ==
    /\ reason = "open" /\ ctx
    /\ reason' = "context_cancelled"
    /\ UNCHANGED <<source, queue, buffers, pump, out, seen, idle, ctx>>

\* The client leaves, or the handler has returned.
Cancel ==
    /\ ~ctx /\ ctx' = TRUE
    /\ UNCHANGED <<source, queue, buffers, pump, out, engine>>

Source == Copy \/ Swallow \/ RoundEnds \/ NextRound \/ SourceBreaks
Pump == Process \/ TimerFlush \/ PumpEnds
Engine == Parsed \/ UpstreamCompleted \/ ContextDone
Next == Source \/ Pump \/ Engine \/ Tick \/ Cancel

\* The clock ticks, the engine and the pump do what they can, a source that
\* nobody reads or whose context is done ends, and so does the request once
\* the handler has returned.  The upstream may stay silent for ever.
Fairness ==
    /\ WF_vars(Engine) /\ WF_vars(Pump)
    /\ WF_vars(Tick)
    /\ WF_vars((reason # "open" \/ ctx) /\ SourceBreaks)
    /\ WF_vars(reason # "open" /\ Cancel)

Spec == Init /\ [][Next]_vars /\ Fairness

-----------------------------------------------------------------------------
(* Properties *)

\* What a client is due: with thinking off, the text alone.
Due == IF thinking THEN written ELSE SelectSeq(written, IsText)

\* The handler is told that the upstream completed when nothing of the answer is
\* left with the source, the pump or their channels.  The pump closes its channel
\* for a context that is done, too, with lines unread; the engine, which finds it
\* closed, looks at the context again and takes no such stream for a whole one
\* (engine.go:112, stream.go:66, 349).
Drained ==
    reason = "upstream_completed" =>
        /\ body = "closed" /\ pump = "closed"
        /\ <<lines, hbuf, tbuf, dbuf, out>> = <<<<>>, <<>>, <<>>, FALSE, <<>>>>

\* Thinking that came after a text that waited, and pushed it out: the flush has
\* emptied the buffer that a stop looks at (stream.go:203, 260).
LeftBehind ==
    /\ seen # <<>> /\ IsText(Last(seen))
    /\ \E p \in ToSet(Due) : IsThought(p) /\ Due = Append(seen, p)

\* The handler sees what the upstream wrote, thinking as thinking and text as
\* text however the lines put it, in its order over all the rounds of the
\* answer.  It has all of it when the stream simply ends and when the upstream
\* stops it, but for one line of thinking right after a text that waited when the
\* stop comes next (sse/stream.go:198, 349; parser.go:209).  A replay is heard
\* once (dedupe.go:10), and what is collected is what would be streamed.
\* (And every variable keeps its type, the channels their lengths.)
Delivered ==
    /\ TypeOK
    /\ collected = Due
    /\ IsPrefix(seen, Due)
    /\ Drained
    /\ reason = "upstream_completed" => seen = Due
    /\ reason = "handler_requested" => seen = Due \/ LeftBehind

\* Every goroutine ends: the source, the pump and the engine (stream.go:62).
AllEnd == <>[](body = "closed" /\ pump = "closed" /\ reason # "open")

\* For the handler the stream is an answer that ends once, whatever the
\* upstream, the client and the clock do (engine.go:84).
Answer == INSTANCE ClientStream WITH shown <- seen, end <- reason, Ends <- Reasons
AnswerSpec == Answer!Spec
=============================================================================
