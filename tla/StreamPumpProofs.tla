--------------------------- MODULE StreamPumpProofs ---------------------------
(***************************************************************************)
(* Theorems about the way of an answer from the upstream to its handler,   *)
(* for channels of any length, any limits and any upstream, whatever the   *)
(* parser makes of its lines.                                              *)
(***************************************************************************)
EXTENDS StreamPump, SequenceTheorems, TLAPS

\* A pump that has closed its channel holds nothing back, and has left lines
\* behind for a context that is done only.
PumpOver ==
    pump = "closed" => /\ hbuf = <<>> /\ tbuf = <<>> /\ dbuf = FALSE
                       /\ ctx \/ (body = "closed" /\ lines = <<>>)

\* A continuation is due while there is one left.
RoundsLeft ==
    /\ round \in 0 .. MaxRounds
    /\ body = "continue" => round < MaxRounds

\* An engine that still consumes has ticks left.
TicksLeft ==
    /\ idle \in 0 .. MaxIdle + MaxSilent
    /\ reason = "open" => idle < MaxIdle + MaxSilent

\* The channel of lines keeps its length.
LinesFit == \E Results : lines \in Seq(Results) /\ Len(lines) <= LineCap

Limits == RoundsLeft /\ TicksLeft /\ LinesFit

-----------------------------------------------------------------------------
(* The end of a stream *)

\* What no step of the pump, the engine or the source may break.
LEMMA DrainedStep ==
    ASSUME PumpOver, Drained, [Next]_vars
    PROVE  PumpOver' /\ Drained'
<1> USE DEF PumpOver, Drained
<1>1. CASE Copy
  BY <1>1 DEF Copy, buffers, engine
<1>2. CASE Swallow
  BY <1>2 DEF Swallow, queue, buffers, engine
<1>3. CASE RoundEnds
  BY <1>3 DEF RoundEnds, buffers, engine
<1>4. CASE NextRound
  BY <1>4 DEF NextRound, queue, buffers, engine
<1>5. CASE SourceBreaks
  BY <1>5 DEF SourceBreaks, queue, buffers, engine
<1>6. CASE Process
  BY <1>6 DEF Process, source, engine
<1>7. CASE TimerFlush
  BY <1>7 DEF TimerFlush, source, queue, engine
<1>8. CASE PumpEnds
  BY <1>8 DEF PumpEnds, Holds, Flush, source, queue, engine
<1>9. CASE Parsed
  BY <1>9 DEF Parsed, Consuming, source, queue, buffers
<1>10. CASE UpstreamCompleted
  BY <1>10 DEF UpstreamCompleted, Consuming, source, queue, buffers
<1>11. CASE ContextDone
  BY <1>11 DEF ContextDone, source, queue, buffers
<1>12. CASE Tick
  BY <1>12 DEF Tick, Consuming, source, queue, buffers
<1>13. CASE Cancel
  BY <1>13 DEF Cancel, source, queue, buffers, engine
<1>14. CASE UNCHANGED vars
  BY <1>14 DEF vars, source, queue, buffers, engine
<1> QED
  BY <1>1, <1>2, <1>3, <1>4, <1>5, <1>6, <1>7, <1>8, <1>9, <1>10, <1>11, <1>12, <1>13, <1>14
     DEF Next, Source, Pump, Engine

\* A stream that is told to be whole has left nothing on its way.
THEOREM WholeStreamsDrained == Spec => []Drained
<1>1. Init => PumpOver /\ Drained
  BY DEF Init, PumpOver, Drained
<1> QED
  BY <1>1, DrainedStep, PTL DEF Spec

-----------------------------------------------------------------------------
(* The limits *)

LEMMA LimitsTyped ==
    MaxRounds \in Nat /\ MaxSilent \in Nat \ {0} /\ MaxIdle \in Nat \ {0} /\ LineCap \in Nat
BY BoundsAssumption

\* A line more fits into a channel that was not full.
LEMMA OneMoreLine ==
    ASSUME NEW line, LinesFit, Len(lines) < LineCap, lines' = Append(lines, line)
    PROVE  LinesFit'
<1>1. PICK Results : lines \in Seq(Results)
  BY DEF LinesFit
<1> DEFINE Wider == Results \cup {line}
<1>2. lines \in Seq(Wider) /\ line \in Wider
  BY <1>1, SeqMonotonic
<1> HIDE DEF Wider
<1>3. lines' \in Seq(Wider) /\ Len(lines') = Len(lines) + 1 /\ Len(lines) \in Nat
  BY <1>2, AppendProperties, LenProperties
<1>4. PICK n \in Nat : n = Len(lines)
  BY <1>3
<1>5. n < LineCap /\ LineCap \in Nat
  BY <1>4, LimitsTyped
<1>6. Len(lines') <= LineCap
  BY <1>3, <1>4, <1>5
<1> QED
  BY <1>3, <1>6 DEF LinesFit
\* One less, too.
LEMMA OneLineLess ==
    ASSUME LinesFit, lines # <<>>, lines' = Tail(lines)
    PROVE  LinesFit'
<1>1. PICK Results : lines \in Seq(Results) /\ Len(lines) <= LineCap
  BY DEF LinesFit
<1>2. lines' \in Seq(Results) /\ Len(lines') = Len(lines) - 1 /\ Len(lines) \in Nat
  BY <1>1, HeadTailProperties, LenProperties
<1>3. PICK n \in Nat : n = Len(lines)
  BY <1>2
<1>4. n <= LineCap /\ LineCap \in Nat
  BY <1>1, <1>3, LimitsTyped
<1>5. Len(lines') <= LineCap
  BY <1>2, <1>3, <1>4
<1> QED
  BY <1>2, <1>5 DEF LinesFit

LEMMA InitLimits == Init => Limits
<1>1. Init => LinesFit
  <2>1. <<>> \in Seq({}) /\ Len(<<>>) = 0
    BY EmptySeq
  <2>2. 0 <= LineCap
    BY LimitsTyped
  <2> QED
    BY <2>1, <2>2 DEF Init, LinesFit
<1>2. Init => RoundsLeft
  <2>1. Init => round = 0 /\ body = "open"
    BY DEF Init
  <2>2. 0 \in 0 .. MaxRounds
    BY LimitsTyped
  <2> QED
    BY <2>1, <2>2 DEF RoundsLeft
<1>3. Init => TicksLeft
  <2>1. Init => idle = 0
    BY DEF Init
  <2>2. 0 \in 0 .. MaxIdle + MaxSilent /\ 0 < MaxIdle + MaxSilent
    BY LimitsTyped
  <2> QED
    BY <2>1, <2>2 DEF TicksLeft
<1> QED
  BY <1>1, <1>2, <1>3 DEF Limits

\* A round is asked for while there is one left; lines go where there is room;
\* and the engine gives up at its last tick.
LEMMA LimitsStep ==
    ASSUME Limits, [Next]_vars
    PROVE  Limits'
<1> USE DEF Limits
<1>1. ASSUME UNCHANGED lines PROVE LinesFit'
  BY <1>1 DEF LinesFit
<1>2. ASSUME UNCHANGED <<round, body>> PROVE RoundsLeft'
  BY <1>2 DEF RoundsLeft
<1>3. ASSUME UNCHANGED <<idle, reason>> PROVE TicksLeft'
  BY <1>3 DEF TicksLeft
<1>4. CASE Copy
  <2>1. \E line : Len(lines) < LineCap /\ lines' = Append(lines, line)
    BY <1>4 DEF Copy, Queue
  <2>2. LinesFit'
    BY <2>1, OneMoreLine
  <2> QED
    BY <1>2, <1>3, <1>4, <2>2 DEF Copy, engine
<1>5. CASE RoundEnds
  <2>1. LinesFit'
    BY <1>1, <1>5, OneMoreLine DEF RoundEnds
  <2>2. RoundsLeft'
    BY <1>5, LimitsTyped DEF RoundEnds, RoundsLeft, shouldContinue
  <2> QED
    BY <1>3, <1>5, <2>1, <2>2 DEF RoundEnds, engine
<1>6. CASE NextRound
  <2>1. round < MaxRounds /\ round' = round + 1 /\ body' = "open"
    BY <1>6 DEF NextRound, RoundsLeft
  <2>2. RoundsLeft'
    BY <2>1, LimitsTyped DEF RoundsLeft
  <2> QED
    BY <1>1, <1>3, <1>6, <2>2 DEF NextRound, queue, engine
<1>7. CASE SourceBreaks
  <2>1. RoundsLeft'
    BY <1>7 DEF SourceBreaks, RoundsLeft
  <2> QED
    BY <1>1, <1>3, <1>7, <2>1 DEF SourceBreaks, queue, engine
<1>8. CASE Process
  <2>1. LinesFit'
    BY <1>8, OneLineLess DEF Process
  <2> QED
    BY <1>2, <1>3, <1>8, <2>1 DEF Process, source, engine
<1>9. CASE Swallow \/ TimerFlush \/ PumpEnds \/ Cancel \/ UNCHANGED vars
  BY <1>1, <1>2, <1>3, <1>9
     DEF Swallow, TimerFlush, PumpEnds, Cancel, vars, source, queue, engine
<1>10. CASE Parsed
  <2>1. TicksLeft'
    <3>1. UNCHANGED idle \/ idle' = 0
      BY <1>10 DEF Parsed
    <3>2. reason = "open"
      BY <1>10 DEF Parsed, Consuming
    <3> QED
      BY <3>1, <3>2, LimitsTyped DEF TicksLeft
  <2> QED
    BY <1>1, <1>2, <1>10, <2>1 DEF Parsed, source, queue
<1>11. CASE UpstreamCompleted \/ ContextDone
  <2>1. TicksLeft'
    BY <1>11 DEF UpstreamCompleted, ContextDone, TicksLeft
  <2> QED
    BY <1>1, <1>2, <1>11, <2>1 DEF UpstreamCompleted, ContextDone, source, queue
<1>12. CASE Tick
  <2>1. TicksLeft'
    BY <1>12, LimitsTyped DEF Tick, Consuming, TicksLeft
  <2> QED
    BY <1>1, <1>2, <1>12, <2>1 DEF Tick, source, queue
<1> QED
  BY <1>4, <1>5, <1>6, <1>7, <1>8, <1>9, <1>10, <1>11, <1>12 DEF Next, Source, Pump, Engine

\* No more continuations are asked for than the limit, the channel of lines keeps
\* its length, and no stream outlives the silence that is allowed.
THEOREM StreamLimited == Spec => []Limits
  BY InitLimits, LimitsStep, PTL DEF Spec
=============================================================================
