------------------------------- MODULE ToolSieve -------------------------------
(***************************************************************************)
(* toolstream: the sieve that takes the tool calls out of a streamed       *)
(* answer, and toolcall: what the calls of a whole answer are.             *)
(*                                                                         *)
(* An answer is a sequence of tokens [kind, at].  A wrapper comes as the   *)
(* two halves of its opening tag ("tag" and "rest", which a chunk may      *)
(* separate), complete invokes and its closing tag.  A "fence" is a line   *)
(* that opens or closes a code block; everything else is "text".           *)
(***************************************************************************)
EXTENDS Naturals, SequencesExt, FiniteSetsExt

Kinds == {"text", "fence", "tag", "rest", "invoke", "close"}

From(q, k) == SubSeq(q, k, Len(q))
Upto(q, k) == SubSeq(q, 1, k)

\* The tokens of q at the positions P picks.
Keep(q, P(_)) ==
    LET places == SelectSeq([k \in 1 .. Len(q) |-> k], P)
    IN  [j \in 1 .. Len(places) |-> q[places[j]]]

At(q, kind) == {k \in 1 .. Len(q) : q[k].kind = kind}

-----------------------------------------------------------------------------
(* Tags, and the calls of a text *)

Opens(q) == {k \in At(q, "tag") : k < Len(q) /\ q[k + 1].kind = "rest"}
Closes(q) == At(q, "close")
Tags(q) == Opens(q) \cup At(q, "invoke") \cup Closes(q)

\* The closing tags that balance the wrapper opened at k: the first counts.
Balancing(q, k) ==
    {m \in Closes(q) : m > k /\
        Cardinality({o \in Opens(q) : k <= o /\ o < m}) = Cardinality({c \in Closes(q) : k < c /\ c <= m})}
CloseOf(q, k) == Min(Balancing(q, k))
Matched(q) == {k \in Opens(q) : Balancing(q, k) # {}}
InBlock(q, k, p) == k <= p /\ p <= CloseOf(q, k)

\* Whether a text that begins inside a code block, or not, ends inside one.
Inside(fence, q) == fence # (Cardinality(At(q, "fence")) % 2 = 1)

Unfenced(q) == Keep(q, LAMBDA p : q[p].kind # "fence" /\ ~Inside(FALSE, Upto(q, p)))

\* A text without any opening tag whose first invoke has a closing tag after it.
Bare(q) == Opens(q) = {} /\ At(q, "invoke") # {} /\ \E c \in Closes(q) : c > Min(At(q, "invoke"))
BareClose(q) == Min({c \in Closes(q) : c > Min(At(q, "invoke"))})

CallsUnfenced(u, matched) ==
    IF matched # {} THEN Keep(u, LAMBDA p : u[p].kind = "invoke" /\ \E k \in matched : InBlock(u, k, p))
    ELSE IF Bare(u) THEN Keep(u, LAMBDA p : u[p].kind = "invoke" /\ p < BareClose(u))
    ELSE <<>>
Calls(q) == LET in(u) == CallsUnfenced(u, Matched(u)) IN in(Unfenced(q))

\* stripLeakedToolCallWrapperBlocks: blocks go, and when an invoke or nothing follows
\* an opening tag without an end, all up to the next closing tag or to the end.
Clean(q) ==
    LET lost == {k \in Opens(q) \ Matched(q) : k + 1 = Len(q) \/ \E i \in At(q, "invoke") : i > k}
    IN  Keep(q, LAMBDA p : /\ \A k \in Matched(q) : ~InBlock(q, k, p)
                           /\ \A k \in lost : p < k \/ \E c \in Closes(q) : k < c /\ c < p)

-----------------------------------------------------------------------------
(* The sieve *)

NewSieve == [pending |-> <<>>, capture |-> <<>>, capturing |-> FALSE, fence |-> FALSE, calls |-> <<>>]

Ready(before, calls, after) == [ready |-> TRUE, before |-> before, calls |-> calls, after |-> after]
NotReady == [ready |-> FALSE]

Block(q, k) == SubSeq(q, k, CloseOf(q, k))
Take(q, k) == Ready(Upto(q, k - 1), Calls(Block(q, k)), From(q, CloseOf(q, k) + 1))
TakeBare(q, first) == Ready(Upto(q, first - 1), Calls(SubSeq(q, first, BareClose(q))), From(q, BareClose(q) + 1))

\* consumeToolCapture: the first block with calls, the first without any once
\* every block is closed, a block whose opening tag is missing, or no block.
ConsumeOf(q, opens, matched, good) ==
    CASE good # {} -> Take(q, Min(good))
      [] good = {} /\ opens # matched -> NotReady
      [] good = {} /\ opens = matched /\ opens # {} -> Take(q, Min(opens))
      [] good = {} /\ opens = {} /\ Bare(q) -> TakeBare(q, Min(At(q, "invoke")))
      [] OTHER -> IF At(q, "invoke") # {} /\ Min(At(q, "invoke")) = Len(q) THEN NotReady
                  ELSE Ready(q, <<>>, <<>>)
Consume(q) ==
    LET with(matched) == ConsumeOf(q, Opens(q), matched, {k \in matched : Calls(Block(q, k)) # <<>>})
    IN  with(Matched(q))

\* Slip: half of a tag at the end of a text is let through.
HoldNothing(fence, q) == 0

\* splitSafeContentForToolDetection: how much of a text without tags is held.
Held(fence, q) ==
    IF q # <<>> /\ Last(q).kind = "tag" /\ ~Inside(fence, Front(q)) THEN 1 ELSE 0

SaysText(q) == IF q = <<>> THEN <<>> ELSE <<[text |-> q, calls |-> <<>>]>>
SaysCalls(c) == IF c = <<>> THEN <<>> ELSE <<[text |-> <<>>, calls |-> c]>>

\* noteText
Noted(s, q) == [s EXCEPT !.fence = Inside(@, q)]

\* findToolSegmentStart: the tags of a text that may open a block.
Starts(fence, q) == {k \in Tags(q) : ~Inside(fence, Upto(q, k - 1))}

\* After a block, r: the calls of a block replace those of one before.
AfterBlock(s, r) ==
    Noted([s EXCEPT !.capturing = FALSE, !.capture = <<>>, !.pending = r.after,
                    !.calls = IF r.calls = <<>> THEN @ ELSE r.calls], r.before)

\* After the first n tokens of a text, which are safe to say.
AfterText(s, n) == [Noted(s, Upto(s.pending, n)) EXCEPT !.pending = From(@, n + 1)]

\* The loop of ProcessChunk.
RECURSIVE Sift(_, _)
Sift(s, events) ==
    LET captured(q, r) ==
            IF ~r.ready THEN [sieve |-> [s EXCEPT !.capture = q, !.pending = <<>>], events |-> events]
            ELSE Sift(AfterBlock(s, r), events \o SaysText(r.before))
        capture(n) ==
            Sift([AfterText(s, n) EXCEPT !.capture = From(s.pending, n + 1), !.pending = <<>>, !.capturing = TRUE],
                 events \o SaysText(Upto(s.pending, n)))
        text(n) == [sieve |-> AfterText(s, n), events |-> events \o SaysText(Upto(s.pending, n))]
        look(starts) == IF starts # {} THEN capture(Min(starts) - 1)
                        ELSE text(Len(s.pending) - Held(s.fence, s.pending))
    IN  IF s.capturing THEN captured(s.capture \o s.pending, Consume(s.capture \o s.pending))
        ELSE look(Starts(s.fence, s.pending))

ProcessChunk(s, chunk) ==
    Sift([s EXCEPT !.pending = @ \o chunk, !.calls = <<>>], SaysCalls(s.calls))

\* What is left at the end of an answer is text.
FlushAfter(r, rest) ==
    [sieve |-> Noted([NewSieve EXCEPT !.fence = r.sieve.fence], rest),
     events |-> r.events \o SaysCalls(r.sieve.calls) \o SaysText(rest)]
Flush(s) ==
    LET after(r) == FlushAfter(r, r.sieve.capture \o r.sieve.pending)
    IN  after(ProcessChunk(s, <<>>))

\* The text of a whole answer: all that is not in a block outside the code blocks.
Blocks(q) == {k \in Matched(q) : ~Inside(FALSE, Upto(q, k))}
TextOf(q) == Keep(q, LAMBDA p : \A k \in Blocks(q) : ~InBlock(q, k, p))

\* The tokens of its blocks without calls.
Emptied(q) == UNION {Range(Block(q, k)) : k \in {b \in Blocks(q) : Calls(Block(q, b)) = <<>>}}
=============================================================================
