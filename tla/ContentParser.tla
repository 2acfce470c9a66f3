----------------------------- MODULE ContentParser -----------------------------
(***************************************************************************)
(* sse/parser.go and sse/line.go: what a line of the upstream adds to the  *)
(* thinking and to the text of an answer.                                  *)
(*                                                                         *)
(* A line is a patch of a document, [path, value], or a mark: "done" and   *)
(* "error" for lines that stop the answer, "noise" for one that is no line *)
(* of data, has no value or a path to skip.  The value of a patch is       *)
(*   [text |-> t]         a string,                                        *)
(*   [status |-> s]       the status of the answer,                        *)
(*   [fragments |-> f]    a list of fragments [type, text] to append,      *)
(*   [object |-> f]       an object with such a list, or                   *)
(*   [batch |-> patches]  a list of patches.                               *)
(* A patch may leave its path out: it goes where the last one went, and    *)
(* the type of the last part is all that the program remembers of that.    *)
(* A text is a sequence of tokens, one of which ends a thinking.           *)
(***************************************************************************)
EXTENDS Naturals, SequencesExt

Mark(m) == [mark |-> m]
Patch(path, value) == [path |-> path, value |-> value]
Has(record, field) == field \in DOMAIN record

\* The token of "</think>".
ThinkEnd == <<0, FALSE>>

\* appendContentPart
Part(text, type) == IF text = <<>> THEN <<>> ELSE <<[text |-> text, type |-> type]>>

-----------------------------------------------------------------------------
(* The type of a part *)

\* updateTypeFromExplicitPath.  With thinking on, nothing is thought once the
\* text has begun.
TypeOfPath(path, thinking, type) ==
    CASE path = "response/content" -> "text"
      [] path = "response/thinking_content" /\ (~thinking \/ type # "text") -> "thinking"
      [] OTHER -> type

\* parseFragmentTypeContent, with the type of a fragment that names none.
TypeOfFragment(f, type) ==
    CASE f.type \in {"THINK", "THINKING"} -> "thinking"
      [] f.type = "RESPONSE" -> "text"
      [] OTHER -> type

PartsOf(fragments, type) ==
    FlattenSeq([i \in DOMAIN fragments |-> Part(fragments[i].text, TypeOfFragment(fragments[i], type))])

\* The type that the last of these fragments to name one leaves behind.
TypeAfter(fragments, type) ==
    LET named == SelectSeq(fragments, LAMBDA f : TypeOfFragment(f, "") # "")
    IN  IF named = <<>> THEN type ELSE TypeOfFragment(Last(named), type)

\* updateTypeFromNestedResponse
TypeAfterBatch(batch, type) ==
    LET lists == SelectSeq(batch, LAMBDA p : p.path = "fragments")
    IN  TypeAfter(FlattenSeq([i \in DOMAIN lists |-> lists[i].value.fragments]), type)

\* resolvePartType
PartType(path, thinking, type) ==
    CASE path = "response/thinking_content" -> IF thinking THEN type ELSE "thinking"
      [] path \in {"", "response/fragments/-1/content"} -> type
      [] OTHER -> "text"

-----------------------------------------------------------------------------
(* The value of a patch *)

\* The status of the answer, alone or in a batch.
SaysStatus(p, s) ==
    \/ p.value = [status |-> s]
    \/ Has(p.value, "batch") /\ \E q \in ToSet(p.value.batch) : q.value = [status |-> s]

\* hasContentFilterStatus
Filtered(p) == SaysStatus(p, "CONTENT_FILTER")

\* Whatever else is in such a batch is lost.
Finishes(p) == SaysStatus(p, "FINISHED")

\* extractContentRecursive, for the patches of a batch.
BatchParts(batch, type) ==
    FlattenSeq([i \in DOMAIN batch |->
        LET p == batch[i]
            own == CASE p.path = "thinking_content" -> "thinking"
                     [] p.path \in {"content", "fragments"} -> "text"
                     [] OTHER -> type
        IN  CASE Has(p.value, "fragments") -> PartsOf(p.value.fragments, own)
              [] Has(p.value, "text") -> Part(p.value.text, own)
              [] OTHER -> <<>>])

\* collectDirectFragments and appendChunkValueContent.
ValueParts(value, type) ==
    CASE Has(value, "text") -> Part(value.text, type)
      [] Has(value, "fragments") -> PartsOf(value.fragments, "text")
      [] Has(value, "object") -> PartsOf(value.object, type)
      [] Has(value, "batch") -> BatchParts(value.batch, type)
      [] OTHER -> <<>>

\* stripThinkTags
Strip(text) == SelectSeq(text, LAMBDA t : t # ThinkEnd)

\* splitThinkingParts: what follows the end of a thinking is text, in the same
\* part and in the thinking parts after it.
Split(parts) ==
    LET cut(p) == SelectInSeq(p.text, LAMBDA t : t = ThinkEnd)
        step(s, p) ==
            IF p.type = "text" \/ s.over
            THEN [s EXCEPT !.parts = @ \o Part(Strip(p.text), "text")]
            ELSE IF cut(p) = 0 THEN [s EXCEPT !.parts = Append(@, p)]
            ELSE [over |-> TRUE,
                  parts |-> s.parts \o Part(SubSeq(p.text, 1, cut(p) - 1), "thinking")
                                    \o Part(Strip(SubSeq(p.text, cut(p) + 1, Len(p.text))), "text")]
    IN  FoldLeft(step, [over |-> FALSE, parts |-> <<>>], parts)

\* dropThinkingParts
Shown(parts, thinking) == IF thinking THEN parts ELSE SelectSeq(parts, LAMBDA p : p.type = "text")

-----------------------------------------------------------------------------
(* A line *)

\* "thought" says whether there is thinking in it, shown or not
\* (selectThinkingParts): it is searched for calls of tools.
Result(stop, parts, type, thought) ==
    [stop |-> stop, parts |-> parts, type |-> type, thought |-> thought]

\* ParseSSEChunkForContentDetailed
Parse(p, thinking, type) ==
    LET before == TypeAfterBatch(IF p.path = "response" /\ Has(p.value, "batch") THEN p.value.batch ELSE <<>>,
                     TypeAfter(IF Has(p.value, "fragments") THEN p.value.fragments ELSE <<>>,
                        TypeOfPath(p.path, thinking, type)))
        split == Split(ValueParts(p.value, PartType(p.path, thinking, before)))
        thought == \E q \in ToSet(split.parts) : q.type = "thinking"
        after == IF Has(p.value, "object") THEN TypeAfter(p.value.object, before) ELSE before
    IN  IF Finishes(p) THEN Result(TRUE, <<>>, before, FALSE)
        ELSE Result(FALSE, Shown(split.parts, thinking), IF split.over THEN "text" ELSE after, thought)

\* ParseDeepSeekContentLine
ParseLine(line, thinking, type) ==
    CASE Has(line, "mark") -> Result(line.mark # "noise", <<>>, type, FALSE)
      [] ~Has(line, "mark") /\ Filtered(line) -> Result(TRUE, <<>>, type, FALSE)
      [] OTHER -> Parse(line, thinking, type)
=============================================================================
